--------------------------- MODULE MCAvatarSessions ----------------------------
(* Two clients of any of the endpoints, one after the other.               *)
EXTENDS AvatarSessions, TLC

CONSTANTS c1, c2, s1, s2, s3

===============================================================================
