--------------------------------- MODULE Maps ----------------------------------
(* Functions that are used as Python dicts, and the files of a directory. *)

\* dict[key] = value
Put(dict, key, value) ==
    [k \in DOMAIN dict \union {key} |-> IF k = key THEN value ELSE dict[k]]
================================================================================
