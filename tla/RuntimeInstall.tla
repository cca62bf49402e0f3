----------------------------- MODULE RuntimeInstall -----------------------------
(***************************************************************************)
(* `omnirt runtime install`: checkouts, a virtualenv, its packages and     *)
(* weights are made by commands that may fail, run into the time-out or be *)
(* killed with the installer, and what is there is taken over by the next  *)
(* install.  The state file, which the servers and `runtime env` read, is  *)
(* written last.                                                           *)
(***************************************************************************)
EXTENDS Naturals

CONSTANTS
    FollowedRuntimes, \* the manifests the instance installs
    Installs          \* how often the installer is started (bound)

\* patched: the Ascend patches are applied; fetched: what is downloaded beside the checkout.
Manifest(patched, fetched) == [patched |-> patched, fetched |-> fetched]

FlashTalkAscend == Manifest(TRUE, {"weights", "speech"})
FlashTalkCuda == Manifest(FALSE, {"weights", "speech"})
MuseTalkAny == Manifest(FALSE, {})
LongCatAny == Manifest(FALSE, {})

Manifests ==
    [flashtalk_ascend |-> FlashTalkAscend, flashtalk_cuda |-> FlashTalkCuda,
     musetalk |-> MuseTalkAny, longcat |-> LongCatAny]

ASSUME InstallAssumption == FollowedRuntimes \subseteq DOMAIN Manifests /\ Installs \in Nat

VARIABLES
    manifest,  \* the runtime
    wishes,    \* --no-update and --recreate-venv of the install that runs
    doing,     \* the step it is at, "idle" outside
    ending,    \* how the last install ended
    started,   \* installs so far
    tries,     \* attempts left for the packages
    pieces,    \* what is on the disk
    broken     \* pieces that a command has left unfinished or removed

installVars == <<manifest, wishes, doing, ending, started, tries, pieces, broken>>

\* "given" is a directory of the user without .git: it has the marker of the manifest or,
\* if that names none, any content.  "unusable" is one that has not.
Piece == {"checkout", "patch", "imports", "python", "packages", "weights", "speech", "record"}

InstallInit ==
    /\ manifest \in FollowedRuntimes
    /\ wishes = [update |-> TRUE, recreate |-> FALSE]
    /\ doing = "idle" /\ ending = "none" /\ started = 0 /\ tries = 0 /\ broken = {}
    /\ \E checkout, weights \in {"absent", "given", "unusable"}, speech \in {"absent", "given"} :
         /\ Manifests[manifest].fetched = {} => weights = "absent" /\ speech = "absent"
         /\ pieces = [p \in Piece |->
                CASE p = "checkout" -> checkout [] p = "weights" -> weights
                  [] p = "speech" -> speech [] OTHER -> "absent"]

Wants(p) == p \in Manifests[manifest].fetched

Goes(p) == doing' = p

\* A piece is made, and the install goes on.
Makes(p, next) ==
    /\ pieces' = [pieces EXCEPT ![p] = "whole"] /\ Goes(next)

\* Nothing has to be done.
Skips(next) == Goes(next) /\ UNCHANGED <<pieces, broken>>

\* The command fails, runs into its time-out or is killed with the installer.  It may
\* leave something behind.
Breaks(p, extents) ==
    /\ \E e \in extents :
         /\ pieces' = [pieces EXCEPT ![p] = e]
         /\ broken' = IF e = pieces[p] THEN broken ELSE broken \union {p}
    /\ Goes("idle") /\ ending' = "failed"

BeginInstall(update, recreate) ==
    /\ doing = "idle" /\ started < Installs
    /\ started' = started + 1 /\ wishes' = [update |-> update, recreate |-> recreate]
    /\ ending' = "none" /\ tries' = 3 /\ Goes("checkout")
    /\ UNCHANGED <<manifest, pieces, broken>>

\* A requirements file or python3 is missing, an exception, or the process is killed
\* between two commands.
Abort ==
    /\ doing # "idle" /\ Goes("idle") /\ ending' = "failed"
    /\ UNCHANGED <<manifest, wishes, started, tries, pieces, broken>>

----------------------------------------------------------------------------
\* _clone_or_update of the checkout and of the weights.

HasGit(p) == pieces[p] \in {"partial", "whole"}

AfterGit(p) ==
    IF p = "weights" THEN "speech" ELSE IF Manifests[manifest].patched THEN "patch" ELSE "venv"

Clone(p) ==
    /\ doing = p /\ pieces[p] = "absent"
    /\ \/ Makes(p, AfterGit(p)) /\ UNCHANGED <<ending, broken>>
       \/ Breaks(p, {"absent", "unusable", "partial"})
    /\ UNCHANGED <<manifest, wishes, started, tries>>

\* A failed fetch ends the install.  A pull may fail, leave the files half changed, or
\* complete what a clone has left; the install goes on.
Update(p) ==
    /\ doing = p /\ HasGit(p) /\ wishes.update
    /\ \/ Breaks(p, {pieces[p]})
       \/ /\ pieces' \in {[pieces EXCEPT ![p] = e] : e \in {"partial", "whole"}}
          /\ broken' = IF pieces'[p] = "partial" THEN broken \union {p} ELSE broken
          /\ Goes(AfterGit(p)) /\ UNCHANGED ending
    /\ UNCHANGED <<manifest, wishes, started, tries>>

\* No update is wished, or the directory was put there by the user.
KeepAsIs(p) ==
    /\ doing = p /\ ((HasGit(p) /\ ~wishes.update) \/ pieces[p] = "given")
    /\ Skips(AfterGit(p)) /\ UNCHANGED <<manifest, wishes, ending, started, tries>>

Unusable(p) ==
    /\ doing = p /\ pieces[p] = "unusable" /\ Breaks(p, {"unusable"})
    /\ UNCHANGED <<manifest, wishes, started, tries>>

----------------------------------------------------------------------------
(* The Ascend patches of SoulX-FlashTalk.                                  *)

\* It is skipped where there is no .git or it is applied.  One that is applied by half
\* fits neither way, and no install gets past it.
ApplyPatch ==
    /\ doing = "patch"
    /\ \/ ~HasGit("checkout") /\ Skips("imports") /\ UNCHANGED ending
       \/ pieces["patch"] = "whole" /\ Skips("imports") /\ UNCHANGED ending
       \/ /\ HasGit("checkout") /\ pieces["patch"] = "absent"
          /\ Makes("patch", "imports") /\ UNCHANGED <<ending, broken>>
       \/ HasGit("checkout") /\ pieces["patch"] = "absent" /\ Breaks("patch", {"absent", "partial"})
       \/ pieces["patch"] = "partial" /\ Breaks("patch", {"partial"})
    /\ UNCHANGED <<manifest, wishes, started, tries>>

\* The patch has changed the same line; a file the installer has written before, or has
\* begun to, is left alone.
PatchImports ==
    /\ doing = "imports"
    /\ \/ (pieces["patch"] = "whole" \/ pieces["imports"] # "absent") /\ Skips("venv") /\ UNCHANGED ending
       \/ /\ pieces["patch"] # "whole" /\ pieces["imports"] = "absent"
          /\ \/ Makes("imports", "venv") /\ UNCHANGED <<ending, broken>>
             \/ Breaks("imports", {"absent", "partial"})
    /\ UNCHANGED <<manifest, wishes, started, tries>>

----------------------------------------------------------------------------
(* The virtualenv.                                                         *)

\* rmtree, which may be stopped half way.
RemoveVenv ==
    /\ doing = "venv" /\ wishes.recreate /\ pieces["python"] # "absent"
    /\ \/ /\ pieces' = [pieces EXCEPT !["python"] = "absent", !["packages"] = "absent"]
          /\ Goes("python") /\ UNCHANGED ending
       \/ /\ \E e \in {"absent", "partial"} :
                 pieces' = [pieces EXCEPT !["python"] = e, !["packages"] = "partial"]
          /\ Goes("idle") /\ ending' = "failed"
    /\ broken' = broken \union {"python", "packages"}
    /\ UNCHANGED <<manifest, wishes, started, tries>>

KeepVenv ==
    /\ doing = "venv" /\ (wishes.recreate => pieces["python"] = "absent")
    /\ Skips("python") /\ UNCHANGED <<manifest, wishes, ending, started, tries>>

\* A virtualenv with a python is ready for use.
CreateVenv_Trusted ==
    /\ doing = "python"
    /\ \/ pieces["python"] # "absent" /\ Skips("weights") /\ UNCHANGED ending
       \/ pieces["python"] = "absent" /\ Makes("python", "pip") /\ UNCHANGED <<ending, broken>>
       \/ pieces["python"] = "absent" /\ Breaks("python", {"absent", "partial"})
    /\ UNCHANGED <<manifest, wishes, started, tries>>

\* A virtualenv whose python is there is taken as it is.
CreateVenv ==
    /\ doing = "python"
    /\ \/ pieces["python"] # "absent" /\ Skips("pip") /\ UNCHANGED ending
       \/ pieces["python"] = "absent" /\ Makes("python", "pip") /\ UNCHANGED <<ending, broken>>
       \/ pieces["python"] = "absent" /\ Breaks("python", {"absent", "partial"})
    /\ UNCHANGED <<manifest, wishes, started, tries>>

\* pip installs itself anew: it works only in a virtualenv that is whole.
BootstrapPip ==
    /\ doing = "pip"
    /\ \/ Makes("python", "packages") /\ broken' = broken \ {"python"} /\ UNCHANGED ending
       \/ Breaks("python", {pieces["python"]})
    /\ UNCHANGED <<manifest, wishes, started, tries>>

\* The commands of pip or uv, taken as one: each attempt that fails leaves what it has
\* installed.
InstallPackages ==
    /\ doing = "packages" /\ UNCHANGED <<manifest, wishes, started>>
    /\ \/ /\ Makes("packages", IF Wants("weights") THEN "weights" ELSE "record")
          /\ broken' = broken \ {"packages"} /\ UNCHANGED <<ending, tries>>
       \/ Breaks("packages", {"partial"}) /\ UNCHANGED tries
       \/ /\ tries > 1 /\ tries' = tries - 1
          /\ pieces' = [pieces EXCEPT !["packages"] = "partial"] /\ broken' = broken \union {"packages"}
          /\ UNCHANGED <<doing, ending>>

----------------------------------------------------------------------------
\* A directory with anything in it is taken for the speech model.
Download ==
    /\ doing = "speech"
    /\ \/ pieces["speech"] # "absent" /\ Skips("record") /\ UNCHANGED ending
       \/ pieces["speech"] = "absent" /\ Makes("speech", "record") /\ UNCHANGED <<ending, broken>>
       \/ pieces["speech"] = "absent" /\ Breaks("speech", {"absent", "partial"})
    /\ UNCHANGED <<manifest, wishes, started, tries>>

WriteState ==
    /\ doing = "record"
    /\ \/ Makes("record", "idle") /\ ending' = "done" /\ broken' = broken \ {"record"}
       \/ Breaks("record", {pieces["record"], "partial"})
    /\ UNCHANGED <<manifest, wishes, started, tries>>

InstallNext ==
    \/ \E update, recreate \in BOOLEAN : BeginInstall(update, recreate)
    \/ Abort
    \/ \E p \in {"checkout", "weights"} : Clone(p) \/ Update(p) \/ KeepAsIs(p) \/ Unusable(p)
    \/ ApplyPatch \/ PatchImports
    \/ RemoveVenv \/ KeepVenv \/ CreateVenv \/ BootstrapPip \/ InstallPackages
    \/ Download \/ WriteState

InstallSpec == InstallInit /\ [][InstallNext]_installVars

----------------------------------------------------------------------------
(* Properties.                                                             *)

Needed ==
    {"checkout", "python", "packages"} \union Manifests[manifest].fetched
    \union IF Manifests[manifest].patched /\ HasGit("checkout") THEN {"patch"} ELSE {}

\* What a state file names is there, except what a command has left unfinished; an
\* install that ends well has remade the virtualenv and its packages whatever earlier
\* ones have left, so that only downloads and checkouts may be incomplete.
InstallRecorded ==
    /\ pieces["record"] = "whole" =>
         \A p \in Needed : pieces[p] \in {"whole", "given"} \/ p \in broken
    /\ ending = "done" => pieces["python"] = "whole" /\ pieces["packages"] = "whole"
=================================================================================
