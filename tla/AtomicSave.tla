---------------------------- MODULE AtomicSave ----------------------------
(***************************************************************************)
(* What download_service_file promises whoever uses the destination, with  *)
(* no partial file, no stream and no crash in sight: the name goes to a    *)
(* finished file in one step, once per call; without the caller's approval *)
(* only if it was free; and success is said of nothing else.               *)
(* FileDownload.tla implements it.                                         *)
(***************************************************************************)
EXTENDS Naturals

CONSTANTS
  Calls,  \* calls that save to the destination
  Size,   \* pieces of the whole file
  Other   \* any other program

VARIABLES
  overwrite,  \* the calls' approvals to replace
  announced,  \* calls that know the size they expect
  target,     \* the destination
  saved,      \* calls that put their file there
  told        \* calls that answered success

vars == <<overwrite, announced, target, saved, told>>

Init ==
  /\ overwrite \in [Calls -> BOOLEAN]
  /\ announced \in [Calls -> BOOLEAN]
  /\ target.by = Other
  /\ saved = {}
  /\ told = {}

\* Without approval an exclusive create, with it a replacement of a file.
MayTake(c) ==
  IF overwrite[c] THEN target.kind # "directory" ELSE target.kind = "none"

Save(c) ==
  /\ c \notin saved
  /\ MayTake(c)
  /\ \E pieces \in 0..Size :
       /\ announced[c] => pieces = Size
       /\ target' = [kind |-> "file", by |-> c, pieces |-> pieces]
  /\ saved' = saved \cup {c}
  /\ told' \in {told, told \cup {c}}
  /\ UNCHANGED <<overwrite, announced>>

Tell(c) ==
  /\ c \in saved
  /\ told' = told \cup {c}
  /\ UNCHANGED <<overwrite, announced, target, saved>>

\* Other programs do what they like with the destination.
Interfere ==
  /\ target'.by = Other
  /\ UNCHANGED <<overwrite, announced, saved, told>>

Next == (\E c \in Calls : Save(c) \/ Tell(c)) \/ Interfere

Spec == Init /\ [][Next]_vars
=============================================================================
