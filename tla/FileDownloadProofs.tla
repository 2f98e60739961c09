------------------------ MODULE FileDownloadProofs ------------------------
(* What FileDownload promises, for any number of concurrent calls and any  *)
(* file size.                                                              *)
EXTENDS FileDownload, TLAPS

BeforeOpen == {"preflight", "minting", "fetching"}
Written == {"streaming", "publishing", "discarding"}

\* Where each call's partial file is, and whether its file is in place.
Progress ==
  \A c \in Calls :
    /\ pc[c] \in BeforeOpen \cup Written => c \notin saved \cup stuck
    /\ pc[c] \in BeforeOpen => partial[c] = Absent
    /\ pc[c] \in Written => partial[c] \in 0..Size
    /\ pc[c] = "publishing" /\ announced[c] => partial[c] = Size
    /\ pc[c] = "unlinking" => c \in saved
    /\ pc[c] = "cleaning" /\ c \in saved => c \in stuck

\* An answer is given when the call is done, and not taken back.
Answers == \A c \in Calls : pc[c] # "done" => result[c] = "none"

IndInv == TypeOK /\ Progress /\ Answers /\ NeverPartial /\ NothingLeftBehind

LEMMA InitInv == Init => IndInv
<1> SUFFICES ASSUME Init PROVE IndInv
  OBVIOUS
<1>1. TypeOK
  <2>1. signal \in [Calls -> BOOLEAN] /\ timer \in [Calls -> BOOLEAN]
    BY Zenon DEF Init
  <2>2. target \in [kind: {"none", "directory", "file"}, by: Calls \cup {Other}, pieces: 0..Size]
    BY SizeAssumption DEF Init, NoFile, Directory, File
  <2> QED BY <2>1, <2>2, SizeAssumption
          DEF Init, TypeOK, Waits, Guarded, Transfer, Errors, Results, Absent
<1>2. Progress /\ Answers
  BY DEF Init, Progress, BeforeOpen, Written, Answers
<1>3. NeverPartial
  BY OtherAssumption DEF Init, NeverPartial, NoFile, Directory, File
<1>4. NothingLeftBehind
  BY DEF Init, NothingLeftBehind
<1> QED BY <1>1, <1>2, <1>3, <1>4 DEF IndInv

\* The answer to an exception is never success.
LEMMA VerdictFails ==
  ASSUME TypeOK, NEW c \in Calls
  PROVE  Verdict(c) \in Results /\ Verdict(c) # "success"
BY DEF TypeOK, Verdict, Errors, Results

LEMMA StepInv == IndInv /\ [Next]_vars => IndInv'
<1> SUFFICES ASSUME IndInv, [Next]_vars PROVE IndInv'
  OBVIOUS
<1> USE SizeAssumption, OtherAssumption
<1> USE DEF IndInv, TypeOK, Progress, Answers, NeverPartial, NothingLeftBehind, BeforeOpen, Written,
            Waits, Guarded, Transfer, Errors, Results, Absent, GoOn, Finish, Throw, argVars, fileVars
<1>1. ASSUME NEW c \in Calls, Preflight(c) PROVE IndInv'
  BY <1>1 DEF Preflight
<1>2. ASSUME NEW c \in Calls, Mint(c) PROVE IndInv'
  BY <1>2 DEF Mint
<1>3. ASSUME NEW c \in Calls, FetchRefused(c) PROVE IndInv'
  BY <1>3 DEF FetchRefused
<1>4. ASSUME NEW c \in Calls, Fetched(c) PROVE IndInv'
  BY <1>4 DEF Fetched
<1>5. ASSUME NEW c \in Calls, ReadPiece(c) PROVE IndInv'
  BY <1>5 DEF ReadPiece
<1>6. ASSUME NEW c \in Calls, StreamEnds(c) PROVE IndInv'
  BY <1>6 DEF StreamEnds, Short, Aborted
<1>7. ASSUME NEW c \in Calls, Break(c) PROVE IndInv'
  BY <1>7 DEF Break, MayBreak
<1>8. ASSUME NEW c \in Calls, Discard(c) PROVE IndInv'
  BY <1>8 DEF Discard
<1>9. ASSUME NEW c \in Calls, Rename(c) PROVE IndInv'
  BY <1>9 DEF Rename, File
<1>10. ASSUME NEW c \in Calls, Link(c) PROVE IndInv'
  BY <1>10 DEF Link, LinkCreates, File
<1>11. ASSUME NEW c \in Calls, LinkExists(c) PROVE IndInv'
  BY <1>11 DEF LinkExists
<1>12. ASSUME NEW c \in Calls, PublishFails(c) PROVE IndInv'
  BY <1>12 DEF PublishFails
<1>13. ASSUME NEW c \in Calls, Unlink(c) PROVE IndInv'
  BY <1>13 DEF Unlink, Unlinked
<1>14. ASSUME NEW c \in Calls, UnlinkFails(c) PROVE IndInv'
  BY <1>14 DEF UnlinkFails
<1>15. ASSUME NEW c \in Calls, CleanUp(c) PROVE IndInv'
  BY <1>15, VerdictFails DEF CleanUp
<1>16. ASSUME NEW c \in Calls, Cancel(c) PROVE IndInv'
  BY <1>16 DEF Cancel
<1>17. ASSUME NEW c \in Calls, TimerFires(c) PROVE IndInv'
  BY <1>17 DEF TimerFires
<1>18. CASE OtherProgram
  BY <1>18 DEF OtherProgram, NoFile, File
<1>19. CASE Crash
  BY <1>19 DEF Crash
<1>20. CASE UNCHANGED vars
  BY <1>20 DEF vars
<1> QED BY <1>1, <1>2, <1>3, <1>4, <1>5, <1>6, <1>7, <1>8, <1>9, <1>10, <1>11, <1>12, <1>13, <1>14, <1>15, <1>16, <1>17, <1>18, <1>19, <1>20 DEF Next, Step, Environment

LEMMA Invariance == Spec => []IndInv
BY InitInv, StepInv, PTL DEF Spec

\* The type invariant of concurrent downloads.
THEOREM TypeCorrect == Spec => []TypeOK
<1>1. IndInv => TypeOK
  BY DEF IndInv
<1> QED BY <1>1, Invariance, PTL

\* The destination never shows a part of a file of announced size.
THEOREM WholeFiles == Spec => []NeverPartial
<1>1. IndInv => NeverPartial
  BY DEF IndInv
<1> QED BY <1>1, Invariance, PTL

\* A call leaves no partial file it could remove, and answers truly.
THEOREM CleanEnds == Spec => []NothingLeftBehind
<1>1. IndInv => NothingLeftBehind
  BY DEF IndInv
<1> QED BY <1>1, Invariance, PTL

-----------------------------------------------------------------------------
(* The refinement.                                                         *)

\* Only Rename and Link touch the destination on a call's behalf, and only
\* Rename and Unlink end with success: every other step is a stutter.
LEMMA QuietSteps ==
  ASSUME IndInv, NEW c \in Calls, Step(c), ~Rename(c), ~Link(c), ~Unlink(c)
  PROVE  UNCHANGED <<overwrite, announced, target, saved, told>>
<1> USE DEF GoOn, Finish, Throw, argVars, fileVars
<1>1. UNCHANGED <<overwrite, announced, target, saved>>
  BY DEF Step, Preflight, Mint, FetchRefused, Fetched, ReadPiece, StreamEnds, Break, Discard,
         LinkExists, PublishFails, UnlinkFails, CleanUp
<1>2. pc[c] # "done" /\ result \in [Calls -> Results]
  BY DEF Step, Preflight, Mint, FetchRefused, Fetched, ReadPiece, StreamEnds, Break, MayBreak,
         Transfer, Discard, LinkExists, PublishFails, UnlinkFails, CleanUp, IndInv, TypeOK
<1>3. result' = result \/ \E kind \in Results \ {"success"} : Finish(c, kind)
  BY VerdictFails
  DEF Step, Preflight, Mint, FetchRefused, Fetched, ReadPiece, StreamEnds, Break, Discard,
      LinkExists, PublishFails, UnlinkFails, CleanUp, Results, IndInv
<1>4. result[c] # "success"
  BY <1>2 DEF IndInv, Answers
<1>5. told' = told
  BY <1>2, <1>3, <1>4 DEF told
<1> QED BY <1>1, <1>5

\* The step that takes the name is an abstract save.
LEMMA SaveStep ==
  ASSUME IndInv, NEW c \in Calls, Rename(c) \/ Link(c)
  PROVE  Abstract!Save(c)
<1> USE DEF GoOn, Finish, argVars, fileVars
<1>1. /\ pc[c] = "publishing" /\ c \notin saved /\ partial[c] \in 0..Size
      /\ announced[c] => partial[c] = Size
  BY DEF Rename, Link, IndInv, Progress, Written
<1>2. /\ target' = File(c, partial[c]) /\ saved' = saved \cup {c}
      /\ UNCHANGED <<overwrite, announced>>
  BY DEF Rename, Link
<1>3. Abstract!MayTake(c)
  BY DEF Rename, Link, LinkCreates, Abstract!MayTake
<1>4. told' \in {told, told \cup {c}}
  BY DEF Rename, Link, told, IndInv, TypeOK
<1> QED BY <1>1, <1>2, <1>3, <1>4 DEF Abstract!Save, File

\* Downloads implement AtomicSave: for any number of calls, whatever fails.
THEOREM Implements == Spec => SavesAtomically
<1>1. Init => Abstract!Init
  BY DEF Init, Abstract!Init, told, NoFile, Directory, File
<1>2. ASSUME IndInv, [Next]_vars  PROVE [Abstract!Next]_(Abstract!vars)
  <2>1. ASSUME NEW c \in Calls, Step(c)  PROVE [Abstract!Next]_(Abstract!vars)
    <3>1. CASE Rename(c) \/ Link(c)
      BY <1>2, <3>1, SaveStep DEF Abstract!Next
    <3>2. CASE Unlink(c)
      <4>1. c \in saved
        BY <1>2, <3>2 DEF Unlink, IndInv, Progress
      <4>2. told' = told \cup {c} /\ UNCHANGED <<overwrite, announced, target, saved>>
        BY <1>2, <3>2 DEF Unlink, Finish, argVars, told, IndInv, TypeOK
      <4> QED BY <4>1, <4>2 DEF Abstract!Next, Abstract!Tell
    <3>3. CASE ~(Rename(c) \/ Link(c) \/ Unlink(c))
      BY <1>2, <2>1, <3>3, QuietSteps DEF Abstract!vars
    <3> QED BY <3>1, <3>2, <3>3
  <2>2. CASE OtherProgram
    BY <2>2 DEF OtherProgram, NoFile, File, argVars, told, Abstract!Next, Abstract!Interfere
  <2>3. ASSUME NEW c \in Calls, Cancel(c) \/ TimerFires(c)  PROVE [Abstract!Next]_(Abstract!vars)
    BY <2>3 DEF Cancel, TimerFires, argVars, fileVars, told, Abstract!vars
  <2>4. CASE Crash
    BY <2>4 DEF Crash, argVars, fileVars, told, Abstract!vars
  <2>5. CASE UNCHANGED vars
    BY <2>5 DEF vars, argVars, fileVars, told, Abstract!vars
  <2> QED BY <1>2, <2>1, <2>2, <2>3, <2>4, <2>5 DEF Next, Environment
<1> QED BY <1>1, <1>2, Invariance, PTL DEF Spec, SavesAtomically, Abstract!Spec

-----------------------------------------------------------------------------
(* Progress, up to fairness: what each call has still to do gets less.     *)

StepsLeft(c) ==
  CASE pc[c] \in {"done", "lost"} -> 0
    [] pc[c] \in {"cleaning", "discarding"} -> 1
    [] pc[c] = "unlinking" -> 2
    [] pc[c] = "publishing" -> 3
    [] pc[c] = "streaming" -> 4 + (Size - partial[c])
    [] pc[c] = "fetching" -> 5 + Size
    [] pc[c] = "minting" -> 6 + Size
    [] pc[c] = "preflight" -> 7 + Size

LEMMA StepsAreFew ==
  ASSUME IndInv, NEW c \in Calls
  PROVE  StepsLeft(c) \in 0..7 + Size /\ (StepsLeft(c) = 0 <=> pc[c] \in {"done", "lost"})
<1>1. pc[c] \in Waits /\ (pc[c] = "streaming" => partial[c] \in 0..Size)
  BY DEF IndInv, TypeOK, Progress, Written
<1>2. CASE pc[c] \in {"done", "lost"}
  <2>1. StepsLeft(c) = 0
    BY <1>2 DEF StepsLeft
  <2> QED BY <1>2, <2>1, SizeAssumption
<1>3. CASE pc[c] \notin {"done", "lost"}
  <2>1. StepsLeft(c) \in 1..7 + Size
    BY SMTT(30), <1>1, <1>3, SizeAssumption DEF StepsLeft, Waits, Guarded, Transfer
  <2> QED BY <1>3, <2>1, SizeAssumption
<1> QED BY <1>2, <1>3

\* What a call has left depends on its own wait and its own partial file.
LEMMA SameSteps ==
  ASSUME NEW c, pc'[c] = pc[c], partial'[c] = partial[c]
  PROVE  StepsLeft(c)' = StepsLeft(c)
BY Zenon DEF StepsLeft

\* A call that takes a step has less to do, and makes no other call wait longer.
LEMMA StepAdvances ==
  ASSUME IndInv, NEW c \in Calls, Step(c)
  PROVE  /\ StepsLeft(c)' < StepsLeft(c)
         /\ \A d \in Calls \ {c} : StepsLeft(d)' = StepsLeft(d)
<1> USE SizeAssumption
<1>1. pc \in [Calls -> Waits] /\ partial \in [Calls -> 0..Absent]
  BY DEF IndInv, TypeOK
<1>2. /\ pc[c] = "streaming" => partial[c] \in 0..Size
      /\ Size \in Nat
  BY DEF IndInv, Progress, Written
<1> USE DEF GoOn, Finish, Throw, fileVars
<1>3. /\ \A d \in Calls \ {c} : pc'[d] = pc[d] /\ partial'[d] = partial[d]
      /\ pc' \in [Calls -> Waits]
  BY <1>1 DEF Step, Preflight, Mint, FetchRefused, Fetched, ReadPiece, StreamEnds, Break, Discard, Rename,
       Link, LinkExists, PublishFails, Unlink, Unlinked, UnlinkFails, CleanUp, Waits, Guarded, Transfer
<1>4. \A d \in Calls \ {c} : StepsLeft(d)' = StepsLeft(d)
  BY Zenon, <1>3, SameSteps
<1>5. StepsLeft(c)' < StepsLeft(c)
  <2>1. CASE Fetched(c)
    <3>1. pc[c] = "fetching" /\ pc'[c] = "streaming" /\ partial'[c] = 0
      BY <1>1, <2>1 DEF Fetched
    <3> QED BY <1>2, <3>1 DEF StepsLeft
  <2>2. CASE ReadPiece(c)
    <3>1. pc[c] = "streaming" /\ pc'[c] = "streaming" /\ partial'[c] = partial[c] + 1 /\ partial[c] < Size
      BY <1>1, <2>2 DEF ReadPiece
    <3> QED BY <1>2, <3>1 DEF StepsLeft
  <2>3. CASE Preflight(c) \/ Mint(c) \/ FetchRefused(c)
    <3>1. \/ pc[c] = "preflight" /\ pc'[c] \in {"minting", "done"}
          \/ pc[c] = "minting" /\ pc'[c] \in {"fetching", "done"}
          \/ pc[c] = "fetching" /\ pc'[c] = "done"
      BY <1>1, <2>3 DEF Preflight, Mint, FetchRefused
    <3> QED BY <1>2, <3>1 DEF StepsLeft
  <2>4. CASE StreamEnds(c) \/ Break(c) \/ Discard(c)
    <3>1. \/ pc[c] = "streaming" /\ pc'[c] \in {"discarding", "cleaning", "publishing"}
          \/ pc[c] = "fetching" /\ pc'[c] = "cleaning"
          \/ pc[c] = "discarding" /\ pc'[c] = "done"
      BY <1>1, <2>4 DEF StreamEnds, Break, MayBreak, Transfer, Discard
    <3> QED BY <1>2, <3>1 DEF StepsLeft
  <2>5. CASE Rename(c) \/ Link(c) \/ LinkExists(c) \/ PublishFails(c) \/ Unlink(c) \/ UnlinkFails(c) \/ CleanUp(c)
    <3>1. \/ pc[c] = "publishing" /\ pc'[c] \in {"done", "unlinking", "cleaning"}
          \/ pc[c] = "unlinking" /\ pc'[c] \in {"done", "cleaning"}
          \/ pc[c] = "cleaning" /\ pc'[c] = "done"
      BY <1>1, <2>5 DEF Rename, Link, LinkExists, PublishFails, Unlink, UnlinkFails, CleanUp
    <3> QED BY <3>1 DEF StepsLeft
  <2> QED BY <2>1, <2>2, <2>3, <2>4, <2>5 DEF Step
<1> QED BY <1>4, <1>5

\* Other programs, the client, the timers and a crash add nothing to do.
LEMMA OthersDoNotDelay ==
  ASSUME IndInv, Environment, NEW c \in Calls
  PROVE  StepsLeft(c)' <= StepsLeft(c)
<1>1. StepsLeft(c) \in Nat
  BY StepsAreFew, SizeAssumption
<1>2. CASE Crash
  <2>1. pc'[c] \in {"done", "lost"}
    BY <1>2 DEF Crash
  <2>2. StepsLeft(c)' = 0
    BY <2>1 DEF StepsLeft
  <2> QED BY <1>1, <2>2
<1>3. CASE ~Crash
  <2>1. pc' = pc /\ partial' = partial
    BY <1>3 DEF Environment, Cancel, TimerFires, OtherProgram, fileVars
  <2>2. StepsLeft(c)' = StepsLeft(c)
    BY Zenon, <2>1, SameSteps
  <2> QED BY <1>1, <2>2
<1> QED BY <1>2, <1>3

\* A download makes at most Size + 7 steps, whatever the other calls, the
\* programs beside them and the network do; when none is left it has ended.
THEOREM DownloadIsBounded ==
  Spec => /\ [](\A c \in Calls : /\ StepsLeft(c) \in 0..7 + Size
                                 /\ StepsLeft(c) = 0 <=> pc[c] \in {"done", "lost"})
          /\ [][/\ \A c \in Calls : Step(c) =>
                      /\ StepsLeft(c)' < StepsLeft(c)
                      /\ \A d \in Calls \ {c} : StepsLeft(d)' = StepsLeft(d)
                /\ Environment => \A c \in Calls : StepsLeft(c)' <= StepsLeft(c)]_vars
<1>1. IndInv => \A c \in Calls : /\ StepsLeft(c) \in 0..7 + Size
                                 /\ StepsLeft(c) = 0 <=> pc[c] \in {"done", "lost"}
  BY StepsAreFew
<1>2. ASSUME IndInv
      PROVE  /\ \A c \in Calls : Step(c) =>
                  /\ StepsLeft(c)' < StepsLeft(c)
                  /\ \A d \in Calls \ {c} : StepsLeft(d)' = StepsLeft(d)
             /\ Environment => \A c \in Calls : StepsLeft(c)' <= StepsLeft(c)
  BY <1>2, StepAdvances, OthersDoNotDelay
<1> QED BY <1>1, <1>2, Invariance, PTL
=============================================================================
