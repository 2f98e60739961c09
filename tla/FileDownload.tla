--------------------------- MODULE FileDownload ---------------------------
(***************************************************************************)
(* downloadServiceFile and publishDownload (src/service-files.ts): several *)
(* downloads to one local path, each through a partial file of its own.    *)
(* The client may cancel, the transfer may break or end short, the process *)
(* may die, and other programs may create, replace or remove the           *)
(* destination between any two steps.                                      *)
(*                                                                         *)
(* Abstractions: a file is named by the call that wrote it and measured in *)
(* pieces; the partial files' random names do not collide.                 *)
(***************************************************************************)
EXTENDS Naturals

CONSTANTS
  Calls,  \* concurrent calls with the same localPath
  Size,   \* pieces of the remote file
  Other   \* any other program

ASSUME SizeAssumption == Size \in Nat \ {0}
ASSUME OtherAssumption == Other \notin Calls

VARIABLES
  pc,        \* what each call awaits
  overwrite, \* the caller's approval to replace
  announced, \* the minted link carried the file's size
  signal,    \* the client cancelled the call
  timer,     \* DOWNLOAD_TIMEOUT_MS passed
  partial,   \* pieces in the call's partial file, or Absent
  error,     \* the exception being handled
  result,    \* the call's answer
  target,    \* the destination
  saved,     \* history: calls that put their file under the final name
  stuck      \* history: calls whose partial file could not be unlinked

argVars == <<overwrite, announced>>
fileVars == <<partial, target, saved, stuck>>
vars == <<pc, argVars, signal, timer, error, result, fileVars>>

Absent == Size + 1
NoFile == [kind |-> "none", by |-> Other, pieces |-> 0]
Directory == [kind |-> "directory", by |-> Other, pieces |-> 0]
File(by, pieces) == [kind |-> "file", by |-> by, pieces |-> pieces]

Transfer == {"fetching", "streaming"}
Guarded == Transfer \cup {"publishing", "unlinking", "cleaning", "discarding"}
Waits == Guarded \cup {"preflight", "minting", "done", "lost"}
Errors == {"none", "destinationExists", "atomicPublicationUnavailable", "other"}
Results == {"none", "refused", "cancelled", "notMinted", "thrown", "httpError",
            "short", "destinationExists", "atomicPublicationUnavailable",
            "timedOut", "failed", "success"}

TypeOK ==
  /\ pc \in [Calls -> Waits]
  /\ overwrite \in [Calls -> BOOLEAN]
  /\ announced \in [Calls -> BOOLEAN]
  /\ signal \in [Calls -> BOOLEAN]
  /\ timer \in [Calls -> BOOLEAN]
  /\ partial \in [Calls -> 0..Absent]
  /\ error \in [Calls -> Errors]
  /\ result \in [Calls -> Results]
  /\ target \in [kind: {"none", "directory", "file"}, by: Calls \cup {Other}, pieces: 0..Size]
  /\ saved \subseteq Calls
  /\ stuck \subseteq Calls

Init ==
  /\ pc = [c \in Calls |-> "preflight"]
  /\ overwrite \in [Calls -> BOOLEAN]
  /\ announced \in [Calls -> BOOLEAN]
  /\ signal = [c \in Calls |-> FALSE]
  /\ timer = [c \in Calls |-> FALSE]
  /\ partial = [c \in Calls |-> Absent]
  /\ error = [c \in Calls |-> "none"]
  /\ result = [c \in Calls |-> "none"]
  /\ target \in {NoFile, Directory, File(Other, Size)}
  /\ saved = {}
  /\ stuck = {}

-----------------------------------------------------------------------------

GoOn(c, next) == pc' = [pc EXCEPT ![c] = next] /\ UNCHANGED <<error, result>>

Finish(c, kind) ==
  /\ pc' = [pc EXCEPT ![c] = "done"]
  /\ result' = [result EXCEPT ![c] = kind]
  /\ UNCHANGED error

\* An exception: the catch block unlinks the partial file first.
Throw(c, kind) ==
  /\ pc' = [pc EXCEPT ![c] = "cleaning"]
  /\ error' = [error EXCEPT ![c] = kind]
  /\ UNCHANGED result

\* controller.signal: the client's cancellation, once it is listened to, or the timer.
Aborted(c) == signal[c] \/ timer[c]

Preflight(c) ==
  /\ pc[c] = "preflight"
  /\ IF target.kind = "directory" \/ (target.kind = "file" /\ ~overwrite[c])
     THEN Finish(c, "refused")
     ELSE IF signal[c] THEN Finish(c, "cancelled") ELSE GoOn(c, "minting")
  /\ UNCHANGED <<argVars, signal, timer, fileVars>>

\* The download URL: minted (maybe by an operation), refused, or not trusted.
Mint(c) ==
  /\ pc[c] = "minting"
  /\ \/ Finish(c, "thrown")
     \/ signal[c] /\ Finish(c, "cancelled")
     \/ ~signal[c] /\ (Finish(c, "notMinted") \/ GoOn(c, "fetching"))
  /\ UNCHANGED <<argVars, signal, timer, fileVars>>

FetchRefused(c) ==
  /\ pc[c] = "fetching" /\ ~Aborted(c)
  /\ Finish(c, "httpError")
  /\ UNCHANGED <<argVars, signal, timer, fileVars>>

\* Slip: the partial file is left to the first write.
Fetched_Unopened(c) ==
  /\ pc[c] = "fetching" /\ ~Aborted(c)
  /\ GoOn(c, "streaming")
  /\ UNCHANGED <<argVars, signal, timer, fileVars>>

Fetched(c) ==
  /\ pc[c] = "fetching" /\ ~Aborted(c)
  /\ partial' = [partial EXCEPT ![c] = 0]
  /\ GoOn(c, "streaming")
  /\ UNCHANGED <<argVars, signal, timer, target, saved, stuck>>

ReadPiece(c) ==
  /\ pc[c] = "streaming" /\ ~Aborted(c)
  /\ partial[c] < Size
  /\ partial' = [partial EXCEPT ![c] = @ + 1]
  /\ UNCHANGED <<pc, argVars, signal, timer, error, result, target, saved, stuck>>

\* Slip: an end of the stream is the end of the file.
Short_Unchecked(c) == FALSE

Short(c) == announced[c] /\ partial[c] # Size

\* The body ended, early or not. A cancellation is looked at once more.
StreamEnds(c) ==
  /\ pc[c] = "streaming"
  /\ IF Short(c) THEN GoOn(c, "discarding")
     ELSE IF Aborted(c) THEN Throw(c, "other")
     ELSE GoOn(c, "publishing")
  /\ UNCHANGED <<argVars, signal, timer, fileVars>>

\* Slip: the reader waits for data whatever happened to the controller.
MayBreak_Connected(c) == pc[c] \in Transfer /\ ~Aborted(c)

MayBreak(c) == pc[c] \in Transfer

\* The transport, the controller or the local disk ends the transfer.
Break(c) ==
  /\ MayBreak(c)
  /\ Throw(c, "other")
  /\ UNCHANGED <<argVars, signal, timer, fileVars>>

\* The size does not match: the partial file is unlinked, if it can be.
Discard(c) ==
  /\ pc[c] = "discarding"
  /\ \/ partial' = [partial EXCEPT ![c] = Absent] /\ UNCHANGED stuck
     \/ stuck' = stuck \cup {c} /\ UNCHANGED partial
  /\ Finish(c, "short")
  /\ UNCHANGED <<argVars, signal, timer, target, saved>>

-----------------------------------------------------------------------------
(* publishDownload.                                                        *)

\* With overwrite the name is replaced, in one step.
Rename(c) ==
  /\ pc[c] = "publishing" /\ overwrite[c]
  /\ target.kind # "directory"
  /\ target' = File(c, partial[c])
  /\ partial' = [partial EXCEPT ![c] = Absent]
  /\ saved' = saved \cup {c}
  /\ Finish(c, "success")
  /\ UNCHANGED <<argVars, signal, timer, stuck>>

\* Slip: the preflight check is relied on.
LinkCreates_Replacing(c) == target.kind # "directory"

\* link() is an exclusive create.
LinkCreates(c) == target.kind = "none"

Link(c) ==
  /\ pc[c] = "publishing" /\ ~overwrite[c]
  /\ LinkCreates(c)
  /\ target' = File(c, partial[c])
  /\ saved' = saved \cup {c}
  /\ GoOn(c, "unlinking")
  /\ UNCHANGED <<argVars, signal, timer, partial, stuck>>

LinkExists(c) ==
  /\ pc[c] = "publishing" /\ ~overwrite[c]
  /\ target.kind # "none"
  /\ Throw(c, "destinationExists")
  /\ UNCHANGED <<argVars, signal, timer, fileVars>>

\* No hard links there, or another failure of link() or rename().
PublishFails(c) ==
  /\ pc[c] = "publishing"
  /\ \/ ~overwrite[c] /\ Throw(c, "atomicPublicationUnavailable")
     \/ Throw(c, "other")
  /\ UNCHANGED <<argVars, signal, timer, fileVars>>

\* Slip: the partial file keeps its name once the destination has one.
Unlinked_Kept(c) == partial

Unlinked(c) == [partial EXCEPT ![c] = Absent]

Unlink(c) ==
  /\ pc[c] = "unlinking"
  /\ partial' = Unlinked(c)
  /\ Finish(c, "success")
  /\ UNCHANGED <<argVars, signal, timer, target, saved, stuck>>

UnlinkFails(c) ==
  /\ pc[c] = "unlinking"
  /\ stuck' = stuck \cup {c}
  /\ Throw(c, "other")
  /\ UNCHANGED <<argVars, signal, timer, partial, target, saved>>

\* The answer to an exception, chosen after the clean-up.
Verdict(c) ==
  CASE error[c] # "other" -> error[c]
    [] error[c] = "other" /\ signal[c] -> "cancelled"
    [] error[c] = "other" /\ ~signal[c] /\ timer[c] -> "timedOut"
    [] OTHER -> "failed"

CleanUp(c) ==
  /\ pc[c] = "cleaning"
  /\ \/ partial' = [partial EXCEPT ![c] = Absent] /\ UNCHANGED stuck
     \/ partial[c] # Absent /\ stuck' = stuck \cup {c} /\ UNCHANGED partial
  /\ Finish(c, Verdict(c))
  /\ UNCHANGED <<argVars, signal, timer, target, saved>>

-----------------------------------------------------------------------------
(* The environment.                                                        *)

Cancel(c) ==
  /\ ~signal[c] /\ pc[c] \notin {"done", "lost"}
  /\ signal' = [signal EXCEPT ![c] = TRUE]
  /\ UNCHANGED <<pc, argVars, timer, error, result, fileVars>>

TimerFires(c) ==
  /\ ~timer[c] /\ pc[c] \in Guarded
  /\ timer' = [timer EXCEPT ![c] = TRUE]
  /\ UNCHANGED <<pc, argVars, signal, error, result, fileVars>>

OtherProgram ==
  /\ target' \in {NoFile, File(Other, Size)} \ {target}
  /\ UNCHANGED <<pc, argVars, signal, timer, error, result, partial, saved, stuck>>

\* The process dies with every call in it.
Crash ==
  /\ \E c \in Calls : pc[c] \notin {"done", "lost"}
  /\ pc' = [c \in Calls |-> IF pc[c] = "done" THEN "done" ELSE "lost"]
  /\ UNCHANGED <<argVars, signal, timer, error, result, fileVars>>

Step(c) ==
  \/ Preflight(c) \/ Mint(c) \/ FetchRefused(c) \/ Fetched(c)
  \/ ReadPiece(c) \/ StreamEnds(c) \/ Break(c) \/ Discard(c)
  \/ Rename(c) \/ Link(c) \/ LinkExists(c) \/ PublishFails(c)
  \/ Unlink(c) \/ UnlinkFails(c) \/ CleanUp(c)

Environment ==
  \/ \E c \in Calls : Cancel(c) \/ TimerFires(c)
  \/ OtherProgram
  \/ Crash

Next == (\E c \in Calls : Step(c)) \/ Environment

Spec == Init /\ [][Next]_vars

\* Data is never owed: the timer is what ends a stalled transfer. The API's
\* requests have deadlines of their own, and local file operations end.
FairSpec ==
  /\ Spec
  /\ \A c \in Calls :
       /\ WF_vars(TimerFires(c))
       /\ WF_vars(Step(c) /\ (pc[c] \in Transfer => Aborted(c)))

-----------------------------------------------------------------------------
(* Properties.                                                             *)

\* Whatever dies, breaks or ends early, the final name never shows a part of
\* a file whose size was announced.
NeverPartial ==
  target.kind = "file" /\ target.by \in Calls /\ announced[target.by]
    => target.pieces = Size

\* However it ends, a call that could unlink its partial file leaves none,
\* and only a call that answered success has put its file in place.
NothingLeftBehind ==
  \A c \in Calls : pc[c] = "done" /\ c \notin stuck =>
    /\ partial[c] = Absent
    /\ c \in saved <=> result[c] = "success"

\* Every call that does not die with its process is answered.
DownloadEnds == \A c \in Calls : <>(pc[c] \in {"done", "lost"})

\* "The download was cancelled by the client; nothing was saved." and the
\* other answers that say so: the destination did not get the file.
NothingSavedIsTrue ==
  \A c \in Calls : result[c] \in {"cancelled", "timedOut", "short"} => c \notin saved

\* The refinement: whatever the calls, other programs and crashes do, the
\* destination is taken in one step, by a whole file where one was announced,
\* and "a destination that appeared since the preflight check (a concurrent
\* download, another process) is never replaced" without overwrite; only a
\* call that took it answers success.
told == {c \in Calls : result[c] = "success"}

Abstract == INSTANCE AtomicSave
SavesAtomically == Abstract!Spec
=============================================================================
