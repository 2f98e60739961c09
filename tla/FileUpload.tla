---------------------------- MODULE FileUpload ----------------------------
(***************************************************************************)
(* uploadServiceFile (src/service-files.ts): hash the local file, open an  *)
(* upload, send it chunk by chunk, publish it, check the SHA-256 the       *)
(* server computed. The source may change under the tool, the client may   *)
(* cancel at any time, a chunk given up on may arrive later, tokens and    *)
(* uploads expire, and any answer may be lost.                             *)
(*                                                                         *)
(* Abstractions: sizes and offsets count chunks; a chunk's bytes are the   *)
(* version of the source they were read from; a file's SHA-256 is the      *)
(* sequence of its chunks' versions. The file API is external: it stores   *)
(* the chunk it expects next, and HTTP 200 means that it stored it. An API *)
(* request other than a chunk takes effect, if it does, when it ends.      *)
(***************************************************************************)
EXTENDS Naturals, Sequences

CONSTANTS
  MaxSize,      \* bound: the largest file, in chunks
  Versions,     \* contents of the source file
  Planes,       \* "token": the node's data plane; "api": the API's chunk route
  MaxAttempts,  \* the literal 3 of the retry conditions
  None

ASSUME SizeAssumption == MaxSize \in Nat
ASSUME AttemptsAssumption == MaxAttempts \in Nat
ASSUME PlanesAssumption == Planes \subseteq {"token", "api"}
ASSUME NoneAssumption == None \notin Versions \cup {"token", "api"}

VARIABLES
  pc,         \* what the tool awaits
  signal,     \* the client's cancellation signal is raised
  source,     \* the local file's version; None once it is shorter than size
  size,
  digest,     \* the chunks hashed so far, then the local SHA-256
  plane,      \* the transfer plane of the service
  auth,       \* upload.transfer.auth; None when the answer did not carry it
  offset,
  attempts,
  refreshed,
  chunk,      \* the version of the bytes being sent
  result,     \* the tool's answer
  server,     \* the file API: the upload's state and the chunks it stored
  late,       \* chunks given up on, which may still arrive
  sends       \* history: chunk requests since the last accepted one

fileVars == <<source, size, plane>>
progressVars == <<offset, attempts, refreshed>>
vars == <<pc, signal, fileVars, digest, auth, progressVars, chunk, result,
          server, late, sends>>

Waits == {"hashing", "creating", "refreshingFirst", "loop", "sending",
          "refreshingTimeout", "refreshingToken", "sleeping", "cancelling",
          "aborting", "completing", "settling", "done"}
Kinds == {"none", "cancelled", "refused", "failed", "success", "mismatch",
          "pending", "commitFailed", "commitUnknown", "commitError",
          "sourceThrown", "createThrown", "transferThrown", "commitThrown"}
\* The state of the upload: none yet, holding a slot, at work on the target...
States == {"none", "open", "committing", "published", "failed", "aborted", "expired"}

\* sha256: the answer carries the SHA-256 the server computed.
Report(kind, abort, sha256) == [kind |-> kind, abort |-> abort, sha256 |-> sha256]
NoResult == Report("none", "none", FALSE)

\* Five in all: one send, MaxAttempts retries and one after a token refresh.
MaxSends == MaxAttempts + 2

TypeOK ==
  /\ pc \in Waits
  /\ signal \in BOOLEAN
  /\ source \in Versions \cup {None}
  /\ size \in 0..MaxSize
  /\ digest \in Seq(Versions) /\ Len(digest) <= size
  /\ plane \in Planes
  /\ auth \in Planes \cup {None}
  /\ offset \in 0..size
  /\ attempts \in 0..MaxAttempts
  /\ refreshed \in BOOLEAN
  /\ chunk \in Versions \cup {None}
  /\ result \in [kind: Kinds, abort: {"none", "confirmed", "unconfirmed"}, sha256: BOOLEAN]
  /\ server \in [state: States, content: Seq(Versions)]
  /\ Len(server.content) <= size
  /\ late \subseteq [offset: 0..MaxSize, version: Versions]
  /\ sends \in 0..MaxSends + 1

Init ==
  /\ pc = "hashing"
  /\ signal = FALSE
  /\ source \in Versions
  /\ size \in 0..MaxSize
  /\ digest = <<>>
  /\ plane \in Planes
  /\ auth = None
  /\ offset = 0 /\ attempts = 0 /\ refreshed = FALSE
  /\ chunk = None
  /\ result = NoResult
  /\ server = [state |-> "none", content |-> <<>>]
  /\ late = {}
  /\ sends = 0

-----------------------------------------------------------------------------
(* Helpers.                                                                *)

Received == Len(server.content)

Finish(kind, abort, sha256) ==
  /\ pc' = "done"
  /\ result' = Report(kind, abort, sha256)

GoOn(next) == pc' = next /\ UNCHANGED result

\* The chunk request is over for the tool, not for the network.
GivenUp == late \cup {[offset |-> offset, version |-> chunk]}

-----------------------------------------------------------------------------
(* Hash the source, open the upload.                                       *)

HashChunk ==
  /\ pc = "hashing" /\ Len(digest) < size
  /\ IF source = None
     THEN Finish("sourceThrown", "none", FALSE) /\ UNCHANGED digest
     ELSE digest' = Append(digest, source) /\ UNCHANGED <<pc, result>>
  /\ UNCHANGED <<signal, fileVars, auth, progressVars, chunk, server, late, sends>>

SendCreate ==
  /\ pc = "hashing" /\ Len(digest) = size
  /\ IF signal THEN Finish("cancelled", "none", FALSE) ELSE GoOn("creating")
  /\ UNCHANGED <<signal, fileVars, digest, auth, progressVars, chunk, server, late, sends>>

\* Once the upload is described: without a chunk size nothing can be sent.
Begin == GoOn("loop") \/ (size > 0 /\ GoOn("aborting"))

Created ==
  /\ pc = "creating"
  /\ server' = [server EXCEPT !.state = "open"]
  /\ auth' \in {plane, None}
  /\ IF signal THEN GoOn("cancelling")
     ELSE IF auth' = None /\ size > 0 THEN GoOn("refreshingFirst")
     ELSE Begin
  /\ UNCHANGED <<signal, fileVars, digest, progressVars, chunk, late, sends>>

\* Refused, or answered without an upload id, or not answered: it may be open.
NotCreated ==
  /\ pc = "creating"
  /\ \E kind \in {"refused", "createThrown"} : Finish(kind, "none", FALSE)
  /\ server' \in {server, [server EXCEPT !.state = "open"]}
  /\ UNCHANGED <<signal, fileVars, digest, auth, progressVars, chunk, late, sends>>

-----------------------------------------------------------------------------
(* The chunk loop.                                                         *)

\* The signal is read at the loop head and again before the request is made.
SendChunk ==
  /\ pc = "loop" /\ offset < size
  /\ ~signal /\ source # None
  /\ chunk' = source
  /\ sends' = IF sends > MaxSends THEN sends ELSE sends + 1
  /\ GoOn("sending")
  /\ UNCHANGED <<signal, fileVars, digest, auth, progressVars, server, late>>

LoopCancelled ==
  /\ pc = "loop" /\ offset < size
  /\ signal
  /\ GoOn("cancelling")
  /\ UNCHANGED <<signal, fileVars, digest, auth, progressVars, chunk, server, late, sends>>

ReadThrows ==
  /\ pc = "loop" /\ offset < size
  /\ source = None
  /\ Finish("transferThrown", "none", FALSE)
  /\ UNCHANGED <<signal, fileVars, digest, auth, progressVars, chunk, server, late, sends>>

ChunkAccepted ==
  /\ pc = "sending"
  /\ server.state = "open" /\ Received = offset
  /\ server' = [server EXCEPT !.content = Append(@, chunk)]
  /\ offset' = offset + 1 /\ attempts' = 0 /\ refreshed' = FALSE
  /\ sends' = 0
  /\ GoOn("loop")
  /\ UNCHANGED <<signal, fileVars, digest, auth, chunk, late>>

\* putChunk's own controller is aborted; only the data plane has one.
ChunkCancelled ==
  /\ pc = "sending" /\ auth = "token" /\ signal
  /\ GoOn("cancelling")
  /\ late' = GivenUp
  /\ UNCHANGED <<signal, fileVars, digest, auth, progressVars, chunk, server, sends>>

\* Slip: one attempt too many.
MayRetry_OneMore == attempts <= MaxAttempts

MayRetry == attempts < MaxAttempts

\* Slip: waiting for a chunk in vain is not an attempt.
CountTimeout_Never == attempts

CountTimeout == attempts + 1

ChunkTimesOut ==
  /\ pc = "sending" /\ auth = "token" /\ MayRetry
  /\ attempts' = CountTimeout
  /\ GoOn("refreshingTimeout")
  /\ late' = GivenUp
  /\ UNCHANGED <<signal, fileVars, digest, auth, offset, refreshed, chunk, server, sends>>

ChunkOutOfOrder ==
  /\ pc = "sending" /\ MayRetry
  /\ server.state = "open" /\ Received # offset
  /\ offset' = Received /\ attempts' = attempts + 1
  /\ GoOn("loop")
  /\ UNCHANGED <<signal, fileVars, digest, auth, refreshed, chunk, server, late, sends>>

\* 401, 403, 404 or 410: the token expired or was rotated, or the upload is gone.
ChunkTokenRefused ==
  /\ pc = "sending" /\ auth = "token" /\ ~refreshed
  /\ GoOn("refreshingToken")
  /\ UNCHANGED <<signal, fileVars, digest, auth, progressVars, chunk, server, late, sends>>

\* Busy, a gateway's error, or no answer on the data plane: it may yet arrive.
ChunkRetried ==
  /\ pc = "sending" /\ MayRetry
  /\ attempts' = attempts + 1
  /\ GoOn("sleeping")
  /\ late' \in {late, GivenUp}
  /\ UNCHANGED <<signal, fileVars, digest, auth, offset, refreshed, chunk, server, sends>>

\* Any other refusal, or one more after the attempts are used up.
ChunkFails ==
  /\ pc = "sending"
  /\ GoOn("aborting")
  /\ late' \in {late} \cup (IF ~MayRetry THEN {GivenUp} ELSE {})
  /\ UNCHANGED <<signal, fileVars, digest, auth, progressVars, chunk, server, sends>>

\* apiRawRequest throws: its deadline, or the transport failed.
ChunkThrows ==
  /\ pc = "sending" /\ auth # "token"
  /\ Finish("transferThrown", "none", FALSE)
  /\ late' = GivenUp
  /\ UNCHANGED <<signal, fileVars, digest, auth, progressVars, chunk, server, sends>>

Wake ==
  /\ pc = "sleeping"
  /\ GoOn("loop")
  /\ UNCHANGED <<signal, fileVars, digest, auth, progressVars, chunk, server, late, sends>>

-----------------------------------------------------------------------------
(* refreshUpload: what the API says arrived.                               *)

Refreshing == {"refreshingFirst", "refreshingTimeout", "refreshingToken"}

\* Slip: every refreshed token may be refreshed again.
TokenRefreshed_Forgotten == FALSE

TokenRefreshed == pc = "refreshingToken" \/ refreshed

\* A description of the upload that does not say what arrived leaves the offset.
Refreshed ==
  /\ pc \in Refreshing
  /\ auth' = plane
  /\ offset' \in {Received, offset}
  /\ refreshed' = TokenRefreshed
  /\ IF pc = "refreshingFirst" THEN Begin ELSE GoOn("loop")
  /\ UNCHANGED <<signal, fileVars, digest, attempts, chunk, server, late, sends>>

\* Slip: without an answer the chunk is taken to have arrived.
Unrefreshed_Assumed == IF pc = "refreshingTimeout" THEN offset + 1 ELSE offset

\* Without an answer the tool keeps what it knew.
Unrefreshed == offset

NotRefreshed ==
  /\ pc \in Refreshing
  /\ offset' = Unrefreshed
  /\ refreshed' = TokenRefreshed
  /\ CASE pc = "refreshingFirst" -> Begin
       [] pc = "refreshingTimeout" -> GoOn("loop")
       [] pc = "refreshingToken" -> GoOn("aborting")
  /\ UNCHANGED <<signal, fileVars, digest, auth, attempts, chunk, server, late, sends>>

RefreshThrows ==
  /\ pc \in Refreshing
  /\ Finish("transferThrown", "none", FALSE)
  /\ UNCHANGED <<signal, fileVars, digest, auth, progressVars, chunk, server, late, sends>>

-----------------------------------------------------------------------------
(* abortUpload, for a cancelled call and for a failed one.                 *)

AbortAnswers == {"deleted", "accepted", "refused", "none"}

\* Slip: an accepted deletion is taken for a finished one.
AbortConfirmed_Accepted(answer) == answer \in {"deleted", "accepted"}

\* 2xx but not 202, and not success: false.
AbortConfirmed(answer) == answer = "deleted"

Abort ==
  /\ pc \in {"cancelling", "aborting"}
  /\ \E answer \in AbortAnswers :
       /\ answer = "deleted" => server.state = "open"
       /\ server' \in
            (IF answer = "deleted" THEN {} ELSE {server})
              \cup (IF server.state = "open" /\ answer \in {"deleted", "none"}
                    THEN {[server EXCEPT !.state = "aborted"]} ELSE {})
       /\ Finish(IF pc = "cancelling" THEN "cancelled" ELSE "failed",
                 IF AbortConfirmed(answer) THEN "confirmed" ELSE "unconfirmed", FALSE)
  /\ UNCHANGED <<signal, fileVars, digest, auth, progressVars, chunk, late, sends>>

-----------------------------------------------------------------------------
(* Publish, and follow the operation (settleOperation).                    *)

SendComplete ==
  /\ pc = "loop" /\ offset >= size
  /\ GoOn(IF signal THEN "cancelling" ELSE "completing")
  /\ UNCHANGED <<signal, fileVars, digest, auth, progressVars, chunk, server, late, sends>>

Publishable == server.state = "open" /\ Received = size

\* Slip: the server's SHA-256 is not compared.
Mismatch_Never(sha) == FALSE

Mismatch(sha) == sha # digest

\* Only an answer that carries a SHA-256 can be compared.
Verify ==
  \E sha256 \in BOOLEAN :
    Finish(IF sha256 /\ Mismatch(server'.content) THEN "mismatch" ELSE "success",
           "none", sha256)

Completed ==
  /\ pc = "completing" /\ Publishable
  /\ server' = [server EXCEPT !.state = "published"]
  /\ Verify
  /\ UNCHANGED <<signal, fileVars, digest, auth, progressVars, chunk, late, sends>>

CompleteAccepted ==
  /\ pc = "completing" /\ Publishable
  /\ server' = [server EXCEPT !.state = "committing"]
  /\ GoOn("settling")
  /\ UNCHANGED <<signal, fileVars, digest, auth, progressVars, chunk, late, sends>>

\* A refusal, or a gateway's error that hides what became of the request.
CompleteFails ==
  /\ pc = "completing"
  /\ \E kind \in {"commitError", "commitThrown"} : Finish(kind, "none", FALSE)
  /\ server' \in {server} \cup
       (IF Publishable
        THEN {[server EXCEPT !.state = s] : s \in {"published", "committing"}} ELSE {})
  /\ UNCHANGED <<signal, fileVars, digest, auth, progressVars, chunk, late, sends>>

PollSucceeded ==
  /\ pc = "settling" /\ server.state = "published"
  /\ UNCHANGED server
  /\ Verify
  /\ UNCHANGED <<signal, fileVars, digest, auth, progressVars, chunk, late, sends>>

\* failed; needsAttention; an error answer; an exception.
PollFails ==
  /\ pc = "settling"
  /\ \E kind \in {"commitFailed", "commitUnknown", "commitError", "commitThrown"} :
       /\ kind = "commitFailed" => server.state = "failed"
       /\ Finish(kind, "none", FALSE)
  /\ UNCHANGED <<signal, fileVars, digest, auth, progressVars, chunk, server, late, sends>>

\* Slip: a cancelled wait is reported as a cancelled upload.
StillRunning_Cancelled == IF signal THEN "cancelled" ELSE "pending"

\* The operation goes on whether or not somebody waits for it.
StillRunning == "pending"

\* The deadline passed, or the client cancelled.
SettleEnds ==
  /\ pc = "settling"
  /\ Finish(StillRunning, "none", FALSE)
  /\ UNCHANGED <<signal, fileVars, digest, auth, progressVars, chunk, server, late, sends>>

-----------------------------------------------------------------------------
(* The environment: the client, the local file, the file API, the network. *)

Cancel ==
  /\ ~signal /\ pc # "done"
  /\ signal' = TRUE
  /\ UNCHANGED <<pc, fileVars, digest, auth, progressVars, chunk, result, server, late, sends>>

SourceChanges ==
  /\ pc # "done" /\ source # None
  /\ source' \in (Versions \cup {None}) \ {source}
  /\ UNCHANGED <<pc, signal, size, plane, digest, auth, progressVars, chunk, result,
                 server, late, sends>>

LateChunk ==
  /\ \E c \in late :
       /\ server.state = "open" /\ Received = c.offset
       /\ server' = [server EXCEPT !.content = Append(@, c.version)]
       /\ late' = late \ {c}
  /\ UNCHANGED <<pc, signal, fileVars, digest, auth, progressVars, chunk, result, sends>>

\* The API expires an open upload, or ends the commit.
ServerMoves ==
  /\ \/ server.state = "open" /\ server' = [server EXCEPT !.state = "expired"]
     \/ /\ server.state = "committing"
        /\ \E s \in {"published", "failed"} : server' = [server EXCEPT !.state = s]
  /\ UNCHANGED <<pc, signal, fileVars, digest, auth, progressVars, chunk, result, late, sends>>

Tool ==
  \/ HashChunk \/ SendCreate \/ Created \/ NotCreated
  \/ SendChunk \/ LoopCancelled \/ ReadThrows
  \/ ChunkAccepted \/ ChunkCancelled \/ ChunkTimesOut \/ ChunkOutOfOrder
  \/ ChunkTokenRefused \/ ChunkRetried \/ ChunkFails \/ ChunkThrows \/ Wake
  \/ Refreshed \/ NotRefreshed \/ RefreshThrows
  \/ Abort
  \/ SendComplete \/ Completed \/ CompleteAccepted \/ CompleteFails
  \/ PollSucceeded \/ PollFails \/ SettleEnds

Environment == Cancel \/ SourceChanges \/ LateChunk \/ ServerMoves

Next == Tool \/ Environment

Spec == Init /\ [][Next]_vars

\* Every await of the tool ends: each request, each wait between retries and
\* the whole wait for the operation has a timer of its own.
FairSpec == Spec /\ WF_vars(Tool)

-----------------------------------------------------------------------------
(* Properties.                                                             *)

\* The tool asks to publish only what the API holds in full: lost answers,
\* chunks that arrive late and unanswered refreshes never make it believe in
\* a chunk that did not arrive.
CompleteOnlyWhole ==
  pc = "completing" /\ server.state = "open" => Received = size

\* A call answered as cancelled, or as failed before publication, has not
\* published the target and never will, whatever is still on its way.
UnpublishedStaysSo ==
  result.kind \in {"cancelled", "failed"} => server.state \notin {"committing", "published"}

\* uploadAborted: true is the truth: the slot is free for good.
AbortTruthful == result.abort = "confirmed" => server.state = "aborted"

\* Success with the server's SHA-256 in the answer means a target that holds
\* exactly the bytes that were hashed, although the source is read twice and
\* may change in between.
SuccessMeansSource ==
  result.kind = "success" /\ result.sha256 =>
    server.state = "published" /\ server.content = digest

\* Between two accepted chunks the tool makes five chunk requests at most,
\* however timeouts, refusals and refreshed tokens alternate.
SendsBounded == sends <= MaxSends

\* Every upload ends with an answer.
UploadEnds == <>(pc = "done")

\* "At most 3 open uploads per service; a failed transfer is aborted so its
\* slot is freed." (upload_service_file): a transfer that failed was at
\* least tried to be aborted.
FailedTransferAborted ==
  result.kind \in {"failed", "transferThrown"} => result.abort # "none"
=============================================================================
