------------------------- MODULE FileUploadProofs -------------------------
(* What FileUpload promises, for every file size, every set of contents    *)
(* and any number of attempts.                                             *)
EXTENDS FileUpload, TLAPS

Unopened == {"hashing", "creating"}
Uploading == Waits \ (Unopened \cup {"settling", "done"})
BeforeSend == Unopened \cup {"refreshingFirst", "refreshingTimeout", "loop", "sleeping"}

\* The tool believes in no chunk that did not arrive, and sends none past the end.
OffsetArrived ==
  /\ offset <= Received
  /\ pc = "sending" => offset < size /\ chunk \in Versions
  /\ pc = "completing" => offset = size
  /\ \A c \in late : c.offset < size

\* The upload's life, as far as the tool's progress decides it.
Lifecycle ==
  /\ pc \in Unopened => server.state = "none"
  /\ pc \in Uploading => server.state \in {"open", "expired"}
  /\ pc = "settling" => server.state \in {"committing", "published", "failed"}
  /\ pc # "done" => result = NoResult

\* A chunk request is paid for by an attempt or by the one token refresh.
SendsCounted ==
  /\ pc = "refreshingToken" => ~refreshed
  /\ sends <= attempts + (IF refreshed THEN 1 ELSE 0) + (IF pc \in BeforeSend THEN 0 ELSE 1)

IndInv ==
  /\ TypeOK
  /\ OffsetArrived
  /\ Lifecycle
  /\ SendsCounted
  /\ UnpublishedStaysSo
  /\ AbortTruthful
  /\ SuccessMeansSource

\* An answer is an answer.
LEMMA Reported ==
  ASSUME NEW kind \in Kinds, NEW abort \in {"none", "confirmed", "unconfirmed"},
         NEW sha256 \in BOOLEAN
  PROVE  /\ Report(kind, abort, sha256)
              \in [kind: Kinds, abort: {"none", "confirmed", "unconfirmed"}, sha256: BOOLEAN]
         /\ Report(kind, abort, sha256).kind = kind
         /\ Report(kind, abort, sha256).abort = abort
BY DEF Report

\* One more element.
LEMMA Appended ==
  ASSUME NEW S, NEW s \in Seq(S), NEW e \in S
  PROVE  Append(s, e) \in Seq(S) /\ Len(Append(s, e)) = Len(s) + 1
OBVIOUS

LEMMA InitInv == Init => IndInv
<1> SUFFICES ASSUME Init PROVE IndInv
  OBVIOUS
<1>1. TypeOK
  <2>1. signal \in BOOLEAN /\ refreshed \in BOOLEAN
    BY Zenon DEF Init
  <2>2. digest \in Seq(Versions) /\ Len(digest) = 0 /\ server.content \in Seq(Versions) /\ Len(server.content) = 0
    BY DEF Init
  <2>3. server \in [state: States, content: Seq(Versions)] /\ server.state = "none"
    BY DEF Init, States
  <2>4. result \in [kind: Kinds, abort: {"none", "confirmed", "unconfirmed"}, sha256: BOOLEAN]
    BY DEF Init, NoResult, Report, Kinds
  <2>5. size \in 0..MaxSize /\ offset \in 0..size /\ sends \in 0..MaxSends + 1 /\ attempts \in 0..MaxAttempts
    BY SizeAssumption, AttemptsAssumption DEF Init, MaxSends
  <2> QED BY <2>1, <2>2, <2>3, <2>4, <2>5 DEF Init, TypeOK, Waits
<1>2. OffsetArrived /\ Lifecycle
  BY DEF Init, OffsetArrived, Lifecycle, Received, Unopened, Uploading, Waits
<1>3. SendsCounted
  BY DEF Init, SendsCounted, BeforeSend, Unopened
<1>4. UnpublishedStaysSo /\ AbortTruthful /\ SuccessMeansSource
  BY DEF Init, UnpublishedStaysSo, AbortTruthful, SuccessMeansSource, NoResult, Report
<1> QED BY <1>1, <1>2, <1>3, <1>4 DEF IndInv

LEMMA StepInv == IndInv /\ [Next]_vars => IndInv'
<1> SUFFICES ASSUME IndInv, [Next]_vars PROVE IndInv'
  OBVIOUS
<1> USE SizeAssumption, AttemptsAssumption, PlanesAssumption, NoneAssumption
<1> USE DEF IndInv, TypeOK, OffsetArrived, Lifecycle, SendsCounted, UnpublishedStaysSo,
            AbortTruthful, SuccessMeansSource, Unopened, Uploading, BeforeSend, Waits, Kinds, States,
            Report, NoResult, MaxSends, Received, Finish, GoOn, GivenUp, fileVars, progressVars
<1>1. CASE HashChunk
  <2>1. CASE source = None
    <3>1. result'.kind = "sourceThrown" /\ result'.abort = "none" /\ pc' = "done"
          /\ result' \in [kind: Kinds, abort: {"none", "confirmed", "unconfirmed"}, sha256: BOOLEAN]
      <4>1. pc' = "done" /\ result' = Report("sourceThrown", "none", FALSE)
        BY Zenon, <1>1, <2>1 DEF HashChunk, Finish
      <4> QED BY <4>1, Reported
    <3> QED BY <1>1, <2>1, <3>1 DEF HashChunk
  <2>2. CASE source # None
    <3>1. digest' \in Seq(Versions) /\ Len(digest') = Len(digest) + 1
      BY <1>1, <2>2, Appended DEF HashChunk
    <3> QED BY <1>1, <2>2, <3>1 DEF HashChunk
  <2> QED BY <2>1, <2>2
<1>2. CASE SendCreate
  <2>1. CASE signal
    <3>1. result'.kind = "cancelled" /\ result'.abort = "none" /\ pc' = "done"
          /\ result' \in [kind: Kinds, abort: {"none", "confirmed", "unconfirmed"}, sha256: BOOLEAN]
      <4>1. pc' = "done" /\ result' = Report("cancelled", "none", FALSE)
        BY Zenon, <1>2, <2>1 DEF SendCreate, Finish
      <4> QED BY <4>1, Reported
    <3> QED BY <1>2, <2>1, <3>1 DEF SendCreate
  <2>2. CASE ~signal
    BY <1>2, <2>2 DEF SendCreate
  <2> QED BY <2>1, <2>2
<1>3. CASE Created
  <2>1. server' \in [state: {"open"}, content: Seq(Versions)] /\ server'.content = server.content
    BY <1>3 DEF Created
  <2>2. pc' \in {"cancelling", "refreshingFirst", "loop", "aborting"} /\ result' = NoResult
    BY <1>3 DEF Created, Begin
  <2> QED BY SMTT(30), <1>3, <2>1, <2>2 DEF Created
<1>4. CASE NotCreated
  <2>1. server' \in [state: {"none", "open"}, content: Seq(Versions)] /\ server'.content = server.content
    BY <1>4 DEF NotCreated
  <2>2. result'.kind \in {"refused", "createThrown"} /\ result'.abort = "none"
        /\ result' \in [kind: Kinds, abort: {"none", "confirmed", "unconfirmed"}, sha256: BOOLEAN]
    BY <1>4 DEF NotCreated
  <2> QED BY SMTT(30), <1>4, <2>1, <2>2 DEF NotCreated
<1>5. CASE SendChunk
  BY <1>5 DEF SendChunk
<1>6. CASE LoopCancelled
  BY <1>6 DEF LoopCancelled
<1>7. CASE ReadThrows
  BY <1>7 DEF ReadThrows
<1>8. CASE ChunkAccepted
  <2>1. server'.content \in Seq(Versions) /\ Len(server'.content) = offset + 1
        /\ server' \in [state: States, content: Seq(Versions)] /\ server'.state = "open"
    <3>1. chunk \in Versions /\ server.content \in Seq(Versions)
      BY <1>8 DEF ChunkAccepted
    <3>2. Append(server.content, chunk) \in Seq(Versions)
          /\ Len(Append(server.content, chunk)) = Len(server.content) + 1
      BY <3>1, Appended
    <3>3. server' = [server EXCEPT !.content = Append(server.content, chunk)]
          /\ server.state = "open" /\ Len(server.content) = offset
      BY <1>8 DEF ChunkAccepted
    <3> QED BY <3>2, <3>3
  <2>2. offset' = offset + 1 /\ offset + 1 \in 0..size
    BY SMTT(30), <1>8 DEF ChunkAccepted
  <2>3. TypeOK' /\ OffsetArrived'
    <3>1. refreshed' \in BOOLEAN
      BY Zenon, <1>8 DEF ChunkAccepted
    <3> QED BY SMTT(30), <1>8, <2>1, <2>2, <3>1 DEF ChunkAccepted
  <2>4. SendsCounted'
    <3>1. sends' = 0
      BY <1>8 DEF ChunkAccepted
    <3>2. attempts' = 0
      BY <1>8 DEF ChunkAccepted
    <3>3. pc' = "loop"
      BY <1>8 DEF ChunkAccepted
    <3> QED BY <3>1, <3>2, <3>3
  <2>5. pc' = "loop" /\ result' = NoResult
    BY <1>8 DEF ChunkAccepted
  <2>6. Lifecycle' /\ UnpublishedStaysSo' /\ AbortTruthful' /\ SuccessMeansSource'
    BY <2>1, <2>5
  <2> QED BY <2>3, <2>4, <2>6
<1>9. CASE ChunkCancelled
  BY <1>9 DEF ChunkCancelled
<1>10. CASE ChunkTimesOut
  BY <1>10 DEF ChunkTimesOut, CountTimeout, MayRetry
<1>11. CASE ChunkOutOfOrder
  BY <1>11 DEF ChunkOutOfOrder, MayRetry
<1>12. CASE ChunkTokenRefused
  BY <1>12 DEF ChunkTokenRefused
<1>13. CASE ChunkRetried
  BY <1>13 DEF ChunkRetried, MayRetry
<1>14. CASE ChunkFails
  BY <1>14 DEF ChunkFails, MayRetry
<1>15. CASE ChunkThrows
  BY <1>15 DEF ChunkThrows
<1>16. CASE Wake
  BY <1>16 DEF Wake
<1>17. CASE Refreshed
  <2>1. Received \in 0..size
    OBVIOUS
  <2>2. CASE pc = "refreshingFirst"
    BY <1>17, <2>1, <2>2 DEF Refreshed, TokenRefreshed, Begin
  <2>3. CASE pc = "refreshingTimeout"
    BY <1>17, <2>1, <2>3 DEF Refreshed, TokenRefreshed, Begin
  <2>4. CASE pc = "refreshingToken"
    <3>1. offset' \in {Received, offset} /\ pc' = "loop"
      BY <1>17, <2>4 DEF Refreshed
    <3>2. refreshed' = TokenRefreshed
      BY <1>17 DEF Refreshed
    <3>3. refreshed' /\ refreshed' \in BOOLEAN
      BY Zenon, <2>4, <3>2 DEF TokenRefreshed
    <3>4. TypeOK' /\ OffsetArrived' /\ Lifecycle'
      BY <1>17, <2>1, <2>4, <3>1, <3>3 DEF Refreshed
    <3>5. SendsCounted'
      BY <1>17, <2>4, <3>1, <3>3 DEF Refreshed
    <3> QED BY <1>17, <2>4, <3>4, <3>5 DEF Refreshed
  <2> QED BY <1>17, <2>2, <2>3, <2>4 DEF Refreshed, Refreshing
<1>18. CASE NotRefreshed
  <2>1. CASE pc = "refreshingFirst"
    BY SMTT(30), <1>18, <2>1 DEF NotRefreshed, TokenRefreshed, Unrefreshed, Begin
  <2>2. CASE pc = "refreshingTimeout"
    BY <1>18, <2>2 DEF NotRefreshed, TokenRefreshed, Unrefreshed
  <2>3. CASE pc = "refreshingToken"
    BY <1>18, <2>3 DEF NotRefreshed, TokenRefreshed, Unrefreshed
  <2> QED BY <1>18, <2>1, <2>2, <2>3 DEF NotRefreshed, Refreshing
<1>19. CASE RefreshThrows
  BY <1>19 DEF RefreshThrows, Refreshing
<1>20. CASE Abort
  <2>1. PICK answer \in AbortAnswers :
          /\ answer = "deleted" => server.state = "open"
          /\ server' \in
               (IF answer = "deleted" THEN {} ELSE {server})
                 \cup (IF server.state = "open" /\ answer \in {"deleted", "none"}
                       THEN {[server EXCEPT !.state = "aborted"]} ELSE {})
          /\ Finish(IF pc = "cancelling" THEN "cancelled" ELSE "failed",
                    IF AbortConfirmed(answer) THEN "confirmed" ELSE "unconfirmed", FALSE)
    BY <1>20 DEF Abort
  <2>2. server' \in [state: {"open", "expired", "aborted"}, content: Seq(Versions)]
        /\ server'.content = server.content
    BY <1>20, <2>1 DEF Abort
  <2>3. answer = "deleted" => server'.state = "aborted"
    BY <2>1
  <2>4. /\ result'.kind \in {"cancelled", "failed"} /\ result'.abort \in {"confirmed", "unconfirmed"}
        /\ result'.abort = "confirmed" => answer = "deleted"
        /\ result' \in [kind: Kinds, abort: {"none", "confirmed", "unconfirmed"}, sha256: BOOLEAN]
        /\ pc' = "done"
    BY <2>1 DEF AbortConfirmed
  <2> QED BY <1>20, <2>2, <2>3, <2>4 DEF Abort
<1>21. CASE SendComplete
  BY <1>21 DEF SendComplete
<1>22. CASE Completed
  BY <1>22 DEF Completed, Publishable, Verify, Mismatch
<1>23. CASE CompleteAccepted
  BY SMTT(30), <1>23 DEF CompleteAccepted, Publishable
<1>24. CASE CompleteFails
  <2>1. server' \in [state: States, content: Seq(Versions)] /\ server'.content = server.content
    BY <1>24 DEF CompleteFails
  <2>2. result'.kind \in {"commitError", "commitThrown"} /\ result'.abort = "none" /\ pc' = "done"
        /\ result' \in [kind: Kinds, abort: {"none", "confirmed", "unconfirmed"}, sha256: BOOLEAN]
    BY <1>24 DEF CompleteFails
  <2> QED BY <1>24, <2>1, <2>2 DEF CompleteFails
<1>25. CASE PollSucceeded
  BY <1>25 DEF PollSucceeded, Verify, Mismatch
<1>26. CASE PollFails
  BY <1>26 DEF PollFails
<1>27. CASE SettleEnds
  BY <1>27 DEF SettleEnds, StillRunning
<1>28. CASE Cancel
  BY <1>28 DEF Cancel
<1>29. CASE SourceChanges
  BY <1>29 DEF SourceChanges
<1>30. CASE LateChunk
  <2>1. PICK c \in late :
          /\ server.state = "open" /\ Received = c.offset
          /\ server' = [server EXCEPT !.content = Append(@, c.version)]
          /\ late' = late \ {c}
    BY <1>30 DEF LateChunk
  <2>2. server'.content \in Seq(Versions) /\ Len(server'.content) = Received + 1
        /\ server' \in [state: States, content: Seq(Versions)] /\ server'.state = "open"
    <3>1. c.version \in Versions /\ server.content \in Seq(Versions)
      BY <2>1
    <3>2. Append(server.content, c.version) \in Seq(Versions)
          /\ Len(Append(server.content, c.version)) = Len(server.content) + 1
      BY <3>1, Appended
    <3> QED BY <2>1, <3>2
  <2>3. Received' <= size
    BY SMTT(30), <2>1, <2>2
  <2>4. TypeOK' /\ OffsetArrived'
    BY SMTT(30), <1>30, <2>1, <2>2, <2>3 DEF LateChunk
  <2>5. Lifecycle' /\ SendsCounted' /\ UnpublishedStaysSo' /\ AbortTruthful' /\ SuccessMeansSource'
    BY <1>30, <2>1, <2>2 DEF LateChunk
  <2> QED BY <2>4, <2>5
<1>31. CASE ServerMoves
  <2>1. /\ server' \in [state: {"expired", "published", "failed"}, content: Seq(Versions)]
        /\ server'.content = server.content
        /\ server'.state = "expired" => server.state = "open"
        /\ server'.state # "expired" => server.state = "committing"
    BY <1>31 DEF ServerMoves
  <2>2. TypeOK' /\ OffsetArrived'
    BY <1>31, <2>1 DEF ServerMoves
  <2>3. Lifecycle' /\ SendsCounted' /\ UnpublishedStaysSo' /\ AbortTruthful' /\ SuccessMeansSource'
    BY <1>31, <2>1 DEF ServerMoves
  <2> QED BY <2>2, <2>3
<1>32. CASE UNCHANGED vars
  BY <1>32 DEF vars
<1> QED BY <1>1, <1>2, <1>3, <1>4, <1>5, <1>6, <1>7, <1>8, <1>9, <1>10, <1>11, <1>12, <1>13, <1>14, <1>15, <1>16, <1>17, <1>18, <1>19, <1>20, <1>21, <1>22, <1>23, <1>24, <1>25, <1>26, <1>27, <1>28, <1>29, <1>30, <1>31, <1>32 DEF Next, Tool, Environment

LEMMA Invariance == Spec => []IndInv
BY InitInv, StepInv, PTL DEF Spec

\* The type invariant of the upload.
THEOREM TypeCorrect == Spec => []TypeOK
<1>1. IndInv => TypeOK
  BY DEF IndInv
<1> QED BY <1>1, Invariance, PTL

\* Publication is requested for whole files only.
THEOREM WholeFiles == Spec => []CompleteOnlyWhole
<1>1. IndInv => CompleteOnlyWhole
  BY SizeAssumption DEF IndInv, TypeOK, OffsetArrived, CompleteOnlyWhole, Received
<1> QED BY <1>1, Invariance, PTL

\* A cancelled or failed upload stays unpublished.
THEOREM Unpublished == Spec => []UnpublishedStaysSo
<1>1. IndInv => UnpublishedStaysSo
  BY DEF IndInv
<1> QED BY <1>1, Invariance, PTL

\* A confirmed abort is one.
THEOREM TruthfulAbort == Spec => []AbortTruthful
<1>1. IndInv => AbortTruthful
  BY DEF IndInv
<1> QED BY <1>1, Invariance, PTL

\* A verified success is a faithful copy.
THEOREM FaithfulCopy == Spec => []SuccessMeansSource
<1>1. IndInv => SuccessMeansSource
  BY DEF IndInv
<1> QED BY <1>1, Invariance, PTL

\* No more than MaxAttempts + 2 requests between two accepted chunks.
THEOREM BoundedSends == Spec => []SendsBounded
<1>1. IndInv => SendsBounded
  BY AttemptsAssumption DEF IndInv, TypeOK, SendsCounted, SendsBounded, MaxSends
<1> QED BY <1>1, Invariance, PTL

-----------------------------------------------------------------------------
(* Progress, up to fairness: what the tool has still to do gets less.      *)

\* Chunks to hash and chunks to send.
Left == (size - Len(digest)) + (size - offset)

\* The waits that failures of one chunk can still cost.
Retries == 3 * ((MaxAttempts - attempts) + (IF refreshed THEN 0 ELSE 1))

Budget ==
  CASE pc = "done" -> 0
    [] pc \in {"settling", "aborting", "cancelling"} -> 1
    [] pc = "completing" -> 2
    [] pc = "refreshingToken" -> Retries + 2
    [] pc = "sending" -> Retries + 3
    [] pc = "loop" -> Retries + 4
    [] pc \in {"sleeping", "refreshingTimeout", "refreshingFirst"} -> Retries + 5
    [] pc = "creating" -> Retries + 6
    [] pc = "hashing" -> Retries + 7

Lower == Left' < Left \/ (Left' = Left /\ Budget' < Budget)

LEMMA BudgetIsFinite ==
  IndInv => /\ Left \in 0..2 * MaxSize
            /\ Budget \in 0..3 * MaxAttempts + 10
            /\ Budget = 0 <=> pc = "done"
<1> SUFFICES ASSUME IndInv
             PROVE  /\ Left \in 0..2 * MaxSize
                    /\ Budget \in 0..3 * MaxAttempts + 10
                    /\ Budget = 0 <=> pc = "done"
  OBVIOUS
<1>1. Left \in 0..2 * MaxSize
  BY SizeAssumption DEF IndInv, TypeOK, Left
<1>2. Retries \in 0..3 * MaxAttempts + 3
  BY AttemptsAssumption DEF IndInv, TypeOK, Retries
<1>3. pc \in Waits
  BY DEF IndInv, TypeOK
<1>4. Budget \in 0..Retries + 7 /\ (Budget = 0 <=> pc = "done")
  <2>1. Retries \in Nat
    BY <1>2, AttemptsAssumption
  <2>2. CASE pc = "done"
    <3>1. Budget = 0
      BY <2>2 DEF Budget
    <3> QED BY <2>1, <2>2, <3>1
  <2>3. CASE pc # "done"
    <3>1. Budget \in 1..Retries + 7
      BY SMTT(30), <1>3, <2>1, <2>3 DEF Waits, Budget
    <3> QED BY <2>1, <2>3, <3>1
  <2> QED BY <2>2, <2>3
<1>5. Budget \in 0..3 * MaxAttempts + 10
  BY <1>2, <1>4, AttemptsAssumption
<1> QED BY <1>1, <1>4, <1>5

LEMMA SameLeft == ASSUME UNCHANGED <<size, digest, offset>> PROVE Left' = Left
BY Zenon DEF Left

LEMMA SameRetries == ASSUME UNCHANGED <<attempts, refreshed>> PROVE Retries' = Retries
BY Zenon DEF Retries

LEMMA SameBudget == ASSUME UNCHANGED <<pc, attempts, refreshed>> PROVE Budget' = Budget
BY Zenon DEF Budget, Retries

\* Each step of the tool leaves less to do; a failure that costs a chunk's
\* retries never costs chunks that arrived.
LEMMA ToolAdvances == ASSUME IndInv, Tool PROVE Lower
<1> USE SizeAssumption, AttemptsAssumption
<1>1. TypeOK /\ Received \in 0..size /\ offset <= Received
  BY DEF IndInv, TypeOK, OffsetArrived, Received
<1>2. Len(digest) \in 0..size /\ size \in Nat /\ offset \in 0..size /\ MaxAttempts \in Nat
      /\ attempts \in 0..MaxAttempts
  BY <1>1 DEF TypeOK
<1>3. Retries \in Nat
  BY <1>2 DEF Retries
<1> USE DEF Finish, GoOn, fileVars, progressVars
<1>4. CASE HashChunk
  <2>1. CASE source = None
    <3>1. Left' = Left
      BY Zenon, <1>4, <2>1, SameLeft DEF HashChunk
    <3>2. pc = "hashing" /\ pc' = "done"
      BY Zenon, <1>4, <2>1 DEF HashChunk
    <3> QED BY <1>3, <3>1, <3>2 DEF Lower, Budget
  <2>2. CASE source # None
    <3>1. Len(digest') = Len(digest) + 1
      BY <1>1, <1>4, <2>2, Appended DEF HashChunk, TypeOK
    <3>2. UNCHANGED <<size, offset>>
      BY Zenon, <1>4, <2>2 DEF HashChunk
    <3> QED BY <1>2, <3>1, <3>2 DEF Lower, Left
  <2> QED BY <2>1, <2>2
<1>5. CASE SendCreate \/ Created \/ NotCreated
  <2>1. Left' = Left /\ Retries' = Retries
    BY Zenon, <1>5, SameLeft, SameRetries DEF SendCreate, Created, NotCreated
  <2>2. \/ pc = "hashing" /\ pc' \in {"creating", "done"}
        \/ pc = "creating" /\ pc' \in {"refreshingFirst", "loop", "aborting", "cancelling", "done"}
    BY <1>5 DEF SendCreate, Created, NotCreated, Begin
  <2> QED BY <1>3, <2>1, <2>2 DEF Lower, Budget
<1>6. CASE SendChunk \/ LoopCancelled \/ ReadThrows \/ ChunkCancelled \/ ChunkFails \/ ChunkThrows \/ Wake
  <2>1. Left' = Left /\ Retries' = Retries
    BY Zenon, <1>6, SameLeft, SameRetries
       DEF SendChunk, LoopCancelled, ReadThrows, ChunkCancelled, ChunkFails, ChunkThrows, Wake
  <2>2. \/ pc = "loop" /\ pc' \in {"sending", "cancelling", "done"}
        \/ pc = "sending" /\ pc' \in {"cancelling", "aborting", "done"}
        \/ pc = "sleeping" /\ pc' = "loop"
    BY <1>6 DEF SendChunk, LoopCancelled, ReadThrows, ChunkCancelled, ChunkFails, ChunkThrows, Wake
  <2> QED BY <1>3, <2>1, <2>2 DEF Lower, Budget
<1>7. CASE ChunkAccepted
  <2>1. offset' = offset + 1 /\ UNCHANGED <<size, digest>>
    BY Zenon, <1>7 DEF ChunkAccepted
  <2> QED BY <1>2, <2>1 DEF Lower, Left
<1>8. CASE ChunkTimesOut \/ ChunkRetried
  <2>1. Left' = Left
    BY Zenon, <1>8, SameLeft DEF ChunkTimesOut, ChunkRetried
  <2>2. attempts' = attempts + 1 /\ refreshed' = refreshed
    BY Zenon, <1>8 DEF ChunkTimesOut, ChunkRetried, CountTimeout
  <2>3. attempts' \in 0..MaxAttempts
    BY <1>2, <1>8, <2>2 DEF ChunkTimesOut, ChunkRetried, MayRetry
  <2>4. Retries' = Retries - 3
    BY <1>2, <2>2 DEF Retries
  <2>5. pc = "sending" /\ pc' \in {"refreshingTimeout", "sleeping"}
    BY Zenon, <1>8 DEF ChunkTimesOut, ChunkRetried
  <2> QED BY <1>3, <2>1, <2>4, <2>5 DEF Lower, Budget
<1>9. CASE ChunkOutOfOrder
  <2>1. offset' = Received /\ Received # offset /\ UNCHANGED <<size, digest>>
    BY Zenon, <1>9 DEF ChunkOutOfOrder
  <2> QED BY <1>1, <1>2, <2>1 DEF Lower, Left
<1>10. CASE ChunkTokenRefused
  <2>1. Left' = Left /\ Retries' = Retries
    BY Zenon, <1>10, SameLeft, SameRetries DEF ChunkTokenRefused
  <2>2. pc = "sending" /\ pc' = "refreshingToken"
    BY Zenon, <1>10 DEF ChunkTokenRefused
  <2> QED BY <1>3, <2>1, <2>2 DEF Lower, Budget
<1>11. CASE Refreshed \/ NotRefreshed
  <2>1. offset' \in {Received, offset} /\ refreshed' = TokenRefreshed /\ UNCHANGED <<size, digest, attempts>>
    BY Zenon, <1>11 DEF Refreshed, NotRefreshed, Unrefreshed
  <2>2. Left' < Left \/ Left' = Left
    <3>1. CASE offset' = offset
      BY Zenon, <2>1, <3>1, SameLeft
    <3>2. CASE offset' # offset
      BY <1>1, <1>2, <2>1, <3>2 DEF Left
    <3> QED BY <3>1, <3>2
  <2>3. CASE pc = "refreshingToken"
    <3>1. refreshed' = TRUE
      BY Zenon, <2>1, <2>3 DEF TokenRefreshed
    <3>2. ~refreshed
      BY <2>3 DEF IndInv, SendsCounted
    <3>3. Retries' = Retries - 3
      BY <1>2, <2>1, <3>1, <3>2 DEF Retries
    <3>4. pc' \in {"loop", "aborting"}
      BY <1>11, <2>3 DEF Refreshed, NotRefreshed
    <3> QED BY <1>3, <2>2, <2>3, <3>3, <3>4 DEF Lower, Budget
  <2>4. CASE pc # "refreshingToken"
    <3>1. refreshed' = refreshed
      <4>1. TokenRefreshed <=> refreshed
        BY <2>4 DEF TokenRefreshed
      <4>2. TokenRefreshed \in BOOLEAN /\ refreshed \in BOOLEAN
        BY Zenon, <1>1 DEF TokenRefreshed, TypeOK
      <4> QED BY Zenon, <2>1, <4>1, <4>2
    <3>2. Retries' = Retries
      BY Zenon, <2>1, <3>1, SameRetries
    <3>3. pc \in {"refreshingFirst", "refreshingTimeout"}
      BY <1>11, <2>4 DEF Refreshed, NotRefreshed, Refreshing
    <3>4. pc' \in {"loop", "aborting"}
      BY <1>11, <3>3 DEF Refreshed, NotRefreshed, Begin
    <3> QED BY <1>3, <2>2, <3>2, <3>3, <3>4 DEF Lower, Budget
  <2> QED BY <2>3, <2>4
<1>12. CASE RefreshThrows \/ Abort
  <2>1. Left' = Left
    BY Zenon, <1>12, SameLeft DEF RefreshThrows, Abort
  <2>2. pc' = "done" /\ pc \in {"refreshingFirst", "refreshingTimeout", "refreshingToken",
                               "cancelling", "aborting"}
    BY <1>12 DEF RefreshThrows, Abort, Refreshing
  <2> QED BY <1>3, <2>1, <2>2 DEF Lower, Budget
<1>13. CASE SendComplete \/ Completed \/ CompleteAccepted \/ CompleteFails
  <2>1. Left' = Left /\ Retries' = Retries
    BY Zenon, <1>13, SameLeft, SameRetries DEF SendComplete, Completed, CompleteAccepted, CompleteFails
  <2>2. \/ pc = "loop" /\ pc' \in {"cancelling", "completing"}
        \/ pc = "completing" /\ pc' \in {"done", "settling"}
    BY <1>13 DEF SendComplete, Completed, CompleteAccepted, CompleteFails, Verify
  <2> QED BY <1>3, <2>1, <2>2 DEF Lower, Budget
<1>14. CASE PollSucceeded \/ PollFails \/ SettleEnds
  <2>1. Left' = Left
    BY Zenon, <1>14, SameLeft DEF PollSucceeded, PollFails, SettleEnds
  <2>2. pc = "settling" /\ pc' = "done"
    BY <1>14 DEF PollSucceeded, PollFails, SettleEnds, Verify
  <2> QED BY <2>1, <2>2 DEF Lower, Budget
<1> QED BY <1>4, <1>5, <1>6, <1>7, <1>8, <1>9, <1>10, <1>11, <1>12, <1>13, <1>14 DEF Tool

LEMMA OthersDoNotDelay == ASSUME Environment PROVE UNCHANGED <<Left, Budget>>
<1>1. UNCHANGED <<pc, size, digest, offset, attempts, refreshed>>
  BY Zenon DEF Environment, Cancel, SourceChanges, LateChunk, ServerMoves, fileVars, progressVars
<1>2. Left' = Left
  BY Zenon, <1>1, SameLeft
<1>3. Budget' = Budget
  BY Zenon, <1>1, SameBudget
<1> QED BY <1>2, <1>3

\* An upload makes finitely many steps: each one of the tool's leaves fewer
\* chunks, or as many and fewer waits, and nothing the client, the file, the
\* API or the network does adds any. When none is left it has answered.
THEOREM UploadIsBounded ==
  Spec => /\ [](/\ Left \in 0..2 * MaxSize
                /\ Budget \in 0..3 * MaxAttempts + 10
                /\ Budget = 0 <=> pc = "done")
          /\ [][/\ Tool => Lower
                /\ Environment => UNCHANGED <<Left, Budget>>]_vars
<1>1. ASSUME IndInv
      PROVE  /\ Tool => Lower
             /\ Environment => UNCHANGED <<Left, Budget>>
  BY <1>1, ToolAdvances, OthersDoNotDelay
<1> QED BY <1>1, BudgetIsFinite, Invariance, PTL
=============================================================================
