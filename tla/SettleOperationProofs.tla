----------------------- MODULE SettleOperationProofs -----------------------
(* What SettleOperation promises, for every waitSeconds, every pause the API *)
(* names, fractions of a second included, and every timeout.                *)
EXTENDS SettleOperation, TLAPS

\* No pause is shorter than the shortest one so far, but for one that ends with
\* the wait, and none outlasts it: the polls so far took their time.
Paced ==
  /\ shortest <= delay
  /\ pc = "calling" => now = 0 /\ polls = 0
  /\ pc = "sleeping" => now < wait /\ polls * shortest <= now
  /\ pc = "polling" => now = wait \/ (now < wait /\ polls * shortest <= now)

\* An operation has no end before it is accepted, and no answer before the call is done.
Unanswered == pc # "done" => result = "none"

IndInv == TypeOK /\ Paced /\ Unanswered /\ EndTruthful /\ WaitKept /\ PollsPaced

LEMMA WaitIsNatural == TypeOK => wait \in Nat
BY WaitAssumption, SecondAssumption DEF TypeOK

\* The pause is the delay, or all the time that is left; it is a tick at least.
LEMMA PauseFits ==
  ASSUME TypeOK, now < wait
  PROVE  Pause \in 1..(wait - now) /\ Pause \in {delay, wait - now}
BY WaitIsNatural, SecondAssumption DEF TypeOK, Pause, Lesser

\* Whatever a busy answer names, the next delay is a tick to thirty seconds, and
\* no shorter than the shortest pause named.
LEMMA BusyDelays ==
  ASSUME TypeOK, shortest <= delay, NEW r \in RetryAfter
  PROVE  /\ DelayAfterBusy(r) \in 1..30 * Second
         /\ Lesser(shortest, r) \in 1..shortest
         /\ Lesser(shortest, r) <= DelayAfterBusy(r)
BY RetryAssumption, SecondAssumption DEF TypeOK, DelayAfterBusy, Lesser

\* What so many longer pauses fit in, so many shorter ones fit in.
LEMMA ShorterPauses ==
  ASSUME NEW n \in Nat, NEW p \in Nat, NEW q \in 1..p, NEW t \in Nat
  PROVE  /\ n * q \in Nat
         /\ n * p <= t => n * q <= t
         /\ n * p < t => n * q < t
<1>1. n * p = n * q + n * (p - q) /\ n * (p - q) >= 0
  OBVIOUS
<1>2. n * q \in Nat /\ n * (p - q) \in Nat /\ n * p \in Nat
  OBVIOUS
<1> QED BY <1>1, <1>2

LEMMA OneMorePoll ==
  ASSUME NEW n \in Nat, NEW p \in Nat
  PROVE  (n + 1) * p = n * p + p /\ (n + 1 - 1) * p = n * p /\ n * p \in Nat
OBVIOUS

LEMMA InitInv == Init => IndInv
<1> SUFFICES ASSUME Init PROVE IndInv
  OBVIOUS
<1>1. wait \in Nat
  BY WaitAssumption, SecondAssumption DEF Init
<1>2. TypeOK
  <2>1. signal \in BOOLEAN /\ id \in BOOLEAN
    BY Zenon DEF Init
  <2>2. delay \in 1..30 * Second /\ shortest \in 1..Second
    BY SecondAssumption DEF Init
  <2> QED BY <2>1, <2>2 DEF Init, TypeOK, Operations, Results
<1>3. Paced /\ Unanswered /\ EndTruthful
  BY SecondAssumption DEF Init, Paced, Unanswered, EndTruthful, Ended
<1>4. WaitKept /\ PollsPaced
  BY <1>1, RequestAssumption DEF Init, WaitKept, PollsPaced
<1> QED BY <1>2, <1>3, <1>4 DEF IndInv

\* A poll, whatever it is answered, comes back later and asks for no other pause
\* than a busy answer may name.
LEMMA PollsKeepTime ==
  ASSUME IndInv, PollBusy \/ PollGoesOn \/ PollEnds \/ PollFails
  PROVE  /\ pc = "polling" /\ now' \in now..now + RequestTime
         /\ UNCHANGED <<signal, wait, id, polls, operation>>
         /\ delay' \in 1..30 * Second
         /\ shortest' \in 1..shortest /\ shortest' <= delay'
<1>1. TypeOK /\ shortest <= delay
  BY DEF IndInv, Paced
<1>2. /\ pc = "polling" /\ now' \in now..now + RequestTime
      /\ UNCHANGED <<signal, wait, id, polls, operation>>
  BY DEF PollBusy, PollGoesOn, PollEnds, PollFails, Polled
<1>3. CASE UNCHANGED <<delay, shortest>>
  BY <1>1, <1>2, <1>3, SecondAssumption DEF TypeOK
<1>4. CASE \E r \in RetryAfter : delay' = DelayAfterBusy(r) /\ shortest' = Lesser(shortest, r)
  BY <1>1, <1>2, <1>4, BusyDelays
<1> QED BY <1>3, <1>4 DEF PollBusy, PollGoesOn, PollEnds, PollFails

\* What does not change keeps its type; the rest is left to the caller.
LEMMA TypesKept ==
  ASSUME TypeOK, wait' = wait,
         pc' \in {"calling", "sleeping", "polling", "done"}, signal' \in BOOLEAN,
         id' \in BOOLEAN, now' \in Nat, delay' \in 1..30 * Second, polls' \in Nat,
         shortest' \in 1..Second, result' \in Results, operation' \in Operations
  PROVE  TypeOK'
BY Zenon DEF TypeOK

LEMMA StepInv == IndInv /\ [Next]_vars => IndInv'
<1> SUFFICES ASSUME IndInv, [Next]_vars PROVE IndInv'
  OBVIOUS
<1> USE RequestAssumption, SecondAssumption
<1> USE DEF IndInv, Paced, Unanswered, EndTruthful, WaitKept, PollsPaced
<1>0. /\ pc \in {"calling", "sleeping", "polling", "done"} /\ signal \in BOOLEAN
      /\ id \in BOOLEAN /\ now \in Nat /\ delay \in 1..30 * Second /\ polls \in Nat
      /\ shortest \in 1..Second /\ result \in Results /\ operation \in Operations
      /\ wait \in Nat /\ polls * shortest \in Nat
  <2>1. wait \in Nat
    BY WaitIsNatural
  <2>2. shortest \in Nat /\ polls \in Nat
    BY DEF TypeOK
  <2>3. polls * shortest \in Nat
    BY <2>2, OneMorePoll
  <2> QED BY <2>1, <2>3, Zenon DEF TypeOK
<1>1. CASE Answered
  <2>1. TypeOK'
    <3>1. wait' = wait /\ result' \in Results /\ pc' = "done"
          /\ UNCHANGED <<signal, now, delay, id, polls, shortest, operation>>
      BY <1>1 DEF Answered, Finish, Results
    <3> QED BY <1>0, <3>1, TypesKept
  <2> QED BY <1>0, <1>1, <2>1 DEF Answered, Finish, Ended
<1>2. CASE Accepted
  <2>1. TypeOK'
    <3>1. /\ wait' = wait /\ result' \in Results /\ pc' \in {"sleeping", "done"}
          /\ operation' \in Operations /\ id' = TRUE
          /\ UNCHANGED <<signal, now, delay, polls, shortest>>
      BY <1>0, <1>2 DEF Accepted, Loop, Finish, Results, Operations
    <3> QED BY <1>0, <3>1, TypesKept
  <2> QED BY <1>0, <1>2, <2>1 DEF Accepted, Loop, Finish, Ended
<1>3. CASE Wake
  <2>1. /\ pc = "sleeping" /\ now < wait /\ polls * shortest <= now /\ now' = now + Pause
        /\ shortest <= delay /\ UNCHANGED <<signal, wait, id, shortest, operation>>
    BY <1>3 DEF Wake
  <2>2. Pause \in 1..(wait - now) /\ Pause \in {delay, wait - now}
    BY <2>1, PauseFits
  <2>3. now' \in Nat /\ now' <= wait /\ (now' = wait \/ (now' < wait /\ now' = now + delay))
    BY <1>0, <2>1, <2>2
  <2>4. CASE signal
    <3>1. pc' = "done" /\ result' = "pending" /\ UNCHANGED <<delay, polls>>
      BY <1>3, <2>4 DEF Wake, Finish
    <3>2. TypeOK'
      BY <1>0, <2>1, <2>3, <3>1, TypesKept DEF Results
    <3> QED BY <1>0, <2>1, <2>3, <3>1, <3>2 DEF Ended
  <2>5. CASE ~signal
    <3>1. pc' = "polling" /\ polls' = polls + 1 /\ delay' = Lesser(2 * delay, 5 * Second)
          /\ result' = result
      BY <1>3, <2>5 DEF Wake
    <3>2. delay' \in 1..30 * Second /\ shortest <= delay'
      BY <1>0, <2>1, <3>1 DEF Lesser
    <3>3. TypeOK'
      BY <1>0, <2>1, <2>3, <3>1, <3>2, TypesKept
    <3>4. /\ polls' * shortest' = polls * shortest + shortest
          /\ (polls' - 1) * shortest' = polls * shortest
      BY <1>0, <2>1, <3>1, OneMorePoll
    <3>5. Paced' /\ PollsPaced'
      BY <1>0, <2>1, <2>3, <3>1, <3>2, <3>4
    <3> QED BY <1>0, <2>1, <2>3, <3>1, <3>3, <3>5 DEF Ended
  <2> QED BY <2>4, <2>5
<1>4. CASE PollBusy \/ PollGoesOn \/ PollEnds \/ PollFails
  <2>1. /\ pc = "polling" /\ now' \in now..now + RequestTime
        /\ UNCHANGED <<signal, wait, id, polls, operation>>
        /\ delay' \in 1..30 * Second
        /\ shortest' \in 1..shortest /\ shortest' <= delay'
    BY ONLY <1>4, IndInv, PollsKeepTime
  <2>2. \/ pc' = "sleeping" /\ now' < wait /\ result' = result
        \/ /\ pc' = "done" /\ result' \in Results
           /\ result' \in Ended => result' = operation
    BY <1>4, <2>1 DEF PollBusy, PollGoesOn, PollEnds, PollFails, Loop, Finish, Outcome,
       Results, Ended
  <2>3. ASSUME polls * shortest <= now'
        PROVE  polls' * shortest' <= now'
    <3>1. shortest \in Nat /\ shortest' \in 1..shortest /\ polls \in Nat /\ now' \in Nat
      BY <1>0, <2>1
    <3> QED BY <2>1, <2>3, <3>1, ShorterPauses, Zenon
  <2>4. ASSUME polls > 0
        PROVE  (polls' - 1) * shortest' < wait'
    <3> DEFINE n == polls - 1
    <3>1. n \in Nat /\ n * shortest < wait
      BY <1>0, <2>4
    <3>2. shortest \in Nat /\ shortest' \in 1..shortest /\ wait \in Nat
      BY <1>0, <2>1
    <3> HIDE DEF n
    <3>3. n * shortest' < wait
      BY <3>1, <3>2, ShorterPauses, Zenon
    <3> QED BY <2>1, <3>3 DEF n
  <2>5. TypeOK'
    BY <1>0, <2>1, <2>2, TypesKept
  <2>6. Paced'
    <3>1. CASE pc' = "done"
      BY <2>1, <3>1
    <3>2. CASE pc' = "sleeping"
      <4>1. now < wait /\ now' < wait' /\ now <= now'
        BY <1>0, <2>1, <2>2, <3>2
      <4>2. polls * shortest <= now'
        BY <1>0, <2>1, <4>1
      <4> QED BY <2>1, <2>3, <3>2, <4>1, <4>2
    <3> QED BY <2>2, <3>1, <3>2
  <2>7. WaitKept' /\ Unanswered' /\ EndTruthful'
    BY <1>0, <2>1, <2>2
  <2> QED BY <2>1, <2>4, <2>5, <2>6, <2>7
<1>5. CASE Cancel
  <2>1. TypeOK'
    BY <1>0, <1>5, TypesKept DEF Cancel
  <2> QED BY <1>5, <2>1 DEF Cancel
<1>6. CASE Operate
  <2>1. operation' \in Operations /\ operation \notin Ended
    BY <1>6 DEF Operate, Operations, Ended
  <2>2. TypeOK'
    BY <1>0, <1>6, <2>1, TypesKept DEF Operate
  <2> QED BY <1>6, <2>1, <2>2 DEF Operate
<1>7. CASE UNCHANGED vars
  BY <1>7 DEF vars, TypeOK
<1> QED BY <1>1, <1>2, <1>3, <1>4, <1>5, <1>6, <1>7 DEF Next

LEMMA Invariance == Spec => []IndInv
BY InitInv, StepInv, PTL DEF Spec

\* The type invariant of the polling loop.
THEOREM TypeCorrect == Spec => []TypeOK
<1>1. IndInv => TypeOK
  BY DEF IndInv
<1> QED BY <1>1, Invariance, PTL

\* The end that is answered is the end of the operation.
THEOREM TruthfulEnd == Spec => []EndTruthful
<1>1. IndInv => EndTruthful
  BY DEF IndInv
<1> QED BY <1>1, Invariance, PTL

\* The caller waits for waitSeconds and one request at most.
THEOREM WaitIsKept == Spec => []WaitKept
<1>1. IndInv => WaitKept
  BY DEF IndInv
<1> QED BY <1>1, Invariance, PTL

\* Without a shorter pause named by the API, no two polls but the last are less than
\* a second apart, and with one, never less than the shortest.
THEOREM PollsArePaced == Spec => []PollsPaced
<1>1. IndInv => PollsPaced
  BY DEF IndInv
<1> QED BY <1>1, Invariance, PTL

-----------------------------------------------------------------------------
(* Progress, up to fairness: what the tool has still to do gets less.      *)

Tool == Answered \/ Accepted \/ Wake \/ PollBusy \/ PollGoesOn \/ PollEnds \/ PollFails

\* A pause and a poll for every tick that is left of the wait.
StepsLeft ==
  CASE pc = "done" -> 0
    [] pc = "sleeping" -> 2 * (wait - now) + 1
    [] pc \in {"calling", "polling"} -> 2 * (wait - now) + 2

LEMMA StepsAreFew ==
  IndInv => StepsLeft \in 0..2 * wait + 2 /\ (StepsLeft = 0 <=> pc = "done")
BY WaitIsNatural DEF IndInv, TypeOK, Paced, StepsLeft

\* A busy answer, a pause the API names and an operation that never ends all
\* use up the wait.
LEMMA ToolAdvances == ASSUME IndInv, Tool PROVE StepsLeft' < StepsLeft
<1>1. /\ wait \in Nat /\ now \in Nat
      /\ pc \in {"sleeping", "polling"} => now <= wait
      /\ pc = "calling" => now = 0
  BY WaitIsNatural DEF IndInv, TypeOK, Paced
<1>2. CASE Answered \/ PollEnds \/ PollFails
  <2>1. pc \in {"calling", "polling"} /\ pc' = "done"
    BY <1>2 DEF Answered, PollEnds, PollFails, Polled, Finish
  <2> QED BY <1>1, <2>1 DEF StepsLeft
<1>3. CASE Accepted \/ PollBusy \/ PollGoesOn
  <2>1. /\ pc \in {"calling", "polling"} /\ now' >= now /\ now' \in Nat /\ wait' = wait
        /\ pc' = "done" \/ (pc' = "sleeping" /\ now' < wait)
    BY <1>1, <1>3, RequestAssumption DEF Accepted, PollBusy, PollGoesOn, Polled, Loop, Finish
  <2> QED BY <1>1, <2>1 DEF StepsLeft
<1>4. CASE Wake
  <2>1. Pause \in 1..(wait - now)
    BY <1>4, PauseFits DEF Wake, IndInv, Paced
  <2>2. pc = "sleeping" /\ now' = now + Pause /\ wait' = wait /\ pc' \in {"done", "polling"}
    BY <1>4 DEF Wake, Finish
  <2> QED BY <1>1, <2>1, <2>2 DEF StepsLeft
<1> QED BY <1>2, <1>3, <1>4 DEF Tool

LEMMA OthersDoNotDelay == ASSUME Cancel \/ Operate PROVE StepsLeft' = StepsLeft
BY DEF Cancel, Operate, StepsLeft

\* Following an operation takes at most a pause and a poll for every tick of the
\* wait, however busy the API is, however short the pauses it names, and whatever
\* becomes of the operation.
THEOREM WaitIsBounded ==
  Spec => /\ [](StepsLeft \in 0..2 * wait + 2 /\ (StepsLeft = 0 <=> pc = "done"))
          /\ [][/\ Tool => StepsLeft' < StepsLeft
                /\ Cancel \/ Operate => StepsLeft' = StepsLeft]_vars
<1>1. ASSUME IndInv
      PROVE  /\ Tool => StepsLeft' < StepsLeft
             /\ Cancel \/ Operate => StepsLeft' = StepsLeft
  BY <1>1, ToolAdvances, OthersDoNotDelay
<1> QED BY <1>1, StepsAreFew, Invariance, PTL
=============================================================================
