-------------------------- MODULE SettleOperation --------------------------
(***************************************************************************)
(* settleOperation (src/service-files.ts): a file tool that was answered   *)
(* 202 {operationId} polls the operation itself, with a growing delay,     *)
(* until it ends, waitSeconds are over or the client cancels.              *)
(*                                                                         *)
(* Time passes only in the tool's awaits. It is counted in ticks: the API  *)
(* may name a pause of a fraction of a second, and the finest one there is *)
(* is the millisecond a timer waits at least.                              *)
(***************************************************************************)
EXTENDS Naturals

CONSTANTS
  Second,       \* the ticks of a second
  WaitSeconds,  \* the values of the waitSeconds argument
  RetryAfter,   \* the pauses a busy answer names, in ticks
  RequestTime   \* the longest a request takes before it is given up, in ticks

ASSUME SecondAssumption == Second \in Nat \ {0}
ASSUME WaitAssumption == WaitSeconds \subseteq Nat
ASSUME RetryAssumption == RetryAfter \subseteq Nat \ {0}
ASSUME RequestAssumption == RequestTime \in Nat

VARIABLES
  pc,        \* what the tool awaits
  signal,    \* the client cancelled
  wait,      \* waitSeconds, in ticks
  now,       \* the time since the call was answered
  delay,
  id,        \* the answer named an operation
  polls,     \* history: polls made
  shortest,  \* history: the shortest pause the API named, a second if it named none below
  result,    \* the tool's answer
  operation  \* the API: the operation's state

vars == <<pc, signal, wait, now, delay, id, polls, shortest, result, operation>>

Ended == {"succeeded", "failed", "needsAttention"}
Operations == {"none", "pending", "running"} \cup Ended
\* pending carries the operationId; the three others carry what was answered.
Results == {"none", "pending", "answered", "pollError", "thrown"} \cup Ended

TypeOK ==
  /\ pc \in {"calling", "sleeping", "polling", "done"}
  /\ signal \in BOOLEAN
  /\ wait \in {Second * s : s \in WaitSeconds}
  /\ now \in Nat
  /\ delay \in 1..30 * Second
  /\ id \in BOOLEAN
  /\ polls \in Nat
  /\ shortest \in 1..Second
  /\ result \in Results
  /\ operation \in Operations

Init ==
  /\ pc = "calling"
  /\ signal = FALSE
  /\ wait \in {Second * s : s \in WaitSeconds}
  /\ now = 0
  /\ delay = Second
  /\ id = FALSE
  /\ polls = 0
  /\ shortest = Second
  /\ result = "none"
  /\ operation = "none"

-----------------------------------------------------------------------------

Lesser(a, b) == IF a < b THEN a ELSE b

Finish(kind) == pc' = "done" /\ result' = kind

\* The loop condition, at time t.
Loop(t) ==
  IF t < wait /\ ~signal
  THEN pc' = "sleeping" /\ UNCHANGED result
  ELSE Finish("pending")

\* Answered at once, refused, or 202 without an operation to follow.
Answered ==
  /\ pc = "calling"
  /\ \E kind \in {"answered", "thrown"} : Finish(kind)
  /\ UNCHANGED <<signal, wait, now, delay, id, polls, shortest, operation>>

Accepted ==
  /\ pc = "calling"
  /\ operation' = "pending"
  /\ id' = TRUE
  /\ Loop(now)
  /\ UNCHANGED <<signal, wait, now, delay, polls, shortest>>

\* Slip: the last pause is not cut to the time left.
Pause_Whole == delay

Pause == Lesser(delay, wait - now)

\* The delay doubles up to five seconds; a longer one, named by the API, falls back.
Wake ==
  /\ pc = "sleeping"
  /\ now' = now + Pause
  /\ IF signal
     THEN Finish("pending") /\ UNCHANGED <<delay, polls>>
     ELSE /\ pc' = "polling"
          /\ delay' = Lesser(2 * delay, 5 * Second)
          /\ polls' = polls + 1
          /\ UNCHANGED result
  /\ UNCHANGED <<signal, wait, id, shortest, operation>>

\* A poll takes some time, of its own or until it is given up.
Polled ==
  /\ pc = "polling"
  /\ now' \in now..now + RequestTime
  /\ UNCHANGED <<signal, wait, id, polls, operation>>

\* Slip: the pause, named in seconds, is taken for one in milliseconds.
DelayAfterBusy_AsMilliseconds(r) == r \div 1000

\* Slip: the API's pause is taken as it is.
DelayAfterBusy_Unbounded(r) == r

\* Any pause above zero that a busy answer names is taken, up to 30 seconds.
DelayAfterBusy(r) == Lesser(r, 30 * Second)

PollBusy ==
  /\ Polled
  /\ \/ UNCHANGED <<delay, shortest>>
     \/ \E r \in RetryAfter :
          /\ delay' = DelayAfterBusy(r)
          /\ shortest' = Lesser(shortest, r)
  /\ Loop(now')

PollGoesOn ==
  /\ Polled
  /\ operation \notin Ended
  /\ UNCHANGED <<delay, shortest>>
  /\ Loop(now')

\* Slip: needsAttention is reported as a failure.
Outcome_Failed(state) == IF state = "needsAttention" THEN "failed" ELSE state

Outcome(state) == state

PollEnds ==
  /\ Polled
  /\ operation \in Ended
  /\ UNCHANGED <<delay, shortest>>
  /\ Finish(Outcome(operation))

\* Any answer of 400 and above but 429 is returned as it is; an exception escapes.
PollFails ==
  /\ Polled
  /\ UNCHANGED <<delay, shortest>>
  /\ \E kind \in {"pollError", "thrown"} : Finish(kind)

Cancel ==
  /\ ~signal /\ pc # "done"
  /\ signal' = TRUE
  /\ UNCHANGED <<pc, wait, now, delay, id, polls, shortest, result, operation>>

Operate ==
  /\ \/ operation = "pending" /\ operation' = "running"
     \/ operation = "running" /\ operation' \in Ended
  /\ UNCHANGED <<pc, signal, wait, now, delay, id, polls, shortest, result>>

Next ==
  \/ Answered \/ Accepted
  \/ Wake \/ PollBusy \/ PollGoesOn \/ PollEnds \/ PollFails
  \/ Cancel \/ Operate

Spec == Init /\ [][Next]_vars

-----------------------------------------------------------------------------
(* Properties.                                                             *)

\* What is answered of the operation's end is what became of it; an unknown
\* outcome is never called a failure, which would invite a repeat.
EndTruthful == result \in Ended => operation = result

\* The tool holds its caller no longer than waitSeconds and one last poll,
\* busy answers and their pauses included.
WaitKept == now <= wait + RequestTime

\* Never faster than once a second, unless the API itself named a shorter pause,
\* and then never faster than that: all polls but the last, whose pause the end of
\* the wait may cut short, are that far apart.
PollsPaced == polls > 0 => (polls - 1) * shortest < wait

\* "this tool polls it itself and returns the final answer, or, after
\* waitSeconds, the operationId to continue with" (SLOW).
OperationNotLost == pc = "done" /\ id => result \in Ended \cup {"pending"}
=============================================================================
