------------------------------ MODULE ToolUse ------------------------------
(***************************************************************************)
(* One tool call after another: a client picks a tool from the list its    *)
(* connection is shown, the policy lets the call through or not, the       *)
(* handler sends its request, and the answer (of the API, of a web server  *)
(* in front of it, or none) is told to the client, which may repeat the    *)
(* same call when the answer or the tool's annotations say it can.         *)
(*                                                                         *)
(* What differs from tool to tool is a row of the catalogue (ToolRows):    *)
(* the constants hold the rows and what src/remote-policy.ts makes of them *)
(* (ToolPolicy). The request of an attempt can be carried out at any time  *)
(* after it was sent, also when its caller has given up.                   *)
(***************************************************************************)
EXTENDS Naturals, ToolRows, ScopeRules

CONSTANTS
  Profiles,     \* "stdio" is the local server, the others are hosted
  Grants,       \* the sets of scopes a connection can have
  Access,       \* which profile can have which grant
  Tools,        \* Tools[p][t]: the row of tool t under profile p
  Advertised,   \* Advertised[p][t]: its annotations as listed
  Needs,        \* Needs[p][t]: the scope it requires under a hosted profile
  OrdersOnly,   \* registered only for a connection that may call them
  OwnWork,      \* tools that only act on what the same session started
  OpenRepeats,  \* tools that are repeated without a key to tell it by
  MaxAttempts,  \* bound: how often one call is made
  MaxPolls,     \* polls of one call (15 in the code)
  None

ASSUME AccessAssumption == Access \subseteq Profiles \X Grants
ASSUME RowsAssumption == \A p \in Profiles : \A t \in DOMAIN Tools[p] : Tools[p][t] \in Row
ASSUME GrantsAssumption == Grants \subseteq SUBSET AllScopes
ASSUME BoundsAssumption == MaxAttempts \in Nat \ {0} /\ MaxPolls \in Nat
ASSUME NoneAssumption == None \notin Grants

VARIABLES
  profile,  \* of the connection
  grant,    \* its scopes now
  phase,
  call,     \* the tool, whether the customer's acknowledgement and a key are in
  attempt,
  fate,     \* of each attempt's request, at the API
  under,    \* the grant each attempt was let through with
  work,     \* what a polling tool waits for, at the API
  polls,    \* polls of this attempt
  answer    \* what the client was told last

vars == <<profile, grant, phase, call, attempt, fate, under, work, polls, answer>>
connection == <<profile, grant>>

Attempts == 1..MaxAttempts
Phases == {"idle", "chosen", "looking", "waiting", "polling", "answered"}
InFlight == {"chosen", "looking", "waiting", "polling"}
Fates == {"unsent", "waiting", "applied", "replayed", "refused", "dropped"}
\* retry_read and outcome_unknown are what describeNonApiResponse says of a
\* gateway's page, and page is what is left of it without that guidance;
\* failed is any other failure.
Answers == {"none", "done", "refused", "retry_read", "outcome_unknown", "page", "failed",
            "pending"}

Tool == call.tool
facts == Tools[profile][Tool]
listed == Advertised[profile][Tool]
Hosted == profile # "stdio"

TypeOK ==
  /\ <<profile, grant>> \in Access
  /\ phase \in Phases
  /\ phase # "idle" => Tool \in DOMAIN Tools[profile]
  /\ call.agreed \in BOOLEAN /\ call.keyed \in BOOLEAN
  /\ attempt \in 0..MaxAttempts
  /\ fate \in [Attempts -> Fates]
  /\ under \in [Attempts -> Grants \cup {None}]
  /\ work \in {"none", "running", "ended"}
  /\ polls \in 0..MaxPolls
  /\ answer \in Answers

NoCall == [tool |-> None, agreed |-> FALSE, keyed |-> FALSE]

Fresh ==
  /\ attempt' = 0
  /\ fate' = [i \in Attempts |-> "unsent"]
  /\ under' = [i \in Attempts |-> None]
  /\ work' = "none"
  /\ polls' = 0
  /\ answer' = "none"

Init ==
  /\ \E access \in Access : profile = access[1] /\ grant = access[2]
  /\ phase = "idle"
  /\ call = NoCall
  /\ attempt = 0
  /\ fate = [i \in Attempts |-> "unsent"]
  /\ under = [i \in Attempts |-> None]
  /\ work = "none"
  /\ polls = 0
  /\ answer = "none"

-----------------------------------------------------------------------------
(* The policy.                                                             *)

\* The tools of the profile; those of orders only under their own scopes.
Registered(scopes, t) ==
  /\ t \in DOMAIN Tools[profile]
  /\ profile = "orders" /\ t \in OrdersOnly =>
       scopes \cap orderScopes # {} /\ hasScope(scopes, Needs[profile][t])

Permitted(scopes, t) == Hosted => hasScope(scopes, Needs[profile][t])

-----------------------------------------------------------------------------
(* The client and the customer.                                            *)

\* A tool of the list. The schema wants the key where it is required; the
\* acknowledgement is the customer's to give or not.
Choose(t) ==
  /\ phase = "idle"
  /\ Registered(grant, t)
  /\ \E agreed, keyed \in BOOLEAN :
       /\ agreed => Tools[profile][t].asks
       /\ CASE Tools[profile][t].key = "none" -> ~keyed
            [] Tools[profile][t].key = "required" -> keyed
            [] OTHER -> TRUE
       /\ call' = [tool |-> t, agreed |-> agreed, keyed |-> keyed]
  /\ attempt' = 1
  /\ phase' = "chosen"
  /\ UNCHANGED <<connection, fate, under, work, polls, answer>>

\* The customer changes a hosted connection's scopes before the call arrives.
Regrant ==
  /\ phase = "chosen" /\ Hosted
  /\ \E g \in Grants : <<profile, g>> \in Access /\ grant' = g
  /\ UNCHANGED <<profile, phase, call, attempt, fate, under, work, polls, answer>>

\* What makes a client call again with the same arguments: a key, which the
\* server's instructions ask it to keep; annotations that call a repetition
\* harmless; or an answer that says so.
SafeToRepeat == call.keyed \/ listed.idempotent \/ listed.readOnly
MayRepeat ==
  \/ answer = "retry_read"
  \/ answer \in {"page", "failed", "outcome_unknown", "pending"} /\ SafeToRepeat

Repeat ==
  /\ phase = "answered"
  /\ MayRepeat
  /\ attempt < MaxAttempts
  /\ attempt' = attempt + 1
  /\ phase' = "chosen"
  /\ polls' = 0
  /\ answer' = "none"
  /\ UNCHANGED <<connection, call, fate, under, work>>

\* The client turns to something else once nothing of the call is under way.
Finish ==
  /\ phase = "answered"
  /\ \A i \in Attempts : fate[i] # "waiting"
  /\ phase' = "idle"
  /\ call' = NoCall
  /\ Fresh
  /\ UNCHANGED connection

-----------------------------------------------------------------------------
(* The server: policy, first request, the request.                         *)

Tell(what) == phase' = "answered" /\ answer' = what

Send ==
  /\ phase' = "waiting"
  /\ fate' = [fate EXCEPT ![attempt] = "waiting"]

\* The tool is registered under the scopes of this request, they permit it,
\* and a literal acknowledgement its schema asks for is there.
LetThrough ==
  /\ Registered(grant, Tool) /\ Permitted(grant, Tool)
  /\ facts.asks => call.agreed

Refuse ==
  /\ phase = "chosen"
  /\ ~LetThrough
  /\ Tell("refused")
  /\ UNCHANGED <<connection, call, attempt, fate, under, work, polls>>

Dispatch ==
  /\ phase = "chosen"
  /\ LetThrough
  /\ under' = [under EXCEPT ![attempt] = grant]
  /\ IF facts.before = "nothing"
     THEN Send
     ELSE phase' = "looking" /\ UNCHANGED fate
  /\ UNCHANGED <<connection, call, attempt, work, polls, answer>>

\* What a page of the web server in front of the API is told as: for a
\* request that counts as a read, and for one that does not. Refitted
\* answers keep the word that the outcome is unknown, not the other.
GatewayOfRead ==
  CASE facts.answer = "raw" -> "retry_read"
    [] facts.answer = "inspect" -> "outcome_unknown"
    [] OTHER -> "page"
GatewayOfChange == IF facts.answer = "bare" THEN "page" ELSE "outcome_unknown"

\* The status, the options, or the quote that the handler asks for first.
LookPasses ==
  /\ phase = "looking"
  /\ Send
  /\ UNCHANGED <<connection, call, attempt, under, work, polls, answer>>

LookFails ==
  /\ phase = "looking"
  /\ Tell("refused") \/ Tell("failed")
     \/ Tell(IF facts.before = "read" THEN GatewayOfRead ELSE GatewayOfChange)
  /\ UNCHANGED <<connection, call, attempt, fate, under, work, polls>>

-----------------------------------------------------------------------------
(* The API: an attempt's request is carried out, refused, or never arrives *)
(* there, whether or not its caller still waits.                           *)

\* A key the API has carried out already is answered from what it stored.
\* What a request queues is followed by its own attempt only.
Apply(i) ==
  /\ fate[i] = "waiting"
  /\ IF call.keyed /\ \E j \in Attempts : fate[j] = "applied"
     THEN fate' = [fate EXCEPT ![i] = "replayed"] /\ UNCHANGED work
     ELSE /\ fate' = [fate EXCEPT ![i] = "applied"]
          /\ work' \in IF facts.polls /\ i = attempt THEN {"running", "ended"} ELSE {work}
  /\ UNCHANGED <<connection, phase, call, attempt, under, polls, answer>>

TurnAway(i) ==
  /\ fate[i] = "waiting"
  /\ \E turned \in {"refused", "dropped"} : fate' = [fate EXCEPT ![i] = turned]
  /\ UNCHANGED <<connection, phase, call, attempt, under, work, polls, answer>>

WorkEnds ==
  /\ work = "running"
  /\ work' = "ended"
  /\ UNCHANGED <<connection, phase, call, attempt, fate, under, polls, answer>>

-----------------------------------------------------------------------------
(* The server: answers.                                                    *)

OfApi == {"applied", "replayed"}
Awaiting == phase = "waiting"
Told == UNCHANGED <<connection, call, attempt, fate, under, work, polls>>

PassOn ==
  /\ Awaiting /\ fate[attempt] \in OfApi
  /\ work # "running"
  /\ Tell("done")
  /\ Told

\* Queued work is followed until it has ended.
Follow ==
  /\ Awaiting /\ fate[attempt] \in OfApi
  /\ facts.polls
  /\ phase' = "polling"
  /\ UNCHANGED answer
  /\ Told

\* A success that does not fit the contract is told as a failure.
Misfit ==
  /\ Awaiting /\ fate[attempt] \in OfApi
  /\ \/ facts.answer = "fitted" /\ Tell("failed")
     \/ facts.answer = "inspect" /\ Tell("outcome_unknown")
  /\ Told

\* The API's refusal, or a page that says the request never reached it.
PassRefusal ==
  /\ Awaiting /\ fate[attempt] \in {"refused", "dropped"}
  /\ Tell(IF facts.answer = "inspect" THEN "outcome_unknown" ELSE "refused")
  /\ Told

\* HTTP 502, 503 or 504 from the web server in front, at any point.
Gateway ==
  /\ Awaiting
  /\ Tell(IF facts.reads THEN GatewayOfRead ELSE GatewayOfChange)
  /\ Told

\* The time is over, or the connection broke.
Thrown ==
  /\ Awaiting
  /\ Tell("failed")
  /\ Told

\* Slip: the last poll is not counted.
PollsLeft_OneMore == polls <= MaxPolls
PollsLeft == polls < MaxPolls
\* Slip: the count starts again at its limit.
NextPoll_Wraps == IF polls + 1 = MaxPolls THEN 0 ELSE polls + 1
NextPoll == polls + 1

Poll == phase = "polling" /\ PollsLeft /\ polls' = NextPoll
Polled == UNCHANGED <<connection, call, attempt, fate, under, work>>

PollGoesOn ==
  /\ Poll
  /\ work = "running"
  /\ UNCHANGED <<phase, answer>>
  /\ Polled

PollEnds ==
  /\ Poll
  /\ work = "ended"
  /\ Tell("done")
  /\ Polled

\* A poll that fails ends the call with its own answer, that of a read.
PollFails ==
  /\ Poll
  /\ Tell(GatewayOfRead) \/ Tell("failed")
  /\ Polled

PollsSpent ==
  /\ phase = "polling" /\ ~PollsLeft
  /\ Tell("pending")
  /\ Told

-----------------------------------------------------------------------------

ServerStep ==
  \/ Refuse \/ Dispatch \/ LookPasses \/ LookFails
  \/ PassOn \/ Follow \/ Misfit \/ PassRefusal \/ Gateway \/ Thrown
  \/ PollGoesOn \/ PollEnds \/ PollFails \/ PollsSpent

Next ==
  \/ \E t \in DOMAIN Tools[profile] : Choose(t)
  \/ Regrant \/ Repeat \/ Finish
  \/ ServerStep
  \/ \E i \in Attempts : Apply(i) \/ TurnAway(i)
  \/ WorkEnds

\* Every request has a timer and every loop a limit; nothing is assumed of
\* the API, the work it queues, the client or the customer.
Spec == Init /\ [][Next]_vars /\ WF_vars(ServerStep)

-----------------------------------------------------------------------------
(* Properties.                                                             *)

needed == Needs[profile][Tool]
Disclosed == DisclosedBy(listed)

\* Nothing a call did goes beyond what its annotations said of the tool, unless
\* the customer acknowledged this very call: a client that lets calls through
\* by readOnlyHint and destructiveHint is not misled by any path of the code
\* that fills them in, late corrections included.
ImpactDisclosed ==
  \A i \in Attempts :
    fate[i] = "applied" => Levels[facts.change] <= Disclosed \/ call.agreed

\* However a call is repeated and however late its requests arrive, a change that
\* does not settle is made once. Left out are the tools of OpenRepeats when they are
\* called without a key: nothing tells a repetition of theirs from a new call.
RepeatsApplyOnce ==
  \A i, j \in Attempts :
    /\ i # j
    /\ fate[i] = "applied" /\ fate[j] = "applied"
    => \/ facts.settles \/ facts.change = "nothing"
       \/ Tool \in OpenRepeats /\ ~call.keyed

\* "idempotentHint: true" (src/index.ts, request_restore, invoke_function): calling
\* the tool again with the same arguments, with or without a key, changes nothing
\* more.
IdempotentAppliesOnce ==
  \A i, j \in Attempts :
    /\ i # j
    /\ fate[i] = "applied" /\ fate[j] = "applied"
    /\ listed.idempotent
    => facts.settles \/ facts.change = "nothing"

\* A refused call did nothing and never will; a success was carried out, and
\* what it queued has ended; and a gateway's page in place of the answer is
\* told as a read that can be retried, or without a word on the outcome, only
\* of what can be made again without harm. A poll's page is told as a read's, and
\* is left out; "failed" says nothing of what became of a request.
AnswersTruthful ==
  phase = "answered" =>
    /\ answer = "refused" => fate[attempt] \in {"unsent", "refused", "dropped"}
    /\ answer = "done" => fate[attempt] \in OfApi /\ work # "running"
    /\ answer = "pending" => fate[attempt] \in OfApi /\ polls = MaxPolls
    /\ answer \in {"retry_read", "page"} /\ polls = 0 /\ fate[attempt] # "unsent"
         => facts.settles \/ facts.change # "alters"

\* Whatever a hosted connection's scopes were when the call was let through,
\* the consent page named what the tool needs, and scopes that only read alter
\* nothing, but for a GET that also repairs and a session's own work; a charge
\* was acknowledged by the customer under a scope said to charge. The local
\* server asks, or calls the tool destructive.
ConsentCovers ==
  \A i \in Attempts :
    fate[i] \in OfApi =>
      /\ Hosted => /\ needed \in ShownScopes(under[i])
                   /\ under[i] \subseteq ReadScopes /\ facts.change = "alters"
                        => facts.reads \/ Tool \in OwnWork
      /\ facts.asks => call.agreed
      /\ facts.pays => IF Hosted
                     THEN call.agreed /\ needed \in under[i] \cap billing
                     ELSE call.agreed \/ Disclosed = 2

\* Every call is answered, even if the API never answers and the work it
\* queued never ends.
CallEnds == phase \in InFlight ~> phase = "answered"
=============================================================================
