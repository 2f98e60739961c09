--------------------------- MODULE OrderService ---------------------------
(***************************************************************************)
(* The order_service tool of the stdio profile (src/index.ts): a quote,    *)
(* the customer's approval, one paid confirmation, and every later call    *)
(* replaying that confirmation's outcome. Tool calls run concurrently in   *)
(* one event loop: a handler is atomic up to its await, then resumes when  *)
(* its HTTP exchange ends, is answered, or times out. The process may      *)
(* restart and forget both tables. The order API is external: it processes *)
(* a request once, at any time after it was sent, even when the client has *)
(* given up on it.                                                         *)
(*                                                                         *)
(* Abstractions: a configuration stands for its SHA-256 (distinct          *)
(* configurations hash differently); the API issues one quote per key, so  *)
(* a quote token is named by the key it was issued for.                    *)
(***************************************************************************)
EXTENDS Naturals, FiniteSets

CONSTANTS
  Calls,      \* tool calls; each invokes the tool once
  Keys,       \* idempotency keys
  Configs,    \* order configurations: plan, os, period, resources, payment...
  Totals,     \* gross EUR amounts
  serviceOrderQuoteCapacity,
  None

ASSUME CapacityAssumption == serviceOrderQuoteCapacity \in Nat
ASSUME CallsAssumption == IsFiniteSet(Calls)
ASSUME KeysAssumption == IsFiniteSet(Keys)
ASSUME NoneAssumption == None \notin Keys \cup Configs \cup Totals

VARIABLES
  serviceOrderQuotes,          \* the retained quotes, by key
  serviceOrderQuotesInFlight,  \* keys whose quote request has not returned
  calls,                       \* the state of each tool call
  http,                        \* the HTTP exchange of each tool call
  issued,                      \* the API: the quote issued for each key
  expired,                     \* the API: keys whose quote has expired
  charges                      \* the API: the purchase each request caused

clientVars == <<serviceOrderQuotes, serviceOrderQuotesInFlight, calls>>
apiVars == <<issued, expired, charges>>
vars == <<clientVars, http, apiVars>>

Confirmations == {"none", "pending", "accepted", "rejected", "unresolved", "unknown"}
Settled == Confirmations \ {"none", "pending"}

Refusals == {"orderConfigurationChanged", "orderQuoteUnavailable",
             "purchaseConfirmationRequired", "orderQuoteChanged",
             "orderQuotePending", "orderAttemptCapacityReached",
             "orderQuoteInvalid"}
Replies == Refusals \cup Settled \cup {"quote", "apiError", "thrown"}

ASSUME NoneIsNoReply == None \notin Replies

Args == [key: Keys, cfg: Configs, token: Keys \cup {None},
         total: Totals \cup {None}, ack: BOOLEAN]

NoQuote == [cfg |-> None, total |-> None, confirmation |-> "none"]
Quote == [cfg: Configs, total: Totals, confirmation: Confirmations]

NewCall == [pc |-> "new", key |-> None, cfg |-> None, approved |-> None, reply |-> None]
Call == [pc: {"new", "quoting", "confirming", "done", "lost"},
         key: Keys \cup {None}, cfg: Configs \cup {None},
         approved: Totals \cup {None}, reply: Replies \cup {None}]

Idle == [state |-> "idle", total |-> None]
Exchange == [state: {"idle", "quoteSent", "confirmSent", "quoted", "unusable",
                     "error", "accepted", "rejected", "unresolved"},
             total: Totals \cup {None}]

NoIssue == [cfg |-> None, total |-> None]
Issue == [cfg: Configs, total: Totals]

TypeOK ==
  /\ serviceOrderQuotes \in [Keys -> Quote \cup {NoQuote}]
  /\ serviceOrderQuotesInFlight \subseteq Keys
  /\ calls \in [Calls -> Call]
  /\ http \in [Calls -> Exchange]
  /\ issued \in [Keys -> Issue \cup {NoIssue}]
  /\ expired \subseteq Keys
  /\ charges \in [Calls -> Issue \cup {NoIssue}]

Init ==
  /\ serviceOrderQuotes = [k \in Keys |-> NoQuote]
  /\ serviceOrderQuotesInFlight = {}
  /\ calls = [c \in Calls |-> NewCall]
  /\ http = [c \in Calls |-> Idle]
  /\ issued = [k \in Keys |-> NoIssue]
  /\ expired = {}
  /\ charges = [c \in Calls |-> NoIssue]

-----------------------------------------------------------------------------
(* The handler, up to its first await.                                     *)

prior(k) == serviceOrderQuotes[k]
Retained == {k \in Keys : prior(k) # NoQuote}

\* Any of the three confirmation fields makes the call a confirmation.
confirming(a) == a.token # None \/ a.total # None \/ a.ack

\* The customer's explicit approval, as the tool's contract defines it.
ApprovedBy(a) == IF a.ack THEN a.total ELSE None

Enter(c, a, pc, reply) ==
  /\ calls[c].pc = "new"
  /\ calls' = [calls EXCEPT ![c] =
       [pc |-> pc, key |-> a.key, cfg |-> a.cfg,
        approved |-> ApprovedBy(a), reply |-> reply]]

Answer(c, a, reply) ==
  /\ Enter(c, a, "done", reply)
  /\ UNCHANGED <<serviceOrderQuotes, serviceOrderQuotesInFlight, http, apiVars>>

SameConfiguration(a) == prior(a.key) # NoQuote => prior(a.key).cfg = a.cfg

RefuseChanged(c, a) ==
  /\ ~SameConfiguration(a)
  /\ Answer(c, a, "orderConfigurationChanged")

RefuseUnavailable(c, a) ==
  /\ confirming(a)
  /\ prior(a.key) = NoQuote
  /\ Answer(c, a, "orderQuoteUnavailable")

\* Slip: the token alone is taken for the approval.
Complete_NoAcknowledgement(a) == a.total # None /\ a.token = a.key

\* Acknowledged, with a total and the token of the retained quote.
Complete(a) == a.ack /\ a.total # None /\ a.token = a.key

RefuseIncomplete(c, a) ==
  /\ confirming(a)
  /\ prior(a.key) # NoQuote /\ SameConfiguration(a)
  /\ ~Complete(a)
  /\ Answer(c, a, "purchaseConfirmationRequired")

RefuseTotal(c, a) ==
  /\ prior(a.key) # NoQuote /\ SameConfiguration(a)
  /\ Complete(a) /\ a.total # prior(a.key).total
  /\ Answer(c, a, "orderQuoteChanged")

Confirmable(a) ==
  /\ prior(a.key) # NoQuote /\ SameConfiguration(a)
  /\ Complete(a) /\ a.total = prior(a.key).total

\* Slip: a settled confirmation may be sent again.
MaySendConfirmation_AfterOutcome(k) == prior(k).confirmation # "pending"

\* prior.confirmation ??= ... : only the first confirmation sends a request.
MaySendConfirmation(k) == prior(k).confirmation = "none"

SendConfirmation(c, a) ==
  /\ Confirmable(a) /\ MaySendConfirmation(a.key)
  /\ Enter(c, a, "confirming", None)
  /\ serviceOrderQuotes' = [serviceOrderQuotes EXCEPT ![a.key].confirmation = "pending"]
  /\ http' = [http EXCEPT ![c] = [state |-> "confirmSent", total |-> None]]
  /\ UNCHANGED <<serviceOrderQuotesInFlight, apiVars>>

\* A later call awaits the promise of the first one, whatever its state.
JoinConfirmation(c, a) ==
  /\ \/ Confirmable(a)
     \/ ~confirming(a) /\ prior(a.key) # NoQuote /\ SameConfiguration(a)
  /\ prior(a.key).confirmation # "none"
  /\ Enter(c, a, "confirming", None)
  /\ UNCHANGED <<serviceOrderQuotes, serviceOrderQuotesInFlight, http, apiVars>>

\* Slip: the outcome is kept, not the promise of it.
ShowsQuote_UntilOutcome(k) == prior(k).confirmation \notin Settled

\* prior.confirmation ?? quote
ShowsQuote(k) == prior(k).confirmation = "none"

ReplayQuote(c, a) ==
  /\ ~confirming(a)
  /\ prior(a.key) # NoQuote /\ SameConfiguration(a)
  /\ ShowsQuote(a.key)
  /\ Answer(c, a, "quote")

RefusePending(c, a) ==
  /\ ~confirming(a) /\ prior(a.key) = NoQuote
  /\ a.key \in serviceOrderQuotesInFlight
  /\ Answer(c, a, "orderQuotePending")

\* Slip: only stored quotes are counted.
AtCapacity_StoredOnly == Cardinality(Retained) >= serviceOrderQuoteCapacity

AtCapacity ==
  Cardinality(Retained) + Cardinality(serviceOrderQuotesInFlight)
    >= serviceOrderQuoteCapacity

RefuseCapacity(c, a) ==
  /\ ~confirming(a) /\ prior(a.key) = NoQuote
  /\ a.key \notin serviceOrderQuotesInFlight
  /\ AtCapacity
  /\ Answer(c, a, "orderAttemptCapacityReached")

\* Slip: no look at the in-flight table.
MayRequestQuote_Unserialized(k) == prior(k) = NoQuote /\ ~AtCapacity_StoredOnly

MayRequestQuote(k) ==
  /\ prior(k) = NoQuote
  /\ k \notin serviceOrderQuotesInFlight
  /\ ~AtCapacity

SendQuote(c, a) ==
  /\ ~confirming(a) /\ MayRequestQuote(a.key)
  /\ Enter(c, a, "quoting", None)
  /\ serviceOrderQuotesInFlight' = serviceOrderQuotesInFlight \cup {a.key}
  /\ http' = [http EXCEPT ![c] = [state |-> "quoteSent", total |-> None]]
  /\ UNCHANGED <<serviceOrderQuotes, apiVars>>

-----------------------------------------------------------------------------
(* The handler, after its await.                                           *)

Return(c, reply) ==
  calls' = [calls EXCEPT ![c] = [@ EXCEPT !.pc = "done", !.reply = reply]]

\* Slip: an answer without an amount is stored as it is.
Retain_Unvalidated(c, usable) ==
  [serviceOrderQuotes EXCEPT ![calls[c].key] =
     [cfg |-> calls[c].cfg, total |-> http[c].total, confirmation |-> "none"]]

\* What the table holds after the quote request of call c ended this way.
Retain(c, usable) ==
  IF usable
  THEN [serviceOrderQuotes EXCEPT ![calls[c].key] =
          [cfg |-> calls[c].cfg, total |-> http[c].total, confirmation |-> "none"]]
  ELSE serviceOrderQuotes

\* The finally block: the key leaves the in-flight set however the await ended.
LeaveInFlight(c) == serviceOrderQuotesInFlight \ {calls[c].key}

QuoteReply(state) ==
  CASE state = "quoted" -> "quote"
    [] state = "unusable" -> "orderQuoteInvalid"
    [] state = "error" -> "apiError"

ReceiveQuote(c) ==
  /\ calls[c].pc = "quoting"
  /\ http[c].state \in {"quoted", "unusable", "error"}
  /\ Return(c, QuoteReply(http[c].state))
  /\ serviceOrderQuotes' = Retain(c, http[c].state = "quoted")
  /\ serviceOrderQuotesInFlight' = LeaveInFlight(c)
  /\ UNCHANGED <<http, apiVars>>

\* apiRequest throws: its own deadline, or the transport failed.
QuoteThrows(c) ==
  /\ calls[c].pc = "quoting"
  /\ Return(c, "thrown")
  /\ serviceOrderQuotes' = Retain(c, FALSE)
  /\ serviceOrderQuotesInFlight' = LeaveInFlight(c)
  /\ UNCHANGED <<http, apiVars>>

\* The call whose request the shared promise is waiting for.
Sender(c) == calls[c].pc = "confirming" /\ http[c].state # "idle"

\* Slip: a settled outcome can still be overwritten by a late answer.
Unsettled_Never(k) == prior(k).confirmation # "none"

\* A promise settles once.
Unsettled(k) == prior(k).confirmation = "pending"

SettleConfirmation(c, outcome) ==
  /\ Sender(c) /\ Unsettled(calls[c].key)
  /\ serviceOrderQuotes' =
       [serviceOrderQuotes EXCEPT ![calls[c].key].confirmation = outcome]
  /\ UNCHANGED <<serviceOrderQuotesInFlight, calls, http, apiVars>>

ReceiveConfirmation(c) ==
  /\ http[c].state \in {"accepted", "rejected", "unresolved"}
  /\ SettleConfirmation(c, http[c].state)

\* Slip: a request that got no answer is reported as refused.
ConfirmationThrows_AsRefusal(c) == SettleConfirmation(c, "rejected")

\* Slip: the request has no deadline of its own.
ConfirmationThrows_NoDeadline(c) ==
  http[c].state # "confirmSent" /\ SettleConfirmation(c, "unknown")

\* The catch block: the outcome is unknown, and retained.
ConfirmationThrows(c) == SettleConfirmation(c, "unknown")

\* Every call awaiting the promise gets the same outcome.
ReturnConfirmation(c) ==
  /\ calls[c].pc = "confirming"
  /\ prior(calls[c].key).confirmation \in Settled
  /\ Return(c, prior(calls[c].key).confirmation)
  /\ UNCHANGED <<serviceOrderQuotes, serviceOrderQuotesInFlight, http, apiVars>>

\* The process ends: both tables and every call in progress are gone.
Restart ==
  /\ serviceOrderQuotes' = [k \in Keys |-> NoQuote]
  /\ serviceOrderQuotesInFlight' = {}
  /\ calls' = [c \in Calls |->
       IF calls[c].pc \in {"quoting", "confirming"}
       THEN [calls[c] EXCEPT !.pc = "lost"] ELSE calls[c]]
  /\ UNCHANGED <<http, apiVars>>

-----------------------------------------------------------------------------
(* The order API (external). A request is processed at most once, whether  *)
(* or not the client still waits; its answer may be a gateway error.       *)

Reply(c, state, total) ==
  http' = [http EXCEPT ![c] = [state |-> state, total |-> total]]

ApiIssuesQuote(c, total) ==
  /\ http[c].state = "quoteSent"
  /\ issued[calls[c].key] = NoIssue
  /\ issued' = [issued EXCEPT ![calls[c].key] = [cfg |-> calls[c].cfg, total |-> total]]
  /\ \/ Reply(c, "quoted", total)
     \/ \E state \in {"unusable", "error"} : Reply(c, state, None)
  /\ UNCHANGED <<clientVars, expired, charges>>

\* A second quote for a key, or an order it cannot quote.
ApiRefusesQuote(c) ==
  /\ http[c].state = "quoteSent"
  /\ Reply(c, "error", None)
  /\ UNCHANGED <<clientVars, apiVars>>

ApiQuoteExpires(k) ==
  /\ issued[k] # NoIssue /\ k \notin expired
  /\ expired' = expired \cup {k}
  /\ UNCHANGED <<clientVars, http, issued, charges>>

\* The API does not deduplicate in this model: a valid confirmation charges.
QuoteStands(c) ==
  /\ issued[calls[c].key] # NoIssue
  /\ issued[calls[c].key].cfg = calls[c].cfg
  /\ calls[c].key \notin expired

ApiCharges(c) ==
  /\ http[c].state = "confirmSent" /\ QuoteStands(c)
  /\ charges' = [charges EXCEPT ![c] = issued[calls[c].key]]
  /\ \E state \in {"accepted", "unresolved"} : Reply(c, state, None)
  /\ UNCHANGED <<clientVars, issued, expired>>

ApiRejects(c) ==
  /\ http[c].state = "confirmSent" /\ ~QuoteStands(c)
  /\ Reply(c, "rejected", None)
  /\ UNCHANGED <<clientVars, apiVars>>

\* Insufficient balance, a scope or cap refusal, a gateway error, a pending receipt.
ApiFails(c) ==
  /\ http[c].state = "confirmSent"
  /\ Reply(c, "unresolved", None)
  /\ UNCHANGED <<clientVars, apiVars>>

-----------------------------------------------------------------------------

Handle(c, a) ==
  \/ RefuseChanged(c, a)
  \/ RefuseUnavailable(c, a)
  \/ RefuseIncomplete(c, a)
  \/ RefuseTotal(c, a)
  \/ SendConfirmation(c, a)
  \/ JoinConfirmation(c, a)
  \/ ReplayQuote(c, a)
  \/ RefusePending(c, a)
  \/ RefuseCapacity(c, a)
  \/ SendQuote(c, a)

Resume(c) ==
  \/ ReceiveQuote(c)
  \/ QuoteThrows(c)
  \/ ReceiveConfirmation(c)
  \/ ConfirmationThrows(c)
  \/ ReturnConfirmation(c)

Api(c) ==
  \/ \E total \in Totals : ApiIssuesQuote(c, total)
  \/ ApiRefusesQuote(c)
  \/ ApiCharges(c)
  \/ ApiRejects(c)
  \/ ApiFails(c)

Next ==
  \/ \E c \in Calls, a \in Args : Handle(c, a)
  \/ \E c \in Calls : Resume(c)
  \/ \E c \in Calls : Api(c)
  \/ \E k \in Keys : ApiQuoteExpires(k)
  \/ Restart

Spec == Init /\ [][Next]_vars

\* The event loop runs what is ready, and apiRequest's timer always fires: a
\* call in progress is resumed. Nothing is assumed of callers or of the API.
Fairness == \A c \in Calls : WF_vars(Resume(c))

FairSpec == Spec /\ Fairness

-----------------------------------------------------------------------------
(* Properties.                                                             *)

\* A key has at most one quote request awaited, it is the one the in-flight
\* table shows, and a key with a retained quote has none: no second request
\* can replace a quote the customer has already seen.
OneQuoteRequestPerKey ==
  /\ \A c, d \in Calls :
       calls[c].pc = "quoting" /\ calls[d].pc = "quoting" /\ calls[c].key = calls[d].key
         => c = d
  /\ serviceOrderQuotesInFlight = {calls[c].key : c \in {d \in Calls : calls[d].pc = "quoting"}}
  /\ serviceOrderQuotesInFlight \cap Retained = {}

\* Retained attempts and quote requests in progress together never exceed
\* the capacity, although each is counted long before its quote is stored.
CapacityRespected ==
  Cardinality(Retained) + Cardinality(serviceOrderQuotesInFlight)
    <= serviceOrderQuoteCapacity

\* Over the whole life of a key, process restarts, timeouts and concurrent
\* confirmations included, one paid confirmation at most is sent for it.
Confirmed(c) == http[c].state \in {"confirmSent", "accepted", "rejected", "unresolved"}
OneConfirmationPerKey ==
  \A c, d \in Calls :
    Confirmed(c) /\ Confirmed(d) /\ calls[c].key = calls[d].key => c = d

\* Every call that reports a confirmation outcome for a key reports the same
\* one, before and after a restart: a late answer never rewrites "unknown".
OneOutcomePerKey ==
  \A c, d \in Calls :
    calls[c].reply \in Settled /\ calls[d].reply \in Settled /\ calls[c].key = calls[d].key
      => calls[c].reply = calls[d].reply

\* "accepted" is only said of a purchase that was charged, and "The API
\* refused confirmation before charging" only of a key that never is, not
\* even by a request still travelling.
ChargedFor(k) == \E c \in Calls : calls[c].key = k /\ charges[c] # NoIssue
OutcomeTruthful ==
  \A c \in Calls :
    /\ calls[c].reply = "accepted" => ChargedFor(calls[c].key)
    /\ calls[c].reply = "rejected" => ~ChargedFor(calls[c].key)

\* A call is answered with the quote ("No purchase was confirmed.") only
\* while no confirmation of that key has been sent.
QuoteMeansUnconfirmed ==
  [][\A c \in Calls :
       calls[c].reply = None /\ calls'[c].reply = "quote"
         => \A d \in Calls : Confirmed(d) => calls[d].key # calls'[c].key]_vars

\* Every call that waits is answered, or the process ends under it.
EveryCallAnswered ==
  \A c \in Calls :
    calls[c].pc \in {"quoting", "confirming"} ~> calls[c].pc \in {"done", "lost"}

\* The refinement: an approval is a call's acknowledged total, the ledger is
\* what the API charged. order_service then never charges what no call
\* acknowledged exactly, and never charges a key twice.
approvals ==
  {[key |-> calls[c].key, cfg |-> calls[c].cfg, total |-> calls[c].approved] :
     c \in {d \in Calls : calls[d].approved # None}}
ledger ==
  {[attempt |-> c, key |-> calls[c].key, cfg |-> charges[c].cfg, total |-> charges[c].total] :
     c \in {d \in Calls : charges[d] # NoIssue}}

Abstract == INSTANCE ApprovedPurchase WITH Attempts <- Calls
ApprovedPurchases == Abstract!Spec
=============================================================================
