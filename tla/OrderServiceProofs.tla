------------------------ MODULE OrderServiceProofs ------------------------
(***************************************************************************)
(* Proofs about OrderService, for any calls, keys, configurations, totals  *)
(* and capacity. The inductive invariant follows one quote from the API's  *)
(* issue to the table, the confirmation and the charge.                    *)
(***************************************************************************)
EXTENDS OrderService, FiniteSetTheorems, TLAPS

-----------------------------------------------------------------------------
(* The inductive invariant.                                                *)

\* What each call's record says of its own HTTP exchange and charge.
CallRecords ==
  \A c \in Calls :
    /\ calls[c].pc = "new" => calls[c] = NewCall /\ http[c] = Idle
    /\ calls[c].pc # "new" => calls[c].key \in Keys /\ calls[c].cfg \in Configs
    /\ calls[c].pc = "quoting" =>
         http[c].state \in {"quoteSent", "quoted", "unusable", "error"}
    /\ charges[c] # NoIssue => http[c].state \in {"accepted", "unresolved"}
    /\ http[c].state = "accepted" => charges[c] # NoIssue

\* A retained or delivered quote is the one the API issued for the key.
QuotesGenuine ==
  /\ \A k \in Keys : prior(k) # NoQuote =>
       issued[k] = [cfg |-> prior(k).cfg, total |-> prior(k).total]
  /\ \A c \in Calls : http[c].state = "quoted" =>
       issued[calls[c].key] = [cfg |-> calls[c].cfg, total |-> http[c].total]

\* A confirmation was sent for exactly the issued quote and approved total.
ConfirmationsApproved ==
  \A c \in Calls : Confirmed(c) =>
    /\ calls[c].approved \in Totals
    /\ issued[calls[c].key] = [cfg |-> calls[c].cfg, total |-> calls[c].approved]

\* While a quote can still be confirmed, nothing was ever sent for its key.
UnconfirmedQuotes ==
  \A d \in Calls : Confirmed(d) =>
    /\ \A c \in Calls : calls[c].pc = "quoting" /\ http[c].state = "quoted" =>
         calls[c].key # calls[d].key
    /\ prior(calls[d].key) # NoQuote => prior(calls[d].key).confirmation # "none"

\* What the shared promise holds is what happened to the one request sent.
Outcome(k, outcome) ==
  /\ outcome # "none" => \E d \in Calls : Confirmed(d) /\ calls[d].key = k
  /\ outcome = "accepted" => ChargedFor(k)
  /\ outcome = "rejected" =>
       \E d \in Calls : http[d].state = "rejected" /\ calls[d].key = k

OutcomesGenuine ==
  /\ \A k \in Keys : Outcome(k, prior(k).confirmation)
  /\ \A c \in Calls : calls[c].reply \in Settled =>
       /\ Outcome(calls[c].key, calls[c].reply)
       /\ prior(calls[c].key) # NoQuote =>
            prior(calls[c].key).confirmation = calls[c].reply

IndInv ==
  /\ TypeOK
  /\ CallRecords
  /\ OneQuoteRequestPerKey
  /\ QuotesGenuine
  /\ ConfirmationsApproved
  /\ UnconfirmedQuotes
  /\ OneConfirmationPerKey
  /\ OutcomesGenuine
  /\ OneOutcomePerKey

-----------------------------------------------------------------------------
(* Type correctness.                                                       *)

LEMMA InitType == Init => TypeOK
  BY DEF Init, TypeOK, NewCall, Call, Idle, Exchange

\* A call that starts gets a well-formed record.
LEMMA EnterType ==
  ASSUME TypeOK, NEW c \in Calls, NEW a \in Args,
         NEW pc \in {"quoting", "confirming", "done"},
         NEW reply \in Replies \cup {None},
         Enter(c, a, pc, reply)
  PROVE  calls' \in [Calls -> Call]
<1>1. ApprovedBy(a) \in Totals \cup {None}
  BY DEF ApprovedBy, Args
<1>2. QED
  BY <1>1 DEF Enter, TypeOK, Call, Args

LEMMA ReturnType ==
  ASSUME TypeOK, NEW c \in Calls, NEW reply \in Replies, Return(c, reply)
  PROVE  calls' \in [Calls -> Call]
<1>1. calls[c] \in Call
  BY DEF TypeOK
<1>2. [calls[c] EXCEPT !.pc = "done", !.reply = reply] \in Call
  BY <1>1 DEF Call
<1>3. QED
  BY <1>2 DEF Return, TypeOK

LEMMA HandleType ==
  ASSUME TypeOK, NEW c \in Calls, NEW a \in Args, Handle(c, a)
  PROVE  TypeOK'
<1>1. ASSUME NEW reply \in Replies, Answer(c, a, reply)  PROVE TypeOK'
  BY <1>1, EnterType DEF Answer, TypeOK, apiVars
<1>2. CASE SendConfirmation(c, a)
  <2>1. calls' \in [Calls -> Call]
    BY <1>2, EnterType DEF SendConfirmation
  <2>2. serviceOrderQuotes' \in [Keys -> Quote \cup {NoQuote}]
    BY <1>2 DEF SendConfirmation, Confirmable, prior, TypeOK, Quote, Confirmations, Args
  <2>3. http' \in [Calls -> Exchange]
    BY <1>2 DEF SendConfirmation, TypeOK, Exchange
  <2>4. QED
    BY <1>2, <2>1, <2>2, <2>3 DEF SendConfirmation, TypeOK, apiVars
<1>3. CASE JoinConfirmation(c, a)
  BY <1>3, EnterType DEF JoinConfirmation, TypeOK, apiVars
<1>4. CASE SendQuote(c, a)
  <2>1. calls' \in [Calls -> Call]
    BY <1>4, EnterType DEF SendQuote
  <2>2. http' \in [Calls -> Exchange]
    BY <1>4 DEF SendQuote, TypeOK, Exchange
  <2>3. QED
    BY <1>4, <2>1, <2>2 DEF SendQuote, TypeOK, apiVars, Args
<1>5. QED
  BY <1>1, <1>2, <1>3, <1>4
  DEF Handle, RefuseChanged, RefuseUnavailable, RefuseIncomplete, RefuseTotal,
      ReplayQuote, RefusePending, RefuseCapacity, Replies, Refusals

LEMMA ResumeType ==
  ASSUME TypeOK, CallRecords, QuotesGenuine, NEW c \in Calls, Resume(c)
  PROVE  TypeOK'
<1>1. CASE ReceiveQuote(c)
  <2>1. QuoteReply(http[c].state) \in Replies
    BY <1>1 DEF ReceiveQuote, QuoteReply, Replies, Refusals
  <2>2. calls' \in [Calls -> Call]
    BY <1>1, <2>1, ReturnType DEF ReceiveQuote
  <2>3. calls[c].key \in Keys /\ calls[c].cfg \in Configs
    BY <1>1 DEF ReceiveQuote, CallRecords
  <2>4. http[c].state = "quoted" => http[c].total \in Totals
    <3>1. SUFFICES ASSUME http[c].state = "quoted"  PROVE http[c].total \in Totals
      OBVIOUS
    <3>2. issued[calls[c].key] = [cfg |-> calls[c].cfg, total |-> http[c].total]
      BY <3>1 DEF QuotesGenuine
    <3>3. issued[calls[c].key] # NoIssue
      BY <2>3, <3>2, NoneAssumption DEF NoIssue
    <3>4. QED
      BY <2>3, <3>2, <3>3 DEF TypeOK, Issue
  <2>5. serviceOrderQuotes' \in [Keys -> Quote \cup {NoQuote}]
    BY <1>1, <2>3, <2>4 DEF ReceiveQuote, Retain, TypeOK, Quote, Confirmations
  <2>6. QED
    BY <1>1, <2>2, <2>5 DEF ReceiveQuote, LeaveInFlight, TypeOK, apiVars
<1>2. CASE QuoteThrows(c)
  <2>1. calls' \in [Calls -> Call]
    BY <1>2, ReturnType DEF QuoteThrows, Replies
  <2>2. QED
    BY <1>2, <2>1 DEF QuoteThrows, Retain, LeaveInFlight, TypeOK, apiVars
<1>3. ASSUME NEW outcome \in Settled, SettleConfirmation(c, outcome)  PROVE TypeOK'
  <2>1. calls[c].key \in Keys
    BY <1>3 DEF SettleConfirmation, Sender, CallRecords
  <2>2. prior(calls[c].key) \in Quote
    BY <1>3, <2>1 DEF SettleConfirmation, Unsettled, prior, TypeOK, NoQuote
  <2>3. serviceOrderQuotes' \in [Keys -> Quote \cup {NoQuote}]
    BY <1>3, <2>1, <2>2
    DEF SettleConfirmation, Settled, prior, TypeOK, Quote, Confirmations
  <2>4. QED
    BY <1>3, <2>3 DEF SettleConfirmation, TypeOK, apiVars
<1>4. CASE ReturnConfirmation(c)
  BY <1>4, ReturnType DEF ReturnConfirmation, Replies, TypeOK, apiVars
<1>5. QED
  BY <1>1, <1>2, <1>3, <1>4
  DEF Resume, ReceiveConfirmation, ConfirmationThrows, Settled, Confirmations

LEMMA ApiType ==
  ASSUME TypeOK, CallRecords, NEW c \in Calls, Api(c)
  PROVE  TypeOK'
<1>1. ASSUME NEW state \in {"quoted", "unusable", "error", "accepted", "rejected", "unresolved"},
             NEW total \in Totals \cup {None}, Reply(c, state, total)
      PROVE  http' \in [Calls -> Exchange]
  BY <1>1 DEF Reply, TypeOK, Exchange
<1>2. ASSUME NEW total \in Totals, ApiIssuesQuote(c, total)  PROVE TypeOK'
  <2>1. http' \in [Calls -> Exchange]
    BY <1>1, <1>2 DEF ApiIssuesQuote
  <2>2. calls[c].key \in Keys /\ calls[c].cfg \in Configs
    BY <1>2 DEF ApiIssuesQuote, CallRecords, Idle
  <2>3. issued' \in [Keys -> Issue \cup {NoIssue}]
    BY <1>2, <2>2 DEF ApiIssuesQuote, TypeOK, Issue
  <2>4. QED
    BY <1>2, <2>1, <2>3 DEF ApiIssuesQuote, TypeOK, clientVars
<1>3. CASE ApiRefusesQuote(c) \/ ApiRejects(c) \/ ApiFails(c)
  BY <1>1, <1>3 DEF ApiRefusesQuote, ApiRejects, ApiFails, TypeOK, clientVars, apiVars
<1>4. CASE ApiCharges(c)
  <2>1. http' \in [Calls -> Exchange]
    BY <1>1, <1>4 DEF ApiCharges
  <2>2. calls[c].key \in Keys
    BY <1>4 DEF ApiCharges, CallRecords, Idle
  <2>3. QED
    BY <1>4, <2>1, <2>2 DEF ApiCharges, TypeOK, clientVars
<1>5. QED
  BY <1>2, <1>3, <1>4 DEF Api

LEMMA RestartType ==
  ASSUME TypeOK, Restart
  PROVE  TypeOK'
BY DEF Restart, TypeOK, Call, apiVars

-----------------------------------------------------------------------------
(* Each group of actions preserves the inductive invariant.                *)

LEMMA InitInv ==
  ASSUME Init
  PROVE  IndInv
<1>2. TypeOK
  BY InitType
<1>3. CallRecords
  BY DEF Init, CallRecords, NewCall, Idle
<1>4. OneQuoteRequestPerKey
  BY DEF Init, OneQuoteRequestPerKey, NewCall
<1>5. QuotesGenuine
  BY DEF Init, QuotesGenuine, prior, Idle
<1>6. ConfirmationsApproved /\ UnconfirmedQuotes /\ OneConfirmationPerKey
  BY DEF Init, ConfirmationsApproved, UnconfirmedQuotes, OneConfirmationPerKey, Confirmed, Idle
<1>7. OutcomesGenuine /\ OneOutcomePerKey
  BY NoneIsNoReply
  DEF Init, OutcomesGenuine, OneOutcomePerKey, Outcome, prior, NoQuote, NewCall, Settled, Confirmations, Replies
<1>8. QED
  BY <1>2, <1>3, <1>4, <1>5, <1>6, <1>7 DEF IndInv

\* The in-flight table, key by key.
InFlightByKey ==
  \A k : k \in serviceOrderQuotesInFlight
        <=> \E c \in Calls : calls[c].pc = "quoting" /\ calls[c].key = k

LEMMA InFlightIs ==
  serviceOrderQuotesInFlight = {calls[c].key : c \in {d \in Calls : calls[d].pc = "quoting"}}
    <=> InFlightByKey
BY DEF InFlightByKey

LEMMA InFlightIsNext ==
  serviceOrderQuotesInFlight' = {calls'[c].key : c \in {d \in Calls : calls'[d].pc = "quoting"}}
    <=> InFlightByKey'
BY DEF InFlightByKey

\* A handler that answers at once, or joins a confirmation already started.
LEMMA EnterInv ==
  ASSUME IndInv, TypeOK', NEW c \in Calls, NEW a \in Args,
         NEW pc \in {"done", "confirming"},
         NEW reply \in (Replies \ Settled) \cup {None},
         Enter(c, a, pc, reply),
         UNCHANGED <<serviceOrderQuotes, serviceOrderQuotesInFlight, http, apiVars>>
  PROVE  IndInv'
<1>1. /\ calls[c] = NewCall /\ http[c] = Idle
      /\ charges[c] = NoIssue
  BY DEF IndInv, CallRecords, Enter, Idle, TypeOK
<1>2. /\ \A d \in Calls : d # c => calls'[d] = calls[d]
      /\ calls'[c].pc = pc /\ calls'[c].key = a.key /\ calls'[c].cfg = a.cfg
      /\ calls'[c].reply = reply /\ a.key \in Keys /\ a.cfg \in Configs
      /\ reply \notin Settled
  BY NoneIsNoReply DEF Enter, IndInv, TypeOK, Args, Replies
<1>3. /\ ~Confirmed(c)
      /\ \A d \in Calls : Confirmed(d)' <=> Confirmed(d)
  BY <1>1 DEF Confirmed, Idle
<1>4. /\ \A k \in Keys : prior(k)' = prior(k)
      /\ \A k : ChargedFor(k) => ChargedFor(k)'
      /\ Retained' = Retained
  BY <1>1, <1>2 DEF prior, ChargedFor, apiVars, Retained
<1>5. CallRecords'
  BY <1>1, <1>2 DEF IndInv, CallRecords, apiVars, Idle
<1>6. OneQuoteRequestPerKey'
  <2>1. InFlightByKey'
    BY <1>1, <1>2, InFlightIs DEF IndInv, OneQuoteRequestPerKey, InFlightByKey, NewCall
  <2>2. QED
    BY <1>2, <1>4, <2>1, InFlightIsNext DEF IndInv, OneQuoteRequestPerKey
<1>7. QuotesGenuine'
  BY <1>1, <1>2, <1>4 DEF IndInv, QuotesGenuine, apiVars, Idle
<1>8. ConfirmationsApproved' /\ OneConfirmationPerKey'
  BY <1>2, <1>3 DEF IndInv, ConfirmationsApproved, OneConfirmationPerKey, apiVars
<1>9. UnconfirmedQuotes'
  BY <1>1, <1>2, <1>3, <1>4 DEF IndInv, UnconfirmedQuotes, Idle, prior
<1>10. \A k, o : Outcome(k, o) => Outcome(k, o)'
  BY <1>1, <1>2, <1>3, <1>4 DEF Outcome, Idle
<1>11. OutcomesGenuine'
  BY <1>2, <1>4, <1>10 DEF IndInv, OutcomesGenuine, TypeOK, prior
<1>12. OneOutcomePerKey'
  BY <1>2 DEF IndInv, OneOutcomePerKey
<1>13. QED
  BY <1>5, <1>6, <1>7, <1>8, <1>9, <1>11, <1>12 DEF IndInv

LEMMA SendConfirmationInv ==
  ASSUME IndInv, TypeOK', NEW c \in Calls, NEW a \in Args, SendConfirmation(c, a)
  PROVE  IndInv'
<1>1. /\ calls[c] = NewCall /\ http[c] = Idle /\ charges[c] = NoIssue
      /\ a.key \in Keys /\ a.cfg \in Configs
  BY DEF SendConfirmation, Enter, IndInv, CallRecords, Idle, TypeOK, Args
<1>2. /\ prior(a.key) # NoQuote /\ prior(a.key).confirmation = "none"
      /\ prior(a.key).cfg = a.cfg /\ prior(a.key).total = a.total
      /\ prior(a.key) \in Quote
      /\ a.ack
  BY <1>1 DEF SendConfirmation, Confirmable, Complete, SameConfiguration,
              MaySendConfirmation, IndInv, TypeOK, prior
<1>3. /\ \A d \in Calls : d # c => calls'[d] = calls[d] /\ http'[d] = http[d]
      /\ calls'[c].pc = "confirming" /\ calls'[c].key = a.key /\ calls'[c].cfg = a.cfg
      /\ calls'[c].reply = None /\ calls'[c].approved = a.total
      /\ http'[c].state = "confirmSent"
      /\ None \notin Settled
  BY <1>1, <1>2, NoneIsNoReply
  DEF SendConfirmation, Enter, ApprovedBy, IndInv, TypeOK, Replies
<1>4. /\ ~Confirmed(c) /\ Confirmed(c)'
      /\ \A d \in Calls : d # c => (Confirmed(d)' <=> Confirmed(d))
  BY <1>1, <1>3 DEF Confirmed, Idle
<1>5. /\ \A k \in Keys : k # a.key => serviceOrderQuotes'[k] = serviceOrderQuotes[k]
      /\ serviceOrderQuotes'[a.key] # NoQuote
      /\ serviceOrderQuotes'[a.key] =
           [cfg |-> a.cfg, total |-> a.total, confirmation |-> "pending"]
      /\ Retained' = Retained
  BY <1>1, <1>2 DEF SendConfirmation, IndInv, TypeOK, prior, Quote, NoQuote, Retained
<1>6. UNCHANGED <<issued, charges, serviceOrderQuotesInFlight>>
  BY DEF SendConfirmation, apiVars
<1>7. \A d \in Calls : Confirmed(d) => calls[d].key # a.key
  BY <1>2 DEF IndInv, UnconfirmedQuotes
<1>8. CallRecords'
  BY <1>1, <1>3, <1>6 DEF IndInv, CallRecords, Idle
<1>9. OneQuoteRequestPerKey'
  <2>1. InFlightByKey'
    BY <1>1, <1>3, <1>6, InFlightIs DEF IndInv, OneQuoteRequestPerKey, InFlightByKey, NewCall
  <2>2. QED
    BY <1>3, <1>5, <1>6, <2>1, InFlightIsNext DEF IndInv, OneQuoteRequestPerKey
<1>10. issued[a.key] = [cfg |-> a.cfg, total |-> a.total] /\ a.total \in Totals
  BY <1>1, <1>2 DEF IndInv, QuotesGenuine, Quote
<1>11. QuotesGenuine'
  <2>1. ASSUME NEW k \in Keys, serviceOrderQuotes'[k] # NoQuote
        PROVE  issued'[k] = [cfg |-> serviceOrderQuotes'[k].cfg,
                             total |-> serviceOrderQuotes'[k].total]
    <3>1. CASE k = a.key
      BY <1>5, <1>6, <1>10, <3>1
    <3>2. CASE k # a.key
      BY <1>5, <1>6, <2>1, <3>2 DEF IndInv, QuotesGenuine, prior
    <3>3. QED
      BY <3>1, <3>2
  <2>2. ASSUME NEW d \in Calls, http'[d].state = "quoted"
        PROVE  issued'[calls'[d].key] = [cfg |-> calls'[d].cfg, total |-> http'[d].total]
    BY <1>3, <1>6, <2>2 DEF IndInv, QuotesGenuine
  <2>3. QED
    BY <2>1, <2>2 DEF QuotesGenuine, prior
<1>12. ConfirmationsApproved'
  BY <1>3, <1>4, <1>6, <1>10 DEF IndInv, ConfirmationsApproved
<1>13. OneConfirmationPerKey'
  BY <1>3, <1>4, <1>7 DEF IndInv, OneConfirmationPerKey
<1>14. UnconfirmedQuotes'
  <2>1. \A d \in Calls : calls[d].pc = "quoting" => calls[d].key # a.key
    BY <1>1, <1>2, InFlightIs DEF IndInv, OneQuoteRequestPerKey, InFlightByKey, Retained
  <2>2. \A d \in Calls : Confirmed(d) => calls[d].key \in Keys
    BY DEF IndInv, CallRecords, Confirmed, Idle
  <2>3. QED
    <3>1. SUFFICES ASSUME NEW d \in Calls, Confirmed(d)'
                   PROVE  /\ \A e \in Calls : calls'[e].pc = "quoting" /\ http'[e].state = "quoted"
                               => calls'[e].key # calls'[d].key
                          /\ serviceOrderQuotes'[calls'[d].key] # NoQuote =>
                               serviceOrderQuotes'[calls'[d].key].confirmation # "none"
      BY DEF UnconfirmedQuotes, prior
    <3>2. CASE d = c
      BY <1>3, <1>5, <2>1, <3>2
    <3>3. CASE d # c
      <4>1. Confirmed(d) /\ calls'[d].key = calls[d].key
        BY <1>3, <1>4, <3>1, <3>3
      <4>2. calls[d].key \in Keys /\ calls[d].key # a.key
        BY <1>7, <2>2, <4>1
      <4>3. QED
        BY <1>3, <1>5, <4>1, <4>2 DEF IndInv, UnconfirmedQuotes, prior
    <3>4. QED
      BY <3>2, <3>3
<1>15. \A k, o : Outcome(k, o) => Outcome(k, o)'
  BY <1>1, <1>3, <1>4, <1>6 DEF Outcome, ChargedFor, Idle
<1>16. OutcomesGenuine'
  <2>1. Outcome(a.key, "pending")'
    BY <1>3, <1>4 DEF Outcome
  <2>2. \A d \in Calls : calls[d].reply \in Settled =>
          calls[d].key # a.key /\ calls[d].key \in Keys
    <3>1. SUFFICES ASSUME NEW d \in Calls, calls[d].reply \in Settled
                   PROVE  calls[d].key # a.key /\ calls[d].key \in Keys
      OBVIOUS
    <3>2. Outcome(calls[d].key, calls[d].reply)
      BY <3>1 DEF IndInv, OutcomesGenuine
    <3>3. calls[d].key # a.key
      BY <1>7, <3>1, <3>2 DEF Outcome, Settled
    <3>4. calls[d].pc # "new"
      BY <1>3, <3>1 DEF IndInv, CallRecords, NewCall
    <3>5. QED
      BY <3>3, <3>4 DEF IndInv, CallRecords
  <2>3. QED
    <3>1. ASSUME NEW k \in Keys  PROVE Outcome(k, serviceOrderQuotes[k].confirmation)'
      <4>1. CASE k = a.key
        BY <1>5, <2>1, <4>1
      <4>2. CASE k # a.key
        <5>1. Outcome(k, serviceOrderQuotes[k].confirmation)
          BY DEF IndInv, OutcomesGenuine, prior
        <5>2. QED
          BY <1>5, <1>15, <4>2, <5>1
      <4>3. QED
        BY <4>1, <4>2
    <3>2. ASSUME NEW d \in Calls, calls'[d].reply \in Settled
          PROVE  /\ Outcome(calls[d].key, calls[d].reply)'
                 /\ serviceOrderQuotes'[calls'[d].key] # NoQuote =>
                      serviceOrderQuotes'[calls'[d].key].confirmation = calls'[d].reply
      <4>1. d # c /\ calls'[d] = calls[d]
        BY <1>3, <3>2
      <4>2. QED
        BY <1>5, <1>15, <2>2, <3>2, <4>1 DEF IndInv, OutcomesGenuine, prior
    <3>3. QED
      BY <3>1, <3>2 DEF OutcomesGenuine, prior
<1>17. OneOutcomePerKey'
  BY <1>3 DEF IndInv, OneOutcomePerKey
<1>18. QED
  BY <1>8, <1>9, <1>11, <1>12, <1>13, <1>14, <1>16, <1>17 DEF IndInv

LEMMA SendQuoteInv ==
  ASSUME IndInv, TypeOK', NEW c \in Calls, NEW a \in Args, SendQuote(c, a)
  PROVE  IndInv'
<1>1. /\ calls[c] = NewCall /\ http[c] = Idle /\ charges[c] = NoIssue
      /\ a.key \in Keys /\ a.cfg \in Configs
  BY DEF SendQuote, Enter, IndInv, CallRecords, Idle, TypeOK, Args
<1>2. /\ prior(a.key) = NoQuote /\ a.key \notin serviceOrderQuotesInFlight
      /\ serviceOrderQuotesInFlight' = serviceOrderQuotesInFlight \cup {a.key}
  BY DEF SendQuote, MayRequestQuote
<1>3. /\ \A d \in Calls : d # c => calls'[d] = calls[d] /\ http'[d] = http[d]
      /\ calls'[c].pc = "quoting" /\ calls'[c].key = a.key /\ calls'[c].cfg = a.cfg
      /\ calls'[c].reply = None
      /\ http'[c].state = "quoteSent"
      /\ None \notin Settled
  BY NoneIsNoReply DEF SendQuote, Enter, IndInv, TypeOK, Replies
<1>4. /\ ~Confirmed(c)
      /\ \A d \in Calls : Confirmed(d)' <=> Confirmed(d)
  BY <1>1, <1>3 DEF Confirmed, Idle
<1>5. UNCHANGED <<serviceOrderQuotes, issued, charges>>
  BY DEF SendQuote, apiVars
<1>6. (\A k : prior(k)' = prior(k)) /\ Retained' = Retained
  BY <1>5 DEF prior, Retained
<1>7. CallRecords'
  BY <1>1, <1>3, <1>5 DEF IndInv, CallRecords, Idle
<1>8. OneQuoteRequestPerKey'
  <2>1. InFlightByKey'
    BY <1>1, <1>2, <1>3, InFlightIs DEF IndInv, OneQuoteRequestPerKey, InFlightByKey, NewCall
  <2>2. \A d \in Calls : calls[d].pc = "quoting" => calls[d].key # a.key
    BY <1>2, InFlightIs DEF IndInv, OneQuoteRequestPerKey, InFlightByKey
  <2>3. a.key \notin Retained
    BY <1>2 DEF Retained
  <2>4. QED
    BY <1>2, <1>3, <1>6, <2>1, <2>2, <2>3, InFlightIsNext DEF IndInv, OneQuoteRequestPerKey
<1>9. QuotesGenuine'
  BY <1>3, <1>5, <1>6 DEF IndInv, QuotesGenuine
<1>10. ConfirmationsApproved' /\ OneConfirmationPerKey'
  BY <1>3, <1>4, <1>5 DEF IndInv, ConfirmationsApproved, OneConfirmationPerKey
<1>11. UnconfirmedQuotes'
  BY <1>3, <1>4, <1>6 DEF IndInv, UnconfirmedQuotes, prior
<1>12. \A k, o : Outcome(k, o) => Outcome(k, o)'
  BY <1>1, <1>3, <1>4, <1>5 DEF Outcome, ChargedFor, Idle
<1>13. OutcomesGenuine'
  BY <1>3, <1>5, <1>12 DEF IndInv, OutcomesGenuine, prior
<1>14. OneOutcomePerKey'
  BY <1>3 DEF IndInv, OneOutcomePerKey
<1>15. QED
  BY <1>7, <1>8, <1>9, <1>10, <1>11, <1>13, <1>14 DEF IndInv

\* A quoting call returns: with a quote it retains, or with nothing.
LEMMA QuoteReturnsInv ==
  ASSUME IndInv, TypeOK', NEW c \in Calls, calls[c].pc = "quoting",
         NEW reply \in Replies \ Settled, Return(c, reply),
         NEW usable \in BOOLEAN, usable => http[c].state = "quoted",
         serviceOrderQuotes' = Retain(c, usable),
         serviceOrderQuotesInFlight' = LeaveInFlight(c),
         UNCHANGED <<http, apiVars>>
  PROVE  IndInv'
<1> DEFINE key == calls[c].key
<1>1. /\ key \in Keys /\ calls[c].cfg \in Configs
      /\ key \in serviceOrderQuotesInFlight /\ serviceOrderQuotes[key] = NoQuote
      /\ \A d \in Calls : d # c /\ calls[d].pc = "quoting" => calls[d].key # key
  BY InFlightIs
  DEF IndInv, CallRecords, OneQuoteRequestPerKey, InFlightByKey, Retained, prior
<1>2. /\ \A d \in Calls : d # c => calls'[d] = calls[d]
      /\ calls'[c].pc = "done" /\ calls'[c].reply = reply /\ calls'[c].key = key
      /\ calls'[c].cfg = calls[c].cfg /\ calls'[c].approved = calls[c].approved
  BY DEF Return, IndInv, TypeOK, Call
<1>3. \A d \in Calls : Confirmed(d)' <=> Confirmed(d)
  BY DEF Confirmed
<1>4. UNCHANGED <<http, issued, charges>>
  BY DEF apiVars
<1>5. /\ \A k \in Keys : k # key => serviceOrderQuotes'[k] = serviceOrderQuotes[k]
      /\ usable => serviceOrderQuotes'[key] =
           [cfg |-> calls[c].cfg, total |-> http[c].total, confirmation |-> "none"]
      /\ ~usable => serviceOrderQuotes' = serviceOrderQuotes
      /\ serviceOrderQuotes'[key].confirmation = "none"
  BY <1>1 DEF Retain, IndInv, TypeOK, NoQuote
<1>6. \A d \in Calls : calls'[d].key = calls[d].key
  BY <1>2
<1>7. CallRecords'
  BY <1>1, <1>2, <1>4 DEF IndInv, CallRecords, NewCall
<1>8. OneQuoteRequestPerKey'
  <2>1. InFlightByKey'
    BY <1>1, <1>2, InFlightIs DEF LeaveInFlight, IndInv, OneQuoteRequestPerKey, InFlightByKey
  <2>2. \A k \in Keys : k \in serviceOrderQuotesInFlight' =>
          k # key /\ serviceOrderQuotes[k] = NoQuote
    BY DEF LeaveInFlight, IndInv, OneQuoteRequestPerKey, Retained, prior
  <2>3. serviceOrderQuotesInFlight' \cap Retained' = {}
    BY <1>5, <2>2 DEF Retained, prior
  <2>4. QED
    BY <1>2, <2>1, <2>3, InFlightIsNext DEF IndInv, OneQuoteRequestPerKey
<1>9. QuotesGenuine'
  <2>1. ASSUME NEW k \in Keys, serviceOrderQuotes'[k] # NoQuote
        PROVE  issued'[k] = [cfg |-> serviceOrderQuotes'[k].cfg,
                             total |-> serviceOrderQuotes'[k].total]
    <3>1. CASE k # key
      BY <1>4, <1>5, <2>1, <3>1 DEF IndInv, QuotesGenuine, prior
    <3>2. CASE k = key
      <4>1. usable
        BY <1>1, <1>5, <2>1, <3>2
      <4>2. issued[key] = [cfg |-> calls[c].cfg, total |-> http[c].total]
        BY <4>1 DEF IndInv, QuotesGenuine
      <4>3. serviceOrderQuotes'[key] =
              [cfg |-> calls[c].cfg, total |-> http[c].total, confirmation |-> "none"]
        BY <1>5, <4>1
      <4>4. serviceOrderQuotes'[key].cfg = calls[c].cfg
              /\ serviceOrderQuotes'[key].total = http[c].total
        BY <4>3
      <4>5. issued' = issued
        BY <1>4
      <4>6. QED
        BY <3>2, <4>2, <4>4, <4>5
    <3>3. QED
      BY <3>1, <3>2
  <2>2. ASSUME NEW d \in Calls, http'[d].state = "quoted"
        PROVE  issued'[calls'[d].key] = [cfg |-> calls'[d].cfg, total |-> http'[d].total]
    BY <1>2, <1>4, <2>2 DEF IndInv, QuotesGenuine
  <2>3. QED
    BY <2>1, <2>2 DEF QuotesGenuine, prior
<1>10. ConfirmationsApproved' /\ OneConfirmationPerKey'
  BY <1>2, <1>3, <1>4 DEF IndInv, ConfirmationsApproved, OneConfirmationPerKey
<1>11. UnconfirmedQuotes'
  <2>1. SUFFICES ASSUME NEW d \in Calls, Confirmed(d)
                 PROVE  /\ \A e \in Calls : calls'[e].pc = "quoting" /\ http'[e].state = "quoted"
                             => calls'[e].key # calls'[d].key
                        /\ serviceOrderQuotes'[calls'[d].key] # NoQuote =>
                             serviceOrderQuotes'[calls'[d].key].confirmation # "none"
    BY <1>3 DEF UnconfirmedQuotes, prior
  <2>2. \A e \in Calls : calls'[e].pc = "quoting" /\ http'[e].state = "quoted"
          => calls'[e].key # calls'[d].key
    BY <1>2, <1>4, <2>1 DEF IndInv, UnconfirmedQuotes
  <2>3. usable => calls[d].key # key
    BY <2>1 DEF IndInv, UnconfirmedQuotes
  <2>4. calls[d].key \in Keys
    BY <2>1 DEF IndInv, CallRecords, Confirmed, Idle
  <2>5. serviceOrderQuotes[calls[d].key] # NoQuote =>
          serviceOrderQuotes[calls[d].key].confirmation # "none"
    BY <2>1 DEF IndInv, UnconfirmedQuotes, prior
  <2>6. QED
    BY <1>5, <1>6, <2>2, <2>3, <2>4, <2>5
<1>12. \A k, o : Outcome(k, o) => Outcome(k, o)'
  BY <1>3, <1>4, <1>6 DEF Outcome, ChargedFor
<1>13. OutcomesGenuine'
  <2>1. ASSUME NEW k \in Keys  PROVE Outcome(k, serviceOrderQuotes[k].confirmation)'
    <3>1. CASE k = key
      BY <1>5, <3>1 DEF Outcome
    <3>2. CASE k # key
      <4>1. Outcome(k, serviceOrderQuotes[k].confirmation)
        BY DEF IndInv, OutcomesGenuine, prior
      <4>2. QED
        BY <1>5, <1>12, <3>2, <4>1
    <3>3. QED
      BY <3>1, <3>2
  <2>2. ASSUME NEW d \in Calls, calls'[d].reply \in Settled
        PROVE  /\ Outcome(calls[d].key, calls[d].reply)'
               /\ serviceOrderQuotes'[calls'[d].key] # NoQuote =>
                    serviceOrderQuotes'[calls'[d].key].confirmation = calls'[d].reply
    <3>1. d # c /\ calls'[d] = calls[d]
      BY <1>2, <2>2
    <3>2. Outcome(calls[d].key, calls[d].reply)
      BY <2>2, <3>1 DEF IndInv, OutcomesGenuine
    <3>3. Outcome(calls[d].key, calls[d].reply)'
      BY <1>12, <3>1, <3>2
    <3>4. PICK e \in Calls : Confirmed(e) /\ calls[e].key = calls[d].key
      BY <2>2, <3>1, <3>2 DEF Outcome, Settled
    <3>5. usable => calls[d].key # key
      BY <3>4 DEF IndInv, UnconfirmedQuotes
    <3>6. calls[d].key \in Keys
      BY <3>4 DEF IndInv, CallRecords, Confirmed, Idle
    <3>7. serviceOrderQuotes[calls[d].key] # NoQuote =>
            serviceOrderQuotes[calls[d].key].confirmation = calls[d].reply
      BY <2>2, <3>1 DEF IndInv, OutcomesGenuine, prior
    <3>8. QED
      BY <1>5, <3>1, <3>3, <3>5, <3>6, <3>7
  <2>3. QED
    BY <2>1, <2>2 DEF OutcomesGenuine, prior
<1>14. OneOutcomePerKey'
  BY <1>2 DEF IndInv, OneOutcomePerKey
<1>15. QED
  BY <1>7, <1>8, <1>9, <1>10, <1>11, <1>13, <1>14 DEF IndInv

\* The confirmation's sender settles the promise of its key.
LEMMA SettleInv ==
  ASSUME IndInv, TypeOK', NEW c \in Calls, NEW outcome \in Settled,
         outcome \in {"accepted", "rejected"} => http[c].state = outcome,
         SettleConfirmation(c, outcome)
  PROVE  IndInv'
<1> DEFINE key == calls[c].key
<1>1. UNCHANGED <<serviceOrderQuotesInFlight, calls, http, issued, charges>>
  BY DEF SettleConfirmation, apiVars
<1>2. /\ calls[c].pc = "confirming" /\ http[c].state # "idle"
      /\ serviceOrderQuotes[key].confirmation = "pending"
      /\ key \in Keys
  BY DEF SettleConfirmation, Sender, Unsettled, prior, IndInv, CallRecords
<1>3. /\ serviceOrderQuotes[key] \in Quote
      /\ serviceOrderQuotes[key] # NoQuote
  BY <1>2 DEF IndInv, TypeOK, NoQuote
<1>4. /\ \A k \in Keys : k # key => serviceOrderQuotes'[k] = serviceOrderQuotes[k]
      /\ serviceOrderQuotes'[key] =
           [cfg |-> serviceOrderQuotes[key].cfg, total |-> serviceOrderQuotes[key].total,
            confirmation |-> outcome]
      /\ outcome \in Settled /\ outcome # "none"
      /\ serviceOrderQuotes'[key] # NoQuote
  BY <1>2, <1>3 DEF SettleConfirmation, IndInv, TypeOK, Quote, NoQuote, Settled
<1>5. Retained' = Retained
  BY <1>3, <1>4 DEF Retained, prior
<1>6. CallRecords' /\ OneQuoteRequestPerKey' /\ ConfirmationsApproved'
        /\ OneConfirmationPerKey' /\ OneOutcomePerKey'
  BY <1>1, <1>5
  DEF IndInv, CallRecords, OneQuoteRequestPerKey, ConfirmationsApproved,
      OneConfirmationPerKey, OneOutcomePerKey, Confirmed
<1>7. QuotesGenuine'
  <2>1. ASSUME NEW k \in Keys, serviceOrderQuotes'[k] # NoQuote
        PROVE  issued'[k] = [cfg |-> serviceOrderQuotes'[k].cfg,
                             total |-> serviceOrderQuotes'[k].total]
    BY <1>1, <1>3, <1>4, <2>1 DEF IndInv, QuotesGenuine, prior
  <2>2. QED
    BY <1>1, <2>1 DEF IndInv, QuotesGenuine, prior
<1>8. \A d \in Calls : Confirmed(d) => calls[d].key \in Keys
  BY DEF IndInv, CallRecords, Confirmed, Idle
<1>9. UnconfirmedQuotes'
  BY <1>1, <1>4, <1>8 DEF IndInv, UnconfirmedQuotes, prior, Confirmed
<1>10. \A k, o : Outcome(k, o) => Outcome(k, o)'
  BY <1>1 DEF Outcome, ChargedFor, Confirmed
<1>11. PICK e \in Calls : Confirmed(e) /\ calls[e].key = key
  <2>1. Outcome(key, "pending")
    BY <1>2 DEF IndInv, OutcomesGenuine, prior
  <2>2. QED
    BY <2>1 DEF Outcome
<1>12. Outcome(key, outcome)'
  <2>1. outcome = "accepted" => ChargedFor(key)
    BY DEF IndInv, CallRecords, ChargedFor
  <2>2. Outcome(key, outcome)
    BY <1>11, <2>1 DEF Outcome
  <2>3. QED
    BY <1>1, <1>10, <2>2
<1>13. \A d \in Calls : calls[d].reply \in Settled => calls[d].key # key
  BY <1>2, <1>3 DEF IndInv, OutcomesGenuine, prior, Settled
<1>14. OutcomesGenuine'
  <2>1. ASSUME NEW k \in Keys  PROVE Outcome(k, serviceOrderQuotes[k].confirmation)'
    <3>1. CASE k = key
      BY <1>1, <1>4, <1>12, <3>1
    <3>2. CASE k # key
      <4>1. Outcome(k, serviceOrderQuotes[k].confirmation)
        BY DEF IndInv, OutcomesGenuine, prior
      <4>2. QED
        BY <1>4, <1>10, <3>2, <4>1
    <3>3. QED
      BY <3>1, <3>2
  <2>2. ASSUME NEW d \in Calls, calls'[d].reply \in Settled
        PROVE  /\ Outcome(calls[d].key, calls[d].reply)'
               /\ serviceOrderQuotes'[calls'[d].key] # NoQuote =>
                    serviceOrderQuotes'[calls'[d].key].confirmation = calls'[d].reply
    <3>1. Outcome(calls[d].key, calls[d].reply)
      BY <1>1, <2>2 DEF IndInv, OutcomesGenuine
    <3>2. Outcome(calls[d].key, calls[d].reply)'
      BY <1>1, <1>10, <3>1
    <3>3. PICK f \in Calls : Confirmed(f) /\ calls[f].key = calls[d].key
      BY <1>1, <2>2, <3>1 DEF Outcome, Settled
    <3>4. calls[d].key \in Keys /\ calls[d].key # key
      BY <1>1, <1>8, <1>13, <2>2, <3>3
    <3>5. QED
      BY <1>1, <1>4, <2>2, <3>2, <3>4 DEF IndInv, OutcomesGenuine, prior
  <2>3. QED
    BY <2>1, <2>2 DEF OutcomesGenuine, prior
<1>15. QED
  BY <1>6, <1>7, <1>9, <1>14 DEF IndInv

\* A call that awaited the promise gets its outcome.
LEMMA ReturnConfirmationInv ==
  ASSUME IndInv, TypeOK', NEW c \in Calls, ReturnConfirmation(c)
  PROVE  IndInv'
<1> DEFINE key == calls[c].key
<1> DEFINE outcome == serviceOrderQuotes[key].confirmation
<1>1. /\ calls[c].pc = "confirming" /\ outcome \in Settled /\ key \in Keys
      /\ serviceOrderQuotes[key] # NoQuote
  BY DEF ReturnConfirmation, prior, IndInv, CallRecords, Settled, NoQuote
<1>2. /\ \A d \in Calls : d # c => calls'[d] = calls[d]
      /\ calls'[c].pc = "done" /\ calls'[c].reply = outcome /\ calls'[c].key = key
      /\ calls'[c].cfg = calls[c].cfg /\ calls'[c].approved = calls[c].approved
  BY DEF ReturnConfirmation, Return, prior, IndInv, TypeOK, Call
<1>3. UNCHANGED <<serviceOrderQuotes, serviceOrderQuotesInFlight, http, issued, charges>>
  BY DEF ReturnConfirmation, apiVars
<1>4. /\ \A d \in Calls : Confirmed(d)' <=> Confirmed(d)
      /\ \A d \in Calls : calls'[d].key = calls[d].key
      /\ Retained' = Retained
  BY <1>2, <1>3 DEF Confirmed, Retained, prior
<1>5. CallRecords'
  BY <1>1, <1>2, <1>3 DEF IndInv, CallRecords
<1>6. OneQuoteRequestPerKey'
  <2>1. InFlightByKey'
    BY <1>1, <1>2, <1>3, InFlightIs DEF IndInv, OneQuoteRequestPerKey, InFlightByKey
  <2>2. QED
    BY <1>2, <1>3, <1>4, <2>1, InFlightIsNext DEF IndInv, OneQuoteRequestPerKey
<1>7. QuotesGenuine' /\ ConfirmationsApproved' /\ OneConfirmationPerKey'
  BY <1>2, <1>3, <1>4
  DEF IndInv, QuotesGenuine, ConfirmationsApproved, OneConfirmationPerKey, prior
<1>8. UnconfirmedQuotes'
  BY <1>2, <1>3, <1>4 DEF IndInv, UnconfirmedQuotes, prior
<1>9. \A k, o : Outcome(k, o) => Outcome(k, o)'
  BY <1>3, <1>4 DEF Outcome, ChargedFor
<1>10. Outcome(key, outcome)
  BY <1>1 DEF IndInv, OutcomesGenuine, prior
<1>11. OutcomesGenuine'
  <2>1. ASSUME NEW k \in Keys  PROVE Outcome(k, serviceOrderQuotes[k].confirmation)'
    <3>1. Outcome(k, serviceOrderQuotes[k].confirmation)
      BY DEF IndInv, OutcomesGenuine, prior
    <3>2. QED
      BY <1>3, <1>9, <3>1
  <2>2. ASSUME NEW d \in Calls, calls'[d].reply \in Settled
        PROVE  /\ Outcome(calls[d].key, calls[d].reply)'
               /\ serviceOrderQuotes'[calls'[d].key] # NoQuote =>
                    serviceOrderQuotes'[calls'[d].key].confirmation = calls'[d].reply
    <3>1. CASE d = c
      BY <1>2, <1>3, <1>9, <1>10, <3>1
    <3>2. CASE d # c
      BY <1>2, <1>3, <1>9, <2>2, <3>2 DEF IndInv, OutcomesGenuine, prior
    <3>3. QED
      BY <3>1, <3>2
  <2>3. QED
    BY <2>1, <2>2 DEF OutcomesGenuine, prior
<1>12. OneOutcomePerKey'
  <2>1. \A d \in Calls : calls[d].reply \in Settled /\ calls[d].key = key
          => calls[d].reply = outcome
    BY <1>1 DEF IndInv, OutcomesGenuine, prior
  <2>2. QED
    BY <1>2, <2>1 DEF IndInv, OneOutcomePerKey
<1>13. QED
  BY <1>5, <1>6, <1>7, <1>8, <1>11, <1>12 DEF IndInv

LEMMA RestartInv ==
  ASSUME IndInv, TypeOK', Restart
  PROVE  IndInv'
<1>1. /\ \A k \in Keys : serviceOrderQuotes'[k] = NoQuote
      /\ serviceOrderQuotesInFlight' = {}
      /\ UNCHANGED <<http, issued, charges>>
  BY DEF Restart, apiVars
<1>2. \A c \in Calls :
        /\ calls'[c].key = calls[c].key /\ calls'[c].cfg = calls[c].cfg
        /\ calls'[c].approved = calls[c].approved /\ calls'[c].reply = calls[c].reply
        /\ calls'[c].pc # "quoting"
        /\ calls'[c].pc = "new" => calls'[c] = calls[c]
        /\ calls[c].pc = "new" => calls'[c] = calls[c]
  BY DEF Restart, IndInv, TypeOK, Call
<1>3. \A c \in Calls : Confirmed(c)' <=> Confirmed(c)
  BY <1>1 DEF Confirmed
<1>4. CallRecords'
  BY <1>1, <1>2 DEF IndInv, CallRecords
<1>5. OneQuoteRequestPerKey'
  <2>1. InFlightByKey'
    BY <1>1, <1>2 DEF InFlightByKey
  <2>2. QED
    BY <1>1, <1>2, <2>1, InFlightIsNext DEF OneQuoteRequestPerKey
<1>6. QuotesGenuine'
  BY <1>1, <1>2 DEF IndInv, QuotesGenuine, prior
<1>7. ConfirmationsApproved' /\ OneConfirmationPerKey' /\ OneOutcomePerKey'
  BY <1>1, <1>2, <1>3
  DEF IndInv, ConfirmationsApproved, OneConfirmationPerKey, OneOutcomePerKey
<1>8. \A c \in Calls : Confirmed(c) => calls[c].key \in Keys
  BY DEF IndInv, CallRecords, Confirmed, Idle
<1>9. UnconfirmedQuotes'
  BY <1>1, <1>2, <1>3, <1>8 DEF UnconfirmedQuotes, prior
<1>10. \A k, o : Outcome(k, o) => Outcome(k, o)'
  BY <1>1, <1>2, <1>3 DEF Outcome, ChargedFor
<1>11. OutcomesGenuine'
  <2>1. ASSUME NEW k \in Keys  PROVE Outcome(k, serviceOrderQuotes[k].confirmation)'
    BY <1>1 DEF Outcome, NoQuote
  <2>2. ASSUME NEW d \in Calls, calls'[d].reply \in Settled
        PROVE  /\ Outcome(calls[d].key, calls[d].reply)'
               /\ serviceOrderQuotes'[calls'[d].key] = NoQuote
    <3>1. Outcome(calls[d].key, calls[d].reply)
      BY <1>2, <2>2 DEF IndInv, OutcomesGenuine
    <3>2. PICK e \in Calls : Confirmed(e) /\ calls[e].key = calls[d].key
      BY <1>2, <2>2, <3>1 DEF Outcome, Settled
    <3>3. QED
      BY <1>1, <1>2, <1>8, <1>10, <3>1, <3>2
  <2>3. QED
    BY <2>1, <2>2 DEF OutcomesGenuine, prior
<1>12. QED
  BY <1>4, <1>5, <1>6, <1>7, <1>9, <1>11 DEF IndInv

\* A confirmation is only ever sent for a key the API has quoted.
LEMMA ConfirmedIssued ==
  ASSUME IndInv, NEW c \in Calls, Confirmed(c)
  PROVE  /\ calls[c].key \in Keys /\ calls[c].cfg \in Configs
         /\ calls[c].approved \in Totals
         /\ issued[calls[c].key] # NoIssue
<1>1. calls[c].key \in Keys /\ calls[c].cfg \in Configs
  BY DEF IndInv, CallRecords, Confirmed, Idle
<1>2. /\ calls[c].approved \in Totals
      /\ issued[calls[c].key] = [cfg |-> calls[c].cfg, total |-> calls[c].approved]
  BY DEF IndInv, ConfirmationsApproved
<1>3. issued[calls[c].key].total = calls[c].approved
  BY <1>2
<1>4. NoIssue.total = None
  BY DEF NoIssue
<1>5. QED
  BY <1>1, <1>2, <1>3, <1>4, NoneAssumption

\* The API answers a quote request; `issued' changes at most for its key.
LEMMA QuoteAnsweredInv ==
  ASSUME IndInv, TypeOK', NEW c \in Calls, http[c].state = "quoteSent",
         NEW state \in {"quoted", "unusable", "error"}, NEW total \in Totals \cup {None},
         Reply(c, state, total),
         \/ UNCHANGED issued /\ state # "quoted"
         \/ /\ issued[calls[c].key] = NoIssue
            /\ \E amount \in Totals :
                 /\ issued' = [issued EXCEPT ![calls[c].key] =
                                [cfg |-> calls[c].cfg, total |-> amount]]
                 /\ state = "quoted" => amount = total,
         UNCHANGED <<clientVars, charges>>
  PROVE  IndInv'
<1> DEFINE key == calls[c].key
<1>1. UNCHANGED <<serviceOrderQuotes, serviceOrderQuotesInFlight, calls, charges>>
  BY DEF clientVars
<1>2. /\ \A d \in Calls : d # c => http'[d] = http[d]
      /\ http'[c].state = state /\ http'[c].total = total
  BY DEF Reply, IndInv, TypeOK, Exchange
<1>3. /\ calls[c].pc # "new" /\ key \in Keys /\ calls[c].cfg \in Configs
      /\ charges[c] = NoIssue
  BY DEF IndInv, CallRecords, Idle
<1>4. \A d \in Calls : Confirmed(d)' <=> Confirmed(d)
  BY <1>2 DEF Confirmed
<1>5. \A k \in Keys : issued[k] # NoIssue => issued'[k] = issued[k]
  BY <1>3 DEF IndInv, TypeOK
<1>6. state = "quoted" =>
        /\ issued[key] = NoIssue
        /\ issued'[key] = [cfg |-> calls[c].cfg, total |-> total]
  BY <1>3 DEF IndInv, TypeOK
<1>7. \A x \in Configs \cup {None}, y \in Totals : [cfg |-> x, total |-> y] # NoIssue
  BY NoneAssumption DEF NoIssue
<1>8. CallRecords'
  BY <1>1, <1>2, <1>3 DEF IndInv, CallRecords
<1>9. OneQuoteRequestPerKey' /\ OneOutcomePerKey'
  BY <1>1 DEF IndInv, OneQuoteRequestPerKey, OneOutcomePerKey, Retained, prior
<1>10. ConfirmationsApproved'
  <2>1. ASSUME NEW d \in Calls, Confirmed(d)
        PROVE  issued'[calls[d].key] = issued[calls[d].key]
    BY <1>5, <2>1, ConfirmedIssued
  <2>2. QED
    BY <1>1, <1>4, <2>1 DEF IndInv, ConfirmationsApproved
<1>11. OneConfirmationPerKey'
  BY <1>1, <1>4 DEF IndInv, OneConfirmationPerKey
<1>12. QuotesGenuine'
  <2>1. ASSUME NEW k \in Keys, serviceOrderQuotes[k] # NoQuote
        PROVE  issued'[k] = [cfg |-> serviceOrderQuotes[k].cfg,
                             total |-> serviceOrderQuotes[k].total]
    <3>1. issued[k] = [cfg |-> serviceOrderQuotes[k].cfg, total |-> serviceOrderQuotes[k].total]
      BY <2>1 DEF IndInv, QuotesGenuine, prior
    <3>2. serviceOrderQuotes[k] \in Quote
      BY <2>1 DEF IndInv, TypeOK
    <3>3. issued[k] # NoIssue
      BY <1>7, <3>1, <3>2 DEF Quote
    <3>4. QED
      BY <1>5, <3>1, <3>3
  <2>2. ASSUME NEW d \in Calls, http'[d].state = "quoted"
        PROVE  issued'[calls[d].key] = [cfg |-> calls[d].cfg, total |-> http'[d].total]
    <3>1. CASE d = c
      BY <1>2, <1>6, <2>2, <3>1
    <3>2. CASE d # c
      <4>1. issued[calls[d].key] = [cfg |-> calls[d].cfg, total |-> http[d].total]
              /\ http'[d].total = http[d].total
        BY <1>2, <2>2, <3>2 DEF IndInv, QuotesGenuine
      <4>2. calls[d].key \in Keys /\ calls[d].cfg \in Configs
        BY <1>2, <2>2, <3>2 DEF IndInv, CallRecords, Idle
      <4>3. issued[calls[d].key] # NoIssue
        BY <4>1, <4>2, NoneAssumption DEF NoIssue
      <4>4. QED
        BY <1>5, <4>1, <4>2, <4>3
    <3>3. QED
      BY <3>1, <3>2
  <2>3. QED
    BY <1>1, <2>1, <2>2 DEF QuotesGenuine, prior
<1>13. UnconfirmedQuotes'
  <2>1. state = "quoted" => \A d \in Calls : Confirmed(d) => calls[d].key # key
    BY <1>6, ConfirmedIssued
  <2>2. SUFFICES ASSUME NEW d \in Calls, Confirmed(d)
                 PROVE  /\ \A e \in Calls : calls[e].pc = "quoting" /\ http'[e].state = "quoted"
                             => calls[e].key # calls[d].key
                        /\ serviceOrderQuotes[calls[d].key] # NoQuote =>
                             serviceOrderQuotes[calls[d].key].confirmation # "none"
    BY <1>1, <1>4 DEF UnconfirmedQuotes, prior
  <2>3. QED
    BY <1>2, <2>1, <2>2 DEF IndInv, UnconfirmedQuotes, prior
<1>14. \A k, o : Outcome(k, o) => Outcome(k, o)'
  BY <1>1, <1>2, <1>4 DEF Outcome, ChargedFor
<1>15. OutcomesGenuine'
  BY <1>1, <1>14 DEF IndInv, OutcomesGenuine, prior
<1>16. QED
  BY <1>8, <1>9, <1>10, <1>11, <1>12, <1>13, <1>15 DEF IndInv

\* The API answers a confirmation, having charged for it or not.
LEMMA ConfirmationAnsweredInv ==
  ASSUME IndInv, TypeOK', NEW c \in Calls, http[c].state = "confirmSent",
         NEW state \in {"accepted", "rejected", "unresolved"},
         Reply(c, state, None),
         \/ UNCHANGED charges /\ state # "accepted"
         \/ /\ charges' = [charges EXCEPT ![c] = issued[calls[c].key]]
            /\ state # "rejected",
         UNCHANGED <<clientVars, issued>>
  PROVE  IndInv'
<1>1. UNCHANGED <<serviceOrderQuotes, serviceOrderQuotesInFlight, calls, issued>>
  BY DEF clientVars
<1>2. /\ \A d \in Calls : d # c => http'[d] = http[d] /\ charges'[d] = charges[d]
      /\ http'[c].state = state
  BY DEF Reply, IndInv, TypeOK, Exchange
<1>3. /\ calls[c].pc \notin {"new", "quoting"} /\ calls[c].key \in Keys
      /\ charges[c] = NoIssue
      /\ Confirmed(c)
  BY DEF IndInv, CallRecords, Idle, Confirmed
<1>4. issued[calls[c].key] # NoIssue
  BY <1>3, ConfirmedIssued
<1>5. state = "accepted" => charges'[c] # NoIssue
  BY <1>4 DEF IndInv, TypeOK
<1>6. \A d \in Calls : Confirmed(d)' <=> Confirmed(d)
  BY <1>2, <1>3 DEF Confirmed
<1>7. CallRecords'
  <2>1. charges'[c] # NoIssue => state \in {"accepted", "unresolved"}
    BY <1>3
  <2>2. QED
    BY <1>1, <1>2, <1>3, <1>5, <2>1 DEF IndInv, CallRecords
<1>8. OneQuoteRequestPerKey' /\ OneOutcomePerKey'
  BY <1>1 DEF IndInv, OneQuoteRequestPerKey, OneOutcomePerKey, Retained, prior
<1>9. QuotesGenuine'
  BY <1>1, <1>2 DEF IndInv, QuotesGenuine, prior
<1>10. ConfirmationsApproved' /\ OneConfirmationPerKey'
  BY <1>1, <1>6 DEF IndInv, ConfirmationsApproved, OneConfirmationPerKey
<1>11. UnconfirmedQuotes'
  BY <1>1, <1>2, <1>6 DEF IndInv, UnconfirmedQuotes, prior
<1>12. \A k, o : Outcome(k, o) => Outcome(k, o)'
  BY <1>1, <1>2, <1>3, <1>6 DEF Outcome, ChargedFor
<1>13. OutcomesGenuine'
  BY <1>1, <1>12 DEF IndInv, OutcomesGenuine, prior
<1>14. QED
  BY <1>7, <1>8, <1>9, <1>10, <1>11, <1>13 DEF IndInv

\* Nothing the invariant mentions moves: a stuttering step, or an expiry.
LEMMA UnchangedInv ==
  ASSUME IndInv, TypeOK', UNCHANGED <<clientVars, http, issued, charges>>
  PROVE  IndInv'
BY DEF IndInv, clientVars, CallRecords, OneQuoteRequestPerKey, QuotesGenuine,
       ConfirmationsApproved, UnconfirmedQuotes, OneConfirmationPerKey, OutcomesGenuine,
       OneOutcomePerKey, Outcome, ChargedFor, Confirmed, Retained, prior

-----------------------------------------------------------------------------
(* The invariant holds of every behaviour.                                 *)

LEMMA TypeStep ==
  ASSUME IndInv, [Next]_vars
  PROVE  TypeOK'
<1>1. TypeOK /\ CallRecords /\ QuotesGenuine
  BY DEF IndInv
<1>2. ASSUME NEW k \in Keys, ApiQuoteExpires(k)  PROVE TypeOK'
  BY <1>1, <1>2 DEF ApiQuoteExpires, TypeOK, clientVars
<1>3. CASE UNCHANGED vars
  BY <1>1, <1>3 DEF vars, clientVars, apiVars, TypeOK
<1>4. QED
  BY <1>1, <1>2, <1>3, HandleType, ResumeType, ApiType, RestartType DEF Next

LEMMA HandleInv ==
  ASSUME IndInv, TypeOK', NEW c \in Calls, NEW a \in Args, Handle(c, a)
  PROVE  IndInv'
<1>1. ASSUME NEW reply \in Refusals \cup {"quote"}, Answer(c, a, reply)  PROVE IndInv'
  <2>1. reply \in Replies \ Settled
    BY DEF Replies, Refusals, Settled, Confirmations
  <2>2. QED
    BY <1>1, <2>1, EnterInv DEF Answer
<1>2. CASE JoinConfirmation(c, a)
  BY <1>2, EnterInv DEF JoinConfirmation
<1>3. QED
  BY <1>1, <1>2, SendConfirmationInv, SendQuoteInv
  DEF Handle, RefuseChanged, RefuseUnavailable, RefuseIncomplete, RefuseTotal,
      ReplayQuote, RefusePending, RefuseCapacity, Refusals

LEMMA ResumeInv ==
  ASSUME IndInv, TypeOK', NEW c \in Calls, Resume(c)
  PROVE  IndInv'
<1>1. CASE ReceiveQuote(c)
  <2>1. QuoteReply(http[c].state) \in Replies \ Settled
    BY <1>1 DEF ReceiveQuote, QuoteReply, Replies, Refusals, Settled, Confirmations
  <2>2. QED
    BY <1>1, <2>1, QuoteReturnsInv DEF ReceiveQuote
<1>2. CASE QuoteThrows(c)
  <2>1. "thrown" \in Replies \ Settled
    BY DEF Replies, Settled, Confirmations
  <2>2. QED
    BY <1>2, <2>1, QuoteReturnsInv DEF QuoteThrows
<1>3. CASE ReceiveConfirmation(c)
  BY <1>3, SettleInv DEF ReceiveConfirmation, Settled, Confirmations
<1>4. CASE ConfirmationThrows(c)
  BY <1>4, SettleInv DEF ConfirmationThrows, Settled, Confirmations
<1>5. QED
  BY <1>1, <1>2, <1>3, <1>4, ReturnConfirmationInv DEF Resume

LEMMA ApiInv ==
  ASSUME IndInv, TypeOK', NEW c \in Calls, Api(c)
  PROVE  IndInv'
<1>1. ASSUME NEW total \in Totals, ApiIssuesQuote(c, total)  PROVE IndInv'
  <2>1. /\ http[c].state = "quoteSent" /\ issued[calls[c].key] = NoIssue
        /\ UNCHANGED <<clientVars, charges>>
        /\ issued' = [issued EXCEPT ![calls[c].key] =
                        [cfg |-> calls[c].cfg, total |-> total]]
    BY <1>1 DEF ApiIssuesQuote
  <2>2. CASE Reply(c, "quoted", total)
    BY <2>1, <2>2, QuoteAnsweredInv
  <2>3. CASE Reply(c, "unusable", None) \/ Reply(c, "error", None)
    BY <2>1, <2>3, QuoteAnsweredInv
  <2>4. QED
    BY <1>1, <2>2, <2>3 DEF ApiIssuesQuote
<1>2. CASE ApiRefusesQuote(c)
  BY <1>2, QuoteAnsweredInv DEF ApiRefusesQuote, apiVars
<1>3. CASE ApiCharges(c)
  BY <1>3, ConfirmationAnsweredInv DEF ApiCharges
<1>4. CASE ApiRejects(c) \/ ApiFails(c)
  BY <1>4, ConfirmationAnsweredInv DEF ApiRejects, ApiFails, apiVars
<1>5. QED
  BY <1>1, <1>2, <1>3, <1>4 DEF Api

LEMMA StepInv ==
  ASSUME IndInv, [Next]_vars
  PROVE  IndInv'
<1>1. TypeOK'
  BY TypeStep
<1>2. ASSUME NEW k \in Keys, ApiQuoteExpires(k)  PROVE IndInv'
  BY <1>1, <1>2, UnchangedInv DEF ApiQuoteExpires
<1>3. CASE UNCHANGED vars
  BY <1>1, <1>3, UnchangedInv DEF vars, apiVars
<1>4. QED
  BY <1>1, <1>2, <1>3, HandleInv, ResumeInv, ApiInv, RestartInv DEF Next

LEMMA Invariance == Spec => []IndInv
  BY InitInv, StepInv, PTL DEF Spec

-----------------------------------------------------------------------------
(* Theorems.                                                               *)

\* The tables, the calls, the exchanges and the API's records keep their
\* shape (the handler's state in src/index.ts).
THEOREM TypeCorrect == Spec => []TypeOK
<1>1. IndInv => TypeOK
  BY DEF IndInv
<1>2. QED
  BY <1>1, Invariance, PTL

\* However many calls race, a key has one quote request awaited at most, and
\* none once its quote is retained.
THEOREM OneQuoteRequest == Spec => []OneQuoteRequestPerKey
<1>1. IndInv => OneQuoteRequestPerKey
  BY DEF IndInv
<1>2. QED
  BY <1>1, Invariance, PTL

\* One paid confirmation at most is ever sent for a key, whatever times out
\* and however often the process restarts.
THEOREM OneConfirmation == Spec => []OneConfirmationPerKey
<1>1. IndInv => OneConfirmationPerKey
  BY DEF IndInv
<1>2. QED
  BY <1>1, Invariance, PTL

\* Every reported outcome of a key is the same one.
THEOREM OneOutcome == Spec => []OneOutcomePerKey
<1>1. IndInv => OneOutcomePerKey
  BY DEF IndInv
<1>2. QED
  BY <1>1, Invariance, PTL

\* "accepted" means charged, "rejected" means never charged.
THEOREM TruthfulOutcomes == Spec => []OutcomeTruthful
<1>1. ASSUME IndInv  PROVE OutcomeTruthful
  <2>1. SUFFICES ASSUME NEW c \in Calls
                 PROVE  /\ calls[c].reply = "accepted" => ChargedFor(calls[c].key)
                        /\ calls[c].reply = "rejected" => ~ChargedFor(calls[c].key)
    BY DEF OutcomeTruthful
  <2>2. calls[c].reply \in Settled => Outcome(calls[c].key, calls[c].reply)
    BY <1>1 DEF IndInv, OutcomesGenuine
  <2>3. CASE calls[c].reply = "accepted"
    BY <2>2, <2>3 DEF Outcome, Settled, Confirmations
  <2>4. CASE calls[c].reply = "rejected"
    <3>1. PICK d \in Calls : http[d].state = "rejected" /\ calls[d].key = calls[c].key
      BY <2>2, <2>4 DEF Outcome, Settled, Confirmations
    <3>2. SUFFICES ASSUME NEW e \in Calls, calls[e].key = calls[c].key, charges[e] # NoIssue
                   PROVE  FALSE
      BY <2>4 DEF ChargedFor
    <3>3. http[e].state \in {"accepted", "unresolved"}
      BY <1>1, <3>2 DEF IndInv, CallRecords
    <3>4. d = e
      BY <1>1, <3>1, <3>2, <3>3 DEF IndInv, OneConfirmationPerKey, Confirmed
    <3>5. QED
      BY <3>1, <3>3, <3>4
  <2>5. QED
    BY <2>3, <2>4
<1>2. QED
  BY <1>1, Invariance, PTL

\* The quote is shown as unpurchased only while nothing was sent for its key.
THEOREM QuoteUnconfirmed == Spec => QuoteMeansUnconfirmed
<1> DEFINE Shown(c) == calls[c].reply = None /\ calls'[c].reply = "quote"
<1> DEFINE Unsent(c) == \A d \in Calls : Confirmed(d) => calls[d].key # calls'[c].key
<1>1. ASSUME IndInv, NEW e \in Calls, NEW a \in Args, Handle(e, a), NEW c \in Calls, Shown(c)
      PROVE  Unsent(c)
  <2>1. \A pc, reply : Enter(e, a, pc, reply) =>
          c = e /\ reply = "quote" /\ calls'[c].key = a.key
    BY <1>1, NoneIsNoReply DEF IndInv, TypeOK, Enter, Replies
  <2>2. ReplayQuote(e, a)
    BY <1>1, <2>1, NoneIsNoReply
    DEF Handle, RefuseChanged, RefuseUnavailable, RefuseIncomplete, RefuseTotal,
        SendConfirmation, JoinConfirmation, RefusePending, RefuseCapacity, SendQuote, Answer,
        Replies
  <2>3. QED
    BY <1>1, <2>1, <2>2
    DEF ReplayQuote, Answer, ShowsQuote, IndInv, UnconfirmedQuotes
<1>2. ASSUME IndInv, NEW e \in Calls, Resume(e), NEW c \in Calls, Shown(c)  PROVE Unsent(c)
  <2>1. \A reply : Return(e, reply) => c = e /\ reply = "quote" /\ calls'[c].key = calls[c].key
    BY <1>2, NoneIsNoReply DEF IndInv, TypeOK, Call, Return, Replies
  <2>2. calls' # calls
    BY <1>2, NoneIsNoReply DEF Replies
  <2>3. ReceiveQuote(e) /\ http[e].state = "quoted"
    <3>1. ~QuoteThrows(e) /\ ~ReturnConfirmation(e)
      <4>1. ~Return(e, "thrown")
        BY <2>1
      <4>2. prior(calls[e].key).confirmation \in Settled
              => ~Return(e, prior(calls[e].key).confirmation)
        BY <2>1 DEF Settled, Confirmations
      <4>3. QED
        BY <4>1, <4>2 DEF QuoteThrows, ReturnConfirmation
    <3>2. ~ReceiveConfirmation(e) /\ ~ConfirmationThrows(e)
      BY <2>2 DEF ReceiveConfirmation, ConfirmationThrows, SettleConfirmation
    <3>3. ReceiveQuote(e)
      BY <1>2, <3>1, <3>2 DEF Resume
    <3>4. QuoteReply(http[e].state) = "quote"
      BY <2>1, <3>3 DEF ReceiveQuote
    <3>5. QED
      BY <3>3, <3>4 DEF ReceiveQuote, QuoteReply
  <2>4. QED
    BY <1>2, <2>1, <2>3 DEF ReceiveQuote, IndInv, UnconfirmedQuotes
<1>3. ASSUME IndInv, NEW e \in Calls, Api(e), NEW c \in Calls, Shown(c)  PROVE Unsent(c)
  BY <1>3, NoneIsNoReply
  DEF Api, ApiIssuesQuote, ApiRefusesQuote, ApiCharges, ApiRejects, ApiFails, clientVars, Replies
<1>4. ASSUME IndInv, Restart, NEW c \in Calls, Shown(c)  PROVE Unsent(c)
  BY <1>4, NoneIsNoReply DEF Restart, IndInv, TypeOK, Call, Replies
<1>5. ASSUME NEW k \in Keys, ApiQuoteExpires(k), NEW c \in Calls, Shown(c)  PROVE Unsent(c)
  BY <1>5, NoneIsNoReply DEF ApiQuoteExpires, clientVars, Replies
<1>6. IndInv /\ [Next]_vars => [\A c \in Calls : Shown(c) => Unsent(c)]_vars
  BY <1>1, <1>2, <1>3, <1>4, <1>5 DEF Next
<1>7. QED
  BY <1>6, Invariance, PTL DEF Spec, QuoteMeansUnconfirmed

-----------------------------------------------------------------------------
(* Capacity.                                                               *)

LEMMA TablesFinite ==
  ASSUME TypeOK
  PROVE  /\ IsFiniteSet(Retained) /\ IsFiniteSet(serviceOrderQuotesInFlight)
         /\ Cardinality(Retained) \in Nat
         /\ Cardinality(serviceOrderQuotesInFlight) \in Nat
<1>1. Retained \subseteq Keys /\ serviceOrderQuotesInFlight \subseteq Keys
  BY DEF Retained, TypeOK
<1>2. QED
  BY <1>1, KeysAssumption, FS_Subset, FS_CardinalityType

\* The key of a returning quote call moves from one table to the other, or out.
LEMMA CapacityReturn ==
  ASSUME IndInv, CapacityRespected, TypeOK', NEW c \in Calls, calls[c].pc = "quoting",
         NEW usable \in BOOLEAN, serviceOrderQuotes' = Retain(c, usable),
         serviceOrderQuotesInFlight' = LeaveInFlight(c)
  PROVE  CapacityRespected'
<1> DEFINE key == calls[c].key
<1>1. key \in Keys /\ key \in serviceOrderQuotesInFlight /\ key \notin Retained
  BY InFlightIs DEF IndInv, CallRecords, OneQuoteRequestPerKey, InFlightByKey
<1>2. Retained' \in {Retained, Retained \cup {key}}
  <2>1. serviceOrderQuotes' = serviceOrderQuotes
          \/ \A k \in Keys : k # key => serviceOrderQuotes'[k] = serviceOrderQuotes[k]
    BY DEF Retain, IndInv, TypeOK
  <2>2. Retained \subseteq Retained'
    BY <1>1, <2>1 DEF Retained, prior
  <2>3. Retained' \subseteq Retained \cup {key}
    BY <1>1, <2>1 DEF Retained, prior
  <2>4. QED
    BY <2>2, <2>3
<1>3. serviceOrderQuotesInFlight' = serviceOrderQuotesInFlight \ {key}
  BY DEF LeaveInFlight
<1>4. /\ IsFiniteSet(Retained) /\ IsFiniteSet(serviceOrderQuotesInFlight)
      /\ Cardinality(Retained) \in Nat /\ Cardinality(serviceOrderQuotesInFlight) \in Nat
  BY TablesFinite DEF IndInv
<1>5. Cardinality(Retained \cup {key}) = Cardinality(Retained) + 1
  BY <1>1, <1>4, FS_AddElement
<1>6. Cardinality(serviceOrderQuotesInFlight \ {key})
        = Cardinality(serviceOrderQuotesInFlight) - 1
  BY <1>1, <1>4, FS_RemoveElement
<1>7. Cardinality(Retained) + Cardinality(serviceOrderQuotesInFlight)
        <= serviceOrderQuoteCapacity
  BY DEF CapacityRespected
<1>8. CASE Retained' = Retained
  BY <1>3, <1>4, <1>6, <1>7, <1>8, CapacityAssumption DEF CapacityRespected
<1>9. CASE Retained' = Retained \cup {key}
  BY <1>3, <1>4, <1>5, <1>6, <1>7, <1>9, CapacityAssumption DEF CapacityRespected
<1>10. QED
  BY <1>2, <1>8, <1>9

\* Retained attempts and quotes in progress never exceed the capacity.
THEOREM Capacity == Spec => []CapacityRespected
<1>1. Init => CapacityRespected
  <2>1. Init => Retained = {} /\ serviceOrderQuotesInFlight = {}
    BY DEF Init, Retained, prior
  <2>2. QED
    BY <2>1, FS_EmptySet, CapacityAssumption DEF CapacityRespected
<1>2. IndInv /\ IndInv' /\ CapacityRespected /\ [Next]_vars => CapacityRespected'
  <2> SUFFICES ASSUME IndInv, IndInv', CapacityRespected, [Next]_vars
               PROVE  CapacityRespected'
    OBVIOUS
  <2>1. TypeOK /\ TypeOK'
    BY DEF IndInv
  <2>2. ASSUME UNCHANGED serviceOrderQuotesInFlight, Retained' = Retained
        PROVE  CapacityRespected'
    BY <2>2 DEF CapacityRespected
  <2>3. ASSUME UNCHANGED <<serviceOrderQuotes, serviceOrderQuotesInFlight>>
        PROVE  CapacityRespected'
    BY <2>2, <2>3 DEF Retained, prior
  <2>4. ASSUME NEW c \in Calls, NEW a \in Args, Handle(c, a)  PROVE CapacityRespected'
    <3>1. CASE SendQuote(c, a)
      <4>1. /\ Retained' = Retained /\ a.key \notin serviceOrderQuotesInFlight
            /\ serviceOrderQuotesInFlight' = serviceOrderQuotesInFlight \cup {a.key}
            /\ ~AtCapacity
        BY <3>1 DEF SendQuote, MayRequestQuote, Retained, prior
      <4>2. /\ IsFiniteSet(serviceOrderQuotesInFlight)
            /\ Cardinality(Retained) \in Nat /\ Cardinality(serviceOrderQuotesInFlight) \in Nat
        BY <2>1, TablesFinite
      <4>3. Cardinality(serviceOrderQuotesInFlight \cup {a.key})
              = Cardinality(serviceOrderQuotesInFlight) + 1
        BY <4>1, <4>2, FS_AddElement
      <4>4. QED
        BY <4>1, <4>2, <4>3, CapacityAssumption DEF CapacityRespected, AtCapacity
    <3>2. CASE SendConfirmation(c, a)
      <4>1. prior(a.key) # NoQuote /\ a.key \in Keys
        BY <3>2 DEF SendConfirmation, Confirmable, Args
      <4>2. prior(a.key) \in Quote
        BY <2>1, <4>1 DEF TypeOK, prior
      <4>3. \A k \in Keys : serviceOrderQuotes'[k] # NoQuote <=> serviceOrderQuotes[k] # NoQuote
        BY <2>1, <3>2, <4>1, <4>2 DEF SendConfirmation, TypeOK, prior, NoQuote
      <4>4. Retained' = Retained
        BY <4>3 DEF Retained, prior
      <4>5. QED
        BY <2>2, <3>2, <4>4 DEF SendConfirmation
    <3>3. QED
      BY <2>3, <2>4, <3>1, <3>2
      DEF Handle, RefuseChanged, RefuseUnavailable, RefuseIncomplete, RefuseTotal,
          JoinConfirmation, ReplayQuote, RefusePending, RefuseCapacity, Answer
  <2>5. ASSUME NEW c \in Calls, Resume(c)  PROVE CapacityRespected'
    <3>1. CASE ReceiveQuote(c)
      BY <2>1, <3>1, CapacityReturn DEF ReceiveQuote
    <3>2. CASE QuoteThrows(c)
      BY <2>1, <3>2, CapacityReturn DEF QuoteThrows
    <3>3. ASSUME NEW outcome \in Settled, SettleConfirmation(c, outcome)
          PROVE  CapacityRespected'
      <4>1. serviceOrderQuotes[calls[c].key].confirmation = "pending"
        BY <3>3 DEF SettleConfirmation, Unsettled, prior
      <4>2. calls[c].key \in Keys
        BY <3>3 DEF SettleConfirmation, Sender, IndInv, CallRecords
      <4>3. serviceOrderQuotes[calls[c].key] # NoQuote
              /\ serviceOrderQuotes[calls[c].key] \in Quote
        BY <2>1, <4>1, <4>2 DEF TypeOK, NoQuote
      <4>4. serviceOrderQuotes'[calls[c].key].confirmation = outcome
        BY <2>1, <3>3, <4>2, <4>3 DEF SettleConfirmation, TypeOK, Quote
      <4>5. outcome # "none"
        BY DEF Settled
      <4>6. \A k \in Keys : serviceOrderQuotes'[k] # NoQuote <=> serviceOrderQuotes[k] # NoQuote
        BY <2>1, <3>3, <4>2, <4>3, <4>4, <4>5 DEF SettleConfirmation, TypeOK, NoQuote
      <4>7. Retained' = Retained
        BY <4>6 DEF Retained, prior
      <4>8. QED
        BY <2>2, <3>3, <4>7 DEF SettleConfirmation
    <3>4. CASE ReturnConfirmation(c)
      BY <2>3, <3>4 DEF ReturnConfirmation
    <3>5. QED
      BY <2>5, <3>1, <3>2, <3>3, <3>4
      DEF Resume, ReceiveConfirmation, ConfirmationThrows, Settled, Confirmations
  <2>6. ASSUME NEW c \in Calls, Api(c)  PROVE CapacityRespected'
    BY <2>3, <2>6
    DEF Api, ApiIssuesQuote, ApiRefusesQuote, ApiCharges, ApiRejects, ApiFails, clientVars
  <2>7. CASE Restart
    <3>1. Retained' = {} /\ serviceOrderQuotesInFlight' = {}
      BY <2>7 DEF Restart, Retained, prior
    <3>2. QED
      BY <3>1, FS_EmptySet, CapacityAssumption DEF CapacityRespected
  <2>8. ASSUME NEW k \in Keys, ApiQuoteExpires(k)  PROVE CapacityRespected'
    BY <2>3, <2>8 DEF ApiQuoteExpires, clientVars
  <2>9. CASE UNCHANGED vars
    BY <2>3, <2>9 DEF vars, clientVars
  <2>10. QED
    BY <2>4, <2>5, <2>6, <2>7, <2>8, <2>9 DEF Next
<1>3. QED
  BY <1>1, <1>2, Invariance, PTL DEF Spec

-----------------------------------------------------------------------------
(* The refinement.                                                         *)

\* Neither approvals nor the ledger see a step that leaves these alone.
LEMMA AbstractStutter ==
  ASSUME \A c \in Calls : /\ calls'[c].approved = calls[c].approved
                          /\ calls'[c].key = calls[c].key
                          /\ calls'[c].cfg = calls[c].cfg,
         UNCHANGED charges
  PROVE  UNCHANGED <<approvals, ledger>>
BY DEF approvals, ledger

\* A call that starts approves what it acknowledges, and nothing else.
LEMMA EnterApproves ==
  ASSUME IndInv, NEW c \in Calls, NEW a \in Args, NEW pc, NEW reply,
         Enter(c, a, pc, reply), UNCHANGED charges
  PROVE  [Abstract!Next]_(Abstract!vars)
<1> DEFINE new == [key |-> a.key, cfg |-> a.cfg, total |-> ApprovedBy(a)]
<1>1. /\ calls[c] = NewCall /\ charges[c] = NoIssue
  BY DEF Enter, IndInv, CallRecords, Idle
<1>2. /\ \A d \in Calls : d # c => calls'[d] = calls[d]
      /\ calls'[c].key = a.key /\ calls'[c].cfg = a.cfg
      /\ calls'[c].approved = ApprovedBy(a)
      /\ calls[c].approved = None
  BY <1>1 DEF Enter, IndInv, TypeOK, NewCall
<1>3. ledger' = ledger
  BY <1>1, <1>2 DEF ledger
<1>4. CASE ApprovedBy(a) = None
  <2>1. approvals' = approvals
    BY <1>2, <1>4 DEF approvals
  <2>2. QED
    BY <1>3, <2>1 DEF Abstract!vars
<1>5. CASE ApprovedBy(a) # None
  <2>1. new \in Abstract!Approval
    BY <1>5 DEF Abstract!Approval, ApprovedBy, Args
  <2>2. approvals' = approvals \cup {new}
    BY <1>2, <1>5 DEF approvals
  <2>3. Abstract!Approve(new)
    BY <1>3, <2>2 DEF Abstract!Approve
  <2>4. QED
    BY <2>1, <2>3 DEF Abstract!Next
<1>6. QED
  BY <1>4, <1>5

\* The API's charge is one acknowledged purchase, the first for its key.
LEMMA ChargeApproved ==
  ASSUME IndInv, NEW c \in Calls, ApiCharges(c)
  PROVE  Abstract!Next
<1> DEFINE bought == [key |-> calls[c].key, cfg |-> calls[c].cfg, total |-> calls[c].approved]
<1>1. Confirmed(c) /\ charges[c] = NoIssue
  BY DEF ApiCharges, Confirmed, IndInv, CallRecords
<1>2. /\ calls[c].key \in Keys /\ calls[c].cfg \in Configs /\ calls[c].approved \in Totals
      /\ issued[calls[c].key] # NoIssue
      /\ issued[calls[c].key] = [cfg |-> calls[c].cfg, total |-> calls[c].approved]
  BY <1>1, ConfirmedIssued DEF IndInv, ConfirmationsApproved
<1>3. bought \in approvals /\ bought \in Abstract!Approval
  <2>1. calls[c].approved # None
    BY <1>2, NoneAssumption
  <2>2. QED
    BY <1>2, <2>1 DEF approvals, Abstract!Approval
<1>4. \A p \in ledger : p.key # bought.key
  <2>1. SUFFICES ASSUME NEW d \in Calls, charges[d] # NoIssue, calls[d].key = calls[c].key
                 PROVE  FALSE
    BY DEF ledger
  <2>2. Confirmed(d)
    BY <2>1 DEF IndInv, CallRecords, Confirmed
  <2>3. d = c
    BY <1>1, <2>1, <2>2 DEF IndInv, OneConfirmationPerKey
  <2>4. QED
    BY <1>1, <2>1, <2>3
<1>5. UNCHANGED calls /\ \A d \in Calls : d # c => charges'[d] = charges[d]
  BY DEF ApiCharges, clientVars, IndInv, TypeOK
<1>6. charges'[c] = [cfg |-> bought.cfg, total |-> bought.total] /\ charges'[c] # NoIssue
  BY <1>2 DEF ApiCharges, IndInv, TypeOK
<1>7. ledger' = ledger \cup
        {[attempt |-> c, key |-> bought.key, cfg |-> bought.cfg, total |-> bought.total]}
  BY <1>1, <1>5, <1>6 DEF ledger
<1>8. approvals' = approvals
  BY <1>5 DEF approvals
<1>9. Abstract!Charge(c, bought)
  BY <1>3, <1>4, <1>7, <1>8 DEF Abstract!Charge
<1>10. QED
  BY <1>3, <1>9 DEF Abstract!Next

\* order_service implements ApprovedPurchase: it moves money only for what a
\* call acknowledged to the cent and the configuration, once per key.
THEOREM Implements == Spec => ApprovedPurchases
<1>1. Init => Abstract!Init
  BY DEF Init, Abstract!Init, approvals, ledger, NewCall
<1>2. ASSUME IndInv, [Next]_vars  PROVE [Abstract!Next]_(Abstract!vars)
  <2>1. ASSUME NEW c \in Calls, NEW a \in Args, Handle(c, a)
        PROVE  [Abstract!Next]_(Abstract!vars)
    <3>1. UNCHANGED charges /\ \E pc, reply : Enter(c, a, pc, reply)
      BY <2>1
      DEF Handle, RefuseChanged, RefuseUnavailable, RefuseIncomplete, RefuseTotal,
          SendConfirmation, JoinConfirmation, ReplayQuote, RefusePending, RefuseCapacity,
          SendQuote, Answer, apiVars
    <3>2. QED
      BY <1>2, <3>1, EnterApproves
  <2>2. ASSUME UNCHANGED charges,
               \A c \in Calls : /\ calls'[c].approved = calls[c].approved
                               /\ calls'[c].key = calls[c].key
                               /\ calls'[c].cfg = calls[c].cfg
        PROVE  [Abstract!Next]_(Abstract!vars)
    BY <2>2, AbstractStutter DEF Abstract!vars
  <2>3. ASSUME NEW c \in Calls, Resume(c)  PROVE [Abstract!Next]_(Abstract!vars)
    <3>1. UNCHANGED charges
      BY <2>3
      DEF Resume, ReceiveQuote, QuoteThrows, ReceiveConfirmation, ConfirmationThrows,
          SettleConfirmation, ReturnConfirmation, apiVars
    <3>2. UNCHANGED calls \/ \E reply : Return(c, reply)
      BY <2>3
      DEF Resume, ReceiveQuote, QuoteThrows, ReceiveConfirmation, ConfirmationThrows,
          SettleConfirmation, ReturnConfirmation
    <3>3. \A d \in Calls : /\ calls'[d].approved = calls[d].approved
                           /\ calls'[d].key = calls[d].key
                           /\ calls'[d].cfg = calls[d].cfg
      <4>1. CASE UNCHANGED calls
        BY <4>1
      <4>2. ASSUME NEW reply, Return(c, reply)
            PROVE  /\ calls' = [calls EXCEPT ![c] = calls'[c]]
                   /\ calls'[c].approved = calls[c].approved
                   /\ calls'[c].key = calls[c].key /\ calls'[c].cfg = calls[c].cfg
        BY <1>2, <4>2 DEF Return, IndInv, TypeOK, Call
      <4>3. QED
        BY <1>2, <3>2, <4>1, <4>2 DEF IndInv, TypeOK
    <3>4. QED
      BY <2>2, <3>1, <3>3
  <2>4. ASSUME NEW c \in Calls, Api(c)  PROVE [Abstract!Next]_(Abstract!vars)
    <3>1. CASE ApiCharges(c)
      BY <1>2, <3>1, ChargeApproved
    <3>2. CASE ~ApiCharges(c)
      BY <2>2, <2>4, <3>2
      DEF Api, ApiIssuesQuote, ApiRefusesQuote, ApiRejects, ApiFails, clientVars, apiVars
    <3>3. QED
      BY <3>1, <3>2
  <2>5. CASE Restart
    <3>1. \A d \in Calls : /\ calls'[d].approved = calls[d].approved
                           /\ calls'[d].key = calls[d].key
                           /\ calls'[d].cfg = calls[d].cfg
      BY <1>2, <2>5 DEF Restart, IndInv, TypeOK, Call
    <3>2. QED
      BY <2>2, <2>5, <3>1 DEF Restart, apiVars
  <2>6. ASSUME NEW k \in Keys, ApiQuoteExpires(k)  PROVE [Abstract!Next]_(Abstract!vars)
    BY <2>2, <2>6 DEF ApiQuoteExpires, clientVars
  <2>7. CASE UNCHANGED vars
    BY <2>2, <2>7 DEF vars, clientVars, apiVars
  <2>8. QED
    BY <1>2, <2>1, <2>3, <2>4, <2>5, <2>6, <2>7 DEF Next
<1>3. QED
  BY <1>1, <1>2, Invariance, PTL DEF Spec, ApprovedPurchases, Abstract!Spec

-----------------------------------------------------------------------------
(* Progress, up to fairness: no wait is for nothing, and what each call    *)
(* has still to do gets less.                                              *)

Promise(k) == prior(k).confirmation

\* A promise that is not settled has the call whose request settles it still
\* waiting, and a call only waits for a promise that exists.
PromisesOwed ==
  /\ \A k \in Keys : Promise(k) = "pending" => \E d \in Calls : Sender(d) /\ calls[d].key = k
  /\ \A c \in Calls : calls[c].pc = "confirming" => Promise(calls[c].key) # "none"

LEMMA InitOwed == Init => PromisesOwed
BY DEF Init, PromisesOwed, Promise, prior, NoQuote, NewCall

\* A call that starts and sends nothing promises nothing.
LEMMA EnterOwed ==
  ASSUME IndInv, PromisesOwed, NEW c \in Calls, NEW a \in Args, NEW pc, NEW reply,
         Enter(c, a, pc, reply), pc = "confirming" => Promise(a.key) # "none",
         UNCHANGED serviceOrderQuotes, \A d \in Calls \ {c} : http'[d] = http[d]
  PROVE  PromisesOwed'
<1>1. calls[c].pc = "new" /\ \A d \in Calls \ {c} : calls'[d] = calls[d]
  BY DEF Enter, IndInv, TypeOK
<1>2. calls'[c].pc = pc /\ calls'[c].key = a.key
  BY DEF Enter, IndInv, TypeOK
<1>3. \A k \in Keys : Promise(k)' = Promise(k)
  BY DEF Promise, prior
<1>4. \A d \in Calls : Sender(d) => d # c /\ Sender(d)' /\ calls'[d].key = calls[d].key
  BY <1>1 DEF Sender
<1>5. ASSUME NEW k \in Keys, Promise(k)' = "pending"
      PROVE  \E d \in Calls : Sender(d)' /\ calls'[d].key = k
  BY <1>3, <1>4, <1>5 DEF PromisesOwed
<1>6. ASSUME NEW d \in Calls, calls'[d].pc = "confirming"
      PROVE  serviceOrderQuotes'[calls'[d].key].confirmation # "none"
  <2>1. serviceOrderQuotes' = serviceOrderQuotes
    OBVIOUS
  <2>2. CASE d = c
    BY <1>2, <1>6, <2>1, <2>2 DEF Promise, prior
  <2>3. CASE d # c
    BY <1>1, <1>6, <2>1, <2>3 DEF PromisesOwed, Promise, prior
  <2> QED BY <2>2, <2>3
<1> QED BY <1>5, <1>6 DEF PromisesOwed, Promise, prior

LEMMA HandleOwed ==
  ASSUME IndInv, PromisesOwed, NEW c \in Calls, NEW a \in Args, Handle(c, a)
  PROVE  PromisesOwed'
<1>1. ASSUME NEW reply, Answer(c, a, reply)  PROVE PromisesOwed'
  BY <1>1, EnterOwed DEF Answer
<1>2. CASE JoinConfirmation(c, a)
  BY <1>2, EnterOwed DEF JoinConfirmation, Promise
<1>3. CASE SendQuote(c, a)
  <2>1. \A d \in Calls \ {c} : http'[d] = http[d]
    BY <1>3 DEF SendQuote, IndInv, TypeOK
  <2>2. Enter(c, a, "quoting", None) /\ UNCHANGED serviceOrderQuotes
    BY <1>3 DEF SendQuote
  <2> QED BY <2>1, <2>2, EnterOwed
<1>4. CASE SendConfirmation(c, a)
  <2>1. /\ calls[c].pc = "new" /\ \A d \in Calls \ {c} : calls'[d] = calls[d] /\ http'[d] = http[d]
        /\ calls'[c].pc = "confirming" /\ calls'[c].key = a.key /\ http'[c].state = "confirmSent"
    BY <1>4 DEF SendConfirmation, Enter, IndInv, TypeOK
  <2>2. /\ a.key \in Keys /\ prior(a.key) # NoQuote /\ prior(a.key) \in Quote
        /\ serviceOrderQuotes' = [serviceOrderQuotes EXCEPT ![a.key].confirmation = "pending"]
    BY <1>4 DEF SendConfirmation, Confirmable, prior, Args, IndInv, TypeOK
  <2>3. /\ serviceOrderQuotes'[a.key].confirmation = "pending"
        /\ \A k \in Keys \ {a.key} : serviceOrderQuotes'[k] = serviceOrderQuotes[k]
    BY <2>2 DEF IndInv, TypeOK, Quote, prior
  <2>4. ASSUME NEW k \in Keys, serviceOrderQuotes'[k].confirmation = "pending"
        PROVE  \E d \in Calls : Sender(d)' /\ calls'[d].key = k
    <3>1. CASE k = a.key
      BY <2>1, <3>1 DEF Sender
    <3>2. CASE k # a.key
      <4>1. PICK d \in Calls : Sender(d) /\ calls[d].key = k
        BY <2>3, <2>4, <3>2 DEF PromisesOwed, Promise, prior
      <4> QED BY <2>1, <4>1 DEF Sender
    <3> QED BY <3>1, <3>2
  <2>5. ASSUME NEW d \in Calls, calls'[d].pc = "confirming"
        PROVE  serviceOrderQuotes'[calls'[d].key].confirmation # "none"
    <3>1. CASE calls'[d].key = a.key
      BY <2>3, <3>1
    <3>2. CASE calls'[d].key # a.key
      <4>1. calls'[d] = calls[d] /\ calls[d].key \in Keys
        BY <2>1, <2>5, <3>2 DEF IndInv, CallRecords
      <4> QED BY <2>3, <2>5, <3>2, <4>1 DEF PromisesOwed, Promise, prior
    <3> QED BY <3>1, <3>2
  <2> QED BY <2>4, <2>5 DEF PromisesOwed, Promise, prior
<1> QED BY <1>1, <1>2, <1>3, <1>4
        DEF Handle, RefuseChanged, RefuseUnavailable, RefuseIncomplete, RefuseTotal,
            ReplayQuote, RefusePending, RefuseCapacity

\* A call that returns gives up no promise, and stores a quote only under a
\* key nobody waits for.
LEMMA ReturnOwed ==
  ASSUME IndInv, PromisesOwed, NEW c \in Calls, NEW reply, Return(c, reply), UNCHANGED http,
         Sender(c) => Promise(calls[c].key) \in Settled,
         \A k \in Keys : \/ serviceOrderQuotes'[k] = serviceOrderQuotes[k]
                         \/ /\ Promise(k) = "none"
                            /\ serviceOrderQuotes'[k].confirmation = "none"
  PROVE  PromisesOwed'
<1>1. calls'[c].pc = "done" /\ \A d \in Calls \ {c} : calls'[d] = calls[d]
  BY DEF Return, IndInv, TypeOK, Call
<1>2. ASSUME NEW k \in Keys, serviceOrderQuotes'[k].confirmation = "pending"
      PROVE  \E d \in Calls : Sender(d)' /\ calls'[d].key = k
  <2>1. Promise(k) = "pending"
    BY <1>2 DEF Promise, prior
  <2>2. PICK d \in Calls : Sender(d) /\ calls[d].key = k
    BY <2>1 DEF PromisesOwed
  <2>3. d # c
    BY <2>1, <2>2 DEF Settled
  <2> QED BY <1>1, <2>2, <2>3 DEF Sender
<1>3. ASSUME NEW d \in Calls, calls'[d].pc = "confirming"
      PROVE  serviceOrderQuotes'[calls'[d].key].confirmation # "none"
  <2>1. calls'[d] = calls[d] /\ calls[d].key \in Keys
    BY <1>1, <1>3 DEF IndInv, CallRecords
  <2>2. Promise(calls[d].key) # "none"
    BY <1>3, <2>1 DEF PromisesOwed
  <2> QED BY <2>1, <2>2 DEF Promise, prior
<1> QED BY <1>2, <1>3 DEF PromisesOwed, Promise, prior

LEMMA ResumeOwed ==
  ASSUME IndInv, PromisesOwed, NEW c \in Calls, Resume(c)
  PROVE  PromisesOwed'
<1>1. CASE ReceiveQuote(c) \/ QuoteThrows(c)
  <2>1. calls[c].pc = "quoting" /\ UNCHANGED http /\ \E reply : Return(c, reply)
    BY <1>1 DEF ReceiveQuote, QuoteThrows
  <2>2. calls[c].key \in Keys /\ calls[c].key \in serviceOrderQuotesInFlight
    BY <2>1 DEF IndInv, CallRecords, OneQuoteRequestPerKey
  <2>3. prior(calls[c].key) = NoQuote
    BY <2>2 DEF IndInv, OneQuoteRequestPerKey, Retained
  <2>4. PICK usable \in BOOLEAN : serviceOrderQuotes' = Retain(c, usable)
    BY <1>1 DEF ReceiveQuote, QuoteThrows
  <2>5. \A k \in Keys : \/ serviceOrderQuotes'[k] = serviceOrderQuotes[k]
                        \/ /\ Promise(k) = "none"
                           /\ serviceOrderQuotes'[k].confirmation = "none"
    BY <2>2, <2>3, <2>4 DEF Retain, IndInv, TypeOK, Promise, NoQuote
  <2> QED BY <2>1, <2>5, ReturnOwed DEF Sender
<1>2. CASE ReturnConfirmation(c)
  BY <1>2, ReturnOwed DEF ReturnConfirmation, Promise
<1>3. ASSUME NEW outcome \in Settled, SettleConfirmation(c, outcome)  PROVE PromisesOwed'
  <2>1. /\ calls[c].key \in Keys /\ prior(calls[c].key) \in Quote
    BY <1>3 DEF SettleConfirmation, Sender, Unsettled, IndInv, TypeOK, CallRecords, prior, NoQuote
  <2>2. /\ serviceOrderQuotes'[calls[c].key].confirmation = outcome
        /\ \A k \in Keys \ {calls[c].key} : serviceOrderQuotes'[k] = serviceOrderQuotes[k]
        /\ UNCHANGED <<calls, http>>
    BY <1>3, <2>1 DEF SettleConfirmation, IndInv, TypeOK, Quote, prior
  <2>3. ASSUME NEW k \in Keys, serviceOrderQuotes'[k].confirmation = "pending"
        PROVE  \E d \in Calls : Sender(d)' /\ calls'[d].key = k
    BY <1>3, <2>2, <2>3 DEF PromisesOwed, Promise, prior, Sender, Settled
  <2>4. ASSUME NEW d \in Calls, calls'[d].pc = "confirming"
        PROVE  serviceOrderQuotes'[calls'[d].key].confirmation # "none"
    <3>1. calls[d].key \in Keys /\ calls'[d] = calls[d]
      BY <2>2, <2>4 DEF IndInv, CallRecords
    <3> QED BY <1>3, <2>2, <2>4, <3>1 DEF PromisesOwed, Promise, prior, Settled
  <2> QED BY <2>3, <2>4 DEF PromisesOwed, Promise, prior
<1>4. CASE ReceiveConfirmation(c)
  BY <1>3, <1>4 DEF ReceiveConfirmation, Settled, Confirmations
<1>5. CASE ConfirmationThrows(c)
  BY <1>3, <1>5 DEF ConfirmationThrows, Settled, Confirmations
<1> QED BY <1>1, <1>2, <1>4, <1>5 DEF Resume

LEMMA OwedStep == ASSUME IndInv, PromisesOwed, [Next]_vars PROVE PromisesOwed'
<1>1. ASSUME NEW c \in Calls, Api(c)  PROVE PromisesOwed'
  <2>1. UNCHANGED <<serviceOrderQuotes, calls>>
    BY <1>1 DEF Api, ApiIssuesQuote, ApiRefusesQuote, ApiCharges, ApiRejects, ApiFails, clientVars
  <2>2. \E state \in {"quoted", "unusable", "error", "accepted", "unresolved", "rejected"} : \E total :
          Reply(c, state, total)
    <3>1. CASE \E total \in Totals : ApiIssuesQuote(c, total)
      BY <3>1 DEF ApiIssuesQuote
    <3>2. CASE ApiRefusesQuote(c) \/ ApiCharges(c) \/ ApiRejects(c) \/ ApiFails(c)
      BY <3>2 DEF ApiRefusesQuote, ApiCharges, ApiRejects, ApiFails
    <3> QED BY <1>1, <3>1, <3>2 DEF Api
  <2>3. \A d \in Calls : http[d].state # "idle" => http'[d].state # "idle"
    BY <2>2 DEF Reply, IndInv, TypeOK
  <2> QED BY <2>1, <2>3 DEF PromisesOwed, Promise, prior, Sender
<1>2. CASE Restart
  <2>1. \A d \in Calls : calls'[d].pc # "confirming"
    BY <1>2 DEF Restart, IndInv, TypeOK, Call
  <2>2. \A k \in Keys : serviceOrderQuotes'[k].confirmation = "none"
    BY <1>2 DEF Restart, NoQuote
  <2> QED BY <2>1, <2>2 DEF PromisesOwed, Promise, prior
<1>3. ASSUME UNCHANGED <<serviceOrderQuotes, calls, http>>  PROVE PromisesOwed'
  BY <1>3 DEF PromisesOwed, Promise, prior, Sender
<1>4. ASSUME NEW k \in Keys, ApiQuoteExpires(k)  PROVE PromisesOwed'
  BY <1>3, <1>4 DEF ApiQuoteExpires, clientVars
<1>5. CASE UNCHANGED vars
  BY <1>3, <1>5 DEF vars, clientVars
<1> QED BY <1>1, <1>2, <1>4, <1>5, HandleOwed, ResumeOwed DEF Next

LEMMA AlwaysOwed == Spec => [](IndInv /\ PromisesOwed)
<1>1. Init => IndInv /\ PromisesOwed
  BY InitInv, InitOwed
<1>2. IndInv /\ PromisesOwed /\ [Next]_vars => (IndInv /\ PromisesOwed)'
  BY StepInv, OwedStep
<1> QED BY <1>1, <1>2, PTL DEF Spec

\* A call that waits for a confirmation is never forgotten: its promise is
\* settled, or the call whose request will settle it, by an answer or by its
\* deadline, still waits, restarts included.
THEOREM NobodyWaitsInVain ==
  Spec => [](\A c \in Calls : calls[c].pc = "confirming" =>
               \/ prior(calls[c].key).confirmation \in Settled
               \/ \E d \in Calls : /\ Sender(d) /\ Unsettled(calls[d].key)
                                   /\ calls[d].key = calls[c].key)
<1>1. ASSUME IndInv, PromisesOwed, NEW c \in Calls, calls[c].pc = "confirming"
      PROVE  \/ prior(calls[c].key).confirmation \in Settled
             \/ \E d \in Calls : /\ Sender(d) /\ Unsettled(calls[d].key)
                                 /\ calls[d].key = calls[c].key
  <2>1. calls[c].key \in Keys /\ prior(calls[c].key) \in Quote \cup {NoQuote}
    BY <1>1 DEF IndInv, CallRecords, TypeOK, prior
  <2>2. prior(calls[c].key).confirmation \in Confirmations \ {"none"}
    BY <1>1, <2>1 DEF PromisesOwed, Promise, Quote, NoQuote
  <2> QED BY <1>1, <2>1, <2>2 DEF PromisesOwed, Promise, Settled, Unsettled
<1>2. IndInv /\ PromisesOwed =>
        \A c \in Calls : calls[c].pc = "confirming" =>
          \/ prior(calls[c].key).confirmation \in Settled
          \/ \E d \in Calls : /\ Sender(d) /\ Unsettled(calls[d].key)
                              /\ calls[d].key = calls[c].key
  BY <1>1
<1> QED BY <1>2, AlwaysOwed, PTL

\* At most a start, a shared outcome and an answer.
StepsLeft(c) ==
  CASE calls[c].pc = "new" -> 3
    [] calls[c].pc = "confirming" -> IF Promise(calls[c].key) = "pending" THEN 2 ELSE 1
    [] calls[c].pc = "quoting" -> 1
    [] OTHER -> 0

LEMMA StepsAreFew ==
  ASSUME IndInv, NEW c \in Calls
  PROVE  StepsLeft(c) \in 0..3 /\ (StepsLeft(c) = 0 <=> calls[c].pc \in {"done", "lost"})
<1>1. calls[c].pc \in {"new", "quoting", "confirming", "done", "lost"}
  BY DEF IndInv, TypeOK, Call
<1> QED BY <1>1 DEF StepsLeft

\* A call's remaining steps depend on its own state and the promise it awaits.
LEMMA SameSteps ==
  ASSUME IndInv, NEW c \in Calls, calls'[c] = calls[c],
         calls[c].pc = "confirming" =>
           \/ serviceOrderQuotes'[calls[c].key] = serviceOrderQuotes[calls[c].key]
           \/ serviceOrderQuotes'[calls[c].key].confirmation # "pending"
  PROVE  StepsLeft(c)' <= StepsLeft(c)
<1>1. calls[c].pc \in {"new", "quoting", "confirming", "done", "lost"}
  BY DEF IndInv, TypeOK, Call
<1> QED BY <1>1 DEF StepsLeft, Promise, prior

LEMMA HandleAdvances ==
  ASSUME IndInv, PromisesOwed, NEW c \in Calls, NEW a \in Args, Handle(c, a)
  PROVE  /\ StepsLeft(c)' < StepsLeft(c)
         /\ \A d \in Calls : StepsLeft(d)' <= StepsLeft(d)
<1>1. \E pc \in {"quoting", "confirming", "done"} : \E reply : Enter(c, a, pc, reply)
  BY DEF Handle, RefuseChanged, RefuseUnavailable, RefuseIncomplete, RefuseTotal,
         SendConfirmation, JoinConfirmation, ReplayQuote, RefusePending, RefuseCapacity,
         SendQuote, Answer
<1>2. /\ calls[c].pc = "new" /\ calls'[c].pc \in {"quoting", "confirming", "done"}
      /\ \A d \in Calls \ {c} : calls'[d] = calls[d]
  BY <1>1 DEF Enter, IndInv, TypeOK
<1>3. StepsLeft(c) = 3 /\ StepsLeft(c)' \in 0..2
  BY <1>2 DEF StepsLeft
<1>4. ASSUME NEW d \in Calls \ {c}  PROVE StepsLeft(d)' <= StepsLeft(d)
  <2>1. ASSUME calls[d].pc = "confirming"
        PROVE  serviceOrderQuotes'[calls[d].key] = serviceOrderQuotes[calls[d].key]
    <3>1. calls[d].key \in Keys /\ Promise(calls[d].key) # "none"
      BY <2>1 DEF IndInv, CallRecords, PromisesOwed
    <3>2. CASE SendConfirmation(c, a)
      <4>1. a.key # calls[d].key
        BY <3>1, <3>2 DEF SendConfirmation, MaySendConfirmation, Promise
      <4> QED BY <3>1, <3>2, <4>1 DEF SendConfirmation, IndInv, TypeOK
    <3>3. CASE ~SendConfirmation(c, a)
      BY <3>3 DEF Handle, RefuseChanged, RefuseUnavailable, RefuseIncomplete, RefuseTotal,
         JoinConfirmation, ReplayQuote, RefusePending, RefuseCapacity, SendQuote, Answer
    <3> QED BY <3>2, <3>3
  <2> QED BY <1>2, <2>1, SameSteps
<1> QED BY <1>3, <1>4

LEMMA ResumeAdvances ==
  ASSUME IndInv, PromisesOwed, NEW c \in Calls, Resume(c)
  PROVE  /\ StepsLeft(c)' < StepsLeft(c)
         /\ \A d \in Calls : StepsLeft(d)' <= StepsLeft(d)
<1>1. CASE ReceiveQuote(c) \/ QuoteThrows(c) \/ ReturnConfirmation(c)
  <2>1. calls[c].pc \in {"quoting", "confirming"} /\ \E reply : Return(c, reply)
    BY <1>1 DEF ReceiveQuote, QuoteThrows, ReturnConfirmation
  <2>2. calls'[c].pc = "done" /\ \A d \in Calls \ {c} : calls'[d] = calls[d]
    BY <2>1 DEF Return, IndInv, TypeOK, Call
  <2>3. StepsLeft(c) \in 1..2 /\ StepsLeft(c)' = 0
    BY <2>1, <2>2 DEF StepsLeft
  <2>4. ASSUME NEW d \in Calls \ {c}, calls[d].pc = "confirming"
        PROVE  serviceOrderQuotes'[calls[d].key] = serviceOrderQuotes[calls[d].key]
    <3>1. calls[d].key \in Keys /\ prior(calls[d].key) # NoQuote
      BY <2>4 DEF IndInv, CallRecords, PromisesOwed, Promise, NoQuote
    <3>2. CASE calls[c].pc = "quoting"
      <4>1. calls[c].key \in Keys /\ prior(calls[c].key) = NoQuote
        BY <3>2 DEF IndInv, CallRecords, OneQuoteRequestPerKey, Retained
      <4>2. \E usable \in BOOLEAN : serviceOrderQuotes' = Retain(c, usable)
        BY <1>1, <3>2 DEF ReceiveQuote, QuoteThrows, ReturnConfirmation
      <4> QED BY <3>1, <4>1, <4>2 DEF Retain, IndInv, TypeOK
    <3>3. CASE calls[c].pc # "quoting"
      BY <1>1, <3>3 DEF ReceiveQuote, QuoteThrows, ReturnConfirmation
    <3> QED BY <3>2, <3>3
  <2>5. \A d \in Calls \ {c} : StepsLeft(d)' <= StepsLeft(d)
    BY <2>2, <2>4, SameSteps
  <2> QED BY <2>3, <2>5
<1>2. ASSUME NEW outcome \in Settled, SettleConfirmation(c, outcome)
      PROVE  /\ StepsLeft(c)' < StepsLeft(c)
             /\ \A d \in Calls : StepsLeft(d)' <= StepsLeft(d)
  <2>1. /\ calls[c].pc = "confirming" /\ calls[c].key \in Keys /\ Promise(calls[c].key) = "pending"
        /\ prior(calls[c].key) \in Quote
    BY <1>2 DEF SettleConfirmation, Sender, Unsettled, Promise, IndInv, TypeOK, CallRecords, prior, NoQuote
  <2>2. /\ serviceOrderQuotes'[calls[c].key].confirmation = outcome
        /\ \A k \in Keys \ {calls[c].key} : serviceOrderQuotes'[k] = serviceOrderQuotes[k]
        /\ UNCHANGED calls
    BY <1>2, <2>1 DEF SettleConfirmation, IndInv, TypeOK, Quote, prior
  <2>3. StepsLeft(c) = 2 /\ StepsLeft(c)' = 1
    BY <1>2, <2>1, <2>2 DEF StepsLeft, Promise, prior, Settled
  <2>4. ASSUME NEW d \in Calls  PROVE StepsLeft(d)' <= StepsLeft(d)
    <3>1. calls[d].pc = "confirming" =>
            \/ serviceOrderQuotes'[calls[d].key] = serviceOrderQuotes[calls[d].key]
            \/ serviceOrderQuotes'[calls[d].key].confirmation # "pending"
      BY <1>2, <2>2 DEF Settled, IndInv, CallRecords
    <3> QED BY <2>2, <3>1, SameSteps
  <2> QED BY <2>3, <2>4
<1>3. CASE ReceiveConfirmation(c)
  BY <1>2, <1>3 DEF ReceiveConfirmation, Settled, Confirmations
<1>4. CASE ConfirmationThrows(c)
  BY <1>2, <1>4 DEF ConfirmationThrows, Settled, Confirmations
<1> QED BY <1>1, <1>3, <1>4 DEF Resume

LEMMA NextAdvances ==
  ASSUME IndInv, PromisesOwed, Next
  PROVE  \A d \in Calls : StepsLeft(d)' <= StepsLeft(d)
<1>1. ASSUME UNCHANGED <<serviceOrderQuotes, calls>>
      PROVE  \A d \in Calls : StepsLeft(d)' <= StepsLeft(d)
  BY <1>1, SameSteps
<1>2. ASSUME NEW c \in Calls, Api(c)  PROVE \A d \in Calls : StepsLeft(d)' <= StepsLeft(d)
  BY <1>1, <1>2
  DEF Api, ApiIssuesQuote, ApiRefusesQuote, ApiCharges, ApiRejects, ApiFails, clientVars
<1>3. ASSUME NEW k \in Keys, ApiQuoteExpires(k)  PROVE \A d \in Calls : StepsLeft(d)' <= StepsLeft(d)
  BY <1>1, <1>3 DEF ApiQuoteExpires, clientVars
<1>4. ASSUME Restart, NEW d \in Calls  PROVE StepsLeft(d)' <= StepsLeft(d)
  <2>1. CASE calls[d].pc \in {"quoting", "confirming"}
    <3>1. calls'[d].pc = "lost"
      BY <1>4, <2>1 DEF Restart, IndInv, TypeOK, Call
    <3> QED BY <2>1, <3>1 DEF StepsLeft
  <2>2. CASE calls[d].pc \notin {"quoting", "confirming"}
    BY <1>4, <2>2, SameSteps DEF Restart
  <2> QED BY <2>1, <2>2
<1> QED BY <1>2, <1>3, <1>4, HandleAdvances, ResumeAdvances DEF Next

\* A call of order_service starts, hears of one outcome and answers: three
\* steps at most. No call, restart or answer gives another call more to do.
THEOREM CallsAreBounded ==
  Spec => /\ [](\A c \in Calls : /\ StepsLeft(c) \in 0..3
                                 /\ StepsLeft(c) = 0 <=> calls[c].pc \in {"done", "lost"})
          /\ [][/\ \A c \in Calls : StepsLeft(c)' <= StepsLeft(c)
                /\ \A c \in Calls : Resume(c) => StepsLeft(c)' < StepsLeft(c)
                /\ \A c \in Calls, a \in Args : Handle(c, a) => StepsLeft(c)' < StepsLeft(c)]_vars
<1>1. IndInv => \A c \in Calls : /\ StepsLeft(c) \in 0..3
                                 /\ StepsLeft(c) = 0 <=> calls[c].pc \in {"done", "lost"}
  BY StepsAreFew
<1>2. ASSUME IndInv, PromisesOwed, Next
      PROVE  /\ \A c \in Calls : StepsLeft(c)' <= StepsLeft(c)
             /\ \A c \in Calls : Resume(c) => StepsLeft(c)' < StepsLeft(c)
             /\ \A c \in Calls, a \in Args : Handle(c, a) => StepsLeft(c)' < StepsLeft(c)
  BY <1>2, NextAdvances, HandleAdvances, ResumeAdvances
<1> QED BY <1>1, <1>2, AlwaysOwed, PTL DEF Spec
=============================================================================
