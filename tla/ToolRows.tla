------------------------------ MODULE ToolRows ------------------------------
(***************************************************************************)
(* What the tool catalogue records of a tool: the facts about its handler  *)
(* (src/index.ts and the modules it registers) that decide what a caller   *)
(* is told before a call, what the call may do, and what its answer says.  *)
(*                                                                         *)
(* A row is written as pieces joined by @@, the left one winning:          *)
(*   FTT @@ Keyed @@ Asks @@ Post                                          *)
(* The pieces about the handler are read off its code. What a route of the *)
(* API does to the account (Changes, Settles) is external: it is read off  *)
(* the comments of src/remote-policy.ts, the descriptions of the tools and *)
(* test/fixtures/tool-contracts/impact-policy.json.                        *)
(***************************************************************************)
EXTENDS Naturals, TLC

Impacts == {"nothing", "adds", "alters"}
Answerings == {"raw", "projected", "fitted", "inspect", "bare"}
HintNames == {"readOnly", "destructive", "idempotent"}

\* reads:   how apiRequest is told to treat an answer that is not the API's
\* key:     the Idempotency-Key: none, required, or sent when given
\* asks:    the arguments must hold a literal acknowledgement of the customer
\* before:  a request made first, whose answer may end the call
\* answer:  how the API's answer is passed on: as it is, with known fields
\*          only, refitted to a contract, failures as "inspect", or bare
\* polls:   the call follows queued work by polling
\* change:  the most the route does to what the customer has
\* settles: a repetition leaves what the first request left
\* pays:    the request charges the customer
\* hints:   the annotations its registration states
Row == [reads: BOOLEAN, key: {"none", "optional", "required"}, asks: BOOLEAN,
        before: {"nothing", "read", "quote"}, answer: Answerings,
        polls: BOOLEAN, change: Impacts, settles: BOOLEAN, pays: BOOLEAN,
        hints: UNION {[H -> BOOLEAN] : H \in SUBSET HintNames}]

Plain(reads, change, settles) ==
  [reads |-> reads, key |-> "none", asks |-> FALSE, before |-> "nothing", answer |-> "raw",
   polls |-> FALSE, change |-> change, settles |-> settles, pays |-> FALSE, hints |-> <<>>]

\* A GET is a read unless the caller of apiRequest says otherwise; PUT and
\* DELETE leave the same state however often they are repeated.
Get    == Plain(TRUE, "nothing", TRUE)
Post   == Plain(FALSE, "alters", FALSE)
Put    == Plain(FALSE, "alters", TRUE)
Delete == Plain(FALSE, "alters", TRUE)

\* The stated annotations: readOnlyHint, destructiveHint, idempotentHint.
Hints(r, d, i) == [hints |-> [readOnly |-> r, destructive |-> d, idempotent |-> i]]
TFT == Hints(TRUE, FALSE, TRUE)
FTT == Hints(FALSE, TRUE, TRUE)
FTF == Hints(FALSE, TRUE, FALSE)
FFT == Hints(FALSE, FALSE, TRUE)
FFF == Hints(FALSE, FALSE, FALSE)
FT  == [hints |-> [readOnly |-> FALSE, destructive |-> TRUE]]
FF  == [hints |-> [readOnly |-> FALSE, destructive |-> FALSE]]
TF  == [hints |-> [readOnly |-> TRUE, destructive |-> FALSE]]

Keyed         == [key |-> "required"]
MayKey        == [key |-> "optional"]
Asks          == [asks |-> TRUE]
LooksFirst    == [before |-> "read"]
QuotesFirst   == [before |-> "quote"]
Projected     == [answer |-> "projected"]
Fitted        == [answer |-> "fitted"]
SaysInspect   == [answer |-> "inspect"]
Bare          == [answer |-> "bare"]
Polls         == [polls |-> TRUE]
Changes(what) == [change |-> what]
Settles       == [settles |-> TRUE]
Pays          == [pays |-> TRUE]
CountsAsRead  == [reads |-> TRUE]
\* Slip: a GET that hands out something once counts as a read.
TakesOnce_AsRead == [change |-> "alters", settles |-> FALSE]
\* A GET that hands out something once, and is not retried as a read.
TakesOnce     == [reads |-> FALSE, change |-> "alters", settles |-> FALSE]

\* How much a change is, and how much annotations prepare a client for.
Levels == [nothing |-> 0, adds |-> 1, alters |-> 2]
DisclosedBy(hints) == IF hints.readOnly THEN 0 ELSE IF hints.destructive THEN 2 ELSE 1

Each(names, row) == [t \in names |-> row]
=============================================================================
