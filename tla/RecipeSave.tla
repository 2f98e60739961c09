---------------------------- MODULE RecipeSave ----------------------------
(***************************************************************************)
(* validate_application_recipe, create_application_recipe and              *)
(* create_application_recipe_revision (src/index.ts): the API pins a       *)
(* recipe's image tags and queues a validation of the pinned document; the *)
(* tool polls it for a while and, once it is valid, saves the pinned       *)
(* document under an idempotency key. A save that was left pending is      *)
(* resumed by a later call with the validation's id and the pinned         *)
(* document. Meanwhile tags move and validations end and expire.           *)
(*                                                                         *)
(* A document is Tagged, as the customer wrote it, or the image its tag is *)
(* pinned to; distinct documents have distinct digests. "pending" stands   *)
(* for the states queued and awaiting_reply, "failed" for failed and       *)
(* expired. The API is external; it answers with the validation it was     *)
(* asked for.                                                              *)
(***************************************************************************)
EXTENDS Naturals

CONSTANTS
  Calls,     \* tool calls; each invokes one tool once
  Keys,      \* idempotency keys
  Ids,       \* validation ids
  Images,    \* the documents a tag can be pinned to
  Oversize,  \* those longer than the 262144 characters the tools accept
  Tagged,    \* the document before its tag is pinned
  MaxPolls,  \* the 15 attempts of the polling loop
  None

ASSUME PollsAssumption == MaxPolls \in Nat \ {0}
ASSUME OversizeAssumption == Oversize \subseteq Images
ASSUME DocumentsAssumption == Tagged \notin Images /\ None \notin Images \cup Ids \cup {Tagged}

VARIABLES
  tag,          \* the image the tag names now
  validations,  \* the API's validations
  calls,        \* the state of each tool call
  sent          \* history: the documents sent to be saved

vars == <<tag, validations, calls, sent>>

Documents == {Tagged} \cup (Images \ Oversize)

\* expired: its expires_at has passed.
Validation == [doc: Images, state: {"pending", "succeeded", "failed"},
               valid: BOOLEAN, expired: BOOLEAN]
NoValidation == [doc |-> None, state |-> "failed", valid |-> FALSE, expired |-> TRUE]

\* "save" stands for the two tools that save: a recipe, or a revision of one.
Tools == {"validate", "save"}

\* id and resolved: what the tool knows of its validation, and tells the
\* customer when it is left pending.
Call == [pc: {"new", "validating", "sleeping", "polling", "fetching", "creating", "done"},
         tool: Tools, key: Keys, doc: Documents, validationId: Ids \cup {None},
         id: Ids \cup {None}, resolved: Documents \cup {None}, polls: 0..MaxPolls,
         reply: {"none", "refused", "thrown", "pending", "invalid", "valid",
                 "unresolved", "mismatch", "validationExpired", "saved"}]

Sent == [call: Calls, key: Keys, doc: Documents]

TypeOK ==
  /\ tag \in Images
  /\ validations \in [Ids -> Validation \cup {NoValidation}]
  /\ calls \in [Calls -> Call]
  /\ sent \subseteq Sent

Init ==
  /\ tag \in Images
  /\ validations = [i \in Ids |-> NoValidation]
  /\ \E key \in Keys :
       calls = [c \in Calls |->
                 [pc |-> "new", tool |-> "validate", key |-> key, doc |-> Tagged,
                  validationId |-> None, id |-> None, resolved |-> None, polls |-> 0,
                  reply |-> "none"]]
  /\ sent = {}

-----------------------------------------------------------------------------
(* What the tool decides.                                                  *)

Passed(v) == v.state = "succeeded" /\ v.valid

\* Slip: the pinned document is looked for in what the last poll said of it.
Pinned_Polled(doc) == None

\* Slip: the limit is forgotten.
Pinned_Whole(doc) == doc

\* What a tool keeps, and hands out, of the pinned document the API told it
\* when it created the validation: later polls no longer say it. A longer one
\* is cut, which leaves no document.
Pinned(doc) == IF doc \in Oversize THEN None ELSE doc

\* The tool has heard that its validation is v: it saves the document it
\* holds, or answers.
Decide(c, v, known) ==
  LET save == calls[c].tool = "save" /\ Passed(v) /\ known.resolved # None
      reply == IF v.state = "pending" THEN "pending"
               ELSE IF ~Passed(v) THEN "invalid"
               ELSE IF calls[c].tool = "save" THEN "unresolved" ELSE "valid" IN
  /\ calls' = [calls EXCEPT ![c] =
       IF save THEN [known EXCEPT !.pc = "creating"]
               ELSE [known EXCEPT !.pc = "done", !.reply = reply]]
  /\ sent' = sent \cup
       (IF save THEN {[call |-> c, key |-> known.key, doc |-> known.resolved]} ELSE {})

Finish(c, reply) ==
  /\ calls' = [calls EXCEPT ![c] = [@ EXCEPT !.pc = "done", !.reply = reply]]
  /\ UNCHANGED sent

-----------------------------------------------------------------------------
(* The steps of a tool call.                                               *)

Invoke(c, tool, key, doc, validationId) ==
  /\ calls[c].pc = "new"
  /\ tool = "validate" => validationId = None
  /\ calls' = [calls EXCEPT ![c] =
       [@ EXCEPT !.pc = IF validationId = None THEN "validating" ELSE "fetching",
                 !.tool = tool, !.key = key, !.doc = doc, !.validationId = validationId]]
  /\ UNCHANGED <<tag, validations, sent>>

\* The POST is answered: the API has pinned the tag and queued a validation
\* of that document, or found (replayed) the one it already has.
ValidationCreated(c) ==
  /\ calls[c].pc = "validating"
  /\ \E i \in Ids :
       LET doc == IF calls[c].doc = Tagged THEN tag ELSE calls[c].doc
           v == IF validations[i] # NoValidation THEN validations[i]
                ELSE [doc |-> doc, state |-> "pending", valid |-> FALSE, expired |-> FALSE]
           known == [calls[c] EXCEPT !.id = i, !.resolved = Pinned(doc)] IN
       /\ v.doc = doc
       /\ validations' = [validations EXCEPT ![i] = v]
       /\ IF v.state = "pending"
          THEN calls' = [calls EXCEPT ![c] = [known EXCEPT !.pc = "sleeping"]] /\ UNCHANGED sent
          ELSE Decide(c, v, known)
  /\ UNCHANGED tag

\* The two seconds between polls are over.
Wake(c) ==
  /\ calls[c].pc = "sleeping"
  /\ calls' = [calls EXCEPT ![c].pc = "polling"]
  /\ UNCHANGED <<tag, validations, sent>>

\* Slip: the attempt is not counted.
Attempt_Uncounted(polls) == polls

Attempt(polls) == polls + 1

Polled(c) ==
  /\ calls[c].pc = "polling"
  /\ LET v == validations[calls[c].id]
         known == [calls[c] EXCEPT !.polls = Attempt(calls[c].polls)] IN
     IF v.state = "pending" /\ known.polls < MaxPolls
     THEN calls' = [calls EXCEPT ![c] = [known EXCEPT !.pc = "sleeping"]] /\ UNCHANGED sent
     ELSE Decide(c, v, known)
  /\ UNCHANGED <<tag, validations>>

\* Slip: the id alone binds the validation to the document.
Bound_ById(v, doc) == TRUE

\* The digest of the document is the one that was validated.
Bound(v, doc) == v.doc = doc

\* A resumed save reads its validation. An answer that does not say until when it
\* is good, whatever its state, counts as expired.
Fetched(c) ==
  /\ calls[c].pc = "fetching"
  /\ LET i == calls[c].validationId
         v == validations[i] IN
     IF v = NoValidation THEN Finish(c, "refused")
     ELSE IF ~Bound(v, calls[c].doc) THEN Finish(c, "mismatch")
     ELSE \/ Finish(c, "validationExpired")
          \/ /\ ~v.expired
             /\ Decide(c, v, [calls[c] EXCEPT !.id = i, !.resolved = calls[c].doc])
  /\ UNCHANGED <<tag, validations>>

\* The API answered the save, with whatever status.
Created(c) ==
  /\ calls[c].pc = "creating"
  /\ Finish(c, "saved")
  /\ UNCHANGED <<tag, validations>>

\* Any request may be refused; with it goes what the tool knew.
Refused(c) ==
  /\ calls[c].pc \in {"validating", "polling", "fetching"}
  /\ Finish(c, "refused")
  /\ UNCHANGED <<tag, validations>>

\* Any request may go unanswered; apiRequest throws.
Thrown(c) ==
  /\ calls[c].pc \in {"validating", "polling", "fetching", "creating"}
  /\ Finish(c, "thrown")
  /\ UNCHANGED <<tag, validations>>

-----------------------------------------------------------------------------
(* The registry and the API.                                               *)

TagMoves ==
  /\ tag' \in Images \ {tag}
  /\ UNCHANGED <<validations, calls, sent>>

ValidationEnds(i) ==
  /\ validations[i].state = "pending"
  /\ \E state \in {"succeeded", "failed"}, valid \in BOOLEAN :
       /\ valid => state = "succeeded"
       /\ validations' = [validations EXCEPT ![i] = [@ EXCEPT !.state = state, !.valid = valid]]
  /\ UNCHANGED <<tag, calls, sent>>

ValidationExpires(i) ==
  /\ validations[i].state = "succeeded" /\ ~validations[i].expired
  /\ validations' = [validations EXCEPT ![i].expired = TRUE]
  /\ UNCHANGED <<tag, calls, sent>>

-----------------------------------------------------------------------------

ToolStep(c) ==
  \/ ValidationCreated(c) \/ Wake(c) \/ Polled(c) \/ Fetched(c) \/ Created(c)
  \/ Refused(c) \/ Thrown(c)

Next ==
  \/ \E c \in Calls : ToolStep(c)
  \/ \E c \in Calls, tool \in Tools, key \in Keys, doc \in Documents, id \in Ids \cup {None} :
       Invoke(c, tool, key, doc, id)
  \/ TagMoves
  \/ \E i \in Ids : ValidationEnds(i) \/ ValidationExpires(i)

Spec == Init /\ [][Next]_vars

\* Every request has a timeout and the sleep between polls a timer.
FairSpec == Spec /\ \A c \in Calls : WF_vars(ToolStep(c))

-----------------------------------------------------------------------------

\* The tools never send the API a document to save that no validation has
\* found valid: not the document a tag was pinned to at another time, not the
\* one of another validation, not one still being validated
\* (validateApplicationRecipeForSave, applicationRecipeValidationPassed).
SentValidated ==
  \A s \in sent : \E i \in Ids :
    /\ validations[i].doc = s.doc
    /\ validations[i].state = "succeeded"
    /\ validations[i].valid

\* An answer that leaves a validation pending says its id and the document it
\* validates, however many polls came in between, so that the customer can
\* resume this save and no other (the merge at the end of
\* runApplicationAsyncOperation). A pinned document over the limit is cut.
PendingResumable ==
  \A c \in Calls : calls[c].reply = "pending" =>
    /\ calls[c].id \in Ids
    /\ validations[calls[c].id].doc \notin Oversize =>
         calls[c].resolved = validations[calls[c].id].doc

\* Every tool call ends, even if its validation never does: the polls of
\* runApplicationAsyncOperation are bounded.
CallEnds == \A c \in Calls : (calls[c].pc # "new") ~> (calls[c].pc = "done")

\* "Reuse it only to replay this exact recipe creation request": two calls
\* with the same arguments, key included, send the API the same request
\* (create_application_recipe, idempotencyKey).
ReplayIsExact ==
  \A s, t \in sent :
    (/\ s.key = t.key
     /\ calls[s.call].doc = calls[t.call].doc
     /\ calls[s.call].validationId = calls[t.call].validationId)
    => s.doc = t.doc
=============================================================================
