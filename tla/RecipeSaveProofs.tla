------------------------- MODULE RecipeSaveProofs -------------------------
(***************************************************************************)
(* Proofs about RecipeSave, for any number of calls, validations, images   *)
(* and polls: types, that only validated documents are saved, and that a   *)
(* pending answer names the validation's own document.                     *)
(***************************************************************************)
EXTENDS RecipeSave, TLAPS

\* What a call knows of its validation is what the API keeps of it.
Follows(call) ==
  /\ call.id \in Ids
  /\ validations[call.id].doc # None
  /\ call.resolved = Pinned(validations[call.id].doc)

FollowersFollow ==
  \A c \in Calls :
    calls[c].pc \in {"sleeping", "polling"} \/ calls[c].reply = "pending" => Follows(calls[c])

ControlOK ==
  \A c \in Calls :
    /\ calls[c].pc \in {"new", "validating"} => calls[c].polls = 0
    /\ calls[c].pc \in {"sleeping", "polling"} => calls[c].polls < MaxPolls
    /\ calls[c].pc = "fetching" => calls[c].validationId \in Ids

IndInv == TypeOK /\ SentValidated /\ FollowersFollow /\ ControlOK

\* The API keeps a validation's document, and a validation that ended well.
Kept ==
  \A i \in Ids : validations[i].doc # None =>
    /\ validations'[i].doc = validations[i].doc
    /\ validations[i].state = "succeeded" =>
         validations'[i].state = "succeeded" /\ validations'[i].valid = validations[i].valid

USE PollsAssumption, OversizeAssumption, DocumentsAssumption

\* What a tool keeps of a pinned document is a document or nothing.
LEMMA PinnedType ==
  ASSUME NEW doc \in Images
  PROVE  Pinned(doc) \in Documents \cup {None}
BY DEF Pinned, Documents

\* What was sent stays validated while the API keeps its validations.
LEMMA KeptInv ==
  ASSUME IndInv, Kept, UNCHANGED sent
  PROVE  SentValidated'
<1>1. ASSUME NEW s \in sent
      PROVE  \E i \in Ids : /\ validations'[i].doc = s.doc
                            /\ validations'[i].state = "succeeded"
                            /\ validations'[i].valid
  <2>1. PICK i \in Ids : /\ validations[i].doc = s.doc
                         /\ validations[i].state = "succeeded"
                         /\ validations[i].valid
    BY <1>1 DEF IndInv, SentValidated
  <2>2. s.doc # None
    BY <1>1 DEF IndInv, TypeOK, Sent, Documents
  <2> QED BY <2>1, <2>2 DEF Kept
<1> QED BY <1>1 DEF SentValidated

\* A decision about a validation the call follows: it saves only what v found
\* valid, and the call goes on following it.
LEMMA DecideInv ==
  ASSUME IndInv, Kept, validations' \in [Ids -> Validation \cup {NoValidation}],
         UNCHANGED tag,
         NEW c \in Calls, NEW known \in Call,
         known.id \in Ids, validations'[known.id].doc # None,
         known.resolved = Pinned(validations'[known.id].doc),
         Decide(c, validations'[known.id], known)
  PROVE  IndInv'
<1> DEFINE v == validations'[known.id]
           save == calls[c].tool = "save" /\ Passed(v) /\ known.resolved # None
           reply == IF v.state = "pending" THEN "pending"
                    ELSE IF ~Passed(v) THEN "invalid"
                    ELSE IF calls[c].tool = "save" THEN "unresolved" ELSE "valid"
           saving == [known EXCEPT !.pc = "creating"]
           ended == [known EXCEPT !.pc = "done", !.reply = reply]
           new == IF save THEN saving ELSE ended
<1>1. /\ calls' = [calls EXCEPT ![c] = new]
      /\ sent' = sent \cup
           (IF save THEN {[call |-> c, key |-> known.key, doc |-> known.resolved]} ELSE {})
  BY DEF Decide
<1> HIDE DEF new
<1>2. new \in Call
  BY DEF new, Call
<1>3. /\ new.id = known.id /\ new.resolved = known.resolved
      /\ new.pc \in {"creating", "done"}
  BY DEF new, Call
<1>4. calls' \in [Calls -> Call] /\ calls'[c] = new
      /\ \A d \in Calls \ {c} : calls'[d] = calls[d]
  BY <1>1, <1>2 DEF IndInv, TypeOK
<1>5. TypeOK'
  <2>1. sent' \subseteq Sent
    BY <1>1 DEF IndInv, TypeOK, Sent, Call
  <2> QED BY <2>1, <1>4 DEF TypeOK, IndInv
<1>6. SentValidated'
  <2>1. CASE ~save
    BY <2>1, <1>1, KeptInv
  <2>2. CASE save
    <3>1. known.resolved = v.doc /\ v.state = "succeeded" /\ v.valid
      BY <2>2 DEF Passed, Pinned
    <3>2. ASSUME NEW s \in sent
          PROVE  \E i \in Ids : /\ validations'[i].doc = s.doc
                                /\ validations'[i].state = "succeeded"
                                /\ validations'[i].valid
      <4>1. PICK i \in Ids : /\ validations[i].doc = s.doc
                             /\ validations[i].state = "succeeded"
                             /\ validations[i].valid
        BY <3>2 DEF IndInv, SentValidated
      <4>2. s.doc # None
        BY <3>2 DEF IndInv, TypeOK, Sent, Documents
      <4> QED BY <4>1, <4>2 DEF Kept
    <3> QED BY <3>1, <3>2, <1>1, <2>2 DEF SentValidated
  <2> QED BY <2>1, <2>2
<1>7. FollowersFollow'
  <2>1. ASSUME NEW d \in Calls \ {c},
               calls[d].pc \in {"sleeping", "polling"} \/ calls[d].reply = "pending"
        PROVE  Follows(calls[d])'
    BY <2>1, <1>4 DEF IndInv, FollowersFollow, Follows, Kept
  <2>2. Follows(calls[c])'
    BY <1>3, <1>4 DEF Follows
  <2> QED BY <2>1, <2>2, <1>4 DEF FollowersFollow
<1>8. ControlOK'
  BY <1>3, <1>4 DEF IndInv, ControlOK
<1> QED BY <1>5, <1>6, <1>7, <1>8 DEF IndInv

\* A call that ends with anything but a pending answer disturbs nothing.
LEMMA FinishInv ==
  ASSUME IndInv, UNCHANGED <<tag, validations>>, NEW c \in Calls,
         NEW reply \in {"refused", "thrown", "mismatch", "validationExpired", "saved"},
         Finish(c, reply)
  PROVE  IndInv'
<1> DEFINE new == [calls[c] EXCEPT !.pc = "done", !.reply = reply]
<1>0. new \in Call /\ new.pc = "done" /\ new.reply = reply
  <2>1. calls[c] \in Call
    BY DEF IndInv, TypeOK
  <2> QED BY <2>1 DEF Call
<1>9. calls' = [calls EXCEPT ![c] = new]
  BY DEF Finish, IndInv, TypeOK
<1> HIDE DEF new
<1>1. calls' \in [Calls -> Call] /\ UNCHANGED sent
  BY <1>0, <1>9 DEF Finish, IndInv, TypeOK
<1>2. /\ calls'[c].pc = "done" /\ calls'[c].reply = reply
      /\ \A d \in Calls \ {c} : calls'[d] = calls[d]
  BY <1>0, <1>9 DEF IndInv, TypeOK
<1>3. TypeOK'
  BY <1>1 DEF IndInv, TypeOK
<1>4. SentValidated'
  BY <1>1, KeptInv DEF Kept
<1>5. FollowersFollow' /\ ControlOK'
  BY <1>2 DEF IndInv, FollowersFollow, ControlOK, Follows
<1> QED BY <1>3, <1>4, <1>5 DEF IndInv

\* Initially nothing is followed and nothing was sent.
LEMMA InitInv == Init => IndInv
BY DEF Init, IndInv, TypeOK, SentValidated, FollowersFollow, ControlOK, Call, Documents, Tools

\* An invocation follows nothing yet, and has polled nothing.
LEMMA InvokeInv ==
  ASSUME IndInv, NEW c \in Calls, NEW tool \in Tools, NEW key \in Keys,
         NEW doc \in Documents, NEW id \in Ids \cup {None}, Invoke(c, tool, key, doc, id)
  PROVE  IndInv'
<1> DEFINE pc == IF id = None THEN "validating" ELSE "fetching"
           new == [calls[c] EXCEPT !.pc = pc, !.tool = tool, !.key = key,
                                   !.doc = doc, !.validationId = id]
<1>1. /\ calls[c].pc = "new"
      /\ calls' = [calls EXCEPT ![c] = new] /\ UNCHANGED <<tag, validations, sent>>
  BY DEF Invoke, IndInv, TypeOK
<1>0. /\ calls[c] \in Call /\ pc \in {"validating", "fetching"}
      /\ pc = "fetching" => id \in Ids
  BY DEF IndInv, TypeOK
<1> HIDE DEF pc
<1>2. new \in Call /\ new.pc = pc /\ new.validationId = id /\ new.reply = calls[c].reply
      /\ new.polls = calls[c].polls
      /\ new.id = calls[c].id /\ new.resolved = calls[c].resolved
  BY <1>0 DEF Call
<1> HIDE DEF new
<1>3. calls' \in [Calls -> Call] /\ calls'[c] = new
      /\ \A d \in Calls \ {c} : calls'[d] = calls[d]
  BY <1>1, <1>2 DEF IndInv, TypeOK
<1>4. TypeOK'
  BY <1>1, <1>3 DEF IndInv, TypeOK
<1>5. SentValidated'
  BY <1>1, KeptInv DEF Kept
<1>6. FollowersFollow' /\ ControlOK'
  BY <1>0, <1>1, <1>2, <1>3 DEF IndInv, FollowersFollow, ControlOK, Follows
<1> QED BY <1>4, <1>5, <1>6 DEF IndInv

\* The API's answer to the POST starts the call following a validation.
LEMMA ValidationCreatedInv ==
  ASSUME IndInv, NEW c \in Calls, ValidationCreated(c)
  PROVE  IndInv'
<1> DEFINE doc == IF calls[c].doc = Tagged THEN tag ELSE calls[c].doc
<1>1. PICK i \in Ids :
        LET v == IF validations[i] # NoValidation THEN validations[i]
                 ELSE [doc |-> doc, state |-> "pending", valid |-> FALSE, expired |-> FALSE]
            known == [calls[c] EXCEPT !.id = i, !.resolved = Pinned(doc)] IN
        /\ v.doc = doc
        /\ validations' = [validations EXCEPT ![i] = v]
        /\ IF v.state = "pending"
           THEN calls' = [calls EXCEPT ![c] = [known EXCEPT !.pc = "sleeping"]] /\ UNCHANGED sent
           ELSE Decide(c, v, known)
  BY DEF ValidationCreated
<1> DEFINE v == IF validations[i] # NoValidation THEN validations[i]
                ELSE [doc |-> doc, state |-> "pending", valid |-> FALSE, expired |-> FALSE]
           known == [calls[c] EXCEPT !.id = i, !.resolved = Pinned(doc)]
           sleeping == [known EXCEPT !.pc = "sleeping"]
<1>2. doc \in Images /\ Pinned(doc) \in Documents \cup {None} /\ UNCHANGED tag
  BY PinnedType DEF IndInv, TypeOK, Call, Documents, ValidationCreated
<1>3. v \in Validation
  BY <1>2 DEF IndInv, TypeOK, Validation
<1> HIDE DEF doc
<1>4. /\ known \in Call /\ known.id = i /\ known.resolved = Pinned(doc)
      /\ known.polls = calls[c].polls
  <2>1. calls[c] \in Call
    BY DEF IndInv, TypeOK
  <2> QED BY <2>1, <1>2 DEF Call
<1>5. v.doc = doc /\ validations' = [validations EXCEPT ![i] = v]
  BY <1>1
<1>6. Kept
  <2>1. ASSUME NEW j \in Ids, validations[j].doc # None
        PROVE  validations'[j] = validations[j]
    BY <2>1, <1>5 DEF IndInv, TypeOK, NoValidation
  <2> QED BY <2>1 DEF Kept
<1>7. validations' \in [Ids -> Validation \cup {NoValidation}] /\ validations'[i] = v
  BY <1>3, <1>5 DEF IndInv, TypeOK
<1>8. CASE v.state = "pending"
  <2>1. calls' = [calls EXCEPT ![c] = sleeping] /\ UNCHANGED sent
    BY <1>1, <1>8
  <2>2. /\ sleeping \in Call /\ sleeping.id = i /\ sleeping.resolved = Pinned(doc)
        /\ sleeping.polls = 0 /\ sleeping.pc = "sleeping"
    BY <1>4 DEF Call, ValidationCreated, IndInv, ControlOK
  <2> HIDE DEF sleeping, known
  <2>3. calls' \in [Calls -> Call] /\ calls'[c] = sleeping
        /\ \A d \in Calls \ {c} : calls'[d] = calls[d]
    BY <2>1, <2>2 DEF IndInv, TypeOK
  <2>4. TypeOK'
    BY <1>2, <1>7, <2>1, <2>3 DEF IndInv, TypeOK
  <2>5. SentValidated'
    BY <1>6, <2>1, KeptInv
  <2>6. FollowersFollow'
    <3>1. ASSUME NEW d \in Calls \ {c},
                 calls[d].pc \in {"sleeping", "polling"} \/ calls[d].reply = "pending"
          PROVE  Follows(calls[d])'
      BY <3>1, <1>6, <2>3 DEF IndInv, FollowersFollow, Follows, Kept
    <3>2. Follows(calls[c])'
      BY <1>2, <1>5, <1>7, <2>2, <2>3 DEF Follows
    <3> QED BY <3>1, <3>2, <2>3 DEF FollowersFollow
  <2>7. ControlOK'
    BY <2>2, <2>3 DEF IndInv, ControlOK
  <2> QED BY <2>4, <2>5, <2>6, <2>7 DEF IndInv
<1>9. CASE v.state # "pending"
  <2>1. Decide(c, v, known)
    BY <1>9, <1>1
  <2> HIDE DEF v, known
  <2>2. /\ Decide(c, validations'[known.id], known)
        /\ validations'[known.id].doc # None
        /\ known.resolved = Pinned(validations'[known.id].doc)
    BY <2>1, <1>2, <1>4, <1>5, <1>7
  <2> QED BY <2>2, <1>2, <1>4, <1>6, <1>7, DecideInv
<1> QED BY <1>8, <1>9

\* Waking up follows the same validation.
LEMMA WakeInv ==
  ASSUME IndInv, NEW c \in Calls, Wake(c)
  PROVE  IndInv'
<1> DEFINE new == [calls[c] EXCEPT !.pc = "polling"]
<1>1. /\ calls[c].pc = "sleeping" /\ UNCHANGED <<tag, validations, sent>>
      /\ calls' = [calls EXCEPT ![c] = new]
  BY DEF Wake, IndInv, TypeOK
<1>2. /\ new \in Call /\ new.id = calls[c].id /\ new.resolved = calls[c].resolved
      /\ new.polls = calls[c].polls /\ new.pc = "polling"
  BY DEF IndInv, TypeOK, Call
<1> HIDE DEF new
<1>3. calls' \in [Calls -> Call] /\ calls'[c] = new
      /\ \A d \in Calls \ {c} : calls'[d] = calls[d]
  BY <1>1, <1>2 DEF IndInv, TypeOK
<1>4. TypeOK'
  BY <1>1, <1>3 DEF IndInv, TypeOK
<1>5. SentValidated'
  BY <1>1, KeptInv DEF Kept
<1>6. FollowersFollow' /\ ControlOK'
  BY <1>1, <1>2, <1>3 DEF IndInv, FollowersFollow, ControlOK, Follows
<1> QED BY <1>4, <1>5, <1>6 DEF IndInv

\* A poll decides about the validation the call already follows.
LEMMA PolledInv ==
  ASSUME IndInv, NEW c \in Calls, Polled(c)
  PROVE  IndInv'
<1> DEFINE v == validations[calls[c].id]
           known == [calls[c] EXCEPT !.polls = calls[c].polls + 1]
           sleeping == [known EXCEPT !.pc = "sleeping"]
<1>1. /\ calls[c].pc = "polling" /\ UNCHANGED <<tag, validations>>
      /\ IF v.state = "pending" /\ known.polls < MaxPolls
         THEN calls' = [calls EXCEPT ![c] = sleeping] /\ UNCHANGED sent
         ELSE Decide(c, v, known)
  BY DEF Polled, Attempt
<1>2. calls[c] \in Call /\ Follows(calls[c]) /\ calls[c].polls < MaxPolls
  BY <1>1 DEF IndInv, TypeOK, FollowersFollow, ControlOK
<1>3. /\ known \in Call /\ known.id = calls[c].id /\ known.resolved = calls[c].resolved
  BY <1>1, <1>2 DEF Call
<1>7. /\ sleeping \in Call /\ sleeping.id = known.id /\ sleeping.pc = "sleeping"
      /\ sleeping.resolved = known.resolved /\ sleeping.polls = known.polls
  <2> HIDE DEF known
  <2> QED BY <1>3 DEF Call
<1>4. Kept /\ validations' \in [Ids -> Validation \cup {NoValidation}]
  BY <1>1 DEF Kept, IndInv, TypeOK
<1> HIDE DEF known, sleeping
<1>5. CASE v.state = "pending" /\ known.polls < MaxPolls
  <2>1. calls' = [calls EXCEPT ![c] = sleeping] /\ UNCHANGED sent
    BY <1>1, <1>5
  <2>2. calls' \in [Calls -> Call] /\ calls'[c] = sleeping
        /\ \A d \in Calls \ {c} : calls'[d] = calls[d]
    BY <2>1, <1>7 DEF IndInv, TypeOK
  <2>3. TypeOK'
    BY <1>1, <2>1, <2>2 DEF IndInv, TypeOK
  <2>4. SentValidated'
    BY <1>4, <2>1, KeptInv
  <2>5. FollowersFollow' /\ ControlOK'
    BY <1>1, <1>2, <1>3, <1>5, <1>7, <2>2 DEF IndInv, FollowersFollow, ControlOK, Follows
  <2> QED BY <2>3, <2>4, <2>5 DEF IndInv
<1>6. CASE ~(v.state = "pending" /\ known.polls < MaxPolls)
  <2>1. Decide(c, validations'[known.id], known)
    BY <1>1, <1>3, <1>6
  <2>2. /\ known.id \in Ids /\ validations'[known.id].doc # None
        /\ known.resolved = Pinned(validations'[known.id].doc)
    BY <1>1, <1>2, <1>3 DEF Follows
  <2> QED BY <2>1, <2>2, <1>1, <1>3, <1>4, DecideInv
<1> QED BY <1>5, <1>6

\* A resumed save follows the validation its own document's digest matches.
LEMMA FetchedInv ==
  ASSUME IndInv, NEW c \in Calls, Fetched(c)
  PROVE  IndInv'
<1> DEFINE i == calls[c].validationId
           v == validations[i]
           known == [calls[c] EXCEPT !.id = i, !.resolved = calls[c].doc]
<1>1. /\ UNCHANGED <<tag, validations>>
      /\ \/ Finish(c, "refused")
         \/ Finish(c, "mismatch")
         \/ Finish(c, "validationExpired")
         \/ v # NoValidation /\ v.doc = calls[c].doc /\ Decide(c, v, known)
  BY DEF Fetched, Bound
<1>2. Kept /\ validations' \in [Ids -> Validation \cup {NoValidation}]
  BY <1>1 DEF Kept, IndInv, TypeOK
<1>3. CASE v # NoValidation /\ v.doc = calls[c].doc /\ Decide(c, v, known)
  <2>1. calls[c] \in Call /\ calls[c].doc \in Documents /\ i \in Ids \cup {None}
    BY DEF IndInv, TypeOK, Call
  <2>2. i \in Ids
    BY DEF Fetched, IndInv, ControlOK
  <2>3. v.doc \in Images /\ v.doc # None /\ calls[c].doc = Pinned(v.doc)
    BY <1>3, <2>1, <2>2 DEF IndInv, TypeOK, Validation, Pinned, Documents
  <2>4. known \in Call /\ known.id = i /\ known.resolved = calls[c].doc
    BY <2>1, <2>2 DEF Call
  <2> HIDE DEF known
  <2> QED BY <1>1, <1>2, <1>3, <2>2, <2>3, <2>4, DecideInv
<1> QED BY <1>1, <1>3, FinishInv

\* The API's own steps change no document, and end what is pending.
LEMMA EnvironmentInv ==
  ASSUME IndInv, UNCHANGED <<calls, sent>>,
         \/ TagMoves
         \/ \E i \in Ids : ValidationEnds(i) \/ ValidationExpires(i)
  PROVE  IndInv'
<1>1. CASE TagMoves
  BY <1>1 DEF TagMoves, IndInv, TypeOK, SentValidated, FollowersFollow, ControlOK, Follows
<1>2. ASSUME NEW i \in Ids, ValidationEnds(i) \/ ValidationExpires(i)
      PROVE  IndInv'
  <2>0. validations[i] \in Validation
    <3>1. validations[i] \in Validation \cup {NoValidation}
      BY DEF IndInv, TypeOK
    <3>2. validations[i].state # "failed"
      BY <1>2 DEF ValidationEnds, ValidationExpires
    <3> QED BY <3>1, <3>2 DEF NoValidation
  <2>1. PICK new \in Validation :
          /\ validations' = [validations EXCEPT ![i] = new]
          /\ new.doc = validations[i].doc
          /\ validations[i].state = "succeeded" =>
               new.state = "succeeded" /\ new.valid = validations[i].valid
    <3>1. CASE ValidationEnds(i)
      <4>1. PICK state \in {"succeeded", "failed"}, valid \in BOOLEAN :
              validations' = [validations EXCEPT
                ![i] = [validations[i] EXCEPT !.state = state, !.valid = valid]]
        BY <3>1 DEF ValidationEnds
      <4>2. [validations[i] EXCEPT !.state = state, !.valid = valid] \in Validation
        BY <2>0 DEF Validation
      <4> QED BY <2>0, <3>1, <4>1, <4>2 DEF ValidationEnds, Validation
    <3>2. CASE ValidationExpires(i)
      <4>1. validations' = [validations EXCEPT ![i] = [validations[i] EXCEPT !.expired = TRUE]]
        BY <3>2 DEF ValidationExpires, IndInv, TypeOK
      <4>2. [validations[i] EXCEPT !.expired = TRUE] \in Validation
        BY <2>0 DEF Validation
      <4> QED BY <2>0, <4>1, <4>2 DEF Validation
    <3> QED BY <1>2, <3>1, <3>2
  <2>2. /\ validations' \in [Ids -> Validation \cup {NoValidation}]
        /\ UNCHANGED tag /\ Kept
    BY <1>2, <2>1 DEF ValidationEnds, ValidationExpires, IndInv, TypeOK, Kept
  <2>3. TypeOK'
    BY <2>2 DEF IndInv, TypeOK
  <2>4. SentValidated'
    BY <2>2, KeptInv
  <2>5. FollowersFollow' /\ ControlOK'
    BY <2>2 DEF IndInv, FollowersFollow, ControlOK, Follows, Kept
  <2> QED BY <2>3, <2>4, <2>5 DEF IndInv
<1> QED BY <1>1, <1>2

\* Every step keeps the inductive invariant, one action at a time.
LEMMA StepInv == IndInv /\ [Next]_vars => IndInv'
<1> SUFFICES ASSUME IndInv, [Next]_vars PROVE IndInv'
  OBVIOUS
<1>1. ASSUME NEW c \in Calls, ToolStep(c)
      PROVE  IndInv'
  <2>1. CASE Created(c) \/ Refused(c) \/ Thrown(c)
    BY <2>1, FinishInv DEF Created, Refused, Thrown
  <2> QED BY <1>1, <2>1, ValidationCreatedInv, WakeInv, PolledInv, FetchedInv DEF ToolStep
<1>2. ASSUME NEW c \in Calls, NEW tool \in Tools, NEW key \in Keys, NEW doc \in Documents,
             NEW id \in Ids \cup {None}, Invoke(c, tool, key, doc, id)
      PROVE  IndInv'
  BY <1>2, InvokeInv
<1>3. CASE TagMoves
  BY <1>3, EnvironmentInv DEF TagMoves
<1>4. ASSUME NEW i \in Ids, ValidationEnds(i) \/ ValidationExpires(i)
      PROVE  IndInv'
  BY <1>4, EnvironmentInv DEF ValidationEnds, ValidationExpires
<1>5. CASE UNCHANGED vars
  BY <1>5 DEF vars, IndInv, TypeOK, SentValidated, FollowersFollow, ControlOK, Follows
<1> QED BY <1>1, <1>2, <1>3, <1>4, <1>5 DEF Next

\* IndInv is an invariant of every behaviour.
THEOREM Invariance == Spec => []IndInv
BY InitInv, StepInv, PTL DEF Spec

\* The variables keep their types.
THEOREM TypeCorrect == Spec => []TypeOK
BY Invariance, PTL DEF IndInv

\* Only documents that a validation has found valid are ever sent to be
\* saved, whatever the tags and the validations do meanwhile.
THEOREM SentValidatedHolds == Spec => []SentValidated
BY Invariance, PTL DEF IndInv

\* A pending answer names a validation and the document it validates.
THEOREM PendingResumableHolds == Spec => []PendingResumable
<1>1. IndInv => PendingResumable
  BY DEF IndInv, FollowersFollow, Follows, PendingResumable, Pinned
<1> QED BY <1>1, Invariance, PTL

-----------------------------------------------------------------------------
(* Progress, up to fairness: what each call has still to do gets less.     *)

Step(c) ==
  \/ ToolStep(c)
  \/ \E tool \in Tools, key \in Keys, doc \in Documents, id \in Ids \cup {None} :
       Invoke(c, tool, key, doc, id)

Elsewhere == TagMoves \/ \E i \in Ids : ValidationEnds(i) \/ ValidationExpires(i)

\* A poll and the wait before it, for every attempt that is left.
StepsLeft(call) ==
  CASE call.pc = "done" -> 0
    [] call.pc = "creating" -> 1
    [] call.pc = "fetching" -> 2
    [] call.pc = "polling" -> 2 * (MaxPolls - call.polls) + 2
    [] call.pc = "sleeping" -> 2 * (MaxPolls - call.polls) + 3
    [] call.pc = "validating" -> 2 * MaxPolls + 4
    [] call.pc = "new" -> 2 * MaxPolls + 5

LEMMA StepsAreFew ==
  ASSUME NEW call \in Call
  PROVE  /\ StepsLeft(call) \in 0..2 * MaxPolls + 5
         /\ StepsLeft(call) = 0 <=> call.pc = "done"
<1>1. /\ call.pc \in {"new", "validating", "sleeping", "polling", "fetching", "creating", "done"}
      /\ call.polls \in 0..MaxPolls
  BY DEF Call
<1>2. CASE call.pc = "done"
  <2>1. StepsLeft(call) = 0
    BY <1>2 DEF StepsLeft
  <2> QED BY <1>2, <2>1
<1>3. CASE call.pc # "done"
  <2>1. StepsLeft(call) \in 1..2 * MaxPolls + 5
    BY SMTT(30), <1>1, <1>3 DEF StepsLeft
  <2> QED BY <1>3, <2>1
<1> QED BY <1>2, <1>3

\* Only this call's record changes.
Becomes(c, new) == calls' = [calls EXCEPT ![c] = new]

\* A decision saves or answers.
LEMMA DecisionEnds ==
  ASSUME NEW c, NEW v, NEW known \in Call, Decide(c, v, known)
  PROVE  \E new : Becomes(c, new) /\ new.pc \in {"creating", "done"}
<1> DEFINE save == calls[c].tool = "save" /\ Passed(v) /\ known.resolved # None
           reply == IF v.state = "pending" THEN "pending"
                    ELSE IF ~Passed(v) THEN "invalid"
                    ELSE IF calls[c].tool = "save" THEN "unresolved" ELSE "valid"
           new == IF save THEN [known EXCEPT !.pc = "creating"]
                          ELSE [known EXCEPT !.pc = "done", !.reply = reply]
<1>1. Becomes(c, new)
  BY Zenon DEF Decide, Becomes
<1>2. new.pc \in {"creating", "done"}
  BY DEF Call
<1> QED BY <1>1, <1>2

LEMMA FinishEnds ==
  ASSUME IndInv, NEW c \in Calls, NEW reply, Finish(c, reply)
  PROVE  \E new : Becomes(c, new) /\ new.pc \in {"creating", "done"}
<1> DEFINE new == [calls[c] EXCEPT !.pc = "done", !.reply = reply]
<1>1. calls[c] \in Call /\ Becomes(c, new)
  BY DEF Finish, Becomes, IndInv, TypeOK
<1>2. new.pc = "done"
  BY <1>1 DEF Call
<1> QED BY <1>1, <1>2

\* The poll that does not end the loop has used up an attempt.
LEMMA PollAdvances ==
  ASSUME IndInv, NEW c \in Calls, Polled(c)
  PROVE  \E new : /\ Becomes(c, new)
                  /\ \/ new.pc \in {"creating", "done"}
                     \/ new.pc = "sleeping" /\ new.polls = calls[c].polls + 1
<1> DEFINE v == validations[calls[c].id]
           known == [calls[c] EXCEPT !.polls = calls[c].polls + 1]
           sleeping == [known EXCEPT !.pc = "sleeping"]
<1>1. /\ calls[c].pc = "polling"
      /\ IF v.state = "pending" /\ known.polls < MaxPolls
         THEN calls' = [calls EXCEPT ![c] = sleeping]
         ELSE Decide(c, v, known)
  BY DEF Polled, Attempt
<1>2. known \in Call /\ known.polls = calls[c].polls + 1
  BY <1>1 DEF IndInv, TypeOK, ControlOK, Call
<1>3. sleeping.pc = "sleeping" /\ sleeping.polls = calls[c].polls + 1
  <2> HIDE DEF known
  <2> QED BY <1>2 DEF Call
<1> QED BY <1>1, <1>2, <1>3, DecisionEnds DEF Becomes

LEMMA CreationAdvances ==
  ASSUME IndInv, NEW c \in Calls, ValidationCreated(c)
  PROVE  \E new : /\ Becomes(c, new)
                  /\ \/ new.pc \in {"creating", "done"}
                     \/ new.pc = "sleeping" /\ new.polls = calls[c].polls
<1> DEFINE doc == IF calls[c].doc = Tagged THEN tag ELSE calls[c].doc
<1>1. PICK i \in Ids :
        LET v == IF validations[i] # NoValidation THEN validations[i]
                 ELSE [doc |-> doc, state |-> "pending", valid |-> FALSE, expired |-> FALSE]
            known == [calls[c] EXCEPT !.id = i, !.resolved = Pinned(doc)] IN
        IF v.state = "pending"
        THEN calls' = [calls EXCEPT ![c] = [known EXCEPT !.pc = "sleeping"]]
        ELSE Decide(c, v, known)
  BY DEF ValidationCreated
<1> DEFINE v == IF validations[i] # NoValidation THEN validations[i]
                ELSE [doc |-> doc, state |-> "pending", valid |-> FALSE, expired |-> FALSE]
           known == [calls[c] EXCEPT !.id = i, !.resolved = Pinned(doc)]
           sleeping == [known EXCEPT !.pc = "sleeping"]
<1>2. doc \in Images /\ Pinned(doc) \in Documents \cup {None}
  BY PinnedType DEF IndInv, TypeOK, Call, Documents
<1> HIDE DEF doc
<1>3. known \in Call /\ known.polls = calls[c].polls
  <2>1. calls[c] \in Call
    BY DEF IndInv, TypeOK
  <2> QED BY <2>1, <1>2 DEF Call
<1>4. IF v.state = "pending" THEN calls' = [calls EXCEPT ![c] = sleeping] ELSE Decide(c, v, known)
  BY <1>1
<1> HIDE DEF v, known
<1>5. sleeping.pc = "sleeping" /\ sleeping.polls = calls[c].polls
  BY <1>3 DEF Call
<1> QED BY <1>3, <1>4, <1>5, DecisionEnds DEF Becomes

\* A step of a call leaves it fewer, and makes no other call wait longer.
LEMMA StepAdvances ==
  ASSUME IndInv, NEW c \in Calls, Step(c)
  PROVE  /\ StepsLeft(calls[c])' < StepsLeft(calls[c])
         /\ \A d \in Calls \ {c} : calls'[d] = calls[d]
<1>1. /\ calls[c] \in Call /\ calls \in [Calls -> Call]
      /\ calls[c].polls \in 0..MaxPolls
      /\ calls[c].pc = "validating" => calls[c].polls = 0
      /\ calls[c].pc \in {"sleeping", "polling"} => calls[c].polls < MaxPolls
  BY DEF IndInv, TypeOK, ControlOK, Call
<1>2. \E new :
        /\ Becomes(c, new)
        /\ \/ calls[c].pc = "new" /\ new.pc \in {"validating", "fetching"}
           \/ calls[c].pc = "validating" /\ new.pc = "sleeping" /\ new.polls = calls[c].polls
           \/ calls[c].pc = "sleeping" /\ new.pc = "polling" /\ new.polls = calls[c].polls
           \/ calls[c].pc = "polling" /\ new.pc = "sleeping" /\ new.polls = calls[c].polls + 1
           \/ calls[c].pc \in {"validating", "polling", "fetching"} /\ new.pc \in {"creating", "done"}
           \/ calls[c].pc = "creating" /\ new.pc = "done"
  <2>1. ASSUME NEW tool \in Tools, NEW key \in Keys, NEW doc \in Documents, NEW id \in Ids \cup {None},
               Invoke(c, tool, key, doc, id)
        PROVE  \E new : /\ Becomes(c, new)
                        /\ calls[c].pc = "new" /\ new.pc \in {"validating", "fetching"}
    <3> DEFINE new == [calls[c] EXCEPT !.pc = IF id = None THEN "validating" ELSE "fetching",
                                       !.tool = tool, !.key = key, !.doc = doc, !.validationId = id]
    <3>1. Becomes(c, new) /\ calls[c].pc = "new"
      BY <2>1, <1>1 DEF Invoke, Becomes
    <3>2. new.pc \in {"validating", "fetching"}
      BY <1>1 DEF Call
    <3> QED BY <3>1, <3>2
  <2>2. CASE ValidationCreated(c)
    BY <2>2, CreationAdvances DEF ValidationCreated
  <2>3. CASE Wake(c)
    <3> DEFINE new == [calls[c] EXCEPT !.pc = "polling"]
    <3>1. Becomes(c, new) /\ calls[c].pc = "sleeping"
      BY <2>3, <1>1 DEF Wake, Becomes
    <3>2. new.pc = "polling" /\ new.polls = calls[c].polls
      BY <1>1 DEF Call
    <3> QED BY <3>1, <3>2
  <2>4. CASE Polled(c)
    BY <2>4, PollAdvances DEF Polled
  <2>5. CASE Fetched(c)
    <3> DEFINE i == calls[c].validationId
               known == [calls[c] EXCEPT !.id = i, !.resolved = calls[c].doc]
    <3>1. /\ calls[c].pc = "fetching"
          /\ \/ \E reply : Finish(c, reply)
             \/ Decide(c, validations[i], known)
      BY <2>5 DEF Fetched
    <3>2. known \in Call
      BY <3>1, <1>1 DEF Call, IndInv, ControlOK
    <3> HIDE DEF known
    <3> QED BY <3>1, <3>2, FinishEnds, DecisionEnds
  <2>6. CASE Created(c)
    <3> DEFINE new == [calls[c] EXCEPT !.pc = "done", !.reply = "saved"]
    <3>1. Becomes(c, new) /\ calls[c].pc = "creating"
      BY <2>6, <1>1 DEF Created, Finish, Becomes
    <3>2. new.pc = "done"
      BY <1>1 DEF Call
    <3> QED BY <3>1, <3>2
  <2>7. CASE Refused(c) \/ Thrown(c)
    <3> DEFINE new(reply) == [calls[c] EXCEPT !.pc = "done", !.reply = reply]
    <3>1. PICK reply : Finish(c, reply)
      BY <2>7 DEF Refused, Thrown
    <3>2. Becomes(c, new(reply))
      BY <3>1, <1>1 DEF Finish, Becomes
    <3>3. new(reply).pc = "done"
      BY <1>1 DEF Call
    <3>4. calls[c].pc \in {"validating", "polling", "fetching", "creating"}
      BY <2>7 DEF Refused, Thrown
    <3> QED BY <3>2, <3>3, <3>4
  <2> QED BY <2>1, <2>2, <2>3, <2>4, <2>5, <2>6, <2>7 DEF Step, ToolStep
<1>3. PICK new :
        /\ Becomes(c, new)
        /\ \/ calls[c].pc = "new" /\ new.pc \in {"validating", "fetching"}
           \/ calls[c].pc = "validating" /\ new.pc = "sleeping" /\ new.polls = calls[c].polls
           \/ calls[c].pc = "sleeping" /\ new.pc = "polling" /\ new.polls = calls[c].polls
           \/ calls[c].pc = "polling" /\ new.pc = "sleeping" /\ new.polls = calls[c].polls + 1
           \/ calls[c].pc \in {"validating", "polling", "fetching"} /\ new.pc \in {"creating", "done"}
           \/ calls[c].pc = "creating" /\ new.pc = "done"
  BY Zenon, <1>2
<1>4. calls'[c] = new /\ \A d \in Calls \ {c} : calls'[d] = calls[d]
  BY <1>1, <1>3 DEF Becomes
<1>5. StepsLeft(new) < StepsLeft(calls[c])
  BY <1>1, <1>3 DEF StepsLeft
<1> QED BY <1>4, <1>5 DEF StepsLeft

LEMMA OthersDoNotDelay == ASSUME Elsewhere PROVE UNCHANGED calls
BY DEF Elsewhere, TagMoves, ValidationEnds, ValidationExpires

\* A call of these tools takes at most 2 * MaxPolls + 5 steps, whatever the
\* registry, the API and the other calls do; when none is left it has answered.
THEOREM CallsAreBounded ==
  Spec => /\ [](\A c \in Calls : /\ StepsLeft(calls[c]) \in 0..2 * MaxPolls + 5
                                 /\ StepsLeft(calls[c]) = 0 <=> calls[c].pc = "done")
          /\ [][/\ \A c \in Calls : Step(c) =>
                      /\ StepsLeft(calls[c])' < StepsLeft(calls[c])
                      /\ \A d \in Calls \ {c} : calls'[d] = calls[d]
                /\ Elsewhere => UNCHANGED calls]_vars
<1>1. IndInv => \A c \in Calls : /\ StepsLeft(calls[c]) \in 0..2 * MaxPolls + 5
                                 /\ StepsLeft(calls[c]) = 0 <=> calls[c].pc = "done"
  BY StepsAreFew DEF IndInv, TypeOK
<1>2. ASSUME IndInv
      PROVE  /\ \A c \in Calls : Step(c) =>
                  /\ StepsLeft(calls[c])' < StepsLeft(calls[c])
                  /\ \A d \in Calls \ {c} : calls'[d] = calls[d]
             /\ Elsewhere => UNCHANGED calls
  BY <1>2, StepAdvances, OthersDoNotDelay
<1> QED BY <1>1, <1>2, Invariance, PTL
=============================================================================
