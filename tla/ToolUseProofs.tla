--------------------------- MODULE ToolUseProofs ---------------------------
(***************************************************************************)
(* Proofs about ToolUse, for every catalogue, every set of scopes and      *)
(* every number of attempts and polls. What a property needs of the        *)
(* catalogue is a premise of its theorem: the rules of CatalogueRules,     *)
(* which the catalogue of this repository keeps (CatalogueFacts).          *)
(***************************************************************************)
EXTENDS ToolUse, CatalogueFacts, ScopeRulesProofs, TLAPS

\* The step of each actor, by what it may change.
ClientStep == (\E t \in DOMAIN Tools[profile] : Choose(t)) \/ Regrant \/ Repeat \/ Finish
ApiStep == (\E i \in Attempts : Apply(i) \/ TurnAway(i)) \/ WorkEnds

LEMMA NextSteps == Next <=> ClientStep \/ ServerStep \/ ApiStep
  BY DEF Next, ClientStep, ApiStep

USE DEF connection, Tool

\* What a gateway's page is told as is an answer.
LEMMA GatewayAnswers == GatewayOfRead \in Answers /\ GatewayOfChange \in Answers
  BY DEF GatewayOfRead, GatewayOfChange, Answers

-----------------------------------------------------------------------------
(* Types.                                                                  *)

LEMMA InitTypes == Init => TypeOK
  <1> SUFFICES ASSUME Init PROVE TypeOK
    OBVIOUS
  <1>1. <<profile, grant>> \in Access
    <2>1. PICK access \in Access : profile = access[1] /\ grant = access[2]
      BY DEF Init
    <2>2. access = <<access[1], access[2]>>
      BY <2>1, AccessAssumption
    <2> QED BY <2>1, <2>2
  <1> QED BY <1>1, BoundsAssumption
        DEF Init, TypeOK, NoCall, Phases, Fates, Answers, Attempts

LEMMA ClientTypes == ASSUME TypeOK, ClientStep PROVE TypeOK'
  <1>1. profile \in Profiles /\ grant \in Grants
    BY AccessAssumption DEF TypeOK
  <1>2. ASSUME NEW t \in DOMAIN Tools[profile], Choose(t) PROVE TypeOK'
    BY <1>2, BoundsAssumption DEF Choose, TypeOK, Phases, Attempts
  <1>3. ASSUME Regrant PROVE TypeOK'
    BY <1>3 DEF Regrant, TypeOK
  <1>4. ASSUME Repeat PROVE TypeOK'
    BY <1>4, BoundsAssumption DEF Repeat, TypeOK, Phases, Answers
  <1>5. ASSUME Finish PROVE TypeOK'
    BY <1>5, BoundsAssumption DEF Finish, Fresh, NoCall, TypeOK, Phases, Answers, Fates, Attempts
  <1> QED BY <1>2, <1>3, <1>4, <1>5 DEF ClientStep

LEMMA ServerTypes == ASSUME TypeOK, ServerStep PROVE TypeOK'
  <1>1. profile \in Profiles /\ grant \in Grants
    BY AccessAssumption DEF TypeOK
  <1>2. ASSUME Refuse PROVE TypeOK'
    BY <1>2 DEF Refuse, Tell, TypeOK, Phases, Answers
  <1>3. ASSUME Dispatch PROVE TypeOK'
    <2>1. under' \in [Attempts -> Grants \cup {None}]
      BY <1>1, <1>3 DEF Dispatch, TypeOK
    <2>2. fate' \in [Attempts -> Fates] /\ phase' \in Phases
      BY <1>3 DEF Dispatch, Send, TypeOK, Fates, Phases
    <2> QED BY <1>3, <2>1, <2>2 DEF Dispatch, TypeOK
  <1>4. ASSUME LookPasses PROVE TypeOK'
    BY <1>4 DEF LookPasses, Send, TypeOK, Fates, Phases
  <1>5. ASSUME LookFails PROVE TypeOK'
    <2>1. answer' \in Answers /\ phase' = "answered"
      BY <1>5, GatewayAnswers DEF LookFails, Tell, Answers
    <2> QED BY <1>5, <2>1 DEF LookFails, TypeOK, Phases
  <1>6. ASSUME PassOn \/ Misfit \/ PassRefusal \/ Gateway \/ Thrown \/ PollsSpent PROVE TypeOK'
    <2>1. answer' \in Answers /\ phase' = "answered" /\ Told /\ phase # "idle"
      BY <1>6, GatewayAnswers
         DEF Awaiting, PassOn, Misfit, PassRefusal, Gateway, Thrown, PollsSpent, Tell, Answers
    <2> QED BY <2>1 DEF Told, TypeOK, Phases
  <1>7. ASSUME Follow PROVE TypeOK'
    BY <1>7 DEF Follow, Awaiting, Told, TypeOK, Phases
  <1>8. ASSUME PollGoesOn \/ PollEnds \/ PollFails PROVE TypeOK'
    <2>1. answer' \in Answers /\ phase' \in Phases
      BY <1>8, GatewayAnswers DEF PollGoesOn, PollEnds, PollFails, Tell, TypeOK, Phases, Answers
    <2>2. Polled /\ phase = "polling" /\ polls' \in 0..MaxPolls
      BY <1>8, BoundsAssumption
         DEF PollGoesOn, PollEnds, PollFails, Poll, PollsLeft, NextPoll, TypeOK
    <2> QED BY <2>1, <2>2 DEF Polled, TypeOK
  <1> QED BY <1>2, <1>3, <1>4, <1>5, <1>6, <1>7, <1>8 DEF ServerStep

LEMMA ApiTypes == ASSUME TypeOK, ApiStep PROVE TypeOK'
  <1>1. ASSUME NEW i \in Attempts, Apply(i) PROVE TypeOK'
    BY <1>1 DEF Apply, TypeOK, Fates
  <1>2. ASSUME NEW i \in Attempts, TurnAway(i) PROVE TypeOK'
    BY <1>2 DEF TurnAway, TypeOK, Fates
  <1>3. ASSUME WorkEnds PROVE TypeOK'
    BY <1>3 DEF WorkEnds, TypeOK
  <1> QED BY <1>1, <1>2, <1>3 DEF ApiStep

LEMMA StepTypes == ASSUME TypeOK, [Next]_vars PROVE TypeOK'
  <1>1. CASE UNCHANGED vars
    BY <1>1 DEF vars, TypeOK
  <1> QED BY <1>1, NextSteps, ClientTypes, ServerTypes, ApiTypes

\* Types: connections, attempts and answers stay within their sets, and a call
\* that is under way names a tool of its connection's profile.
THEOREM TypeCorrect == Spec => []TypeOK
  BY InitTypes, StepTypes, PTL DEF Spec

-----------------------------------------------------------------------------
(* Control: where a call is, and what has been sent of it.                 *)

Control ==
  /\ phase = "idle" => attempt = 0
  /\ phase # "idle" => attempt \in Attempts
  /\ \A i \in Attempts : i > attempt => fate[i] = "unsent"
  /\ phase \in {"chosen", "looking"} => fate[attempt] = "unsent"
  /\ phase = "waiting" => fate[attempt] # "unsent"
  /\ phase = "polling" => fate[attempt] \in OfApi /\ facts.polls

Sound == TypeOK /\ Control

USE DEF facts, listed

LEMMA InitControl == Init => Control
  BY BoundsAssumption DEF Init, Control, Attempts

LEMMA ClientControl == ASSUME Sound, ClientStep PROVE Control'
  <1>1. ASSUME NEW t \in DOMAIN Tools[profile], Choose(t) PROVE Control'
    BY <1>1, BoundsAssumption DEF Choose, Sound, Control, Attempts
  <1>2. ASSUME Regrant PROVE Control'
    BY <1>2 DEF Regrant, Sound, Control
  <1>3. ASSUME Repeat PROVE Control'
    BY <1>3, BoundsAssumption DEF Repeat, Sound, TypeOK, Control, Attempts
  <1>4. ASSUME Finish PROVE Control'
    BY <1>4, BoundsAssumption DEF Finish, Fresh, Sound, Control, Attempts
  <1> QED BY <1>1, <1>2, <1>3, <1>4 DEF ClientStep

LEMMA ServerControl == ASSUME Sound, ServerStep PROVE Control'
  <1>1. ASSUME Refuse \/ LookFails PROVE Control'
    BY <1>1 DEF Refuse, LookFails, Tell, Sound, Control
  <1>2. ASSUME Dispatch \/ LookPasses PROVE Control'
    <2>1. /\ attempt \in Attempts /\ fate[attempt] = "unsent"
          /\ \/ phase' = "waiting" /\ fate' = [fate EXCEPT ![attempt] = "waiting"]
             \/ phase' = "looking" /\ fate' = fate
          /\ UNCHANGED <<connection, call, attempt>>
      BY <1>2 DEF Dispatch, LookPasses, Send, Sound, Control
    <2> QED BY <2>1, BoundsAssumption DEF Sound, TypeOK, Control, Attempts
  <1>3. ASSUME PassOn \/ Misfit \/ PassRefusal \/ Gateway \/ Thrown \/ PollsSpent PROVE Control'
    <2>1. phase' = "answered" /\ Told /\ phase # "idle"
      BY <1>3 DEF PassOn, Misfit, PassRefusal, Gateway, Thrown, PollsSpent, Awaiting, Tell
    <2> QED BY <2>1 DEF Told, Sound, Control
  <1>4. ASSUME Follow PROVE Control'
    BY <1>4 DEF Follow, Awaiting, Told, Sound, Control
  <1>5. ASSUME PollGoesOn \/ PollEnds \/ PollFails PROVE Control'
    <2>1. phase' \in {"polling", "answered"} /\ Polled /\ phase = "polling"
      BY <1>5 DEF PollGoesOn, PollEnds, PollFails, Poll, Tell
    <2> QED BY <2>1 DEF Polled, Sound, Control
  <1> QED BY <1>1, <1>2, <1>3, <1>4, <1>5 DEF ServerStep

\* Only a request under way changes, and becomes anything but unsent.
LEMMA ApiFates ==
  ASSUME Sound, ApiStep
  PROVE  /\ fate' \in [Attempts -> Fates]
         /\ \A i \in Attempts :
              fate'[i] = fate[i] \/ (fate[i] = "waiting" /\ fate'[i] # "unsent")
         /\ UNCHANGED <<connection, phase, call, attempt, under, polls, answer>>
         /\ work' \in {work, "ended"} \/ fate[attempt] = "waiting"
  <1> DEFINE Rest == UNCHANGED <<connection, phase, call, attempt, under, polls, answer>>
             Kept == \A j \in Attempts : 
               fate'[j] = fate[j] \/ (fate[j] = "waiting" /\ fate'[j] # "unsent")
  <1>1. ASSUME NEW i \in Attempts, Apply(i) \/ TurnAway(i) PROVE Kept /\ Rest
    <2>1. PICK f \in Fates \ {"unsent"} : fate' = [fate EXCEPT ![i] = f]
      BY <1>1 DEF Apply, TurnAway, Fates
    <2>2. fate[i] = "waiting"
      BY <1>1 DEF Apply, TurnAway
    <2>3. Rest
      BY <1>1 DEF Apply, TurnAway
    <2> QED BY <2>1, <2>2, <2>3 DEF Sound, TypeOK
  <1>2. ASSUME WorkEnds PROVE Kept /\ Rest
    BY <1>2 DEF WorkEnds
  <1>3. fate' \in [Attempts -> Fates]
    BY ApiTypes DEF Sound, TypeOK
  <1>4. Kept /\ Rest
    BY <1>1, <1>2 DEF ApiStep
  <1>5. work' \in {work, "ended"} \/ fate[attempt] = "waiting"
    BY DEF ApiStep, Apply, TurnAway, WorkEnds
  <1> QED BY <1>3, <1>4, <1>5

LEMMA ApiControl == ASSUME Sound, ApiStep PROVE Control'
  <1>1. phase # "idle" => attempt \in Attempts
    BY DEF Sound, Control
  <1> QED BY <1>1, ApiFates DEF Sound, Control, OfApi

LEMMA StepSound == ASSUME Sound, [Next]_vars PROVE Sound'
  <1>1. TypeOK'
    BY StepTypes DEF Sound
  <1>2. CASE UNCHANGED vars
    BY <1>2 DEF vars, Sound, TypeOK, Control
  <1> QED BY <1>1, <1>2, NextSteps, ClientControl, ServerControl, ApiControl DEF Sound

LEMMA AlwaysSound == Spec => []Sound
  <1>1. Init => Sound
    BY InitTypes, InitControl DEF Sound
  <1> QED BY <1>1, StepSound, PTL DEF Spec

\* A fact of the call's own row.
LEMMA OwnRow == ASSUME Sound, phase # "idle" PROVE profile \in Profiles /\ Tool \in DOMAIN Tools[profile]
  BY AccessAssumption DEF Sound, TypeOK

-----------------------------------------------------------------------------
(* What a call is told.                                                    *)

PagesHarmless ==
  \A p \in Profiles : \A t \in DOMAIN Tools[p] : PageHarmless(Tools[p][t])

LEMMA ServerTruthful ==
  ASSUME PagesHarmless, Sound, ServerStep, AnswersTruthful PROVE AnswersTruthful'
  <1>1. ASSUME Refuse \/ LookFails PROVE AnswersTruthful'
    <2>1. fate'[attempt'] = "unsent" /\ answer' \notin {"done", "pending"}
      BY <1>1 DEF Refuse, LookFails, Tell, GatewayOfRead, GatewayOfChange, Sound, Control
    <2> QED BY <2>1 DEF AnswersTruthful
  <1>2. ASSUME Dispatch \/ LookPasses \/ Follow \/ PollGoesOn PROVE AnswersTruthful'
    <2>1. phase' # "answered"
      BY <1>2 DEF Dispatch, LookPasses, Follow, PollGoesOn, Send, Poll
    <2> QED BY <2>1 DEF AnswersTruthful
  <1>3. ASSUME PassOn \/ PassRefusal \/ Misfit \/ Thrown PROVE AnswersTruthful'
    BY <1>3 DEF PassOn, PassRefusal, Misfit, Thrown, Awaiting, Told, Tell, AnswersTruthful
  <1>4. ASSUME Gateway PROVE AnswersTruthful'
    <2>1. facts.settles \/ facts.change # "alters" \/ answer' = "outcome_unknown"
      BY <1>4, OwnRow DEF Gateway, Awaiting, Tell, GatewayOfRead, GatewayOfChange,
            PagesHarmless, PageHarmless
    <2>2. answer' \in {"retry_read", "page", "outcome_unknown"} /\ Told
      BY <1>4 DEF Gateway, Tell, GatewayOfRead, GatewayOfChange
    <2> QED BY <2>1, <2>2 DEF Told, AnswersTruthful
  <1>5. ASSUME PollEnds PROVE AnswersTruthful'
    BY <1>5 DEF PollEnds, Poll, Polled, Tell, Sound, Control, AnswersTruthful
  <1>6. ASSUME PollFails PROVE AnswersTruthful'
    <2>1. polls' # 0 /\ answer' \notin {"refused", "done", "pending"}
      BY <1>6, BoundsAssumption
         DEF PollFails, Poll, NextPoll, Tell, GatewayOfRead, Sound, TypeOK
    <2> QED BY <2>1 DEF AnswersTruthful
  <1>7. ASSUME PollsSpent PROVE AnswersTruthful'
    <2>1. polls = MaxPolls
      BY <1>7, BoundsAssumption DEF PollsSpent, PollsLeft, Sound, TypeOK
    <2> QED BY <1>7, <2>1 DEF PollsSpent, Tell, Told, Sound, Control, AnswersTruthful
  <1> QED BY <1>1, <1>2, <1>3, <1>4, <1>5, <1>6, <1>7 DEF ServerStep

LEMMA ApiTruthful == ASSUME Sound, ApiStep, AnswersTruthful PROVE AnswersTruthful'
  <1> SUFFICES ASSUME phase' = "answered" PROVE AnswersTruthful'
    BY DEF AnswersTruthful
  <1>1. phase = "answered" /\ attempt \in Attempts
    BY ApiFates DEF Sound, Control
  <1>2. fate'[attempt'] = fate[attempt] \/ (fate[attempt] = "waiting" /\ fate'[attempt'] # "unsent")
    BY <1>1, ApiFates
  <1> QED BY <1>1, <1>2, ApiFates DEF AnswersTruthful, OfApi

LEMMA StepTruthful ==
  ASSUME PagesHarmless, Sound, [Next]_vars, AnswersTruthful PROVE AnswersTruthful'
  <1>1. ASSUME ClientStep PROVE AnswersTruthful'
    BY <1>1 DEF ClientStep, Choose, Regrant, Repeat, Finish, AnswersTruthful
  <1>2. CASE UNCHANGED vars
    BY <1>2 DEF vars, AnswersTruthful
  <1> QED BY <1>1, <1>2, NextSteps, ServerTruthful, ApiTruthful

\* No answer misleads: a refusal did nothing and never will, a success is one,
\* and no change that does not settle is called a read that can be retried or
\* loses the word that its outcome is unknown.
THEOREM AnswersTruthfulHolds == ASSUME PagesHarmless PROVE Spec => []AnswersTruthful
  <1>1. Init => AnswersTruthful
    BY DEF Init, AnswersTruthful
  <1> QED BY <1>1, StepTruthful, AlwaysSound, PTL DEF Spec

-----------------------------------------------------------------------------
(* Repetitions.                                                            *)

RepeatsHarmless ==
  \A p \in Profiles : \A t \in DOMAIN Tools[p] :
    RepeatHarmless(Tools[p][t], Advertised[p][t], t \in OpenRepeats)

ToldAsRead == facts.answer = "raw" /\ (facts.reads \/ facts.polls)

\* Only what invites it has been sent before, and a key is applied once.
Once ==
  /\ \A i \in Attempts : i < attempt /\ fate[i] # "unsent" => SafeToRepeat \/ ToldAsRead
  /\ phase = "answered" /\ answer = "retry_read" /\ fate[attempt] # "unsent" => ToldAsRead
  /\ call.keyed => \A i, j \in Attempts : fate[i] = "applied" /\ fate[j] = "applied" => i = j
  /\ phase # "idle" /\ facts.key = "required" => call.keyed

LEMMA ClientOnce == ASSUME Sound, ClientStep, Once PROVE Once'
  <1>1. ASSUME NEW t \in DOMAIN Tools[profile], Choose(t) PROVE Once'
    <2>1. \A i \in Attempts : fate'[i] = "unsent"
      BY <1>1, BoundsAssumption DEF Choose, Sound, Control, Attempts
    <2>2. phase' = "chosen" /\ (facts.key = "required" => call.keyed)'
      <3>1. PICK agreed, keyed \in BOOLEAN :
              /\ Tools[profile][t].key = "required" => keyed
              /\ call' = [tool |-> t, agreed |-> agreed, keyed |-> keyed]
        BY <1>1 DEF Choose
      <3> QED BY <1>1, <3>1 DEF Choose
    <2> QED BY <2>1, <2>2 DEF Once
  <1>2. ASSUME Regrant PROVE Once'
    BY <1>2 DEF Regrant, Once, SafeToRepeat, ToldAsRead
  <1>3. ASSUME Repeat PROVE Once'
    <2>1. /\ phase = "answered" /\ phase' = "chosen" /\ attempt' = attempt + 1
          /\ UNCHANGED <<profile, call, fate>>
          /\ answer = "retry_read" \/ SafeToRepeat
      BY <1>3 DEF Repeat, MayRepeat
    <2>2. attempt \in Attempts
      BY <2>1 DEF Sound, Control
    <2>3. ASSUME NEW i \in Attempts, i < attempt', fate[i] # "unsent"
          PROVE SafeToRepeat \/ ToldAsRead
      <3>1. i < attempt \/ i = attempt
        BY <2>1, <2>2, <2>3, BoundsAssumption DEF Attempts
      <3> QED BY <2>1, <2>3, <3>1 DEF Once
    <2>4. (SafeToRepeat \/ ToldAsRead)' <=> SafeToRepeat \/ ToldAsRead
      BY <2>1 DEF SafeToRepeat, ToldAsRead
    <2> QED BY <2>1, <2>3, <2>4 DEF Once
  <1>4. ASSUME Finish PROVE Once'
    BY <1>4 DEF Finish, Fresh, Once
  <1> QED BY <1>1, <1>2, <1>3, <1>4 DEF ClientStep

LEMMA ServerOnce == ASSUME Sound, ServerStep, Once PROVE Once'
  <1> USE DEF SafeToRepeat, ToldAsRead
  <1>1. ASSUME Refuse \/ LookFails PROVE Once'
    BY <1>1 DEF Refuse, LookFails, Tell, Sound, Control, Once
  <1>2. ASSUME Dispatch \/ LookPasses PROVE Once'
    <2>1. /\ attempt \in Attempts /\ fate[attempt] = "unsent" /\ phase # "idle"
          /\ phase' \in {"waiting", "looking"}
          /\ fate' \in {fate, [fate EXCEPT ![attempt] = "waiting"]}
          /\ UNCHANGED <<connection, call, attempt>>
      BY <1>2 DEF Dispatch, LookPasses, Send, Sound, Control
    <2>2. \A i \in Attempts : fate'[i] = fate[i] \/ (i = attempt /\ fate'[i] = "waiting")
      BY <2>1 DEF Sound, TypeOK
    <2>3. \A i \in Attempts : i < attempt => i # attempt
      BY <2>1, BoundsAssumption DEF Attempts
    <2> QED BY <2>1, <2>2, <2>3 DEF Once
  <1>3. ASSUME PassOn \/ Misfit \/ PassRefusal \/ Thrown \/ PollsSpent \/ Follow PROVE Once'
    <2>1. answer' # "retry_read" \/ phase' # "answered"
      BY <1>3 DEF PassOn, Misfit, PassRefusal, Thrown, PollsSpent, Follow, Tell
    <2>2. Told /\ phase # "idle"
      BY <1>3 DEF PassOn, Misfit, PassRefusal, Thrown, PollsSpent, Follow, Awaiting
    <2> QED BY <2>1, <2>2 DEF Told, Once
  <1>4. ASSUME Gateway PROVE Once'
    <2>1. Told /\ phase = "waiting" /\ (answer' = "retry_read" => ToldAsRead)
      BY <1>4 DEF Gateway, Awaiting, Tell, GatewayOfRead, GatewayOfChange
    <2> QED BY <2>1 DEF Told, Once
  <1>5. ASSUME PollGoesOn \/ PollEnds \/ PollFails PROVE Once'
    <2>1. Polled /\ phase = "polling"
      BY <1>5 DEF PollGoesOn, PollEnds, PollFails, Poll
    <2>2. phase' = "answered" /\ answer' = "retry_read" => ToldAsRead
      <3>1. facts.polls
        BY <2>1 DEF Sound, Control
      <3> QED BY <1>5, <2>1, <3>1 DEF PollGoesOn, PollEnds, PollFails, Poll, Tell, GatewayOfRead
    <2> QED BY <2>1, <2>2 DEF Polled, Once
  <1> QED BY <1>1, <1>2, <1>3, <1>4, <1>5 DEF ServerStep

\* A request the API has not carried out before is the only one it applies.
LEMMA AppliesOnce ==
  ASSUME Sound, ApiStep, Once
  PROVE (call.keyed => \A i, j \in Attempts : fate[i] = "applied" /\ fate[j] = "applied" => i = j)'
  <1>1. ASSUME NEW i \in Attempts, Apply(i), call.keyed
        PROVE \A j, k \in Attempts : fate'[j] = "applied" /\ fate'[k] = "applied" => j = k
    <2>1. CASE \E j \in Attempts : fate[j] = "applied"
      <3>1. fate' = [fate EXCEPT ![i] = "replayed"]
        BY <1>1, <2>1 DEF Apply
      <3> QED BY <1>1, <3>1 DEF Sound, TypeOK, Once
    <2>2. CASE ~\E j \in Attempts : fate[j] = "applied"
      <3>1. fate' = [fate EXCEPT ![i] = "applied"]
        BY <1>1, <2>2 DEF Apply
      <3> QED BY <2>2, <3>1 DEF Sound, TypeOK
    <2> QED BY <2>1, <2>2
  <1>2. ASSUME NEW i \in Attempts, TurnAway(i), call.keyed
        PROVE \A j, k \in Attempts : fate'[j] = "applied" /\ fate'[k] = "applied" => j = k
    <2>1. PICK f \in {"refused", "dropped"} : fate' = [fate EXCEPT ![i] = f]
      BY <1>2 DEF TurnAway
    <2>2. \A j \in Attempts : fate'[j] = "applied" => fate[j] = "applied"
      BY <2>1 DEF Sound, TypeOK
    <2> QED BY <1>2, <2>2 DEF Once
  <1>3. call' = call
    BY ApiFates
  <1>4. ASSUME WorkEnds PROVE fate' = fate
    BY <1>4 DEF WorkEnds
  <1> QED BY <1>1, <1>2, <1>3, <1>4 DEF ApiStep, Once

LEMMA ApiOnce == ASSUME Sound, ApiStep, Once PROVE Once'
  <1>1. UNCHANGED <<profile, phase, call, attempt, answer>>
    BY DEF ApiStep, Apply, TurnAway, WorkEnds
  <1>2. \A i \in Attempts : fate'[i] # "unsent" => fate[i] # "unsent"
    BY ApiFates
  <1>3. phase # "idle" => attempt \in Attempts
    BY DEF Sound, Control
  <1> QED BY <1>1, <1>2, <1>3, AppliesOnce DEF Once, SafeToRepeat, ToldAsRead

LEMMA StepOnce == ASSUME Sound, [Next]_vars, Once PROVE Once'
  <1>1. CASE UNCHANGED vars
    BY <1>1 DEF vars, Once, SafeToRepeat, ToldAsRead
  <1> QED BY <1>1, NextSteps, ClientOnce, ServerOnce, ApiOnce

LEMMA OnceSuffices ==
  ASSUME RepeatsHarmless, Sound, Once PROVE RepeatsApplyOnce
  <1> SUFFICES ASSUME NEW i \in Attempts, NEW j \in Attempts, i < j,
                      fate[i] = "applied", fate[j] = "applied"
               PROVE \/ facts.settles \/ facts.change = "nothing"
                     \/ Tool \in OpenRepeats /\ ~call.keyed
    BY BoundsAssumption DEF RepeatsApplyOnce, Attempts
  <1>1. j <= attempt /\ attempt \in Nat
    BY BoundsAssumption DEF Sound, TypeOK, Control, Attempts
  <1>2. i < attempt /\ phase # "idle"
    BY <1>1, BoundsAssumption DEF Sound, Control, Attempts
  <1>3. ~call.keyed
    BY BoundsAssumption DEF Once, Attempts
  <1>4. listed.idempotent \/ listed.readOnly \/ ToldAsRead
    BY <1>2, <1>3 DEF Once, SafeToRepeat
  <1>5. facts.key # "required"
    BY <1>2, <1>3 DEF Once
  <1> QED BY <1>2, <1>3, <1>4, <1>5, OwnRow DEF RepeatsHarmless, RepeatHarmless, ToldAsRead

\* A change that does not settle is made once, however often the call is made
\* and however late its requests arrive.
THEOREM RepeatsApplyOnceHolds == ASSUME RepeatsHarmless PROVE Spec => []RepeatsApplyOnce
  <1>1. Init => Once
    BY DEF Init, Once
  <1>2. Spec => []Once
    BY <1>1, StepOnce, AlwaysSound, PTL DEF Spec
  <1> QED BY <1>2, OnceSuffices, AlwaysSound, PTL

-----------------------------------------------------------------------------
(* Disclosure and consent.                                                 *)

ImpactsListed ==
  \A p \in Profiles : \A t \in DOMAIN Tools[p] : ImpactListed(Tools[p][t], Advertised[p][t])

ScopesFit ==
  \A p \in Profiles : \A t \in DOMAIN Tools[p] :
    IF p # "stdio" THEN ConsentFits(Tools[p][t], Needs[p][t], t \in OwnWork)
                   ELSE ChargeListed(Tools[p][t], Advertised[p][t])

PassedUnder(g) ==
  /\ <<profile, g>> \in Access
  /\ Registered(g, Tool) /\ Permitted(g, Tool)
  /\ facts.asks => call.agreed

\* Whatever has been sent was let through under the grant recorded for it.
Passed ==
  /\ \A i \in Attempts : fate[i] # "unsent" => PassedUnder(under[i])
  /\ phase = "looking" => PassedUnder(under[attempt])

LEMMA ClientPassed == ASSUME Sound, ClientStep, Passed PROVE Passed'
  <1>1. ASSUME NEW t \in DOMAIN Tools[profile], Choose(t) PROVE Passed'
    <2>1. \A i \in Attempts : fate'[i] = "unsent"
      BY <1>1, BoundsAssumption DEF Choose, Sound, Control, Attempts
    <2>2. phase' = "chosen"
      BY <1>1 DEF Choose
    <2> QED BY <2>1, <2>2 DEF Passed
  <1>2. ASSUME Regrant \/ Repeat PROVE Passed'
    BY <1>2 DEF Regrant, Repeat, Passed, PassedUnder, Registered, Permitted, Hosted
  <1>3. ASSUME Finish PROVE Passed'
    BY <1>3 DEF Finish, Fresh, Passed
  <1> QED BY <1>1, <1>2, <1>3 DEF ClientStep

LEMMA ServerPassed == ASSUME Sound, ServerStep, Passed PROVE Passed'
  <1>1. ASSUME Dispatch PROVE Passed'
    <2>1. PassedUnder(grant) /\ attempt \in Attempts
      BY <1>1 DEF Dispatch, LetThrough, PassedUnder, Sound, TypeOK, Control
    <2>2. /\ under'[attempt] = grant
          /\ \A i \in Attempts \ {attempt} : under'[i] = under[i] /\ fate'[i] = fate[i]
      BY <1>1, <2>1 DEF Dispatch, Send, Sound, TypeOK
    <2>3. UNCHANGED <<profile, call, attempt>>
      BY <1>1 DEF Dispatch
    <2> QED BY <2>1, <2>2, <2>3 DEF Passed, PassedUnder, Registered, Permitted, Hosted
  <1>2. ASSUME LookPasses PROVE Passed'
    <2>1. /\ attempt \in Attempts /\ PassedUnder(under[attempt]) /\ phase' = "waiting"
          /\ UNCHANGED <<connection, call, attempt, under>>
      BY <1>2 DEF LookPasses, Send, Sound, Control, Passed
    <2>2. \A i \in Attempts \ {attempt} : fate'[i] = fate[i]
      BY <1>2 DEF LookPasses, Send, Sound, TypeOK
    <2> QED BY <2>1, <2>2 DEF Passed, PassedUnder, Registered, Permitted, Hosted
  <1>3. ASSUME ServerStep, ~Dispatch, ~LookPasses PROVE Passed'
    <2>1. phase' # "looking" /\ UNCHANGED <<connection, call, fate, under>>
      BY <1>3 DEF ServerStep, Refuse, LookFails, PassOn, Misfit, PassRefusal, Gateway, Thrown,
                  PollsSpent, Follow, PollGoesOn, PollEnds, PollFails, Poll, Polled, Told, Tell
    <2> QED BY <2>1 DEF Passed, PassedUnder, Registered, Permitted, Hosted
  <1> QED BY <1>1, <1>2, <1>3

LEMMA StepPassed == ASSUME Sound, [Next]_vars, Passed PROVE Passed'
  <1>1. CASE UNCHANGED vars
    BY <1>1 DEF vars, Passed, PassedUnder, Registered, Permitted, Hosted
  <1>2. CASE ApiStep
    <2>1. UNCHANGED <<connection, phase, call, attempt, under>>
      BY <1>2, ApiFates
    <2>2. \A i \in Attempts : fate'[i] # "unsent" => fate[i] # "unsent"
      BY <1>2, ApiFates
    <2> QED BY <2>1, <2>2 DEF Passed, PassedUnder, Registered, Permitted, Hosted
  <1> QED BY <1>1, <1>2, NextSteps, ClientPassed, ServerPassed

LEMMA AlwaysPassed == Spec => []Passed
  <1>1. Init => Passed
    BY DEF Init, Passed
  <1> QED BY <1>1, StepPassed, AlwaysSound, PTL DEF Spec

\* What is sent is of a call that has been chosen.
LEMMA SentOfCall == ASSUME Sound, NEW i \in Attempts, fate[i] # "unsent" PROVE phase # "idle"
  BY BoundsAssumption DEF Sound, Control, Attempts

\* Nothing a call did goes beyond its annotations, but with the customer's
\* acknowledgement of the call.
THEOREM ImpactDisclosedHolds == ASSUME ImpactsListed PROVE Spec => []ImpactDisclosed
  <1>1. ASSUME Sound, Passed PROVE ImpactDisclosed
    <2> SUFFICES ASSUME NEW i \in Attempts, fate[i] = "applied"
                 PROVE Levels[facts.change] <= Disclosed \/ call.agreed
      BY DEF ImpactDisclosed
    <2>1. facts.asks => call.agreed
      BY <1>1 DEF Passed, PassedUnder
    <2> QED BY <1>1, <2>1, SentOfCall, OwnRow DEF ImpactsListed, ImpactListed, Disclosed
  <1> QED BY <1>1, AlwaysSound, AlwaysPassed, PTL

\* Whatever the connection's scopes were, and whichever scopes there are, what
\* was carried out is what the customer consented to.
THEOREM ConsentCoversHolds == ASSUME ScopesFit PROVE Spec => []ConsentCovers
  <1>1. ASSUME Sound, Passed PROVE ConsentCovers
    <2> SUFFICES ASSUME NEW i \in Attempts, fate[i] \in OfApi
                 PROVE /\ Hosted => /\ needed \in ShownScopes(under[i])
                                    /\ under[i] \subseteq ReadScopes /\ facts.change = "alters"
                                         => facts.reads \/ Tool \in OwnWork
                       /\ facts.asks => call.agreed
                       /\ facts.pays => IF Hosted
                                      THEN call.agreed /\ needed \in under[i] \cap billing
                                      ELSE call.agreed \/ Disclosed = 2
      BY DEF ConsentCovers
    <2>1. PassedUnder(under[i])
      BY <1>1 DEF Passed, OfApi
    <2>2. profile \in Profiles /\ Tool \in DOMAIN Tools[profile] /\ under[i] \in SUBSET AllScopes
      BY <2>1, AccessAssumption, GrantsAssumption DEF PassedUnder, Registered
    <2>3. facts.asks => call.agreed
      BY <2>1 DEF PassedUnder
    <2>4. ASSUME Hosted
          PROVE  /\ needed \in ShownScopes(under[i])
                 /\ under[i] \subseteq ReadScopes => needed \in ReadScopes \cup Unscoped
                 /\ needed \in billing => needed \in under[i]
      <3>1. hasScope(under[i], needed)
        BY <2>1, <2>4 DEF PassedUnder, Permitted, needed
      <3> QED BY <2>2, <3>1, ConsentIsExact, ReadingOnlyReads, ChargesAreGranted
    <2>5. Hosted => ConsentFits(facts, needed, Tool \in OwnWork)
      BY <2>2 DEF ScopesFit, Hosted, needed
    <2>6. ~Hosted => ChargeListed(facts, listed)
      BY <2>2 DEF ScopesFit, Hosted
    <2> QED BY <2>3, <2>4, <2>5, <2>6 DEF ConsentFits, ChargeListed, Disclosed
  <1> QED BY <1>1, AlwaysSound, AlwaysPassed, PTL

-----------------------------------------------------------------------------
(* Progress.                                                               *)

\* The most steps the server has left before it answers.
StepsLeft ==
  CASE phase = "chosen" -> MaxPolls + 4
    [] phase = "looking" -> MaxPolls + 3
    [] phase = "waiting" -> MaxPolls + 2
    [] phase = "polling" -> (MaxPolls - polls) + 1
    [] OTHER -> 0

LEMMA StepsAreFew ==
  Sound => StepsLeft \in 0..MaxPolls + 4 /\ (StepsLeft > 0 <=> phase \in InFlight)
  BY BoundsAssumption DEF Sound, TypeOK, Phases, InFlight, StepsLeft

LEMMA ServerAdvances == ASSUME Sound, ServerStep PROVE StepsLeft' < StepsLeft
  <1>1. polls \in 0..MaxPolls /\ MaxPolls \in Nat
    BY BoundsAssumption DEF Sound, TypeOK
  <1>2. ASSUME Refuse \/ LookFails PROVE StepsLeft' < StepsLeft
    BY <1>1, <1>2 DEF Refuse, LookFails, Tell, StepsLeft
  <1>3. ASSUME Dispatch \/ LookPasses PROVE StepsLeft' < StepsLeft
    <2>1. \/ phase = "chosen" /\ phase' \in {"looking", "waiting"}
          \/ phase = "looking" /\ phase' = "waiting"
      BY <1>3 DEF Dispatch, LookPasses, Send
    <2> QED BY <1>1, <2>1 DEF StepsLeft
  <1>4. ASSUME PassOn \/ Misfit \/ PassRefusal \/ Gateway \/ Thrown \/ PollsSpent
        PROVE StepsLeft' < StepsLeft
    <2>1. phase' = "answered" /\ phase \in {"waiting", "polling"}
      BY <1>4 DEF PassOn, Misfit, PassRefusal, Gateway, Thrown, PollsSpent, Awaiting, Tell
    <2> QED BY <1>1, <2>1 DEF StepsLeft
  <1>5. ASSUME Follow PROVE StepsLeft' < StepsLeft
    BY <1>1, <1>5 DEF Follow, Awaiting, Told, StepsLeft
  <1>6. ASSUME PollGoesOn \/ PollEnds \/ PollFails PROVE StepsLeft' < StepsLeft
    <2>1. phase' \in {"polling", "answered"} /\ phase = "polling" /\ polls' = polls + 1
      BY <1>6 DEF PollGoesOn, PollEnds, PollFails, Poll, NextPoll, Tell
    <2> QED BY <1>1, <2>1 DEF StepsLeft
  <1> QED BY <1>2, <1>3, <1>4, <1>5, <1>6 DEF ServerStep

\* Whatever the API and the queued work do, the server answers a call within
\* MaxPolls + 4 of its own steps: each takes it nearer to the answer, and what
\* the API does and a change of scopes never set it back. That such a step is
\* always possible is for TLC to say (CallEnds).
THEOREM CallsAreBounded ==
  Spec => /\ [](StepsLeft \in 0..MaxPolls + 4 /\ (StepsLeft > 0 <=> phase \in InFlight))
          /\ [][/\ ServerStep => StepsLeft' < StepsLeft
                /\ ApiStep \/ Regrant => StepsLeft' = StepsLeft]_vars
  <1>1. ASSUME Sound, ApiStep \/ Regrant PROVE StepsLeft' = StepsLeft
    BY <1>1 DEF ApiStep, Apply, TurnAway, WorkEnds, Regrant, StepsLeft
  <1>2. ASSUME Sound
        PROVE  /\ ServerStep => StepsLeft' < StepsLeft
               /\ ApiStep \/ Regrant => StepsLeft' = StepsLeft
    BY <1>1, <1>2, ServerAdvances
  <1> QED BY <1>2, StepsAreFew, AlwaysSound, PTL

-----------------------------------------------------------------------------
(* The catalogue of this repository.                                       *)

\* The constants are what this repository makes of them.
ThisCatalogue ==
  /\ Profiles = ProfileNames
  /\ Tools = ToolsOf /\ Advertised = AdvertisedBy
  /\ \A p \in Profiles \ {"stdio"} : Needs[p] = remoteScope[p]
  /\ OwnWork = ownWork /\ OpenRepeats = openRepeats

LEMMA CatalogueKeepsRules ==
  ThisCatalogue => PagesHarmless /\ RepeatsHarmless /\ ImpactsListed /\ ScopesFit
  <1> SUFFICES ASSUME ThisCatalogue
               PROVE PagesHarmless /\ RepeatsHarmless /\ ImpactsListed /\ ScopesFit
    OBVIOUS
  <1>1. PagesHarmless
    BY PagesFact DEF ThisCatalogue, PagesHarmless
  <1>2. RepeatsHarmless
    BY RepeatsFact DEF ThisCatalogue, RepeatsHarmless
  <1>3. ImpactsListed
    BY ImpactsFact DEF ThisCatalogue, ImpactsListed
  <1>4. ScopesFit
    BY ConsentFact, ChargesFact DEF ThisCatalogue, ScopesFit
  <1> QED BY <1>1, <1>2, <1>3, <1>4

\* Of the tools of this repository, however often a call is made and followed
\* and whatever scopes a connection has: what is done was disclosed and
\* consented to, is made once, and is answered truthfully.
THEOREM CatalogueSafe ==
  ASSUME ThisCatalogue
  PROVE  Spec => [](ImpactDisclosed /\ ConsentCovers /\ RepeatsApplyOnce /\ AnswersTruthful)
  <1>1. PagesHarmless /\ RepeatsHarmless /\ ImpactsListed /\ ScopesFit
    BY CatalogueKeepsRules
  <1>2. Spec => []ImpactDisclosed
    BY <1>1, ImpactDisclosedHolds
  <1>3. Spec => []ConsentCovers
    BY <1>1, ConsentCoversHolds
  <1>4. Spec => []RepeatsApplyOnce
    BY <1>1, RepeatsApplyOnceHolds
  <1>5. Spec => []AnswersTruthful
    BY <1>1, AnswersTruthfulHolds
  <1> QED BY <1>2, <1>3, <1>4, <1>5, PTL
=============================================================================
