------------------------ MODULE RemoteAccessProofs ------------------------
(***************************************************************************)
(* Proofs about RemoteAccess, for any number of requests, tokens and       *)
(* grants: whose token is used, until when and for which tools.            *)
(***************************************************************************)
EXTENDS RemoteAccess, ScopeRulesProofs, TLAPS

USE TimeAssumption, GrantsAssumption, OrdersAssumption, NoneAssumption

\* The context of a request is of its own token, as fresh as the
\* authorization server says, and never made for a token revoked before.
OwnContext(q) ==
  q.context # NoContext =>
    /\ q.token \in Tokens
    /\ q.context \in Context
    /\ q.context.token = q.token
    /\ q.context.exp = grants[q.token].exp
    /\ q.context.scopes \subseteq AllowedScopes(ordersEnabled)
    /\ q.context.ordersAvailable => ordersEnabled
    /\ ~q.late

\* Before its authentication a request has no context, after it it has one,
\* and where it calls the API its tool is allowed.
Phase(q) ==
  /\ q.pc \in {"introspecting", "reading", "calling", "waiting"} =>
       q.token \in Tokens /\ q.tool \in Tools
  /\ q.pc \in {"new", "introspecting"} => q.context = NoContext
  /\ q.pc \in {"reading", "calling", "waiting"} => q.context # NoContext
  /\ q.pc \in {"calling", "waiting"} =>
       /\ Registered(q.context, q.tool)
       /\ hasScope(q.context.scopes, RequiredScope(q.context, q.tool))

\* A token that was revoked on arrival still is at the introspection.
LateRevoked(q) == q.pc = "introspecting" /\ q.late => ~grants[q.token].live

Sound(q) == OwnContext(q) /\ Phase(q) /\ LateRevoked(q)

AllSound == \A r \in Requests : Sound(requests[r])

\* What the policy lets through, whoever calls it.
Fits(context, tool) ==
  LET required == RequiredScope(context, tool)
  IN /\ tool \in DOMAIN Permissions \cup DOMAIN OrderPermissions
     /\ tool \notin DOMAIN Permissions => ordersEnabled /\ context.ordersAvailable
     /\ required \in ShownScopes(context.scopes)
     /\ required \in billing => required \in context.scopes
     /\ required \in orderScopes => ordersEnabled
     /\ context.scopes \subseteq ReadScopes => required \in ReadScopes \cup Unscoped

\* The scopes a server without orders allows are not those of orders.
LEMMA AllowedAreScopes ==
  /\ AllowedScopes(ordersEnabled) \subseteq AllScopes
  /\ ~ordersEnabled => AllowedScopes(ordersEnabled) \subseteq AllScopes \ orderScopes
  BY DEF AllScopes, AllowedScopes, supportedScopes, legacyScopes, orderScopes

\* A tool that is registered and has its scope fits what was granted.
LEMMA PolicyFits ==
  ASSUME NEW context, NEW tool,
         context.scopes \subseteq AllowedScopes(ordersEnabled),
         context.ordersAvailable => ordersEnabled,
         Registered(context, tool), hasScope(context.scopes, RequiredScope(context, tool))
  PROVE  Fits(context, tool)
<1> DEFINE required == RequiredScope(context, tool)
<1>1. context.scopes \in SUBSET AllScopes
  BY AllowedAreScopes
<1>2. required \in ShownScopes(context.scopes)
  BY <1>1, ConsentIsExact
<1>3. required \in billing => required \in context.scopes
  BY <1>1, ChargesAreGranted
<1>4. required \in orderScopes => ordersEnabled
  BY AllowedAreScopes, OrdersAreGranted
<1>5. context.scopes \subseteq ReadScopes => required \in ReadScopes \cup Unscoped
  BY <1>1, ReadingOnlyReads
<1>6. /\ tool \in DOMAIN Permissions \cup DOMAIN OrderPermissions
      /\ tool \notin DOMAIN Permissions => ordersEnabled /\ context.ordersAvailable
  BY DEF Registered, OrderTool
<1> QED BY <1>2, <1>3, <1>4, <1>5, <1>6 DEF Fits

\* Only authenticated requests have reached the API.
Authenticated == \A a \in apiCalls : requests[a.request].context # NoContext

IndInv ==
  TypeOK /\ AllSound /\ Authenticated /\ OwnToken /\ NeverExpired /\ NoWiderThanGranted

\* A request's own step, which makes no API request, keeps the invariant if
\* the request stays sound and keeps what an authenticated request has.
LEMMA MoveInv ==
  ASSUME IndInv, NEW r \in Requests, NEW new \in Request, Sound(new),
         UNCHANGED <<now, grants, apiCalls>>,
         requests' = [requests EXCEPT ![r] = new],
         requests[r].context # NoContext =>
           /\ new.context = requests[r].context /\ new.token = requests[r].token
           /\ new.tool = requests[r].tool
  PROVE  IndInv'
<1>1. /\ requests' \in [Requests -> Request] /\ requests'[r] = new
      /\ \A q \in Requests \ {r} : requests'[q] = requests[q]
  BY DEF IndInv, TypeOK
<1>2. TypeOK'
  BY <1>1 DEF IndInv, TypeOK
<1>3. AllSound'
  BY <1>1 DEF IndInv, AllSound, Sound, OwnContext, Phase, LateRevoked
<1>4. ASSUME NEW a \in apiCalls
      PROVE  /\ requests'[a.request].context = requests[a.request].context
             /\ requests'[a.request].token = requests[a.request].token
             /\ requests'[a.request].tool = requests[a.request].tool
             /\ requests[a.request].context # NoContext
  <2>1. a.request \in Requests /\ requests[a.request].context # NoContext
    BY DEF IndInv, TypeOK, ApiCall, Authenticated
  <2> QED BY <2>1, <1>1
<1>5. Authenticated' /\ OwnToken' /\ NeverExpired'
  BY <1>4 DEF IndInv, Authenticated, OwnToken, NeverExpired
<1>6. NoWiderThanGranted'
  BY <1>4 DEF IndInv, NoWiderThanGranted
<1> QED BY <1>2, <1>3, <1>5, <1>6 DEF IndInv

\* Answering a request ends it, and keeps what it has.
LEMMA AnswerInv ==
  ASSUME IndInv, NEW r \in Requests,
         NEW answer \in {"rejected", "invalid_token", "unavailable", "unknown_tool",
                         "insufficient_scope", "expired", "reauthorize", "answered"},
         Answer(r, answer), UNCHANGED <<now, grants, apiCalls>>
  PROVE  IndInv'
<1> DEFINE new == [requests[r] EXCEPT !.pc = "done", !.answer = answer]
<1>1. requests[r] \in Request /\ Sound(requests[r])
  BY DEF IndInv, TypeOK, AllSound
<1>2. /\ new \in Request /\ new.pc = "done" /\ new.context = requests[r].context
      /\ new.token = requests[r].token /\ new.tool = requests[r].tool
      /\ new.late = requests[r].late
  BY <1>1 DEF Request
<1>3. requests' = [requests EXCEPT ![r] = new]
  BY DEF Answer, IndInv, TypeOK
<1> HIDE DEF new
<1>4. Sound(new)
  BY <1>1, <1>2 DEF Sound, OwnContext, Phase, LateRevoked
<1> QED BY <1>2, <1>3, <1>4, MoveInv

\* At first nothing has arrived and nothing was sent.
LEMMA InitInv == Init => IndInv
<1> SUFFICES ASSUME Init PROVE IndInv
  OBVIOUS
<1>1. TypeOK
  <2>1. [live: {TRUE}, exp: 0..MaxTime, scopes: Grants, orders: BOOLEAN] \subseteq Grant
    BY DEF Grant
  <2>2. grants \in [Tokens -> Grant]
    BY <2>1 DEF Init
  <2>3. requests \in [Requests -> Request]
    BY DEF Init, Request
  <2>4. now = 0 /\ apiCalls = {}
    BY DEF Init
  <2> QED BY <2>2, <2>3, <2>4 DEF TypeOK
<1>2. AllSound
  BY DEF Init, AllSound, Sound, OwnContext, Phase, LateRevoked
<1> QED BY <1>1, <1>2 DEF Init, IndInv, Authenticated, OwnToken, NeverExpired, NoWiderThanGranted

\* Arriving, a request notes whether its token is already revoked.
LEMMA ArriveInv ==
  ASSUME IndInv, NEW r \in Requests, NEW token \in Tokens, NEW tool \in Tools,
         Arrive(r, token, tool)
  PROVE  IndInv'
<1> DEFINE late == ~grants[token].live
           new == [requests[r] EXCEPT !.pc = "introspecting", !.token = token, !.tool = tool,
                                      !.late = late]
<1>1. CASE Answer(r, "rejected")
  BY <1>1, AnswerInv DEF Arrive
<1>2. CASE requests' = [requests EXCEPT ![r] = new]
  <2>1. /\ requests[r] \in Request /\ Sound(requests[r]) /\ late \in BOOLEAN
        /\ requests[r].pc = "new"
    BY DEF IndInv, TypeOK, AllSound, Grant, Arrive
  <2> HIDE DEF late
  <2>2. /\ new \in Request /\ new.pc = "introspecting" /\ new.context = requests[r].context
        /\ new.token = token /\ new.tool = tool
    BY <2>1 DEF Request
  <2>3. new.late = late
    BY <2>1 DEF Request
  <2> HIDE DEF new
  <2>4. requests[r].context = NoContext
    BY <2>1 DEF Sound, Phase
  <2>5. LateRevoked(new)
    BY <2>2, <2>3 DEF LateRevoked, late
  <2>6. Sound(new)
    BY <2>2, <2>4, <2>5 DEF Sound, OwnContext, Phase
  <2> QED BY <1>2, <2>2, <2>4, <2>6, MoveInv DEF Arrive
<1> QED BY <1>1, <1>2 DEF Arrive, IndInv, TypeOK

\* A request is given the context of its own live and fresh token.
LEMMA IntrospectedInv ==
  ASSUME IndInv, NEW r \in Requests, Introspected(r)
  PROVE  IndInv'
<1> DEFINE token == requests[r].token
           grant == grants[token]
           context == ContextOf(token, grant)
           new == [requests[r] EXCEPT !.pc = "reading", !.context = context]
<1>1. CASE Answer(r, "invalid_token")
  BY <1>1, AnswerInv DEF Introspected
<1>2. CASE /\ grant.live /\ requests' = [requests EXCEPT ![r] = new]
  <2>1. /\ requests[r] \in Request /\ Sound(requests[r]) /\ requests[r].pc = "introspecting"
        /\ token \in Tokens /\ requests[r].tool \in Tools /\ grant \in Grant
        /\ requests[r].context = NoContext /\ ~requests[r].late
    BY <1>2 DEF IndInv, TypeOK, AllSound, Sound, Phase, LateRevoked, Introspected
  <2>2. /\ context \in Context /\ context.token = token /\ context.exp = grant.exp
        /\ context.scopes \subseteq AllowedScopes(ordersEnabled)
        /\ context.ordersAvailable => ordersEnabled
    <3>1. grant.scopes \cap AllowedScopes(ordersEnabled) \in SUBSET AllScopes /\ grant.exp \in 0..MaxTime
          /\ grant.orders \in BOOLEAN
      BY <2>1 DEF Grant
    <3>2. (ordersEnabled /\ grant.orders /\ (grant.scopes \cap AllowedScopes(ordersEnabled)) \cap orderScopes # {})
            \in BOOLEAN
      OBVIOUS
    <3> QED BY <2>1, <3>1, <3>2 DEF ContextOf, Context
  <2> HIDE DEF context
  <2>3. /\ new \in Request /\ new.pc = "reading" /\ new.context = context
        /\ new.token = token /\ new.tool = requests[r].tool /\ new.late = requests[r].late
    BY <2>1, <2>2 DEF Request
  <2> HIDE DEF new
  <2>4. new.context # NoContext
    BY <2>1, <2>2, <2>3 DEF NoContext
  <2>5. Sound(new)
    BY <2>1, <2>2, <2>3, <2>4 DEF Sound, OwnContext, Phase, LateRevoked
  <2> QED BY <1>2, <2>1, <2>3, <2>5, MoveInv DEF Introspected
<1> QED BY <1>1, <1>2 DEF Introspected, Introspection

\* Only a registered tool within the connection's scopes starts working.
LEMMA BodyReadInv ==
  ASSUME IndInv, NEW r \in Requests, BodyRead(r)
  PROVE  IndInv'
<1> DEFINE new == [requests[r] EXCEPT !.pc = "calling"]
<1>1. CASE Answer(r, "unknown_tool") \/ Answer(r, "insufficient_scope")
  BY <1>1, AnswerInv DEF BodyRead
<1>2. CASE /\ Registered(requests[r].context, requests[r].tool)
           /\ hasScope(requests[r].context.scopes, RequiredScope(requests[r].context, requests[r].tool))
           /\ requests' = [requests EXCEPT ![r].pc = "calling"]
  <2>1. requests[r] \in Request /\ Sound(requests[r]) /\ requests[r].pc = "reading"
    BY DEF IndInv, TypeOK, AllSound, BodyRead
  <2>2. /\ new \in Request /\ new.pc = "calling" /\ new.context = requests[r].context
        /\ new.token = requests[r].token /\ new.tool = requests[r].tool
        /\ new.late = requests[r].late
    BY <2>1 DEF Request
  <2>3. requests' = [requests EXCEPT ![r] = new]
    BY <1>2 DEF IndInv, TypeOK
  <2> HIDE DEF new
  <2>4. Sound(new)
    BY <1>2, <2>1, <2>2 DEF Sound, OwnContext, Phase, LateRevoked
  <2> QED BY <2>2, <2>3, <2>4, MoveInv DEF BodyRead
<1> QED BY <1>1, <1>2 DEF BodyRead, Store

\* An API answer sends the tool on, or ends it.
LEMMA ApiAnswersInv ==
  ASSUME IndInv, NEW r \in Requests, ApiAnswers(r)
  PROVE  IndInv'
<1> DEFINE new == [requests[r] EXCEPT !.pc = "calling"]
<1>1. CASE Answer(r, "answered") \/ Answer(r, "reauthorize")
  BY <1>1, AnswerInv DEF ApiAnswers
<1>2. CASE requests' = [requests EXCEPT ![r].pc = "calling"]
  <2>1. requests[r] \in Request /\ Sound(requests[r]) /\ requests[r].pc = "waiting"
    BY DEF IndInv, TypeOK, AllSound, ApiAnswers
  <2>2. /\ new \in Request /\ new.pc = "calling" /\ new.context = requests[r].context
        /\ new.token = requests[r].token /\ new.tool = requests[r].tool
        /\ new.late = requests[r].late
    BY <2>1 DEF Request
  <2>3. requests' = [requests EXCEPT ![r] = new]
    BY <1>2 DEF IndInv, TypeOK
  <2> HIDE DEF new
  <2>4. Sound(new)
    BY <2>1, <2>2 DEF Sound, OwnContext, Phase, LateRevoked
  <2> QED BY <2>2, <2>3, <2>4, MoveInv DEF ApiAnswers
<1> QED BY <1>1, <1>2 DEF ApiAnswers

\* An API request goes out with the request's own token, still fresh, for a
\* tool the connection was granted.
LEMMA CallApiInv ==
  ASSUME IndInv, NEW r \in Requests, CallApi(r)
  PROVE  IndInv'
<1> DEFINE q == requests[r]
           new == [q EXCEPT !.pc = "waiting"]
           a == [request |-> r, token |-> q.context.token,
                 expired |-> grants[q.context.token].exp <= now]
<1>1. CASE Answer(r, "expired") /\ UNCHANGED apiCalls
  BY <1>1, AnswerInv DEF CallApi
<1>2. CASE /\ ~Expired(q.context) /\ requests' = [requests EXCEPT ![r].pc = "waiting"]
           /\ apiCalls' = apiCalls \cup {a}
  <2>1. /\ q \in Request /\ Sound(q) /\ q.pc = "calling" /\ q.context # NoContext
        /\ q.token \in Tokens /\ q.tool \in Tools
        /\ q.context \in Context /\ q.context.token = q.token
        /\ q.context.exp = grants[q.token].exp
        /\ UNCHANGED <<now, grants>>
    BY DEF IndInv, TypeOK, AllSound, Sound, OwnContext, Phase, CallApi
  <2>2. /\ new \in Request /\ new.pc = "waiting" /\ new.context = q.context
        /\ new.token = q.token /\ new.tool = q.tool /\ new.late = q.late
    BY <2>1 DEF Request
  <2>3. requests' = [requests EXCEPT ![r] = new]
    BY <1>2 DEF IndInv, TypeOK
  <2> HIDE DEF new
  <2>4. /\ requests' \in [Requests -> Request] /\ requests'[r] = new
        /\ \A p \in Requests \ {r} : requests'[p] = requests[p]
    BY <2>2, <2>3 DEF IndInv, TypeOK
  <2>5. ASSUME NEW p \in Requests
        PROVE  /\ requests'[p].context = requests[p].context
               /\ requests'[p].token = requests[p].token
               /\ requests'[p].tool = requests[p].tool
    BY <2>2, <2>4
  <2>6. a.request = r /\ a.token = q.token /\ a.expired = (grants[q.token].exp <= now)
    BY <2>1
  <2>7. ~a.expired
    BY <1>2, <2>1 DEF Expired
  <2>8. a \in ApiCall
    BY <2>1 DEF ApiCall
  <2> HIDE DEF a
  <2>9. apiCalls \subseteq ApiCall
    BY DEF IndInv, TypeOK
  <2>10. TypeOK'
    BY <1>2, <2>1, <2>4, <2>8, <2>9 DEF IndInv, TypeOK
  <2>11. AllSound'
    BY <2>1, <2>2, <2>4 DEF IndInv, AllSound, Sound, OwnContext, Phase, LateRevoked
  <2>12. Authenticated' /\ OwnToken' /\ NeverExpired'
    BY <1>2, <2>1, <2>5, <2>6, <2>7, <2>9
    DEF ApiCall, IndInv, Authenticated, OwnToken, NeverExpired
  <2>13. NoWiderThanGranted'
    <3>1. Fits(q.context, q.tool)
      BY <2>1, PolicyFits DEF Sound, OwnContext, Phase
    <3>2. ASSUME NEW b \in apiCalls'
          PROVE  Fits(requests'[b.request].context, requests'[b.request].tool)
      <4>1. CASE b = a
        BY <3>1, <4>1, <2>5, <2>6
      <4>2. CASE b \in apiCalls
        BY <4>2, <2>5, <2>9 DEF ApiCall, IndInv, NoWiderThanGranted, Fits
      <4> QED BY <1>2, <4>1, <4>2
    <3> QED BY <3>2 DEF NoWiderThanGranted, Fits
  <2> QED BY <2>10, <2>11, <2>12, <2>13 DEF IndInv
<1> QED BY <1>1, <1>2 DEF CallApi, Store

\* Grants change and are revoked, but keep their expiry, and a revoked one
\* stays revoked.
LEMMA GrantInv ==
  ASSUME IndInv, NEW token \in Tokens, Revoke(token) \/ Regrant(token)
  PROVE  IndInv'
<1>1. grants[token] \in Grant /\ UNCHANGED <<now, requests, apiCalls>>
  BY DEF IndInv, TypeOK, Revoke, Regrant
<1>2. PICK new \in Grant :
        /\ grants' = [grants EXCEPT ![token] = new]
        /\ new.exp = grants[token].exp
        /\ ~grants[token].live => ~new.live
  <2>1. CASE Revoke(token)
    <3>1. grants' = [grants EXCEPT ![token] = [grants[token] EXCEPT !.live = FALSE]]
      BY <2>1 DEF Revoke, IndInv, TypeOK
    <3>2. [grants[token] EXCEPT !.live = FALSE] \in Grant
      BY <1>1 DEF Grant
    <3> QED BY <1>1, <3>1, <3>2 DEF Grant
  <2>2. CASE Regrant(token)
    <3>1. PICK scopes \in Grants :
            grants' = [grants EXCEPT ![token] = [grants[token] EXCEPT !.scopes = scopes]]
      BY <2>2 DEF Regrant, IndInv, TypeOK
    <3>2. [grants[token] EXCEPT !.scopes = scopes] \in Grant
      BY <1>1 DEF Grant
    <3> QED BY <1>1, <2>2, <3>1, <3>2 DEF Grant, Regrant
  <2> QED BY <2>1, <2>2
<1>3. /\ grants' \in [Tokens -> Grant]
      /\ \A t \in Tokens : /\ grants'[t].exp = grants[t].exp
                           /\ ~grants[t].live => ~grants'[t].live
  BY <1>2 DEF IndInv, TypeOK
<1>4. AllSound'
  BY <1>1, <1>3 DEF IndInv, AllSound, Sound, OwnContext, Phase, LateRevoked
<1> QED BY <1>1, <1>3, <1>4
    DEF IndInv, TypeOK, Authenticated, OwnToken, NeverExpired, NoWiderThanGranted

\* Every step keeps the inductive invariant, one action at a time.
LEMMA StepInv == IndInv /\ [Next]_vars => IndInv'
<1> SUFFICES ASSUME IndInv, [Next]_vars PROVE IndInv'
  OBVIOUS
<1>1. ASSUME NEW r \in Requests, RequestStep(r)
      PROVE  IndInv'
  <2>1. CASE IntrospectionFails(r) \/ BodyRefused(r)
    BY <2>1, AnswerInv DEF IntrospectionFails, BodyRefused
  <2> QED BY <1>1, <2>1, IntrospectedInv, BodyReadInv, CallApiInv, ApiAnswersInv DEF RequestStep
<1>2. ASSUME NEW r \in Requests, NEW token \in Tokens, NEW tool \in Tools,
             Arrive(r, token, tool)
      PROVE  IndInv'
  BY <1>2, ArriveInv
<1>3. ASSUME NEW token \in Tokens, Revoke(token) \/ Regrant(token)
      PROVE  IndInv'
  BY <1>3, GrantInv
<1>4. CASE Tick
  <2>1. now' \in 0..MaxTime /\ UNCHANGED <<grants, requests, apiCalls>>
    BY <1>4 DEF Tick, IndInv, TypeOK
  <2> QED BY <2>1 DEF IndInv, TypeOK, AllSound, Sound, OwnContext, Phase, LateRevoked,
            Authenticated, OwnToken, NeverExpired, NoWiderThanGranted
<1>5. CASE UNCHANGED vars
  BY <1>5 DEF vars, IndInv, TypeOK, AllSound, Sound, OwnContext, Phase, LateRevoked,
     Authenticated, OwnToken, NeverExpired, NoWiderThanGranted
<1> QED BY <1>1, <1>2, <1>3, <1>4, <1>5 DEF Next

\* IndInv is an invariant of every behaviour.
THEOREM Invariance == Spec => []IndInv
BY InitInv, StepInv, PTL DEF Spec

\* The variables keep their types.
THEOREM TypeCorrect == Spec => []TypeOK
BY Invariance, PTL DEF IndInv

\* However HTTP requests interleave, each tool uses its own request's token.
THEOREM OwnTokenOnly == Spec => []OwnToken
BY Invariance, PTL DEF IndInv

\* No API request is made with an expired token.
THEOREM FreshTokens == Spec => []NeverExpired
BY Invariance, PTL DEF IndInv

\* Nothing that arrives after a revocation reaches the API: what reached it
\* has a context, and no context is made for a late request.
THEOREM RevokedOut == Spec => []RevokedStaysOut
<1>1. IndInv => RevokedStaysOut
  BY DEF IndInv, TypeOK, ApiCall, Authenticated, AllSound, Sound, OwnContext, RevokedStaysOut
<1> QED BY <1>1, Invariance, PTL

\* What reaches the API is what the consent page named for the scopes the
\* request was authenticated with, for any scopes and any tools.
THEOREM GrantedOnly == Spec => []NoWiderThanGranted
BY Invariance, PTL DEF IndInv
=============================================================================
