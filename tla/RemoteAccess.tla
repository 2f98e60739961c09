--------------------------- MODULE RemoteAccess ---------------------------
(***************************************************************************)
(* The hosted server (src/http-server.ts, src/request-context.ts, the call *)
(* check of src/remote-policy.ts): each HTTP request is authenticated with *)
(* the authorization server, its tool runs in the context of what that     *)
(* said, and every API request of the tool carries that context's token.   *)
(* Requests of several connections are served at the same time by one      *)
(* process, while grants are changed and revoked and tokens expire.        *)
(*                                                                         *)
(* Which scope a tool requires is a constant (ToolPolicy has the tables),  *)
(* which scopes pass for it is in ScopeRules. The authorization server,    *)
(* the API and the clock are external.                                     *)
(***************************************************************************)
EXTENDS Naturals, ScopeRules

CONSTANTS
  Requests,          \* HTTP requests; each calls one tool
  Tokens,            \* access tokens, one per connection
  Tools,             \* the names a request can call
  Permissions,       \* the scope each tool requires; none if it is not hosted
  OrderPermissions,  \* the same for the tools of a connection that may order
  Grants,            \* the sets of scopes a customer may grant
  ordersEnabled,     \* the server's option
  MaxTime,           \* bound: the clock stops here
  None

ASSUME TimeAssumption == MaxTime \in Nat
ASSUME GrantsAssumption == Grants \subseteq SUBSET AllScopes
ASSUME OrdersAssumption == ordersEnabled \in BOOLEAN
ASSUME NoneAssumption == None \notin Tokens \cup Tools

VARIABLES
  now,       \* the clock
  grants,    \* what the authorization server knows of each token
  requests,  \* the state of each HTTP request
  apiCalls   \* history: the requests made to the API

vars == <<now, grants, requests, apiCalls>>

\* live: not revoked; orders: the policy lets this client order.
Grant == [live: BOOLEAN, exp: 0..MaxTime, scopes: SUBSET AllScopes, orders: BOOLEAN]

\* The frozen AuthorizationContext of a request.
Context == [token: Tokens, exp: 0..MaxTime, scopes: SUBSET AllScopes, ordersAvailable: BOOLEAN]
NoContext == [token |-> None]

\* late: the token was already revoked when the request arrived.
Request == [pc: {"new", "introspecting", "reading", "calling", "waiting", "done"},
            token: Tokens \cup {None}, tool: Tools \cup {None},
            context: Context \cup {NoContext}, late: BOOLEAN,
            answer: {"none", "rejected", "invalid_token", "unavailable", "unknown_tool",
                     "insufficient_scope", "expired", "reauthorize", "answered"}]

ApiCall == [request: Requests, token: Tokens, expired: BOOLEAN]

TypeOK ==
  /\ now \in 0..MaxTime
  /\ grants \in [Tokens -> Grant]
  /\ requests \in [Requests -> Request]
  /\ apiCalls \subseteq ApiCall

Init ==
  /\ now = 0
  /\ grants \in [Tokens -> [live: {TRUE}, exp: 0..MaxTime, scopes: Grants, orders: BOOLEAN]]
  /\ requests = [r \in Requests |->
       [pc |-> "new", token |-> None, tool |-> None, context |-> NoContext,
        late |-> FALSE, answer |-> "none"]]
  /\ apiCalls = {}

-----------------------------------------------------------------------------
(* Scopes.                                                                 *)

\* Slip: exp is taken for milliseconds.
ContextOf_Milliseconds(token, grant) ==
  [token |-> token, exp |-> grant.exp * 1000,
   scopes |-> grant.scopes \cap AllowedScopes(ordersEnabled),
   ordersAvailable |-> ordersEnabled /\ grant.orders]

\* What authenticate makes of an active token.
ContextOf(token, grant) ==
  LET scopes == grant.scopes \cap AllowedScopes(ordersEnabled) IN
  [token |-> token, exp |-> grant.exp, scopes |-> scopes,
   ordersAvailable |-> ordersEnabled /\ grant.orders /\ scopes \cap orderScopes # {}]

\* The scope a tool requires under the connection's profile.
OrderTool(context, tool) == context.ordersAvailable /\ tool \in DOMAIN OrderPermissions
RequiredScope(context, tool) ==
  IF OrderTool(context, tool) THEN OrderPermissions[tool] ELSE Permissions[tool]

\* Order tools are only registered for a connection that may order and has
\* their scope; every other tool that is hosted always is.
Registered(context, tool) ==
  IF OrderTool(context, tool)
  THEN context.scopes \cap orderScopes # {} /\ hasScope(context.scopes, OrderPermissions[tool])
  ELSE tool \in DOMAIN Permissions

-----------------------------------------------------------------------------
(* An HTTP request.                                                        *)

Answer(r, answer) ==
  requests' = [requests EXCEPT ![r] = [@ EXCEPT !.pc = "done", !.answer = answer]]

\* A wrong host, origin or path, a preflight and the metadata are answered before any
\* authentication; a wrong method only after it (BodyRefused).
Arrive(r, token, tool) ==
  /\ requests[r].pc = "new"
  /\ \/ requests' = [requests EXCEPT ![r] =
          [@ EXCEPT !.pc = "introspecting", !.token = token, !.tool = tool,
                    !.late = ~grants[token].live]]
     \/ Answer(r, "rejected")
  /\ UNCHANGED <<now, grants, apiCalls>>

\* Slip: what another request learned of the token is used again.
Introspection_Cached(token) ==
  IF \E q \in Requests : requests[q].context # NoContext /\ requests[q].token = token
  THEN [grants[token] EXCEPT !.live = TRUE]
  ELSE grants[token]

Introspection(token) == grants[token]

Introspected(r) ==
  /\ requests[r].pc = "introspecting"
  /\ LET token == requests[r].token
         grant == Introspection(token) IN
     IF ~grant.live \/ grant.exp <= now
     THEN Answer(r, "invalid_token")
     ELSE requests' = [requests EXCEPT ![r] =
            [@ EXCEPT !.pc = "reading", !.context = ContextOf(token, grant)]]
  /\ UNCHANGED <<now, grants, apiCalls>>

\* The introspection times out or its server is out of order.
IntrospectionFails(r) ==
  /\ requests[r].pc = "introspecting"
  /\ Answer(r, "unavailable")
  /\ UNCHANGED <<now, grants, apiCalls>>

\* Slip: one variable of the process holds the context, the last one entered.
Store_Shared(r) ==
  requests[CHOOSE q \in Requests : requests[q].context # NoContext].context

\* The AsyncLocalStorage of the request's own chain of callbacks.
Store(r) == requests[r].context

\* The body is there: a server with this connection's tools takes the call.
BodyRead(r) ==
  /\ requests[r].pc = "reading"
  /\ LET context == Store(r)
         tool == requests[r].tool IN
     IF ~Registered(context, tool) THEN Answer(r, "unknown_tool")
     ELSE IF ~hasScope(context.scopes, RequiredScope(context, tool))
     THEN Answer(r, "insufficient_scope")
     ELSE requests' = [requests EXCEPT ![r].pc = "calling"]
  /\ UNCHANGED <<now, grants, apiCalls>>

\* The wrong method or content type, more than a megabyte, not JSON, a batch, no more data.
BodyRefused(r) ==
  /\ requests[r].pc = "reading"
  /\ Answer(r, "rejected")
  /\ UNCHANGED <<now, grants, apiCalls>>

\* Slip: the token was fresh when the request was authenticated.
Expired_Never(context) == FALSE

Expired(context) == context.exp <= now

\* apiRequest: the credentials are taken when the request is made.
CallApi(r) ==
  /\ requests[r].pc = "calling"
  /\ LET context == Store(r) IN
     IF Expired(context)
     THEN Answer(r, "expired") /\ UNCHANGED apiCalls
     ELSE /\ requests' = [requests EXCEPT ![r].pc = "waiting"]
          /\ apiCalls' = apiCalls \cup
               {[request |-> r, token |-> context.token,
                 expired |-> grants[context.token].exp <= now]}
  /\ UNCHANGED <<now, grants>>

\* The API has answered, or the request has timed out, and the tool goes on
\* to its next request, or has its result; 401 and an insufficient scope end it.
ApiAnswers(r) ==
  /\ requests[r].pc = "waiting"
  /\ \/ requests' = [requests EXCEPT ![r].pc = "calling"]
     \/ Answer(r, "answered")
     \/ Answer(r, "reauthorize")
  /\ UNCHANGED <<now, grants, apiCalls>>

-----------------------------------------------------------------------------
(* The customer, the authorization server and time.                        *)

Revoke(token) ==
  /\ grants' = [grants EXCEPT ![token].live = FALSE]
  /\ UNCHANGED <<now, requests, apiCalls>>

Regrant(token) ==
  /\ grants[token].live
  /\ \E scopes \in Grants : grants' = [grants EXCEPT ![token].scopes = scopes]
  /\ UNCHANGED <<now, requests, apiCalls>>

Tick ==
  /\ now < MaxTime
  /\ now' = now + 1
  /\ UNCHANGED <<grants, requests, apiCalls>>

-----------------------------------------------------------------------------

RequestStep(r) ==
  \/ Introspected(r) \/ IntrospectionFails(r) \/ BodyRead(r) \/ BodyRefused(r)
  \/ CallApi(r) \/ ApiAnswers(r)

Next ==
  \/ \E r \in Requests : RequestStep(r)
  \/ \E r \in Requests, token \in Tokens, tool \in Tools : Arrive(r, token, tool)
  \/ \E token \in Tokens : Revoke(token) \/ Regrant(token)
  \/ Tick

Spec == Init /\ [][Next]_vars

-----------------------------------------------------------------------------

\* However the requests of different connections interleave, every API
\* request carries the token its own HTTP request came with, never another
\* customer's (withAuthorization, apiAuthorization).
OwnToken == \A a \in apiCalls : a.token = requests[a.request].token

\* No API request is made with a token that has expired, however long the
\* body took to arrive or the tool has been at work (apiAuthorization).
NeverExpired == \A a \in apiCalls : ~a.expired

\* Once a connection is revoked, no HTTP request that arrives makes an API
\* request: nothing of an earlier authentication is kept (authenticate).
RevokedStaysOut == \A a \in apiCalls : ~requests[a.request].late

\* What reaches the API is a hosted tool that the consent page named for the
\* scopes its request was authenticated with: one that charges under that very
\* scope, one of orders only where orders are enabled, and never more than
\* reading where the scopes only read (authenticate, installRemotePolicy).
NoWiderThanGranted ==
  \A a \in apiCalls :
    LET r == requests[a.request]
        required == RequiredScope(r.context, r.tool)
    IN /\ r.tool \in DOMAIN Permissions \cup DOMAIN OrderPermissions
       /\ r.tool \notin DOMAIN Permissions => ordersEnabled /\ r.context.ordersAvailable
       /\ required \in ShownScopes(r.context.scopes)
       /\ required \in billing => required \in r.context.scopes
       /\ required \in orderScopes => ordersEnabled
       /\ r.context.scopes \subseteq ReadScopes => required \in ReadScopes \cup Unscoped
=============================================================================
