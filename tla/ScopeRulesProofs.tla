-------------------------- MODULE ScopeRulesProofs --------------------------
(***************************************************************************)
(* Proofs about the scope rules, for every set of scopes a connection can  *)
(* have: that the call check and the consent page, which are written down  *)
(* separately, agree, and what a scope can never be stretched to.          *)
(***************************************************************************)
EXTENDS ScopeRules, TLAPS

\* What lets a scope pass, one scope at a time: itself, or what the consent
\* page says it includes.
Passes(scope, required) ==
  scope = required \/ required \in implies(scope) \/ (required = "vm:session" /\ scope \in vmScopes)

\* The :manage names that no connection can have.
LEMMA ManageOrNothing ==
  ASSUME NEW read \in ReadScopes, Manage(read) \in AllScopes
  PROVE  read \in implies(Manage(read))
  BY DEF ReadScopes, Manage, implies, AllScopes, AllowedScopes, supportedScopes, orderScopes,
         legacyScopes

\* A granted scope passes for what the consent page says it includes.
LEMMA ImpliedPasses ==
  ASSUME NEW scopes, NEW scope \in scopes, scope \in AllScopes,
         NEW required, required \in implies(scope)
  PROVE  hasScope(scopes, required)
  <1>1. CASE scope \in {"services:manage", "applications:manage", "networking:manage",
                        "functions:manage", "domains:manage", "certificates:manage",
                        "ssh_keys:manage"}
    BY <1>1 DEF implies, hasScope, ReadScopes, Manage
  <1>2. CASE scope \in {"services:rescue", "dns:write", "dnssec:manage", "functions:invoke",
                        "orders:servers", "orders:domains", "vm:files:write", "vm:exec",
                        "vm:files"}
    BY <1>2 DEF implies, hasScope
  <1>3. CASE implies(scope) = {}
    BY <1>3
  <1> QED BY <1>1, <1>2, <1>3
          DEF implies, AllScopes, AllowedScopes, supportedScopes, orderScopes, legacyScopes

\* Whatever passes does so by one granted scope.
LEMMA PassesByOne ==
  ASSUME NEW scopes \in SUBSET AllScopes, NEW required,
         hasScope(scopes, required), required # "authenticated"
  PROVE  \E scope \in scopes : Passes(scope, required)
  <1>1. CASE required \in scopes
    BY <1>1 DEF Passes
  <1>2. CASE required \in ReadScopes /\ Manage(required) \in scopes
    BY <1>2, ManageOrNothing DEF Passes
  <1>3. CASE required = "vm:session" /\ scopes \cap vmScopes # {}
    BY <1>3 DEF Passes
  <1>4. CASE \/ required = "orders:read" /\ scopes \cap {"orders:servers", "orders:domains"} # {}
             \/ required \in {"vm:files:read", "vm:files:write"} /\ "vm:files" \in scopes
             \/ required = "vm:files:read" /\ "vm:files:write" \in scopes
             \/ required = "vm:diagnostics" /\ "vm:exec" \in scopes
             \/ required = "dns:read" /\ scopes \cap {"dns:write", "dnssec:manage"} # {}
             \/ required = "services:read" /\ "services:rescue" \in scopes
             \/ required = "functions:read" /\ "functions:invoke" \in scopes
    BY <1>4 DEF Passes, implies
  <1> QED BY <1>1, <1>2, <1>3, <1>4 DEF hasScope

\* The call check lets a connection use exactly what its consent page named:
\* hasScope (src/remote-policy.ts) and the catalogue of scopes
\* (src/scope-catalog.ts) agree on every set of scopes, and a scope that is in
\* neither is never let through.
THEOREM ConsentIsExact ==
  \A scopes \in SUBSET AllScopes : \A required :
    hasScope(scopes, required) <=> required \in ShownScopes(scopes)
  <1> SUFFICES ASSUME NEW scopes \in SUBSET AllScopes, NEW required
               PROVE  hasScope(scopes, required) <=> required \in ShownScopes(scopes)
    OBVIOUS
  <1>1. ASSUME hasScope(scopes, required) PROVE required \in ShownScopes(scopes)
    <2>1. CASE required = "authenticated"
      BY <2>1 DEF ShownScopes
    <2>2. CASE \E scope \in scopes : Passes(scope, required)
      BY <2>2 DEF ShownScopes, Passes
    <2> QED BY <1>1, <2>1, <2>2, PassesByOne
  <1>2. ASSUME required \in ShownScopes(scopes) PROVE hasScope(scopes, required)
    <2>1. CASE required \in scopes \cup {"authenticated"}
      BY <2>1 DEF hasScope
    <2>2. CASE \E scope \in scopes : required \in implies(scope)
      BY <2>2, ImpliedPasses
    <2>3. CASE required = "vm:session" /\ scopes \cap vmScopes # {}
      BY <2>3 DEF hasScope
    <2> QED BY <1>2, <2>1, <2>2, <2>3 DEF ShownScopes
  <1> QED BY <1>1, <1>2

\* Two grants together allow what one of them allows, and no more: what a
\* customer consented to scope by scope is not widened by their combination.
THEOREM ScopesDoNotCombine ==
  \A one, other \in SUBSET AllScopes : \A required :
    hasScope(one \cup other, required) <=> hasScope(one, required) \/ hasScope(other, required)
  <1> SUFFICES ASSUME NEW one \in SUBSET AllScopes, NEW other \in SUBSET AllScopes, NEW required
               PROVE  hasScope(one \cup other, required)
                        <=> hasScope(one, required) \/ hasScope(other, required)
    OBVIOUS
  <1>1. one \cup other \in SUBSET AllScopes
    OBVIOUS
  <1>2. required \in ShownScopes(one \cup other)
          <=> required \in ShownScopes(one) \cup ShownScopes(other)
    BY DEF ShownScopes
  <1> QED BY <1>1, <1>2, ConsentIsExact

\* Taking scopes away never lets more through.
THEOREM NarrowingTakesAway ==
  \A wide \in SUBSET AllScopes : \A narrow \in SUBSET wide : \A required :
    hasScope(narrow, required) => hasScope(wide, required)
  <1> SUFFICES ASSUME NEW wide \in SUBSET AllScopes, NEW narrow \in SUBSET wide, NEW required,
                      hasScope(narrow, required)
               PROVE  hasScope(wide, required)
    OBVIOUS
  <1>1. narrow \in SUBSET AllScopes /\ wide = narrow \cup wide
    OBVIOUS
  <1> QED BY <1>1, ScopesDoNotCombine

\* Scopes that only read pass for scopes that only read, however many of them
\* there are.
THEOREM ReadingOnlyReads ==
  \A scopes \in SUBSET (ReadScopes \cap AllScopes) : \A required :
    hasScope(scopes, required) => required \in scopes \cup Unscoped
  <1> SUFFICES ASSUME NEW scopes \in SUBSET (ReadScopes \cap AllScopes), NEW required,
                      hasScope(scopes, required), required # "authenticated"
               PROVE  required \in scopes \cup Unscoped
    BY DEF Unscoped
  <1>1. PICK scope \in scopes : Passes(scope, required)
    BY PassesByOne
  <1>2. implies(scope) = {}
    BY DEF implies, ReadScopes
  <1> QED BY <1>1, <1>2 DEF Passes, Unscoped

\* No scope passes for one that charges the customer, but that one itself.
THEOREM ChargesAreGranted ==
  \A scopes \in SUBSET AllScopes : \A required \in billing :
    hasScope(scopes, required) => required \in scopes
  <1> SUFFICES ASSUME NEW scopes \in SUBSET AllScopes, NEW required \in billing,
                      hasScope(scopes, required)
               PROVE  required \in scopes
    OBVIOUS
  <1>1. PICK scope \in scopes : Passes(scope, required)
    BY PassesByOne DEF billing
  <1>2. required \notin implies(scope)
    BY DEF implies, billing
  <1> QED BY <1>1, <1>2 DEF Passes, billing

\* Without a scope for orders nothing of orders passes.
THEOREM OrdersAreGranted ==
  \A scopes \in SUBSET (AllScopes \ orderScopes) : \A required \in orderScopes :
    ~hasScope(scopes, required)
  <1> SUFFICES ASSUME NEW scopes \in SUBSET (AllScopes \ orderScopes),
                      NEW required \in orderScopes, hasScope(scopes, required)
               PROVE  FALSE
    OBVIOUS
  <1>1. PICK scope \in scopes : Passes(scope, required)
    BY PassesByOne DEF orderScopes
  <1>2. required \notin implies(scope)
    BY DEF implies, orderScopes
  <1> QED BY <1>1, <1>2 DEF Passes, orderScopes
=============================================================================
