----------------------------- MODULE ScopeRules -----------------------------
(***************************************************************************)
(* The scopes of a hosted connection: which pass for which when a tool is  *)
(* called (hasScope of src/remote-policy.ts), and which the consent page   *)
(* says another one includes and which charge (src/scope-catalog.ts). The  *)
(* two are kept in different files and by different hands.                 *)
(***************************************************************************)

supportedScopes ==
  {"services:read", "services:manage", "applications:read", "applications:manage",
   "networking:read", "networking:manage", "functions:read", "functions:manage",
   "functions:invoke", "vm:diagnostics", "vm:files:read", "vm:files:write", "vm:exec",
   "services:reinstall", "services:restore", "services:rescue", "dns:read", "dns:write",
   "dnssec:manage", "domains:read", "domains:manage", "certificates:read",
   "certificates:manage", "ssh_keys:read", "ssh_keys:manage"}
orderScopes == {"orders:read", "orders:servers", "orders:domains"}

\* What authenticate keeps of a token's scopes; vm:files is of old grants.
legacyScopes == {"vm:files"}
AllowedScopes(ordersEnabled) ==
  supportedScopes \cup legacyScopes \cup IF ordersEnabled THEN orderScopes ELSE {}
AllScopes == AllowedScopes(TRUE)

\* What a tool can require besides a scope.
Unscoped == {"authenticated", "vm:session"}

ReadScopes ==
  {"services:read", "applications:read", "networking:read", "functions:read", "domains:read",
   "certificates:read", "ssh_keys:read", "dns:read", "orders:read", "vm:files:read"}
vmScopes == {"vm:diagnostics", "vm:files", "vm:files:read", "vm:files:write", "vm:exec"}

\* A scope ending in :read, with :manage in its place.
Manage(read) ==
  CASE read = "services:read" -> "services:manage"
    [] read = "applications:read" -> "applications:manage"
    [] read = "networking:read" -> "networking:manage"
    [] read = "functions:read" -> "functions:manage"
    [] read = "domains:read" -> "domains:manage"
    [] read = "certificates:read" -> "certificates:manage"
    [] read = "ssh_keys:read" -> "ssh_keys:manage"
    [] read = "dns:read" -> "dns:manage"
    [] read = "orders:read" -> "orders:manage"
    [] OTHER -> "vm:files:manage"

\* Slip: any scope on the machine passes for another.
hasScope_AnyOnMachine(scopes, required) ==
  \/ required \in scopes \cup {"authenticated"}
  \/ required \in ReadScopes /\ Manage(required) \in scopes
  \/ required \in vmScopes \cup {"vm:session"} /\ scopes \cap vmScopes # {}

\* Slip: the implication between reading and managing is turned round.
hasScope_Swapped(scopes, required) ==
  \/ required \in scopes
  \/ \E read \in ReadScopes : required = Manage(read) /\ read \in scopes

hasScope(scopes, required) ==
  \/ required \in scopes \cup {"authenticated"}
  \/ required \in ReadScopes /\ Manage(required) \in scopes
  \/ required = "orders:read" /\ scopes \cap {"orders:servers", "orders:domains"} # {}
  \/ required \in {"vm:files:read", "vm:files:write"} /\ "vm:files" \in scopes
  \/ required = "vm:files:read" /\ "vm:files:write" \in scopes
  \/ required = "vm:diagnostics" /\ "vm:exec" \in scopes
  \/ required = "dns:read" /\ scopes \cap {"dns:write", "dnssec:manage"} # {}
  \/ required = "services:read" /\ "services:rescue" \in scopes
  \/ required = "vm:session" /\ scopes \cap vmScopes # {}
  \/ required = "functions:read" /\ "functions:invoke" \in scopes

\* The consent page: what it says a scope includes, and which scopes charge
\* the customer's balance.
implies(scope) ==
  CASE scope \in {"services:manage", "services:rescue"} -> {"services:read"}
    [] scope \in {"dns:write", "dnssec:manage"} -> {"dns:read"}
    [] scope \in {"functions:manage", "functions:invoke"} -> {"functions:read"}
    [] scope \in {"orders:servers", "orders:domains"} -> {"orders:read"}
    [] scope = "applications:manage" -> {"applications:read"}
    [] scope = "networking:manage" -> {"networking:read"}
    [] scope = "domains:manage" -> {"domains:read"}
    [] scope = "certificates:manage" -> {"certificates:read"}
    [] scope = "ssh_keys:manage" -> {"ssh_keys:read"}
    [] scope = "vm:files:write" -> {"vm:files:read"}
    [] scope = "vm:exec" -> {"vm:diagnostics"}
    [] scope = "vm:files" -> {"vm:files:read", "vm:files:write"}
    [] OTHER -> {}
billing == {"functions:invoke", "orders:servers", "orders:domains"}

\* What a customer who granted these scopes was shown. A connection needs no
\* scope to be told who it is, and any of the machine's to have a session.
ShownScopes(scopes) ==
  scopes \cup (UNION {implies(s) : s \in scopes}) \cup {"authenticated"}
  \cup IF scopes \cap vmScopes # {} THEN {"vm:session"} ELSE {}
=============================================================================
