--------------------------- MODULE MCRemoteAccess ---------------------------
(***************************************************************************)
(* RemoteAccess with tools of this repository that need different scopes:  *)
(* one that reads, one that changes, one that charges, one that both kinds *)
(* of order scopes pass for, and one the hosted server does not have.      *)
(***************************************************************************)
EXTENDS RemoteAccess, CatalogueFacts

MCTools ==
  {"get_service", "suspend_service", "confirm_service_order", "get_order_plans", "get_pricing"}
Chosen(f) == [t \in MCTools \cap DOMAIN f |-> f[t]] @@ <<>>
ChosenPermissions == Chosen(permissions)
ChosenOrderPermissions == Chosen(orderPermissions)
MCPermissions == ChosenPermissions
MCOrderPermissions == ChosenOrderPermissions

MCGrants == {{"services:read"}, {"services:manage", "orders:servers"}}

\* No request and no token is special.
Symmetry == Permutations(Requests) \cup Permutations(Tokens)
=============================================================================
