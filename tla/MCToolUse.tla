----------------------------- MODULE MCToolUse -----------------------------
(***************************************************************************)
(* ToolUse with the whole catalogue of this repository.                    *)
(***************************************************************************)
EXTENDS ToolUse, ToolPolicy

NoScopes == {}
OnlyReading == ReadScopes \cap supportedScopes
Everything == supportedScopes
Selling == supportedScopes \cup orderScopes
DomainSales == {"orders:domains", "services:read"}
OldFiles == {"vm:files"}

MCGrants == {NoScopes, OnlyReading, Everything, Selling, DomainSales, OldFiles}
MCAccess ==
  {<<"stdio", NoScopes>>, <<"directory", OnlyReading>>, <<"directory", Everything>>,
   <<"directory", OldFiles>>, <<"orders", Selling>>, <<"orders", DomainSales>>}

\* The same function, as a table. TLC computes each of the tables once, but
\* takes what the configuration names again at every use.
Table(f) == f @@ <<>>

ToolsTable == Table([p \in ProfileNames |-> Table(ToolsOf[p])])
AdvertisedTable == Table([p \in ProfileNames |-> Table(AdvertisedBy[p])])
NeedsTable == Table([p \in ProfileNames |-> IF p = "stdio" THEN <<>> ELSE Table(remoteScope[p])])

MCTools == ToolsTable
MCAdvertised == AdvertisedTable
MCNeeds == NeedsTable

\* The tables are the functions.
ASSUME BoundAssumption ==
  /\ Profiles = ProfileNames /\ Tools = ToolsOf /\ Advertised = AdvertisedBy
  /\ \A p \in Profiles \ {"stdio"} : Needs[p] = remoteScope[p]
=============================================================================
