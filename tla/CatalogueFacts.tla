--------------------------- MODULE CatalogueFacts ---------------------------
(***************************************************************************)
(* The catalogue of this repository keeps the rules of CatalogueRules.     *)
(* These are statements about finite tables without variables: TLC         *)
(* evaluates them, for every tool under every profile.                     *)
(***************************************************************************)
EXTENDS ToolPolicy, CatalogueRules

\* Every tool is described, and a hosted one has a scope.
ASSUME RowsFact ==
  LET rows == ToolsOf
  IN \A p \in ProfileNames : \A t \in DOMAIN rows[p] : rows[p][t] \in Row

\* Pages of a gateway are told as a read's only of what can be made again.
ASSUME PagesFact ==
  LET rows == ToolsOf
  IN \A p \in ProfileNames : \A t \in DOMAIN rows[p] : PageHarmless(rows[p][t])

\* No tool invites a harmful repetition, but the open ones.
ASSUME RepeatsFact ==
  LET rows == ToolsOf
      hints == AdvertisedBy
  IN \A p \in ProfileNames : \A t \in DOMAIN rows[p] :
       RepeatHarmless(rows[p][t], hints[p][t], t \in openRepeats)

\* Every tool discloses its impact, or asks.
ASSUME ImpactsFact ==
  LET rows == ToolsOf
      hints == AdvertisedBy
  IN \A p \in ProfileNames : \A t \in DOMAIN rows[p] : ImpactListed(rows[p][t], hints[p][t])

\* Every hosted tool's scope fits what it does and charges.
ASSUME ConsentFact ==
  LET rows == ToolsOf
      needs == remoteScope
  IN \A p \in ProfileNames \ {"stdio"} : \A t \in DOMAIN rows[p] :
       ConsentFits(rows[p][t], needs[p][t], t \in ownWork)

\* Every local tool that charges asks, or is called destructive.
ASSUME ChargesFact ==
  LET rows == ToolsOf
      hints == AdvertisedBy
  IN \A t \in DOMAIN rows["stdio"] : ChargeListed(rows["stdio"][t], hints["stdio"][t])
=============================================================================
