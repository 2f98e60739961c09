--------------------------- MODULE CatalogueRules ---------------------------
(***************************************************************************)
(* What the properties of ToolUse need of a catalogue, tool by tool: rules *)
(* on a tool's row, its annotations (hints) and the scope it requires.     *)
(* ToolUseProofs proves the properties of every catalogue that keeps them, *)
(* and CatalogueFacts states that the one of this repository does.         *)
(***************************************************************************)
EXTENDS ToolRows, ScopeRules

\* What a gateway's page is told of as a read that can be retried, or without
\* the word that the outcome is unknown, can be made again without harm.
PageHarmless(row) ==
  (row.reads /\ row.answer # "inspect") \/ (~row.reads /\ row.answer = "bare")
    => row.settles \/ row.change # "alters"

\* What the annotations, or a page told of as a read's, invite a client to
\* repeat without a key leaves what the first request left.
RepeatHarmless(row, hints, open) ==
  hints.idempotent \/ hints.readOnly \/ (row.answer = "raw" /\ (row.reads \/ row.polls))
    => row.settles \/ row.change = "nothing" \/ row.key = "required" \/ open

\* The annotations prepare for all the tool does, or it asks at each call.
ImpactListed(row, hints) ==
  row.asks \/ Levels[row.change] <= DisclosedBy(hints)

\* Of a hosted tool: one that needs no more than scopes that read alters
\* nothing, but by a GET or in its own session's work; one that charges asks,
\* and needs a scope said to charge.
ConsentFits(row, needs, own) ==
  /\ needs \in ReadScopes \cup Unscoped /\ row.change = "alters" => row.reads \/ own
  /\ row.pays => row.asks /\ needs \in billing

\* Of a local tool: one that charges asks, or is called destructive.
ChargeListed(row, hints) == row.pays => row.asks \/ DisclosedBy(hints) = 2
=============================================================================
