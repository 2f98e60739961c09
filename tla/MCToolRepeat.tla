---------------------------- MODULE MCToolRepeat ----------------------------
(***************************************************************************)
(* ToolUse with two tools of the local server that charge the customer and *)
(* take their key or draw one.                                             *)
(***************************************************************************)
EXTENDS ToolUse, ToolPolicy, Functions

DrawingTools == {"request_restore", "invoke_function"}

MCProfiles == {"stdio"}
MCGrants == {{}}
MCAccess == MCProfiles \X MCGrants

MCTools == [p \in MCProfiles |-> Restrict(ToolsOf[p], DrawingTools)]
MCAdvertised == [p \in MCProfiles |-> Restrict(AdvertisedBy[p], DrawingTools)]
MCNeeds == [p \in MCProfiles |-> <<>>]
=============================================================================
