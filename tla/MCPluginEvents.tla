--------------------------- MODULE MCPluginEvents ---------------------------
(***************************************************************************)
(* An instance of PluginEvents for TLC.  The event o1 is an object event   *)
(* and c1 a custom one to p1; both are posted to the OUT interface, so     *)
(* that they meet in one router.  The router of IN goes the same way with  *)
(* the same kind of routees, and nothing is posted to it here.             *)
(***************************************************************************)
EXTENDS PluginEvents

CONSTANTS p1, o1, c1

MCKindOf       == [e \in Events |-> IF e = c1 THEN "custom" ELSE "object"]
MCFlowOf       == [e \in Events |-> Out]
MCAudienceOf   == [e \in Events |-> IF e = c1 THEN {p1} ELSE Plugins]
MCInterfacesOf == [p \in Plugins |-> {In, Out}]
=============================================================================
