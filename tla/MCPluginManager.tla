-------------------------- MODULE MCPluginManager --------------------------
(***************************************************************************)
(* Instances of PluginManager for TLC.  Two configuration ids; d1 declares *)
(* both interfaces and a menu, d2 one interface and no menu.               *)
(***************************************************************************)
EXTENDS PluginManager, TLC

CONSTANTS p1, p2, d1, d2, inFlow, outFlow

\* p1 and p2 are instances of one definition, or of two.
OneDefinition  == [p \in Plugins |-> d1]
TwoDefinitions == [p \in Plugins |-> IF p = p1 THEN d1 ELSE d2]

MCInterfacesOf ==
    [d \in Definitions |-> IF d = d1 THEN {inFlow, outFlow} ELSE {outFlow}]

\* The threads are interchangeable, and so are the instances of one definition.
Symmetry == Permutations(Admins) \cup Permutations(Plugins)
=============================================================================
