------------------------- MODULE MCExtensionManager -------------------------
(***************************************************************************)
(* An instance of ExtensionManager for TLC: two JARs, one of them with a   *)
(* plugin definition.                                                      *)
(***************************************************************************)
EXTENDS ExtensionManager

CONSTANTS j1, j2, p1

MCJarOf == [p \in Plugins |-> j1]
=============================================================================
