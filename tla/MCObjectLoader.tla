---------------------------- MODULE MCObjectLoader ----------------------------
(* Instances of ObjectLoader for TLC.                                        *)
EXTENDS ObjectLoader

CONSTANTS loader, r1
=============================================================================
