---------------------------- MODULE MCFilterStore ----------------------------
(* Instances of FilterStore for TLC. *)
EXTENDS FilterStore, TLC

CONSTANTS t1, t2, initial, other, outdated

MCTabs == {t1, t2}
MCConfs == {initial, other, outdated}
MCOutdated == {outdated}

TabSymmetry == Permutations(MCTabs)
=============================================================================
