------------------------- MODULE MC_AutoScheduler -------------------------
(* Model-checking instance of AutoScheduler: five entities (two more than *)
(* the scaled eviction cap, so eviction happens), a heap of three, two   *)
(* candidates per round.                                                  *)
EXTENDS AutoScheduler, TLC

CONSTANTS e1, e2, e3, e4, e5

MCEntities == {e1, e2, e3, e4, e5}

MCSymmetry == Permutations(MCEntities)
=============================================================================
