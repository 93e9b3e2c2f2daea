---------------------- MODULE MC_AutoSchedulerThreads ----------------------
(* Instantiates the threaded model for TLC: two worker threads of the     *)
(* pool, one feeding caller, one key whose context may be created up to   *)
(* three times, and two candidate schedule entities.                     *)
EXTENDS AutoSchedulerThreads, TLC

CONSTANTS e1, e2, w1, w2, c1, c2, c3

MCEntities == {e1, e2}
MCWorkers == {w1, w2}
MCCtxs == {c1, c2, c3}

MCSymmetry == Permutations(MCEntities) \cup Permutations(MCWorkers)
                \cup Permutations(MCCtxs)
=============================================================================
