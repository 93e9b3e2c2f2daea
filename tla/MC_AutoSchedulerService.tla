----------------------- MODULE MC_AutoSchedulerService -----------------------
(* The service for TLC: two pool threads, two schedule_for calls for one *)
(* key, each with priority 0, 1 or the unsupported 2, two entities and up *)
(* to three context objects.                                             *)
EXTENDS AutoSchedulerService

CONSTANTS e1, e2, w1, w2, c1, c2, c3, r1, r2

MCEntities == {e1, e2}
MCWorkers == {w1, w2}
MCCtxs == {c1, c2, c3}
MCRequests == {r1, r2}
=============================================================================
