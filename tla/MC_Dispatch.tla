----------------------------- MODULE MC_Dispatch -----------------------------
(* Three schedule_for calls, two pool threads, and the priorities 0, 1    *)
(* and one unsupported value.                                             *)
EXTENDS Dispatch

CONSTANTS r1, r2, r3, w1, w2

MCRequests == {r1, r2, r3}
MCWorkers == {w1, w2}
=============================================================================
