------------------------ MODULE AutoSchedulerService ------------------------
(***************************************************************************)
(* AutoScheduler as a service: schedule_for (auto_schedule.cc 265-282)    *)
(* queues a closure on the pool, a pool thread takes it, runs             *)
(* schedule_func for the key (the worker steps of AutoSchedulerThreads),  *)
(* and the task's future resolves when schedule_func returns.  The        *)
(* caller's thread meanwhile feeds results back and clears the cache.     *)
(*                                                                         *)
(* The two parts share the pool's threads: Dispatch's Take hands a task   *)
(* to a thread, the thread's round starts with WStart, and Dispatch's Run *)
(* (the future resolving) is the same step as WCommit, the last step of   *)
(* auto_schedule.  Every other step belongs to one part and leaves the    *)
(* other's variables alone.                                               *)
(***************************************************************************)
EXTENDS Naturals, Sequences, FiniteSets, Bags

CONSTANTS
    Entities, TopK, NewTrial, SeenCap, EvictAfter, Costs, Gflop,
    Evaluations, MaxRounds, MaxInflight, Workers, Ctxs, NoCtx, Serialized,
    Requests, Priorities, Idle

VARIABLES
    slot, used, ctopk, cknown, cknowing, ccounts,       \* the key's contexts
    wpc, wctx, wtop, held, wres,                        \* the pool threads' rounds
    fpc, fcall, fpre, inflight, fed,                    \* the feeding caller
    queue, prioOf, subOrder, running, startOrder, done, rejected  \* the pool

T == INSTANCE AutoSchedulerThreads
D == INSTANCE Dispatch

tvars == <<slot, used, ctopk, cknown, cknowing, ccounts, wpc, wctx, wtop,
           held, wres, fpc, fcall, fpre, inflight, fed>>
dvars == <<queue, prioOf, subOrder, running, startOrder, done, rejected>>
vars == <<tvars, dvars>>

Init == T!Init /\ D!Init

(* A pool thread that took a schedule_for task enters schedule_func.      *)
Begin(w) ==
    /\ running[w] \in Requests
    /\ T!WStart(w)
    /\ UNCHANGED dvars

(* schedule_func's steps between entering and returning.                  *)
RoundStep(w) ==
    /\ \/ T!WFind(w) \/ T!WCreate(w) \/ T!WBind(w) \/ T!WTop(w)
       \/ T!WPop(w) \/ T!WRestore(w) \/ T!WDraw(w)
    /\ UNCHANGED dvars

(* auto_schedule commits its result, schedule_func returns, and the task's *)
(* shared_future resolves; the thread goes back to the deque.             *)
Finish(w) == T!WCommit(w) /\ D!Run(w)

(* The caller's thread inside feedback_for, after it has started.         *)
FeedbackStep ==
    /\ \/ T!FFind \/ T!FBind \/ T!FSize \/ T!FTop \/ T!FPop \/ T!FPush
       \/ T!FKnown \/ T!FErase \/ T!FEvict
    /\ UNCHANGED dvars

Next ==
    \/ \E r \in Requests, p \in Priorities :
          D!ScheduleFor(r, p) /\ UNCHANGED tvars
    \/ \E w \in Workers :
          \/ D!Take(w) /\ UNCHANGED tvars
          \/ Begin(w)
          \/ RoundStep(w)
          \/ Finish(w)
    \/ \E e \in Entities, s \in Evaluations : T!FStart(e, s) /\ UNCHANGED dvars
    \/ FeedbackStep
    \/ T!ClearScheduleCacheFor /\ UNCHANGED dvars

Spec == Init /\ [][Next]_vars

----
TypeOK == T!TypeOK /\ D!TypeOK

(* Under the per-key discipline the rounds the pool runs, interleaved     *)
(* with feedback, implement the atomic model of one key.                  *)
AbstractSpec == T!AbstractSpec

(* Priority-0 rounds start in the order schedule_for was called.          *)
NormalFifo == D!NormalFifo

(* No pool thread starts a priority-0 round while a priority-1 round      *)
(* waits.                                                                 *)
HighFirst == D!HighFirst

=============================================================================
