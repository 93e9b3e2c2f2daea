------------------------------ MODULE Dispatch ------------------------------
(* Asynchronous dispatch of search rounds: AutoScheduler::schedule_for    *)
(* (auto_schedule.cc 265-282) queues a closure that runs schedule_func on  *)
(* the scheduler's thread pool, at the back for priority 0 and at the     *)
(* front for priority 1.  The pool itself (a double-ended task queue      *)
(* consumed by a fixed set of worker threads, each task's future resolved *)
(* when it has run) is not in this repository's sources and is written    *)
(* from the specification's description of it.                            *)
EXTENDS Naturals, Sequences, SequencesExt, FiniteSets, TLC

CONSTANTS
    Requests,     \* the schedule_for calls, one model value each
    Workers,      \* the pool's threads
    Priorities,   \* the priority arguments a caller may pass
    Idle          \* a worker holding no task

ASSUME Idle \notin Requests

VARIABLES
    queue,        \* the pool's task deque, front first
    prioOf,       \* the priority each submitted call was made with
    subOrder,     \* history: the calls in the order they were made
    running,      \* the task each worker is running, or Idle
    startOrder,   \* history: the tasks in the order workers took them
    done,         \* the calls whose future has resolved
    rejected      \* the calls refused with an error

vars == <<queue, prioOf, subOrder, running, startOrder, done, rejected>>

Submitted == DOMAIN prioOf

Init ==
    /\ queue = <<>>
    /\ prioOf = [r \in {} |-> 0]
    /\ subOrder = <<>>
    /\ running = [w \in Workers |-> Idle]
    /\ startOrder = <<>>
    /\ done = {}
    /\ rejected = {}

(* Faulty variant of Enqueue: both priorities go to push_back.            *)
EnqueueBackOnly(q, r, p) == Append(q, r)

(* Faulty variant of Enqueue: the two branches swapped.                   *)
EnqueueSwapped(q, r, p) == IF p = 1 THEN Append(q, r) ELSE <<r>> \o q

(* priority 0: thread_pool->push_back; priority 1: push_front.            *)
Enqueue(q, r, p) == IF p = 0 THEN Append(q, r) ELSE <<r>> \o q

(* schedule_for(key, subgraph, target, priority).  Any other priority is  *)
(* reported with ERROR and rethrown with a bare throw (lines 278-280).    *)
(* ERROR is defined outside this repository: if it throws, the caller    *)
(* gets the exception and nothing is queued, as modelled here; if it does *)
(* not, throw; with no active exception calls std::terminate and the      *)
(* process ends, a behaviour that is a prefix of one of the model's, so   *)
(* the safety properties checked cover it too.                            *)
ScheduleFor(r, p) ==
    /\ r \notin Submitted
    /\ prioOf' = prioOf @@ (r :> p)
    /\ subOrder' = Append(subOrder, r)
    /\ IF p \in {0, 1}
       THEN /\ queue' = Enqueue(queue, r, p)
            /\ UNCHANGED rejected
       ELSE /\ rejected' = rejected \cup {r}
            /\ UNCHANGED queue
    /\ UNCHANGED <<running, startOrder, done>>

(* An idle pool thread takes the task at the front of the deque.          *)
Take(w) ==
    /\ running[w] = Idle
    /\ queue # <<>>
    /\ running' = [running EXCEPT ![w] = Head(queue)]
    /\ queue' = Tail(queue)
    /\ startOrder' = Append(startOrder, Head(queue))
    /\ UNCHANGED <<prioOf, subOrder, done, rejected>>

(* The closure runs schedule_func(k, g, t) and its future resolves.       *)
Run(w) ==
    /\ running[w] \in Requests
    /\ done' = done \cup {running[w]}
    /\ running' = [running EXCEPT ![w] = Idle]
    /\ UNCHANGED <<queue, prioOf, subOrder, startOrder, rejected>>

Next ==
    \/ \E r \in Requests, p \in Priorities : ScheduleFor(r, p)
    \/ \E w \in Workers : Take(w) \/ Run(w)

Spec == Init /\ [][Next]_vars

----
TypeOK ==
    /\ queue \in Seq(Requests)
    /\ \A i \in DOMAIN queue : prioOf[queue[i]] \in {0, 1}
    /\ prioOf \in [Submitted -> Priorities] /\ Submitted \subseteq Requests
    /\ \A w \in Workers : running[w] \in Requests \cup {Idle}
    /\ done \subseteq Requests /\ rejected \subseteq Requests

(* Position of r in a history sequence.                                   *)
IndexIn(s, r) == CHOOSE i \in DOMAIN s : s[i] = r

(* Tasks of one priority class start in the order schedule_for was        *)
(* called for them.                                                       *)
FifoWithin(p) ==
    \A i, j \in DOMAIN startOrder :
        /\ i < j
        /\ prioOf[startOrder[i]] = p
        /\ prioOf[startOrder[j]] = p
        => IndexIn(subOrder, startOrder[i]) < IndexIn(subOrder, startOrder[j])

(* Priority-0 rounds run in the order they were requested (push_back).    *)
NormalFifo == FifoWithin(0)

(* Priority-1 rounds run in the order they were requested, as the         *)
(* specification's "FIFO within a priority class" says.                   *)
HighFifo == FifoWithin(1)

(* A pool thread never starts a priority-0 round while a priority-1 round *)
(* is waiting in the deque.                                               *)
HighFirst ==
    [][\A w \in Workers :
          Take(w) /\ prioOf[Head(queue)] = 0
          => \A i \in DOMAIN queue : prioOf[queue[i]] # 1]_vars

=============================================================================
