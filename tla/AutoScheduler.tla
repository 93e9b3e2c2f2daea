--------------------------- MODULE AutoScheduler ---------------------------
(***************************************************************************)
(* The search-and-cache engine of src/tg/autoschedule/auto_schedule.cc    *)
(* for one subgraph key, with every handler taken as one atomic step:     *)
(* the sequential behaviour of AutoScheduleContext (topk_schedules,       *)
(* known_schedules, knowing_schedules, counts) under schedule_func,       *)
(* feedback_for and clear_schedule_cache_for.                             *)
(*                                                                         *)
(* Data abstraction: a MultiScheduleEntity is a model value of Entities;  *)
(* the external ScheduleSpace (choose_one with or without a seed) may     *)
(* return any entity, and the external cost model any cost of Costs.      *)
(* The seeded/random choice of lines 121-144 only shapes the probability  *)
(* of each entity, never the set of entities that can be drawn, so a draw *)
(* is a nondeterministic member of Entities.                              *)
(***************************************************************************)
EXTENDS Naturals, Integers, Sequences, FiniteSets, Bags

CONSTANTS
    Entities,      \* schedule entities ScheduleSpace can produce
    TopK,          \* AutoScheduler::topk, capacity of topk_schedules
    NewTrial,      \* AutoScheduler::new_trial, candidates per round
    SeenCap,       \* 2000U: known_schedules size that triggers eviction
    EvictAfter,    \* 1000: the eviction loop breaks once count > EvictAfter
    Costs,         \* raw costs the cost model may return (ms; <= 0 = invalid)
    Gflop,         \* get_gflop(subgraph)
    Evaluations,   \* measured evaluations a caller may feed back
    MaxRounds,     \* bound on the number of search rounds
    MaxInflight    \* bound on results a caller holds before feeding back

(* topk is the caller's int; nothing in the sources rejects 0.          *)
ASSUME /\ TopK \in Nat
       /\ NewTrial \in Nat \ {0}
       /\ SeenCap \in Nat /\ EvictAfter \in Nat
       /\ Costs \subseteq Int /\ Evaluations \subseteq Int
       /\ Gflop \in Nat \ {0}

VARIABLES
    topk,       \* topk_schedules: bag of [ent, score] (a bounded min-heap)
    known,      \* known_schedules
    knowing,    \* knowing_schedules
    counts,     \* context->counts, completed rounds
    inflight,   \* bag of entities returned by rounds, not yet fed back
    fed         \* history: bag of positive evaluations fed back so far

vars == <<topk, known, knowing, counts, inflight, fed>>

MinOf(a, b) == IF a <= b THEN a ELSE b

Single(x) == SetToBag({x})

-----------------------------------------------------------------------------
(* judge_schedule: a cost c <= 0 scores 0, any other scores               *)
(* gflop / (c / 1e3); a score is kept exact as the fraction num / den.    *)
JudgeScore(c) ==
    IF c <= 0 THEN [num |-> 0, den |-> 1]
              ELSE [num |-> Gflop * 1000, den |-> c]

ScoreGreater(a, b) == a.num * b.den > b.num * a.den

(* Faulty variant of SelectBest: ties go to the last candidate (>=).     *)
SelectBestLastTie(judges) ==
    LET RECURSIVE Loop(_, _, _)
        Loop(i, bestInd, bestVal) ==
            IF i > Len(judges) THEN bestInd
            ELSE IF ~ScoreGreater(bestVal, judges[i])
                 THEN Loop(i + 1, i, judges[i])
                 ELSE Loop(i + 1, bestInd, bestVal)
    IN  Loop(1, 0, [num |-> -1, den |-> 1])

(* The selection loop of auto_schedule: best_value starts at -1 and a     *)
(* candidate replaces the best only when strictly greater.                *)
SelectBest(judges) ==
    LET RECURSIVE Loop(_, _, _)
        Loop(i, bestInd, bestVal) ==
            IF i > Len(judges) THEN bestInd
            ELSE IF ScoreGreater(judges[i], bestVal)
                 THEN Loop(i + 1, i, judges[i])
                 ELSE Loop(i + 1, bestInd, bestVal)
    IN  Loop(1, 0, [num |-> -1, den |-> 1])

(* The candidate loop: only the first draw is checked against known and   *)
(* knowing; a repeated first draw is dropped, and must_new is reset to -1 *)
(* after the first iteration either way, so the loop ends after NewTrial  *)
(* or NewTrial + 1 draws.                                                 *)
IsNew(e, kn, king) == e \notin kn /\ e \notin king

Batch(draws, kn, king) ==
    IF IsNew(draws[1], kn, king) THEN SubSeq(draws, 1, NewTrial)
                                 ELSE SubSeq(draws, 2, NewTrial + 1)

(* The round's winner for the draws and the costs the cost model returns. *)
Winner(batch, costs) ==
    batch[SelectBest([i \in 1..NewTrial |-> JudgeScore(costs[i])])]

(* The heap's top(): an entry of least score (operator< of                *)
(* EvaluatedScheduleResult orders by evaluation).                         *)
HeapTops(heap) ==
    {r \in BagToSet(heap) : \A q \in BagToSet(heap) : r.score <= q.score}

(* The eviction in add_feedback: when the set exceeds SeenCap, erase the  *)
(* first EvictAfter + 2 entries in its iteration order (any of them).     *)
EvictFrom(set) ==
    IF Cardinality(set) > SeenCap
    THEN {set \ v : v \in {v \in SUBSET set :
                              Cardinality(v) = MinOf(EvictAfter + 2, Cardinality(set))}}
    ELSE {set}

(* Faulty variant of HeapAfter: the capacity test is off by one           *)
(* (size <= topk pushes without popping).                                 *)
HeapAfterOffByOne(heap, rec) ==
    IF BagCardinality(heap) <= TopK
    THEN {[early |-> FALSE, heap |-> heap (+) Single(rec)]}
    ELSE {IF rec.score < top.score
          THEN [early |-> TRUE, heap |-> heap]
          ELSE [early |-> FALSE, heap |-> (heap (-) Single(top)) (+) Single(rec)]
          : top \in HeapTops(heap)}

(* The heap part of add_feedback for a positive evaluation: push while    *)
(* below capacity; otherwise return early (early = TRUE) when the new     *)
(* entry is below top(), or pop top() and push.                           *)
HeapAfter(heap, rec) ==
    IF BagCardinality(heap) < TopK
    THEN {[early |-> FALSE, heap |-> heap (+) Single(rec)]}
    ELSE {IF rec.score < top.score
          THEN [early |-> TRUE, heap |-> heap]
          ELSE [early |-> FALSE, heap |-> (heap (-) Single(top)) (+) Single(rec)]
          : top \in HeapTops(heap)}

-----------------------------------------------------------------------------
(* A context is created empty on first use (schedule_func or             *)
(* feedback_for); clear_schedule_cache_for on a key without a context     *)
(* does nothing, which is what clearing the empty knowing set does, so    *)
(* an absent context is modelled by the empty one.                        *)
Init ==
    /\ topk = EmptyBag
    /\ known = {}
    /\ knowing = {}
    /\ counts = 0
    /\ inflight = EmptyBag
    /\ fed = EmptyBag

(* auto_schedule: snapshot the heap (drain and restore, which leaves it   *)
(* as it was), draw the candidates, judge them with the cost model, take  *)
(* the best one as the result, count the round and record the result in   *)
(* knowing_schedules.                                                     *)
AutoSchedule ==
    /\ \E draws \in [1..NewTrial + 1 -> Entities],
          costs \in [1..NewTrial -> Costs] :
         LET batch  == Batch(draws, known, knowing)
             result == Winner(batch, costs)
         IN  /\ knowing' = knowing \cup {result}
             /\ inflight' = inflight (+) Single(result)
    /\ counts' = counts + 1
    /\ UNCHANGED <<topk, known, fed>>

(* schedule_func: find or create the key's context, then run one round.  *)
ScheduleFunc ==
    /\ counts < MaxRounds
    /\ BagCardinality(inflight) < MaxInflight
    /\ AutoSchedule

(* Faulty variant of MarkKnown: eviction gated on the size of            *)
(* knowing_schedules, as in the commented-out block of auto_schedule.     *)
MarkKnownGatedOnKnowing(e) ==
    /\ knowing' = knowing \ {e}
    /\ known' \in IF Cardinality(knowing) > SeenCap
                  THEN EvictFrom(known \cup {e})
                  ELSE {known \cup {e}}

(* The tail of add_feedback: insert into known_schedules, erase from      *)
(* knowing_schedules, evict.                                              *)
MarkKnown(e) ==
    /\ knowing' = knowing \ {e}
    /\ known' \in EvictFrom(known \cup {e})

(* Faulty variant of AddFeedback: the evaluation > 0.0 guard is dropped,  *)
(* so invalid results enter the heap.                                     *)
AddFeedbackNoPositiveGuard(e, s) ==
    \E o \in HeapAfter(topk, [ent |-> e, score |-> s]) :
        /\ topk' = o.heap
        /\ IF o.early THEN UNCHANGED <<known, knowing>> ELSE MarkKnown(e)

(* AutoScheduleContext::add_feedback.                                     *)
AddFeedback(e, s) ==
    IF s <= 0
    THEN /\ UNCHANGED topk
         /\ MarkKnown(e)
    ELSE \E o \in HeapAfter(topk, [ent |-> e, score |-> s]) :
            /\ topk' = o.heap
            /\ IF o.early THEN UNCHANGED <<known, knowing>> ELSE MarkKnown(e)

(* feedback_for: the caller feeds back a result it holds; the context is  *)
(* found or created and add_feedback applied.  The profile log line and   *)
(* the store_feedback forward are output only.                            *)
FeedbackFor(e, s) ==
    /\ CopiesIn(e, inflight) > 0
    /\ inflight' = inflight (-) Single(e)
    /\ fed' = IF s > 0 THEN fed (+) Single(s) ELSE fed
    /\ AddFeedback(e, s)
    /\ UNCHANGED counts

(* clear_schedule_cache_for: empties knowing_schedules.                   *)
ClearScheduleCacheFor ==
    /\ knowing' = {}
    /\ UNCHANGED <<topk, known, counts, inflight, fed>>

Next ==
    \/ ScheduleFunc
    \/ \E e \in Entities, s \in Evaluations : FeedbackFor(e, s)
    \/ ClearScheduleCacheFor

Spec == Init /\ [][Next]_vars

-----------------------------------------------------------------------------
TypeOK ==
    /\ IsABag(topk) /\ BagToSet(topk) \subseteq [ent : Entities, score : Nat \ {0}]
    /\ BagCardinality(topk) <= TopK
    /\ known \subseteq Entities
    /\ knowing \subseteq Entities
    /\ counts \in 0..MaxRounds
    /\ BagToSet(inflight) \subseteq Entities
    /\ BagToSet(fed) \subseteq Evaluations

(* The multiset of scores held by topk_schedules.                         *)
TopScores == [s \in {r.score : r \in BagToSet(topk)} |->
                 LET Rs == {r \in BagToSet(topk) : r.score = s}
                 IN  BagCardinality([r \in Rs |-> topk[r]])]

(* add_feedback keeps the K best: after any sequence of feedbacks the     *)
(* heap holds exactly min(N, TopK) of the N positive evaluations fed      *)
(* back, and no evaluation it dropped beats one it kept.                  *)
TopKIsBest ==
    /\ TopScores \sqsubseteq fed
    /\ BagCardinality(topk) = MinOf(TopK, BagCardinality(fed))
    /\ \A kept \in BagToSet(TopScores), lost \in BagToSet(fed (-) TopScores) :
          lost <= kept

(* The eviction in add_feedback keeps known_schedules within its cap.     *)
SeenBounded == Cardinality(known) <= SeenCap

(* spec 3: an entity sits in knowing_schedules only while a result for it *)
(* is in flight: once its feedback is ingested it leaves knowing.         *)
KnowingIsInFlight == \A e \in knowing : CopiesIn(e, inflight) > 0

(* spec 3: an entity selected by a round and not yet fed back (knowing)   *)
(* is not also one already evaluated (known).  The candidate loop tests   *)
(* novelty on the first draw only and auto_schedule inserts the winner    *)
(* into knowing_schedules whichever draw it was.                          *)
SeenSeeingDisjoint == known \cap knowing = {}

=============================================================================
