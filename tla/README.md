# TLA+ models of the AMOS auto-scheduler search core

This directory holds TLA+ models of the search-and-cache engine in
`src/src/tg/autoschedule/auto_schedule.cc`, plus the TLC configurations that
check them. It also models the two pure algorithms in the repository: the
structural tag in `src/src/tg/graph/abstract_graph.cc` and the ROCm
intrinsic lowering rules in `src/src/target/llvm/intrin_rule_rocm.cc`.
`PROJECT.json` lists the components, runs, mutants, the mapping from TLA+
definitions to source lines, the findings and the hazards.

## 1. Inventory

### Components and their state

| Component | Source | State | Operations |
|---|---|---|---|
| AutoScheduleContext (one per subgraph key) | auto_schedule.cc 204-235, 327-332; class in auto_schedule.h (not in src/) | `topk_schedules`: a priority queue whose `top()` is the least-evaluated entry, capacity `topk`. `known_schedules`: entities already fed back. `knowing_schedules`: round winners not yet fed back. `counts`: completed rounds. `spaces`, `target`, `policy`, `new_trial`: fixed at creation. | `add_feedback`, `clear_schedule_cache_for` |
| AutoScheduler search round | auto_schedule.cc 45-201, 238-262 | `contexts`: a map from key to context, with no lock. | `schedule_func` (find or create the context, then `auto_schedule`), `judge_schedule`, `calculate_possibility`, `schedule_with_entity` (stateless) |
| Feedback ingestion | auto_schedule.cc 285-324 | the `contexts` map; the profile log stream | `feedback_for`: find or create the context, `add_feedback`, write the feature record to the log, forward it to `store_feedback` when evaluation > 0 |
| Asynchronous dispatch | auto_schedule.cc 265-282; thread pool not in src/ | the pool's double-ended task queue and its workers | `schedule_for`: priority 0 goes to `push_back`, priority 1 to `push_front`, anything else throws |
| Feature extraction | feature.cc | none | `ana_lower`, `get_feature`, `get_structured_feature`: calls into TVM lowering |
| Structural tag | abstract_graph.cc/.h | per-call `ExprReMapper` maps and counters | `generate_tag_from_body`: a canonical string for a compute body |
| ROCm intrinsic rules | intrin_rule_rocm.cc | the rule registry `tvm.intrin.rule.rocm.<op>` (filled at load time) | `DispatchShuffle` (lane index arithmetic for warp shuffles), `DispatchPureExternOCML` (rename `tir.f` to `__ocml_f_fNN`), the activemask rule (returns 0) |

### How the components interact

A caller (the Python tuner) calls `schedule_for(key, subgraph, target,
priority)`. That call queues a closure on the thread pool and returns a
`shared_future`. A pool worker then runs `schedule_func`, which looks up the
key in `contexts` and inserts a new context if the key is absent. It then
runs `auto_schedule` on the context. That function:

1. drains `topk_schedules` into `reverse_sort` (ascending) and pushes the
   entries back;
2. computes the seed probabilities;
3. draws `new_trial` candidates from the ScheduleSpace, checking only the
   first draw against `known` and `knowing`;
4. scores the candidates with the external cost model through
   `judge_schedule`;
5. takes the first candidate of highest score, increments `counts`, and
   inserts the winner into `knowing_schedules`.

Later the caller calls `feedback_for` with the result and its measured
evaluation, usually on its own thread. `feedback_for` looks up or creates the
context and runs `add_feedback`, which updates the heap and moves the entity
from `knowing` to `known`, evicting from `known` when it exceeds 2000 entries.

Nothing in this file takes a lock. Several pool workers and the caller's
thread can therefore touch `contexts` and one context's containers at once.

### What is hard here

- **Interleaving.** The heap's drain-and-restore in `auto_schedule` and the
  check-then-insert on `contexts` are unsynchronised read-modify-write
  sequences. They race with `add_feedback` and with other rounds for the
  same key.
- **Stale state.** The novelty check reads `known` and `knowing` long before
  the winner is recorded, because the cost-model call lies in between.
- **Protocol sequences.** Several histories that are each legal break the
  context's own invariants:
  - the early return in `add_feedback`;
  - the novelty gate being lifted after a repeated first draw;
  - a repeated candidate winning a round.
- **Boundaries.** The problem cases are:
  - the eviction count (strictly more than 2000 entries triggers it, and it
    removes 1002);
  - the selection loop's start value of -1 and its strict `>`;
  - `topk = 0`;
  - a NaN cost;
  - non-power-of-two shuffle widths and lanes at a group's edge.
- **Ordering.** High-priority tasks go to the front of the queue, so they
  run last-in, first-out.

### Properties that make each component correct

- **Context:**
  - the heap holds exactly the best `min(N, topk)` positive evaluations;
  - `known` stays within its cap;
  - an entity is in `knowing` only while a result for it is outstanding;
  - `known` and `knowing` are disjoint.
- **Round:**
  - every batch holds an unseen candidate;
  - the winner is the first candidate of highest score;
  - the round terminates.
- **Concurrency:** under any interleaving the context's invariants still
  hold, and no feedback or winner is lost.
- **Dispatch:**
  - first-in, first-out order within a priority class;
  - high-priority tasks run before queued normal ones;
  - every submitted request completes.
- **Tag:** two bodies get equal tags exactly when they are equal up to
  renaming of variables and tensors.
- **Shuffle:** the lane read is the one the CUDA shuffle semantics names.

## 2. Modules and runs so far

### `AutoScheduler.tla`: one key, each handler atomic

This module models the sequential behaviour of one context. Its variables
correspond to the code as follows:

| Variable | Code |
|---|---|
| `topk` | `topk_schedules`, as a bag of `[ent, score]` records; `HeapTops` gives the entries `top()` may return |
| `known` | `known_schedules` |
| `knowing` | `knowing_schedules` |
| `counts` | `counts` |
| `inflight` | a bag of the results the caller holds and has not fed back |
| `fed` | history: the bag of positive evaluations fed back, used only by properties |

The actions are:

- `ScheduleFunc`: `schedule_func` on the key's context, which exists from
  the start (an empty context is indistinguishable from a missing one
  here), plus `AutoSchedule`, which models all of `auto_schedule`. The candidate loop is `Batch`: if the first draw is not
  new it is dropped, and the next `NewTrial` draws are taken unchecked. The
  cost model's answer is a function to `Costs`. `JudgeScore` converts a cost
  exactly to the fraction `gflop*1000/c`, or to 0 when the cost is not
  positive. `SelectBest` is the selection loop.
- `FeedbackFor`: models `feedback_for` plus `AddFeedback`, which is
  `add_feedback` with all three branches, including the early return.
  `MarkKnown` covers the insert, the erase and the eviction. Eviction
  removes any `EvictAfter + 2` entries, because the iteration order of the
  set is unknown.
- `ClearScheduleCacheFor`: models `clear_schedule_cache_for`.

Some of the code is abstracted away:

- **Seeding.** A seeded draw (`choose_one(seed)`) and a random draw
  (`choose_one()`) both return some entity of the ScheduleSpace. The seed
  probabilities only change how likely each entity is, not which entities
  are reachable, so a draw is any member of `Entities`. Every topk entry has
  a positive probability, and the best entry has probability 1.
- **Output only.** The log line and the `store_feedback` forward in
  `feedback_for` are left out, as are the printing in `auto_schedule` and
  `get_feature`.

### `MC_AutoScheduler.tla` and its cfgs

The model uses these bounds:

| Bound | Value | Why |
|---|---|---|
| `Entities` | 5 model values, with symmetry (all properties are symmetric in entities) | two more than `SeenCap`, so the heap can hold some of the fed-back entities and not others |
| `TopK` | 3 | a full heap holds fewer than all entities, so replace-the-least runs |
| `NewTrial` | 2 | a batch has a first draw and an unchecked draw |
| `SeenCap` | 3 | the real value is 2000 |
| `EvictAfter` | 0 | the real value is 1000, so eviction removes 2 of 4 where the code removes 1002 of 2001 |
| `Costs` | {0, 1, 2} | gives an invalid cost and tied scores |
| `Evaluations` | {0, 1, 2} | - |
| `MaxRounds` | 6 | enough to feed back 5 distinct entities, fill the heap and trigger eviction |
| `MaxInflight` | 2 | - |

The runs are:

| Run | Expect | Checks | Result |
|---|---|---|---|
| `context_core` (`MC_AutoScheduler.cfg`) | pass | `TypeOK`, `TopKIsBest`, `SeenBounded` | holds: 8,653 distinct states in about 31 s. The heap keeps exactly the best `min(N, K)` positive evaluations over every history of rounds, feedbacks with ties and invalid scores, and cache clears; eviction keeps `known` within its cap. |
| `stuck_knowing` | violation | `KnowingIsInFlight` | Violated. Fill the heap with two evaluations of 2 and feed back an evaluation of 1: `add_feedback` returns at line 212 before the `knowing` erase at line 221. The entity stays in `knowing_schedules` forever. It is then never proposed as a first candidate again, and `knowing` grows without bound. The spec (4.1) says the entity moves to seen whatever its score. |
| `seen_and_seeing` | violation | `SeenSeeingDisjoint` | Violated. Two rounds return `e1`, because only the first draw is tested for novelty. The first feedback for `e1` moves it to `known`, and a third round inserts `e1` into `knowing` again (line 200). `must_new = -1` (line 161) lifts the gate after a repeated first draw, so even a round whose first draw was a repeat can return a known entity. Spec 3 says an entity in seeing is absent from seen until its feedback arrives. |
| `pure_operators` (`MC_PureOperators`, through `MC_SelectBest`) | pass | `SelectBestIsFirstMax` (and the shuffle and tag properties, see below) | Holds. Among its inputs the run picks every cost list of length 1 to 4 over {-1, 0, 1, 2, 4}: 780 lists. `judge_schedule` plus the selection loop agree with a reference that compares raw costs and breaks ties by lowest index. An ASSUME checks the spec's example: [2000, 1000, 500] ms at 4 gflop scores [2, 4, 8] and picks the third candidate, and all-invalid costs pick the first. |

Each violation cfg checks only its own property, with `TopK = 2` and `MaxRounds = 3`.

Each property of a passing run has a mutant, a plausible bug, that TLC
catches:

- `AddFeedbackNoPositiveGuard`: dropping the `evaluation > 0.0` test lets a
  zero score into the heap and breaks `TypeOK`.
- `HeapAfterOffByOne`: the test `size <= topk` breaks `TopKIsBest`.
- `MarkKnownGatedOnKnowing`: eviction guarded by the size of `knowing`, as
  in the commented-out code at lines 156-160, breaks `SeenBounded`.
- `SelectBestLastTie`: `>=` breaks `SelectBestIsFirstMax`.

No fairness is assumed; only safety is checked. The cfgs check for
deadlock. `ClearScheduleCacheFor` stays enabled once the context exists, so
the bounded model never deadlocks. `MC_PureOperators` sets `CHECK_DEADLOCK
FALSE` because it is an input enumerator that stops after one pick.

### `AutoSchedulerThreads.tla`: the same key under threads

This module splits every handler into the container operations it performs,
one step each, and runs them on two pool workers and one caller thread.
Nothing in `auto_schedule.cc` takes a lock, and treating each container
operation as atomic is more than the code guarantees, so every race found
here is real a fortiori.

| Variable | Code |
|---|---|
| `slot`, `used` | `contexts[key]`: which context object the map holds; the contexts ever created |
| `ctopk`, `cknown`, `cknowing`, `ccounts` | the containers of each created context object |
| `wpc`, `wctx` | a worker's position in `schedule_func`/`auto_schedule` and its local `context` handle |
| `wtop`, `held` | the entry just read by `top()` and the local `reverse_sort` vector |
| `wres` | the winner computed before the commit |
| `fpc`, `fcall` | the caller's position in `feedback_for`/`add_feedback` and its arguments |
| `fpre` | the context as the caller's `add_feedback` found it (for the mapping only) |

Worker steps: `WStart` (the pool dequeues a `schedule_for` task), `WFind`,
`WCreate` and `WBind` (lines 239, 240 and 243), `WTop` and `WPop` (the drain at 88-91),
`WRestore` (one `push` per step, 94-96), `WDraw` (the candidate loop, cost
model and selection, judged with `AutoScheduler`'s operators) and `WCommit`
(`counts += 1` and the `knowing` insert, 199-200). Caller steps: `FStart`,
`FFind` (find-or-create), `FBind`, then `add_feedback`'s `FSize`, `FTop`
(with the early return), `FPop`, `FPush`, `FKnown`, `FErase` and `FEvict`, and
`ClearScheduleCacheFor`. `top()` or `pop()` on an empty heap is undefined
behaviour and moves the thread to the label `"undefined"`.

The constant `Serialized` decides whether a handler may start while another
runs. With `Serialized = TRUE` the model is the per-key serialisation the
code would need; the refinement mapping (`MTopk`, `MKnown`, `MKnowing`,
`MCounts`) takes the abstract heap to the map's context plus the entries a
worker holds drained, and takes the context as the caller found it while
`add_feedback` is half done. `AbstractSpec == AS!Spec` checks that every
step is a step of `AutoScheduler` or a stutter.

Bounds of the violation cfgs (`MC_AutoSchedulerThreads_*.cfg`): two entities, two workers, three
context objects (so two overwrites can happen), `TopK = 1` (a full heap after
one feedback, so the early return, the pop-and-push and the drain of a full
heap all happen), `NewTrial = 1`, `SeenCap = 1`, evaluations {0, 1, 2},
`MaxRounds = 2`, `MaxInflight = 2`, `Serialized = FALSE`. The serialized
model is checked inside the service, below.

| Run | Expect | Checks | Result |
|---|---|---|---|
| `heap_overfill` | violation | `HeapWithinCapacity` | A worker drains the heap; `add_feedback` sees `size() < topk` (line 208) and pushes; the restore then leaves topk+1 entries. |
| `context_overwrite` | violation | `NoFeedbackLost` | Two workers both miss the key at line 239 and both assign at 240; feedback given to the first context is gone once the second replaces it. |
| `empty_heap_access` | violation | `NoEmptyHeapAccess` | Two workers drain one heap; both read the single top and both `pop()`, the second on an empty `priority_queue` (line 90). |
| `topk_zero` (`MC_AutoSchedulerThreads_TopKZero.cfg`) | violation | `NoEmptyHeapAccess` | The same bounds with `TopK = 0` and `Serialized = TRUE`, so no two steps race. One round, then one positive feedback: `size() < topk` fails on the empty heap and line 211 calls `top()` on it. Nothing in the repository rejects `topk = 0`, so `AutoScheduler`'s ASSUME admits it. |

These runs use symmetry over entities, workers and context objects.

### `Dispatch.tla`: `schedule_for` and the pool

`schedule_for` (lines 265-282) is translated from the source: `Enqueue`
sends priority 0 to `push_back` and priority 1 to `push_front`, and any other
priority is refused (`rejected`) without queuing. The pool is not in the
repository, so its deque (`queue`), its threads (`running`) and the
resolution of a task's future (`done`) follow the specification: an idle
thread `Take`s the front task, and `Run` executes the closure
(`schedule_func`, modelled on its own by the modules above) and resolves the
future. `subOrder` and `startOrder` are history variables.

No fairness is assumed: only order is checked. The cfg sets `CHECK_DEADLOCK
FALSE` because once the requests are served the pool really does sit
idle on an empty deque.

Bounds (`MC_Dispatch_HighFifo.cfg`): three requests, two threads, and priorities
{0, 1, 2}. That is enough for two same-class requests to wait behind a busy
pool, for both classes to be queued at once, and for a refused call.

| Run | Expect | Checks | Result |
|---|---|---|---|
| `high_priority_lifo` | violation | `HighFifo` | Two priority-1 requests made while the pool is busy run last-in, first-out (line 274), against the specification's "FIFO within a priority class". |

`NormalFifo` and `HighFirst` are checked on the pool as it runs real
rounds, in the service below.

### `AutoSchedulerService.tla`: the pool running the rounds

This module composes `Dispatch` and `AutoSchedulerThreads` through two named
instances, `D` and `T`, over one set of variables. The pool's threads are
the rounds' workers:

| Step | Parts | Code |
|---|---|---|
| `D!ScheduleFor` | pool only | `schedule_for` queues the closure or refuses the priority |
| `D!Take` | pool only | an idle pool thread takes the front task |
| `Begin` | `T!WStart` | the closure calls `schedule_func` (lines 270-271) |
| `RoundStep` | `T!WFind` ... `T!WDraw` | `schedule_func` and `auto_schedule` up to the commit |
| `Finish` | `T!WCommit` with `D!Run` | the commit, `schedule_func` returns, the future resolves |
| `T!FStart`, `FeedbackStep`, `T!ClearScheduleCacheFor` | rounds only | the caller's `feedback_for` and `clear_schedule_cache_for` |

No fairness is assumed and no liveness property is checked. The pool that
would have to be fair is not in this repository, the round's candidate
loop is one step here (so it cannot fail to end), and the code has no lock
that `Serialized = TRUE` stands for; a liveness claim resting on all three
would say nothing about the code. Priority 2 is among the inputs: `ERROR`
is defined outside the repository, and `Dispatch` takes the case where it
throws (the call is refused, nothing is queued). If it does not throw,
`throw;` calls `std::terminate`; the process ends, a behaviour that is a
prefix of one the model has, so the safety properties below cover it.

Bounds (`MC_AutoSchedulerService.cfg`): two pool threads and two requests,
each with priority 0, 1 or 2. There are two entities, three context
objects, `TopK = 1` and evaluations {0, 1, 2}. `MaxRounds = MaxInflight = 2`
equals the number of requests, so these bounds never block a round. Three
requests take more than ten minutes. Two are enough for two rounds of one
class in the deque at once, for both classes together, and for a refused
call.

| Run | Expect | Checks | Result |
|---|---|---|---|
| `service` | pass | `TypeOK`, `NormalFifo`, `AbstractSpec`, `HighFirst` | Holds, 62,173 distinct states. |

With handlers serialized, the rounds the pool runs refine `AutoScheduler`:
the step-wise drain, restore and `add_feedback` implement the atomic model
on which `context_core` rests. The pool keeps priority-0 order and puts
priority 1 first. Feedback loss is not checked here: under the lock it
would follow from `AbstractSpec` and `TopKIsBest`, and without the lock the
code loses feedback (`context_overwrite`).

Mutants:

- `FSizeNoPositiveGuard` breaks `TypeOK`.
- `FSizeOffByOne` (`size() <= topk`) breaks `AbstractSpec`.
- `EnqueueSwapped` breaks `NormalFifo`.
- `EnqueueBackOnly` breaks `HighFirst`.

### `StructuralTag.tla`: the tag of a compute body

`generate_tag_from_body` (`abstract_graph.cc` 118-193) prints a compute body
after `ExprReMapper` has renamed its variables to `v0, v1, ...` and its
Halide tensors to `T0, T1, ...` in order of first visit. Expressions are
small record trees: variables, size variables, constants, one generic binary
node, Halide and extern calls, and reductions. `Remap` threads the
remapper's state (`var_map`, `size_var_map`, `call_map` and the two
counters, initially `Fresh`) through the visit order of the code. That
order is: call arguments before the call's name; for a reduction, the
combiner's lhs, rhs, result and identity, then the sources, the axis
variables and the condition. `Tag` keeps exactly what the printer writes:
the shape, the axis extents, the combiner and the sources for a reduction,
and each element renamed by its own fresh remapper otherwise. The printed
string itself is abstracted to the renamed tree, which is injective on these
nodes.

The reference is `Equivalent`: two bodies are the same up to names when one
bijective renaming of variables, size variables and tensors (`Renamings`,
12 of them) maps one onto the other. `MC_StructuralTag` enumerates pairs of
bodies element by element. The fresh names are the strings `"v" \o
ToString(n)` and `"T" \o ToString(n)`, as `get_new_var_name` and
`get_new_tensor_name` build them. The tree keeps whether a call is a
Halide call or an extern, which TVM's printer does not print: in the code
an extern named `T0` prints like the renamed tensor `T0`, in the model the
two differ. No input has an extern with such a name, so no check depends
on it.

| Run | Expect | Checks | Result |
|---|---|---|---|
| `pure_operators` (`MC_PureOperators`) | pass | `TagAlphaInvariant`, `TagIsStructural` (with the ROCm and selection properties) | Holds over all 39 one-element bodies (32 element-wise expressions, 6 unconditional sums, the empty body): 1,521 pairs picked as inputs of the run. |
| `tag_multi_element` | violation | `TagIsStructural` | `[x, A(x)]` and `[x, A(y)]` share the tag `v0; T0(v0)`, because each element gets a fresh remapper (line 180). |
| `tag_condition` (`MC_StructuralTag_Condition.cfg`) | violation | `TagIsStructural` | `sum(A[kk] + B[kk])` over `kk < 4` and the same sum restricted to `kk < n` share a tag. The tag of a reduction never prints its where-condition (lines 148-160, the hazard at line 154), although `ExprReMapper` visits and renames it. |

The pass run keeps conditions out of its expression set (`MCExprs`) so
that it checks the rest of the tag. `MCCondExprs` holds the six sums with
and without the condition `kk < n`, and the `tag_condition` run draws from it.

Mutants: `RemapCallKeepName` (a Halide call keeps its tensor's name)
breaks `TagAlphaInvariant`, and `RemapVarAlwaysFresh` (`var_map` never
consulted) breaks `TagIsStructural`.

### `RocmShuffle.tla`: AMDGPU warp shuffles

`DispatchShuffle` (`target/llvm/intrin_rule_rocm.cc`, lines 57-93) lowers
TVM's `tvm_warp_shuffle`, `_up` and `_down` to AMDGPU intrinsics. The module
has no state; its operators compute the lane a shuffle reads:

| Operator | Code |
|---|---|
| `MbcntLo`, `MbcntHi`, `SelfLane` | `self = mbcnt.hi(-1, mbcnt.lo(-1, 0))`, the own lane id (lines 66-72) |
| `BAnd`, `BNot`, `GroupBase` | `self & ~(width - 1)` on 32-bit two's-complement values (line 79) |
| `ShuffleIndex` | the `index` of the three branches, including the two `Select`s (lines 74-89) |
| `BpermuteLane` | `ds.bpermute(index << 2, var)`: bits 7..2 of the byte address name the lane (lines 90-91) |
| `RocmSrcLane` | the whole lowering: the lane whose value the result holds |

TLC's integers are 32-bit signed, so `&` is evaluated bit by bit, with bit
31 as the sign. With lanes below 64 and arguments up to 64, no sum,
difference or `index << 2` leaves the 32-bit range, so the other operators
use plain integers.

Not checked: a `tvm_warp_shuffle` source lane `>= width`. ROCm then reads a
lane of another group, while CUDA takes the source lane modulo the width.
This is recorded as a hazard at line 79.

### `RocmIntrin.tla`: the ROCm rule registry

`RocmIntrin` extends `RocmShuffle` with the rest of the file. A TIR
expression is a record. An immediate is `Imm(dtype, value)`; a call is
`Call(dtype, op, args)`, where `op` is the Op's name string. TLC treats
strings as sequences of characters. `name.substr(0, 4)` is therefore
`Prefix` and `substr(4)` is `Suffix`, both written with `SubSeq`.
`operator<<` on the `ostringstream` is `\o`, with `ToString` for the bit
width. A failed `ICHECK` is the value `CheckFailed`.

| Operator | Code |
|---|---|
| `DispatchPureExternOCML` | lines 35-55: `ICHECK` of the `tir.` prefix, the name `__ocml_<op>_f<bits>`, and a `call_pure_extern` with the call's arguments and dtype |
| `ShuffleKind`, `DispatchShuffle` | lines 57-93: the five-argument and 32-bit `ICHECK`s, the branch on the op, and the `ds.bpermute` call whose address is `Shl2(IndexExpr(...))`, evaluated per lane by `EvalAddr` |
| `WarpActiveMask` | lines 97-102: the dummy rule returns int32 0 |
| `OcmlRuleNames`, `RocmRules` | lines 95-154: the registry from rule key to handler |
| `Lower` | a call lowered by the rule registered under its op name, or left alone when no rule exists |

`MC_RocmIntrin` defines the inputs and the properties. `MC_PureOperators` extends it, picks one input and lowers it. The shuffle inputs are:
- every lane 0..63;
- every width 1, 2, ..., 64;
- every kind;
- every source lane 0..width-1, or every delta at the group boundaries
  (0, 1, width-1, width, width+1, 63, 64).

Each shuffle carries as its mask the activemask rule's result, which is
what TVM's all-reduce lowering passes; the lowering never reads the mask.

The run `pure_operators` checks this invariant, together with `SelectBestIsFirstMax` over cost lists and the two tag properties:

| Property | Statement | Mutant that breaks it |
|---|---|---|
| `ShuffleMatchesCuda` | the lowered shuffle permutes the call's value, and its `ds.bpermute` reads the lane that CUDA's `__shfl_sync`, `__shfl_up_sync` and `__shfl_down_sync` read on width-wide groups | `ShuffleIndexDownOffByOne` (`>` for `>=` in the `shuffle_down` bound) |

The run holds over 16,062 states (13,760 shuffle calls, 780 cost lists, 1,521 pairs of bodies, and the initial state) in about 6 s.

`DispatchPureExternOCML`, `WarpActiveMask` and the registry are modelled
but checked by no property of their own: for scalar IEEE floats the OCML
name is line 47's formula, which a property could only restate. The case
that could go wrong is a call whose dtype is not a scalar IEEE float. The
name is built from `dtype.bits()` alone:
- a bfloat16 call would get the `_f16` function;
- an int32 call would get `_f32`;
- a float32x4 call would get the scalar `_f32` function.

Whether such calls reach this rule depends on passes outside this
repository. The case is recorded as a hazard at line 47.

## 3. Plan

Modules are listed in order of importance.

1. **`AutoScheduler`** (done). This is the sequential context and round,
   and the abstract specification of one key's search state.
2. **`AutoSchedulerThreads`** (done, see above). It has several threads:
   - pool workers, each running `schedule_func`;
   - a caller thread running `feedback_for` and `clear_schedule_cache_for`.

   Each container operation is one step:
   - the `contexts.find` and the `contexts[key] =` assignment;
   - each heap `pop` and `push` of the drain and restore;
   - the novelty check's reads;
   - the `knowing` insert;
   - in `add_feedback`: the size test, `top()`, `pop`, `push`, the `known`
     insert, the `knowing` erase and the eviction.

   Treating each container operation as atomic is more than the code
   guarantees, since its data races are undefined behaviour, so any violation
   found is real a fortiori. Violation runs:
   - heap over capacity (`TopKIsBest`) from drain/restore racing with
     `add_feedback`;
   - a lost context or lost feedback from the map race;
   - a `pop()` on an empty heap.

   The serialized variant refines `AutoScheduler` through
   `INSTANCE AutoScheduler WITH`. Two concurrent rounds returning one entity
   (line 147) need no property of their own: the sequential model already
   returns one entity twice (see `seen_and_seeing`).
3. **`Dispatch`** (done, see above; named `ThreadPool` in earlier plans): the double-ended queue and N workers, written from the
   spec because the pool is not under src/. It is composed with
   `schedule_for`: `push_back` for priority 0 and `push_front` for
   priority 1, with any other priority rejected.
   - Violation: FIFO order within the high-priority class.
   - Pass: priority-0 order and priority 1 first (in the service run).
     Eventual completion is not checked: it would rest on a pool written
     from the spec and a lock the code lacks.
4. **`StructuralTag`** (done, see above): `ExprReMapper` as a RECURSIVE operator over small
   expression trees (vars, size-vars, Halide and extern calls, one reduce
   form), and `generate_tag_from_body`.
   - Pass: for a single body, tags are equal exactly when the bodies are
     alpha-equivalent.
   - Violation: multi-element bodies collide because a fresh remapper is used
     per element.
5. **`RocmShuffle`, `RocmIntrin`** (done, see above). Still open: a violation run for
   source lanes `>= width`, if the callers of `tvm_warp_shuffle` can pass
   them.
6. **Novelty** (done): `SeenSeeingDisjoint` (spec 3) is violated through
   both the first-draw-only test and the gate lifted at line 161. No
   history of draws is needed for it.
7. **`AutoSchedulerService`** (done, see above): `Dispatch`'s tasks running
   the `AutoSchedulerThreads` workers, safety only. Still open: three
   requests, which need a smaller round model to finish in time.
8. **Edges of the round:** `topk = 0` calls `top()` on an empty heap
   (line 211). This is done: the `topk_zero` run. An empty batch or all-NaN
   costs leave `best_ind = -1` (line 192). That case is recorded as a hazard
   only: it needs a violation run of its own, and the project is at its cap
   of twelve runs. Merging the stateless checks into `pure_operators` freed
   two slots, which went to `tag_condition` and `topk_zero`. Still open: the probability function
   `calculate_possibility` (spec 8 monotonicity), checked as an ordering
   property without real exponents.

## 4. Not modelled

- **Feature extraction and lowering** (`feature.cc`): calls into TVM passes
  with no state.
- **`schedule_with_entity`** (lines 251-262): a stateless call into
  `interpret` that touches no context.
- **The profile log and `store_feedback`**: output to external
  collaborators.
- **ScheduleSpace and the cost model**: external, modelled only as
  nondeterministic choices.
