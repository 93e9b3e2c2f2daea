------------------------ MODULE AutoSchedulerThreads ------------------------
(***************************************************************************)
(* The handlers of src/tg/autoschedule/auto_schedule.cc as the threads    *)
(* run them: pool Workers running schedule_func / auto_schedule, and the  *)
(* caller's thread running feedback_for and clear_schedule_cache_for, on  *)
(* one subgraph key.  Nothing in the file takes a lock, so each operation *)
(* on the contexts map or on a context's containers is one step and the   *)
(* threads interleave between them.  Taking each container operation as   *)
(* atomic is kinder than the code (concurrent use of std containers is    *)
(* undefined behaviour), so what goes wrong here goes wrong in the code.  *)
(*                                                                         *)
(* With Serialized = TRUE a handler starts only when no other handler is  *)
(* running, the per-key discipline spec section 5 asks for; the module    *)
(* then implements AutoScheduler under the mapping at the end.            *)
(***************************************************************************)
EXTENDS Naturals, Integers, Sequences, FiniteSets, Bags

CONSTANTS
    Entities, TopK, NewTrial, SeenCap, EvictAfter, Costs, Gflop,
    Evaluations, MaxRounds, MaxInflight,
    Workers,      \* threads of the pool running schedule_for tasks
    Ctxs,         \* identities for AutoScheduleContext objects
    NoCtx,        \* contexts.find(key) == contexts.end()
    Serialized    \* handlers of the key never overlap

ASSUME NoCtx \notin Ctxs /\ Serialized \in BOOLEAN

VARIABLES
    slot,      \* contexts[key]
    used,      \* contexts allocated so far
    ctopk,     \* ctopk[c]: topk_schedules of context c (bag of [ent, score])
    cknown,    \* cknown[c]: known_schedules
    cknowing,  \* cknowing[c]: knowing_schedules
    ccounts,   \* ccounts[c]: counts
    wpc,       \* program counter of each worker
    wctx,      \* the context a worker's round works on
    wtop,      \* the entry a worker read with top() before pop()
    held,      \* reverse_sort: entries a worker drained and not yet pushed back
    wres,      \* the winner of a worker's round, before the commit
    fpc,       \* program counter of the caller's feedback_for
    fcall,     \* the caller's arguments and context
    fpre,      \* the caller's context as it was when feedback_for bound it
    inflight,  \* results returned by rounds, not yet fed back
    fed        \* history: positive evaluations fed back

mapVars == <<slot, used>>
ctxVars == <<ctopk, cknown, cknowing, ccounts>>
wVars   == <<wpc, wctx, wtop, held, wres>>
fVars   == <<fpc, fcall, fpre>>
hVars   == <<inflight, fed>>
vars    == <<mapVars, ctxVars, wVars, fVars, hVars>>

Single(x) == SetToBag({x})

Busy == (\E w \in Workers : wpc[w] # "idle") \/ fpc # "idle"

CanStart == Serialized => ~Busy

(* Refinement mapping to AutoScheduler: the state of the context in the   *)
(* map, with the entries a worker holds drained counted as still in the   *)
(* heap, and the context as feedback_for found it until that call        *)
(* returns.                                                               *)
CallerInside == fpc \in {"size", "top", "pop", "push", "known", "erase", "evict"}
                /\ fcall.ctx = slot

Drained(w) == IF wpc[w] = "pop" THEN held[w] (-) Single(wtop[w]) ELSE held[w]

HeldFor(c) ==
    LET RECURSIVE Sum(_)
        Sum(ws) == IF ws = {} THEN EmptyBag
                   ELSE LET w == CHOOSE x \in ws : TRUE
                        IN  (IF wctx[w] = c THEN Drained(w) ELSE EmptyBag) (+) Sum(ws \ {w})
    IN  Sum(Workers)

MTopk ==
    IF slot = NoCtx THEN EmptyBag
    ELSE IF CallerInside THEN fpre.topk
    ELSE ctopk[slot] (+) HeldFor(slot)

MKnown ==
    IF slot = NoCtx THEN {}
    ELSE IF CallerInside THEN fpre.known ELSE cknown[slot]

MKnowing ==
    IF slot = NoCtx THEN {}
    ELSE IF CallerInside THEN fpre.knowing ELSE cknowing[slot]

MCounts == IF slot = NoCtx THEN 0 ELSE ccounts[slot]

(* The operators of the atomic model, its state bound to the mapped     *)
(* state defined below.                                                   *)
AS == INSTANCE AutoScheduler
          WITH topk <- MTopk, known <- MKnown, knowing <- MKnowing,
               counts <- MCounts


----
Init ==
    /\ slot = NoCtx
    /\ used = {}
    /\ ctopk = [c \in Ctxs |-> EmptyBag]
    /\ cknown = [c \in Ctxs |-> {}]
    /\ cknowing = [c \in Ctxs |-> {}]
    /\ ccounts = [c \in Ctxs |-> 0]
    /\ wpc = [w \in Workers |-> "idle"]
    /\ wctx = [w \in Workers |-> NoCtx]
    /\ wtop = [w \in Workers |-> NoCtx]
    /\ held = [w \in Workers |-> EmptyBag]
    /\ wres = [w \in Workers |-> NoCtx]
    /\ fpc = "idle"
    /\ fcall = NoCtx
    /\ fpre = NoCtx
    /\ inflight = EmptyBag
    /\ fed = EmptyBag

Goto(w, l) == wpc' = [wpc EXCEPT ![w] = l]

(* contexts.find(key) == contexts.end() in schedule_func and feedback_for.*)
Find == IF slot = NoCtx THEN "create" ELSE "bind"

(* contexts[key] = AutoScheduleContext(...): a fresh, empty context.      *)
CreateCtx ==
    \E c \in Ctxs \ used :
        /\ slot' = c
        /\ used' = used \cup {c}

----
(* Worker w: a schedule_for task running schedule_func + auto_schedule.   *)

(* The worker dequeues a task and enters schedule_func.                   *)
WStart(w) ==
    /\ wpc[w] = "idle" /\ CanStart
    /\ (IF slot = NoCtx THEN 0 ELSE ccounts[slot]) < MaxRounds
    /\ BagCardinality(inflight) < MaxInflight
    /\ Goto(w, "find")
    /\ UNCHANGED <<mapVars, ctxVars, wctx, wtop, held, wres, fVars, hVars>>

WFind(w) ==
    /\ wpc[w] = "find"
    /\ Goto(w, Find)
    /\ UNCHANGED <<mapVars, ctxVars, wctx, wtop, held, wres, fVars, hVars>>

WCreate(w) ==
    /\ wpc[w] = "create"
    /\ CreateCtx
    /\ Goto(w, "bind")
    /\ UNCHANGED <<ctxVars, wctx, wtop, held, wres, fVars, hVars>>

(* AutoScheduleContext context = contexts[key].                           *)
WBind(w) ==
    /\ wpc[w] = "bind"
    /\ wctx' = [wctx EXCEPT ![w] = slot]
    /\ Goto(w, "top")
    /\ UNCHANGED <<mapVars, ctxVars, wtop, held, wres, fVars, hVars>>

(* The drain loop, first half: while (!empty()) reverse_sort.push_back(   *)
(* top()).  An empty heap ends the drain.                                 *)
WTop(w) ==
    LET c == wctx[w] IN
    /\ wpc[w] = "top"
    /\ IF ctopk[c] = EmptyBag
       THEN /\ Goto(w, "restore")
            /\ UNCHANGED <<wtop, held>>
       ELSE \E r \in AS!HeapTops(ctopk[c]) :
               /\ wtop' = [wtop EXCEPT ![w] = r]
               /\ held' = [held EXCEPT ![w] = held[w] (+) Single(r)]
               /\ Goto(w, "pop")
    /\ UNCHANGED <<mapVars, ctxVars, wctx, wres, fVars, hVars>>

(* The drain loop, second half: pop() removes the heap's current top,     *)
(* the entry just read unless another thread changed the heap; pop() on   *)
(* an empty heap is undefined behaviour.                                  *)
PopOf(heap, r) ==
    IF r \in AS!HeapTops(heap) THEN {r} ELSE AS!HeapTops(heap)

WPop(w) ==
    LET c == wctx[w] IN
    /\ wpc[w] = "pop"
    /\ IF ctopk[c] = EmptyBag
       THEN /\ Goto(w, "undefined")
            /\ UNCHANGED ctopk
       ELSE \E r \in PopOf(ctopk[c], wtop[w]) :
               /\ ctopk' = [ctopk EXCEPT ![c] = ctopk[c] (-) Single(r)]
               /\ Goto(w, "top")
    /\ wtop' = [wtop EXCEPT ![w] = NoCtx]
    /\ UNCHANGED <<mapVars, cknown, cknowing, ccounts, wctx, held, wres,
                   fVars, hVars>>

(* The restore loop: push each drained entry back, one push per step.    *)
WRestore(w) ==
    LET c == wctx[w] IN
    /\ wpc[w] = "restore"
    /\ IF held[w] = EmptyBag
       THEN /\ Goto(w, "draw")
            /\ UNCHANGED <<ctopk, held>>
       ELSE \E r \in BagToSet(held[w]) :
               /\ ctopk' = [ctopk EXCEPT ![c] = ctopk[c] (+) Single(r)]
               /\ held' = [held EXCEPT ![w] = held[w] (-) Single(r)]
               /\ UNCHANGED wpc
    /\ UNCHANGED <<mapVars, cknown, cknowing, ccounts, wctx, wtop, wres,
                   fVars, hVars>>

(* The candidate loop reads known/knowing; the batch is judged and the    *)
(* winner chosen on the worker's own data.                                *)
WDraw(w) ==
    LET c == wctx[w] IN
    /\ wpc[w] = "draw"
    /\ \E draws \in [1..NewTrial + 1 -> Entities],
          costs \in [1..NewTrial -> Costs] :
         LET batch == AS!Batch(draws, cknown[c], cknowing[c])
         IN  wres' = [wres EXCEPT ![w] = AS!Winner(batch, costs)]
    /\ Goto(w, "commit")
    /\ UNCHANGED <<mapVars, ctxVars, wctx, wtop, held, fVars, hVars>>

(* counts += 1; knowing_schedules.insert(result); the future resolves.   *)
WCommit(w) ==
    LET c == wctx[w] IN
    /\ wpc[w] = "commit"
    /\ ccounts' = [ccounts EXCEPT ![c] = @ + 1]
    /\ cknowing' = [cknowing EXCEPT ![c] = @ \cup {wres[w]}]
    /\ inflight' = inflight (+) Single(wres[w])
    /\ Goto(w, "idle")
    /\ wctx' = [wctx EXCEPT ![w] = NoCtx]
    /\ wres' = [wres EXCEPT ![w] = NoCtx]
    /\ UNCHANGED <<mapVars, ctopk, cknown, wtop, held, fVars, fed>>

----
(* The caller's thread: feedback_for(e, s) and clear_schedule_cache_for.  *)

FGoto(l) == fpc' = l

(* The call returns: the caller no longer holds the result, and a        *)
(* positive evaluation is on record.                                      *)
FReturn ==
    /\ FGoto("idle")
    /\ fcall' = NoCtx
    /\ fpre' = NoCtx
    /\ inflight' = inflight (-) Single(fcall.e)
    /\ fed' = IF fcall.s > 0 THEN fed (+) Single(fcall.s) ELSE fed

FStart(e, s) ==
    /\ fpc = "idle" /\ CanStart
    /\ CopiesIn(e, inflight) > 0
    /\ fcall' = [e |-> e, s |-> s, ctx |-> NoCtx]
    /\ FGoto("find")
    /\ UNCHANGED <<mapVars, ctxVars, wVars, fpre, hVars>>

(* feedback_for's find-or-create of contexts[key].  A caller holds a     *)
(* result only after a worker committed it into the map's context, so in  *)
(* this one-key model the create branch is kept for fidelity but the      *)
(* find succeeds.                                                         *)
FFind ==
    /\ fpc = "find"
    /\ IF slot = NoCtx THEN CreateCtx ELSE UNCHANGED mapVars
    /\ FGoto("bind")
    /\ UNCHANGED <<ctxVars, wVars, fcall, fpre, hVars>>

(* contexts[key].add_feedback(...): the call binds the map's context.     *)
FBind ==
    /\ fpc = "bind"
    /\ fcall' = [fcall EXCEPT !.ctx = slot]
    /\ fpre' = [topk |-> ctopk[slot], known |-> cknown[slot],
                knowing |-> cknowing[slot]]
    /\ FGoto("size")
    /\ UNCHANGED <<mapVars, ctxVars, wVars, hVars>>

(* Faulty variant of FSize: the evaluation > 0.0 guard is dropped.        *)
FSizeNoPositiveGuard ==
    /\ fpc = "size"
    /\ FGoto(IF BagCardinality(ctopk[fcall.ctx]) < TopK THEN "push" ELSE "top")
    /\ UNCHANGED <<mapVars, ctxVars, wVars, fcall, fpre, hVars>>

(* Faulty variant of FSize: size() <= topk admits a push into a full heap.*)
FSizeOffByOne ==
    /\ fpc = "size"
    /\ FGoto(IF fcall.s <= 0 THEN "known"
             ELSE IF BagCardinality(ctopk[fcall.ctx]) <= TopK THEN "push"
             ELSE "top")
    /\ UNCHANGED <<mapVars, ctxVars, wVars, fcall, fpre, hVars>>

(* if (evaluation > 0.0) { if (size() < topk) ... else ... }               *)
FSize ==
    /\ fpc = "size"
    /\ FGoto(IF fcall.s <= 0 THEN "known"
             ELSE IF BagCardinality(ctopk[fcall.ctx]) < TopK THEN "push"
             ELSE "top")
    /\ UNCHANGED <<mapVars, ctxVars, wVars, fcall, fpre, hVars>>

(* if (evaluated < top()) return;  top() of an empty heap is undefined.   *)
FTop ==
    LET heap == ctopk[fcall.ctx] IN
    /\ fpc = "top"
    /\ IF heap = EmptyBag
       THEN /\ FGoto("undefined")
            /\ UNCHANGED <<fcall, fpre, hVars>>
       ELSE \E top \in AS!HeapTops(heap) :
               IF fcall.s < top.score
               THEN /\ FReturn
               ELSE /\ FGoto("pop")
                    /\ UNCHANGED <<fcall, fpre, hVars>>
    /\ UNCHANGED <<mapVars, ctxVars, wVars>>

(* pop() of the least entry.                                              *)
FPop ==
    LET c == fcall.ctx IN
    /\ fpc = "pop"
    /\ IF ctopk[c] = EmptyBag
       THEN /\ FGoto("undefined")
            /\ UNCHANGED ctopk
       ELSE \E r \in AS!HeapTops(ctopk[c]) :
               /\ ctopk' = [ctopk EXCEPT ![c] = ctopk[c] (-) Single(r)]
               /\ FGoto("push")
    /\ UNCHANGED <<mapVars, cknown, cknowing, ccounts, wVars, fcall, fpre, hVars>>

(* push(evaluated).                                                       *)
FPush ==
    LET c == fcall.ctx IN
    /\ fpc = "push"
    /\ ctopk' = [ctopk EXCEPT ![c] = @ (+) Single([ent |-> fcall.e, score |-> fcall.s])]
    /\ FGoto("known")
    /\ UNCHANGED <<mapVars, cknown, cknowing, ccounts, wVars, fcall, fpre, hVars>>

(* known_schedules.insert(entity).                                        *)
FKnown ==
    /\ fpc = "known"
    /\ cknown' = [cknown EXCEPT ![fcall.ctx] = @ \cup {fcall.e}]
    /\ FGoto("erase")
    /\ UNCHANGED <<mapVars, ctopk, cknowing, ccounts, wVars, fcall, fpre, hVars>>

(* knowing_schedules.erase(entity).                                       *)
FErase ==
    /\ fpc = "erase"
    /\ cknowing' = [cknowing EXCEPT ![fcall.ctx] = @ \ {fcall.e}]
    /\ FGoto("evict")
    /\ UNCHANGED <<mapVars, ctopk, cknown, ccounts, wVars, fcall, fpre, hVars>>

(* The eviction of known_schedules, then feedback_for returns.            *)
FEvict ==
    /\ fpc = "evict"
    /\ \E k \in AS!EvictFrom(cknown[fcall.ctx]) :
          cknown' = [cknown EXCEPT ![fcall.ctx] = k]
    /\ FReturn
    /\ UNCHANGED <<mapVars, ctopk, cknowing, ccounts, wVars>>

(* clear_schedule_cache_for: find the context and clear knowing.          *)
ClearScheduleCacheFor ==
    /\ fpc = "idle" /\ CanStart
    /\ cknowing' = IF slot = NoCtx THEN cknowing
                   ELSE [cknowing EXCEPT ![slot] = {}]
    /\ UNCHANGED <<mapVars, ctopk, cknown, ccounts, wVars, fVars, hVars>>

Next ==
    \/ \E w \in Workers :
          \/ WStart(w) \/ WFind(w) \/ WCreate(w) \/ WBind(w) \/ WTop(w)
          \/ WPop(w) \/ WRestore(w) \/ WDraw(w) \/ WCommit(w)
    \/ \E e \in Entities, s \in Evaluations : FStart(e, s)
    \/ FFind \/ FBind \/ FSize \/ FTop \/ FPop \/ FPush
    \/ FKnown \/ FErase \/ FEvict
    \/ ClearScheduleCacheFor

Spec == Init /\ [][Next]_vars

----
----
Labels == {"idle", "find", "create", "bind", "top", "pop", "restore", "draw",
           "commit", "size", "push", "known", "erase", "evict", "undefined"}

TypeOK ==
    /\ slot \in Ctxs \cup {NoCtx} /\ used \subseteq Ctxs
    /\ \A c \in Ctxs :
          /\ IsABag(ctopk[c])
          /\ BagToSet(ctopk[c]) \subseteq [ent : Entities, score : Nat \ {0}]
          /\ cknown[c] \subseteq Entities /\ cknowing[c] \subseteq Entities
          /\ ccounts[c] \in Nat
    /\ wpc \in [Workers -> Labels] /\ fpc \in Labels
    /\ BagToSet(inflight) \subseteq Entities

(* Under per-key serialisation the threaded handlers implement the atomic *)
(* model: every step is a step of AutoScheduler or leaves its state alone.*)
AbstractSpec == AS!Spec

(* The drain-and-restore in auto_schedule never leaves a context's heap   *)
(* holding more than topk entries.                                        *)
HeapWithinCapacity == \A c \in used : BagCardinality(ctopk[c]) <= TopK

(* No positive evaluation fed back is lost from the key's context: when   *)
(* no handler runs, the map's heap holds at least min(N, topk) entries.   *)
NoFeedbackLost ==
    ~Busy => BagCardinality(MTopk) >= AS!MinOf(TopK, BagCardinality(fed))

(* No thread calls top() or pop() on an empty heap.                      *)
NoEmptyHeapAccess == fpc # "undefined" /\ \A w \in Workers : wpc[w] # "undefined"

=============================================================================
