-------------------------- MODULE MC_PureOperators --------------------------
(* The stateless operators of the project, one input per behaviour: a     *)
(* warp shuffle lowered by the ROCm rule registry                         *)
(* (MC_RocmIntrin), a list of cost-model outputs judged and selected by   *)
(* the round of auto_schedule (MC_SelectBest), or a pair of one-element   *)
(* compute bodies tagged by generate_tag_from_body (MC_StructuralTag).    *)
EXTENDS MC_RocmIntrin

CONSTANTS Gflop, MaxLen, x, y, kk, n, A, B

(* Cost-model outputs: invalid (negative, zero) and valid costs with ties. *)
SelectCosts == {-1, 0, 1, 2, 4}

SelectInputs ==
    {[kind |-> "select", costs |-> cs] :
        cs \in UNION {[1..m -> SelectCosts] : m \in 1..MaxLen}}

(* The selection check of MC_SelectBest, on the cost list picked, with    *)
(* the round's context empty (the selection reads none of it).           *)
SB == INSTANCE MC_SelectBest
        WITH Entities <- {}, TopK <- 1, NewTrial <- 1, SeenCap <- 1,
             EvictAfter <- 0, Costs <- SelectCosts, Evaluations <- {0},
             MaxRounds <- 0, MaxInflight <- 0,
             topk <- <<>>, known <- {}, knowing <- {}, counts <- 0,
             inflight <- <<>>, fed <- <<>>,
             costList <- IF inp \in SelectInputs THEN inp.costs ELSE <<>>

(* The structural tag, over the variables, size variable and tensors of  *)
(* MC_StructuralTag, on a pair of bodies: element-wise expressions and    *)
(* unconditional sums of MC_StructuralTag, the empty body included.       *)
ST == INSTANCE StructuralTag
        WITH VarIds <- {x, y, kk}, SVarIds <- {n}, Funcs <- {A, B},
             Shape <- <<4>>

TagExprs == INSTANCE MC_StructuralTag
        WITH VarIds <- {x, y, kk}, SVarIds <- {n}, Funcs <- {A, B},
             Shape <- <<4>>, Exprs <- {}, MaxLen <- 1, b1 <- <<>>, b2 <- <<>>

Bodies == {<<>>} \cup {<<e>> : e \in TagExprs!MCExprs}

TagInputs == {[kind |-> "tags", b1 |-> p, b2 |-> q] : p, q \in Bodies}

OperatorsSpec ==
    IntrinInit /\ [][inp = None /\ inp' \in ShuffleInputs \cup SelectInputs
                                      \cup TagInputs]_inp

(* The round returns the candidate with the greatest score, ties going to *)
(* the lowest batch index, for every list of costs the cost model may     *)
(* return (SB!SelectBestIsFirstMax).                                      *)
SelectBestIsFirstMax == SB!SelectBestIsFirstMax

(* Renaming variables, size variables or tensors of a body, consistently  *)
(* and injectively, never changes its tag: ExprReMapper names everything  *)
(* by first visit (as MC_StructuralTag states it).                       *)
TagAlphaInvariant ==
    inp \in TagInputs =>
        \A p \in ST!Renamings : ST!Tag(ST!RenameBody(inp.b1, p)) = ST!Tag(inp.b1)

(* Two one-element bodies with the same tag are the same computation up   *)
(* to names (as MC_StructuralTag states it).                             *)
TagIsStructural ==
    inp \in TagInputs =>
        (ST!Tag(inp.b1) = ST!Tag(inp.b2) => ST!Equivalent(inp.b1, inp.b2))
=============================================================================
