--------------------------- MODULE MC_StructuralTag ---------------------------
(* Enumerates pairs of compute bodies, built one element at a time up to  *)
(* MaxLen elements from the expressions Exprs, and compares their tags    *)
(* with the reference notion of "the same body up to names".              *)
EXTENDS StructuralTag

CONSTANTS x, y, kk, n, A, B, Exprs, MaxLen

MCVarIds == {x, y, kk}
MCFuncs == {A, B}
MCShape == <<4>>

VARIABLES b1, b2

Leaves == {Var(x), Var(y), SVar(n), Int(1)}

(* Element-wise bodies: leaves, one binary node, a Halide call of either  *)
(* tensor and an extern call, each over a leaf.                           *)
Plain ==
    Leaves \cup {Add(a, b) : a, b \in Leaves}
           \cup {Call(f, <<a>>) : f \in {A, B}, a \in Leaves}
           \cup {Extern("exp", <<a>>) : a \in Leaves}

(* A sum over one reduction axis kk with combiner x + y and identity 0.   *)
SumOf(src, ext, cond) ==
    Reduce(<<Var(x)>>, <<Var(y)>>, <<Add(Var(x), Var(y))>>, <<Int(0)>>,
           <<src>>, <<[var |-> Var(kk), ext |-> ext]>>, cond)

Sums(conds) ==
    {SumOf(s, e, c) : s \in {Call(A, <<Var(kk)>>), Call(B, <<Var(kk)>>),
                             Add(Call(A, <<Var(kk)>>), Call(B, <<Var(kk)>>))},
                      e \in {4, 8}, c \in conds}

(* Every element-wise body and every unconditional sum.                   *)
MCExprs == Plain \cup Sums({Int(1)})

(* Sums without a condition and with the condition kk < n (a binary node *)
(* over the axis variable and a size variable).                           *)
MCCondExprs == Sums({Int(1), Add(Var(kk), SVar(n))})

(* Tensor reads for two-element bodies.                                   *)
MCMultiExprs == {Var(x), Call(A, <<Var(x)>>), Call(A, <<Var(y)>>),
                 Call(B, <<Var(x)>>)}

(* generate_tag_from_body's CHECKs: a reduction is the body's only element.*)
AppendOk(b, e) ==
    /\ Len(b) < MaxLen
    /\ e.k = "reduce" => b = <<>>
    /\ b # <<>> => b[1].k # "reduce"

TagInit == b1 = <<>> /\ b2 = <<>>

Extend1 == \E e \in Exprs : AppendOk(b1, e) /\ b1' = Append(b1, e) /\ UNCHANGED b2

Extend2 == \E e \in Exprs : AppendOk(b2, e) /\ b2' = Append(b2, e) /\ UNCHANGED b1

TagSpec == TagInit /\ [][Extend1 \/ Extend2]_<<b1, b2>>

(* Renaming variables, size variables or tensors of a body, consistently  *)
(* and injectively, never changes its tag: ExprReMapper names everything  *)
(* by first visit.                                                        *)
TagAlphaInvariant == \A p \in Renamings : Tag(RenameBody(b1, p)) = Tag(b1)

(* Two bodies with the same tag are the same computation up to names: the *)
(* tag identifies a body's structure.                                     *)
TagIsStructural == Tag(b1) = Tag(b2) => Equivalent(b1, b2)
=============================================================================
