---------------------------- MODULE StructuralTag ----------------------------
(* The structural tag of a compute body (graph/abstract_graph.cc):        *)
(* ExprReMapper renames variables and tensors to v0, v1, ... and T0, T1,  *)
(* ... in order of first visit, and generate_tag_from_body prints the     *)
(* renamed body.  Expressions are small trees of records:                 *)
(*   [k |-> "var"  | "svar", id]        a Var / SizeVar                   *)
(*   [k |-> "int", val]                 a constant                        *)
(*   [k |-> "add", a, b]                any binary node (visited a, b)    *)
(*   [k |-> "call", ct |-> "halide" | "extern", name, args]               *)
(*   [k |-> "reduce", lhs, rhs, res, ident, src, axis, cond]              *)
(* with axis a sequence of [var, ext].  The printed form of a renamed     *)
(* tree is the tree itself: TVM's printer writes every part of these      *)
(* nodes that the tag includes, and this model keeps exactly those parts. *)
(* dtypes are left out (one dtype throughout).                            *)
EXTENDS Naturals, Sequences, TLC

CONSTANTS
    VarIds,       \* Var objects of the bodies
    SVarIds,      \* SizeVar objects
    Funcs,        \* the FunctionRefs of Halide calls (tensors)
    Shape         \* the output shape, printed as given

Var(v) == [k |-> "var", id |-> v]
SVar(v) == [k |-> "svar", id |-> v]
Int(n) == [k |-> "int", val |-> n]
Add(a, b) == [k |-> "add", a |-> a, b |-> b]
Call(f, args) == [k |-> "call", ct |-> "halide", name |-> f, args |-> args]
Extern(nm, args) == [k |-> "call", ct |-> "extern", name |-> nm, args |-> args]
Reduce(lhs, rhs, res, ident, src, axis, cond) ==
    [k |-> "reduce", lhs |-> lhs, rhs |-> rhs, res |-> res, ident |-> ident,
     src |-> src, axis |-> axis, cond |-> cond]

-----------------------------------------------------------------------------
(* The remapper's state: var_map, size_var_map, call_map, count_var,      *)
(* count_call.  A fresh ExprReMapper has all of them empty or zero.       *)
Fresh == [vm |-> [x \in {} |-> 0], sm |-> [x \in {} |-> 0],
          cm |-> [x \in {} |-> 0], cv |-> 0, cc |-> 0]

(* get_new_var_name / get_new_tensor_name: "v" / "T" and the counter.     *)
VName(n) == "v" \o ToString(n)
TName(n) == "T" \o ToString(n)

RECURSIVE Remap(_, _), RemapSeq(_, _)

(* VisitExpr over an Array, left to right, threading the maps.            *)
RemapSeq(es, st) ==
    IF es = <<>> THEN [e |-> <<>>, st |-> st]
    ELSE LET h == Remap(Head(es), st)
             t == RemapSeq(Tail(es), h.st)
         IN  [e |-> <<h.e>> \o t.e, st |-> t.st]

(* Faulty variant of RemapVar: var_map never consulted, every occurrence  *)
(* of a Var gets a fresh name.                                            *)
RemapVarAlwaysFresh(e, st) ==
    [e |-> Var(VName(st.cv)),
     st |-> [st EXCEPT !.vm = (e.id :> VName(st.cv)) @@ @, !.cv = @ + 1]]

(* VisitExpr_ on a VarNode: the mapped Var, or a new one named            *)
(* get_new_var_name().                                                    *)
RemapVar(e, st) ==
    IF e.id \in DOMAIN st.vm THEN [e |-> Var(st.vm[e.id]), st |-> st]
    ELSE [e |-> Var(VName(st.cv)),
          st |-> [st EXCEPT !.vm = @ @@ (e.id :> VName(st.cv)), !.cv = @ + 1]]

(* VisitExpr_ on a SizeVarNode: its own map, the shared counter.          *)
RemapSizeVar(e, st) ==
    IF e.id \in DOMAIN st.sm THEN [e |-> SVar(st.sm[e.id]), st |-> st]
    ELSE [e |-> SVar(VName(st.cv)),
          st |-> [st EXCEPT !.sm = @ @@ (e.id :> VName(st.cv)), !.cv = @ + 1]]

(* Faulty variant of RemapCall: Halide calls keep their tensor's name.    *)
RemapCallKeepName(e, st) ==
    LET a == RemapSeq(e.args, st)
    IN  [e |-> [e EXCEPT !.args = a.e], st |-> a.st]

(* VisitExpr_ on a CallNode: arguments first; a Halide call is then       *)
(* renamed through call_map, any other call keeps its name.               *)
RemapCall(e, st) ==
    LET a == RemapSeq(e.args, st)
        s == a.st
    IN  IF e.ct # "halide"
        THEN [e |-> [e EXCEPT !.args = a.e], st |-> s]
        ELSE IF e.name \in DOMAIN s.cm
        THEN [e |-> [e EXCEPT !.args = a.e, !.name = s.cm[e.name]], st |-> s]
        ELSE [e |-> [e EXCEPT !.args = a.e, !.name = TName(s.cc)],
              st |-> [s EXCEPT !.cm = @ @@ (e.name :> TName(s.cc)), !.cc = @ + 1]]

(* VisitExpr_ on a ReduceNode: combiner lhs, rhs, result, identity,       *)
(* then the sources, the axis variables and the condition, in that order. *)
RemapReduce(e, st) ==
    LET l   == RemapSeq(e.lhs, st)
        r   == RemapSeq(e.rhs, l.st)
        res == RemapSeq(e.res, r.st)
        idn == RemapSeq(e.ident, res.st)
        src == RemapSeq(e.src, idn.st)
        ax  == RemapSeq([i \in DOMAIN e.axis |-> e.axis[i].var], src.st)
        c   == Remap(e.cond, ax.st)
    IN  [e |-> [e EXCEPT !.lhs = l.e, !.rhs = r.e, !.res = res.e,
                         !.ident = idn.e, !.src = src.e, !.cond = c.e,
                         !.axis = [i \in DOMAIN e.axis |->
                                     [var |-> ax.e[i], ext |-> e.axis[i].ext]]],
         st |-> c.st]

(* ExprMutator::VisitExpr dispatch; other nodes rebuilt from their        *)
(* visited children.                                                      *)
Remap(e, st) ==
    CASE e.k = "var"    -> RemapVar(e, st)
      [] e.k = "svar"   -> RemapSizeVar(e, st)
      [] e.k = "int"    -> [e |-> e, st |-> st]
      [] e.k = "add"    -> LET a == Remap(e.a, st)
                               b == Remap(e.b, a.st)
                           IN  [e |-> Add(a.e, b.e), st |-> b.st]
      [] e.k = "call"   -> RemapCall(e, st)
      [] e.k = "reduce" -> RemapReduce(e, st)

(* generate_tag_from_body.  An empty body gives the empty string.  A      *)
(* reduction (the only element) prints the shape, the axis extents, the   *)
(* combiner and the sources; its axis variables and condition are not     *)
(* printed.  Otherwise each element is renamed by its own fresh remapper. *)
Tag(body) ==
    IF body = <<>> THEN <<>>
    ELSE IF body[1].k = "reduce"
    THEN LET r == Remap(body[1], Fresh).e
         IN  <<"R", Shape, [i \in DOMAIN r.axis |-> r.axis[i].ext],
               <<r.res, r.lhs, r.rhs, r.ident>>, r.src>>
    ELSE <<"S", Shape, [i \in DOMAIN body |-> Remap(body[i], Fresh).e]>>

-----------------------------------------------------------------------------
(* Reference: two bodies are the same computation up to names when one    *)
(* bijective renaming of variables, size variables and tensors maps one   *)
(* onto the other.                                                        *)
Renamings ==
    [v : Permutations(VarIds), s : Permutations(SVarIds), f : Permutations(Funcs)]

RECURSIVE Rename(_, _)
Rename(e, p) ==
    LET RS(es) == [i \in DOMAIN es |-> Rename(es[i], p)]
    IN
    CASE e.k = "var"    -> Var(p.v[e.id])
      [] e.k = "svar"   -> SVar(p.s[e.id])
      [] e.k = "int"    -> e
      [] e.k = "add"    -> Add(Rename(e.a, p), Rename(e.b, p))
      [] e.k = "call"   -> [e EXCEPT !.args = RS(e.args),
                                     !.name = IF e.ct = "halide" THEN p.f[@] ELSE @]
      [] e.k = "reduce" -> [e EXCEPT !.lhs = RS(e.lhs), !.rhs = RS(e.rhs),
                                     !.res = RS(e.res), !.ident = RS(e.ident),
                                     !.src = RS(e.src), !.cond = Rename(e.cond, p),
                                     !.axis = [i \in DOMAIN e.axis |->
                                        [var |-> Rename(e.axis[i].var, p),
                                         ext |-> e.axis[i].ext]]]

RenameBody(b, p) == [i \in DOMAIN b |-> Rename(b[i], p)]

Equivalent(b1, b2) == \E p \in Renamings : RenameBody(b1, p) = b2

=============================================================================
