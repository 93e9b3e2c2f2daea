------------------------------ MODULE RocmIntrin ------------------------------
(* The ROCm intrinsic rules of target/llvm/intrin_rule_rocm.cc: the rule   *)
(* registry (lines 95-154) and the three handlers it names.  A TIR         *)
(* expression is a record: an immediate [dtype, value] or a call [dtype,   *)
(* op, args] whose op is the Op's name string.  TLC treats strings as      *)
(* sequences of characters, so name.substr(...) is SubSeq and operator<<   *)
(* on an ostringstream is \o.                                              *)
EXTENDS RocmShuffle, Sequences, TLC

DataType(code, bits, lanes) == [code |-> code, bits |-> bits, lanes |-> lanes]
Int32 == DataType("int", 32, 1)

Imm(dt, v) == [dtype |-> dt, value |-> v]
Call(dt, op, args) == [dtype |-> dt, op |-> op, args |-> args]

(* An ICHECK that fails aborts the lowering.                               *)
CheckFailed == [check |-> "failed"]

(* std::string::substr(0, n) and substr(pos).                             *)
Prefix(s, n) == IF Len(s) <= n THEN s ELSE SubSeq(s, 1, n)
Suffix(s, pos) == IF Len(s) <= pos THEN "" ELSE SubSeq(s, pos + 1, Len(s))

(* Lines 35-55: the op must be in the "tir." namespace; the call becomes a *)
(* call_pure_extern of "__ocml_<name>_f<bits>" with the call's arguments   *)
(* after the name and the call's dtype.                                    *)
DispatchPureExternOCML(call) ==
    IF Prefix(call.op, 4) # "tir." THEN CheckFailed
    ELSE Call(call.dtype, "tir.call_pure_extern",
              <<"__ocml_" \o Suffix(call.op, 4) \o "_f"
                  \o ToString(call.dtype.bits)>> \o call.args)

(* The source-lane index DispatchShuffle builds, as an expression of the  *)
(* executing lane: its value at a lane is ShuffleIndex of that lane's      *)
(* self.  Shl2 is index << 2.                                              *)
IndexExpr(kind, arg, width) == [kind |-> kind, arg |-> arg, width |-> width]
Shl2(e) == [shl2 |-> e]
EvalAddr(e, lane) ==
    ShuffleIndex(e.shl2.kind, SelfLane(lane), e.shl2.arg, e.shl2.width) * 4

(* The branch lines 77-85 take on the call's op; any other op fails the  *)
(* ICHECK of line 85.                                                      *)
ShuffleKind(op) ==
    CASE op = "tir.tvm_warp_shuffle"    -> "shuffle"
      [] op = "tir.tvm_warp_shuffle_up" -> "up"
      [] op = "tir.tvm_warp_shuffle_down" -> "down"
      [] OTHER -> "unknown"

(* Lines 57-93: five arguments (mask, value, lane or delta, width,         *)
(* warp_size), a 32-bit value, and a ds.bpermute of the value at the      *)
(* computed index.  The mask is not read.                                  *)
DispatchShuffle(call) ==
    LET var == call.args[2]
        kind == ShuffleKind(call.op)
    IN  IF Len(call.args) # 5 \/ var.dtype.bits # 32 \/ kind = "unknown"
        THEN CheckFailed
        ELSE Call(var.dtype, "tir.call_pure_extern",
                  <<"llvm.amdgcn.ds.bpermute",
                    Shl2(IndexExpr(kind, call.args[3].value,
                                   call.args[4].value)),
                    var>>)

(* Lines 97-102: no active mask on ROCm; the rule returns int32 zero.      *)
WarpActiveMask(call) == Imm(Int32, 0)

(* The math rules of lines 110-152, all bound to DispatchPureExternOCML.   *)
OcmlRuleNames ==
    {"floor", "ceil", "round", "trunc", "fabs", "exp", "exp2", "exp10",
     "erf", "fma", "log", "log2", "log10", "sqrt", "pow", "tanh", "tan",
     "cos", "cosh", "sin", "sinh", "atan"}

(* The registry "tvm.intrin.rule.rocm.<key>" -> handler, lines 95-154.     *)
RocmRules ==
    [k \in OcmlRuleNames |-> "ocml"]
    @@ ("tvm_warp_activemask" :> "activemask")
    @@ [k \in {"tvm_warp_shuffle", "tvm_warp_shuffle_up",
               "tvm_warp_shuffle_down"} |-> "shuffle"]

(* A call lowered by the rule registered under its op's name; a call with *)
(* no rule is left as it is.                                               *)
Lower(call) ==
    LET key == Suffix(call.op, 4) IN
    CASE key \notin DOMAIN RocmRules      -> call
      [] RocmRules[key] = "ocml"          -> DispatchPureExternOCML(call)
      [] RocmRules[key] = "activemask"    -> WarpActiveMask(call)
      [] RocmRules[key] = "shuffle"       -> DispatchShuffle(call)

=============================================================================
