---------------------------- MODULE MC_RocmIntrin ----------------------------
(* Lowers one intrinsic call through the ROCm rule registry: every warp    *)
(* shuffle at every lane, power-of-two width and argument at the group's   *)
(* boundaries, with the mask the activemask rule yields.                  *)
EXTENDS RocmIntrin

CONSTANT Widths

VARIABLE inp

None == [kind |-> "none"]

Float(bits) == DataType("float", bits, 1)
UInt32 == DataType("uint", 32, 1)

ShuffleOp == [shuffle |-> "tir.tvm_warp_shuffle",
              up      |-> "tir.tvm_warp_shuffle_up",
              down    |-> "tir.tvm_warp_shuffle_down"]

(* The mask lower_thread_allreduce passes: the activemask call, lowered.   *)
Mask == Lower(Call(UInt32, "tir.tvm_warp_activemask", <<>>))

ShuffleCall(kind, a, w) ==
    Call(Float(32), ShuffleOp[kind],
         <<Mask, Imm(Float(32), "v"), Imm(Int32, a), Imm(Int32, w),
           Imm(Int32, WaveSize)>>)

Deltas(w) == {0, 1, w - 1, w, w + 1, WaveSize - 1, WaveSize}

ShuffleInputs ==
    UNION {{[kind |-> "shuffle", lane |-> l, arg |-> a, width |-> w] :
               l \in 0..WaveSize - 1, a \in 0..w - 1} : w \in Widths}
    \cup
    UNION {{[kind |-> k, lane |-> l, arg |-> a, width |-> w] :
               k \in {"up", "down"}, l \in 0..WaveSize - 1, a \in Deltas(w)} :
           w \in Widths}

IntrinInit == inp = None

Pick == inp = None /\ inp' \in ShuffleInputs

IntrinSpec == IntrinInit /\ [][Pick]_inp

(* The lane DispatchShuffle's ds.bpermute reads, for the call as the rule  *)
(* registry lowers it, is the lane CUDA's shuffle of the same kind, width  *)
(* and argument reads, and the value permuted is the call's value.         *)
ShuffleMatchesCuda ==
    inp \in ShuffleInputs =>
        LET r == Lower(ShuffleCall(inp.kind, inp.arg, inp.width)) IN
        /\ r # CheckFailed
        /\ r.args[1] = "llvm.amdgcn.ds.bpermute"
        /\ r.args[3] = Imm(Float(32), "v")
        /\ BpermuteLane(EvalAddr(r.args[2], inp.lane))
              = CudaSrcLane(inp.kind, inp.lane, inp.arg, inp.width)

=============================================================================
