----------------------------- MODULE RocmShuffle -----------------------------
(* DispatchShuffle (target/llvm/intrin_rule_rocm.cc 57-93) lowers TVM's   *)
(* warp shuffles to AMDGPU: the own lane from mbcnt.lo/mbcnt.hi, the      *)
(* source lane computed in 32-bit integers, and ds.bpermute reading the   *)
(* value of the lane its byte address names.  Values are 32-bit two's-    *)
(* complement integers.  With lanes below 64 and arguments up to 64 no    *)
(* sum, difference or index << 2 leaves the 32-bit range, so only the     *)
(* bitwise operators need the two's-complement encoding.                  *)
EXTENDS Integers, FiniteSets

CONSTANT WaveSize   \* lanes of an AMDGPU wavefront

ASSUME WaveSize = 64

(* Bit i of a 32-bit two's-complement value; bit 31 is the sign.         *)
Bit(x, i) == IF i = 31 THEN x < 0 ELSE (x \div 2^i) % 2 = 1

MinInt == -1073741824 - 1073741824   \* -2^31, the weight of bit 31

(* a & b on 32-bit values, bit by bit.                                    *)
BAnd(a, b) ==
    LET RECURSIVE Low(_)
        Low(i) == IF i > 30 THEN 0
                  ELSE (IF Bit(a, i) /\ Bit(b, i) THEN 2^i ELSE 0) + Low(i + 1)
    IN  Low(0) + (IF Bit(a, 31) /\ Bit(b, 31) THEN MinInt ELSE 0)

(* ~a on 32-bit two's-complement values.                                  *)
BNot(a) == -a - 1

(* llvm.amdgcn.mbcnt.lo(mask, acc): acc plus the set bits of mask below   *)
(* the lane among lanes 0..31; mbcnt.hi the same for lanes 32..63.        *)
MbcntLo(lane, mask, acc) ==
    acc + Cardinality({i \in 0..31 : i < lane /\ Bit(mask, i)})
MbcntHi(lane, mask, acc) ==
    acc + Cardinality({i \in 0..31 : 32 + i < lane /\ Bit(mask, i)})

(* self = mbcnt.hi(-1, mbcnt.lo(-1, 0)).                                  *)
SelfLane(lane) == MbcntHi(lane, -1, MbcntLo(lane, -1, 0))

(* The base of self's width-wide group: self & ~(width - 1).              *)
GroupBase(self, width) == BAnd(self, BNot(width - 1))

(* Faulty variant of ShuffleIndex: shuffle_down's bound test with > in    *)
(* place of >=.                                                           *)
ShuffleIndexDownOffByOne(kind, self, arg, width) ==
    CASE kind = "shuffle" -> arg + GroupBase(self, width)
      [] kind = "up" ->
           LET i == self - arg
           IN  IF i < GroupBase(self, width) THEN self ELSE i
      [] kind = "down" ->
           LET i == self + arg
           IN  IF BAnd(self, width - 1) + arg > width THEN self ELSE i

(* The index computation of the three branches (lines 77-89).             *)
ShuffleIndex(kind, self, arg, width) ==
    CASE kind = "shuffle" -> arg + GroupBase(self, width)
      [] kind = "up" ->
           LET i == self - arg
           IN  IF i < GroupBase(self, width) THEN self ELSE i
      [] kind = "down" ->
           LET i == self + arg
           IN  IF BAnd(self, width - 1) + arg >= width THEN self ELSE i

(* ds.bpermute(index << 2, var): the lane named by bits 7..2 of the byte  *)
(* address.                                                               *)
BpermuteLane(addr) == (addr \div 4) % WaveSize

(* The lane whose value DispatchShuffle's result reads.                   *)
RocmSrcLane(kind, lane, arg, width) ==
    BpermuteLane(ShuffleIndex(kind, SelfLane(lane), arg, width) * 4)

(* Reference: CUDA's __shfl_sync / __shfl_up_sync / __shfl_down_sync lane *)
(* semantics on a WaveSize-lane warp split into width-wide groups: a      *)
(* shuffle reads lane srcLane mod width of the caller's group; up and     *)
(* down keep the caller's own value when the source leaves the group.     *)
CudaSrcLane(kind, lane, arg, width) ==
    LET base == lane - (lane % width) IN
    CASE kind = "shuffle" -> base + (arg % width)
      [] kind = "up"      -> IF (lane % width) < arg THEN lane ELSE lane - arg
      [] kind = "down"    -> IF (lane % width) + arg >= width THEN lane ELSE lane + arg

=============================================================================
