--------------------------- MODULE MC_SelectBest ---------------------------
(* Checks judge_schedule and the winner selection of auto_schedule over    *)
(* every cost list up to MaxLen long, against a reference written from the *)
(* spec (4.2 steps 5-6) that compares raw costs instead of scores.        *)
EXTENDS AutoScheduler, TLC

CONSTANTS MaxLen

VARIABLE costList

(* Reference order on costs: a valid (positive) cost beats every invalid  *)
(* one and a smaller valid cost beats a larger one; invalid costs tie.    *)
RefBeats(c, d) == c > 0 /\ (d <= 0 \/ c < d)

RefWinner(cs) ==
    CHOOSE b \in 1..Len(cs) :
        /\ \A i \in 1..Len(cs) : ~RefBeats(cs[i], cs[b])
        /\ \A i \in 1..(b - 1) : RefBeats(cs[b], cs[i])

Judged(cs) == [i \in 1..Len(cs) |-> JudgeScore(cs[i])]

(* spec 8: costs [2000, 1000, 500] ms at gflop 4 score [2, 4, 8] and the  *)
(* round picks the third; all-invalid costs pick the first.               *)
ASSUME Gflop = 4 =>
         LET spec8 == Judged(<<2000, 1000, 500>>)
         IN  /\ \A i \in 1..3 : spec8[i].num = <<2, 4, 8>>[i] * spec8[i].den
             /\ RefWinner(<<2000, 1000, 500>>) = 3
             /\ RefWinner(<<0, -5, 0>>) = 1

(* Cost-model outputs: invalid (negative, zero) and valid costs with ties. *)
MCCosts == {-1, 0, 1, 2, 4}

SelectInit == Init /\ costList = <<>>

SelectNext ==
    /\ Len(costList) < MaxLen
    /\ \E c \in Costs : costList' = Append(costList, c)
    /\ UNCHANGED vars

SelectSpec == SelectInit /\ [][SelectNext]_<<vars, costList>>

(* The round returns the candidate with the greatest score, ties going to *)
(* the lowest batch index, for every list of costs the cost model may     *)
(* return.                                                                *)
SelectBestIsFirstMax ==
    costList # <<>> => SelectBest(Judged(costList)) = RefWinner(costList)
=============================================================================
