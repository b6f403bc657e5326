---------------------------- MODULE MCUnifiedView ----------------------------
(* Constants of UnifiedView that a .cfg cannot write.                      *)
EXTENDS UnifiedView, TLC

CONSTANTS a1, a2, b1, b2,  \* accounts
          s1, s2, l1, l2, l3  \* transactions

(* Two transactions of one SimpleFIN account, two of one LunchFlow account *)
(* and one of the other.                                                   *)
TwoSf == (s1 :> a1) @@ (s2 :> a1)
TwoLf == (l1 :> b1) @@ (l2 :> b1) @@ (l3 :> b2)

(* The match of a1 moves to b2, while a2 takes b1; or ends, and a2 takes   *)
(* its partner; or both have it, as two match rules may say.               *)
Moving == {{<<a1, b1>>}, {<<a1, b2>>, <<a2, b1>>}, {<<a2, b1>>}, {<<a1, b1>>, <<a2, b1>>}}

(* Their scores, by Similarity.  A day has two instants: s1 and l1 are of  *)
(* the second and the first day, s2 and l2 of the third, l3 is pending.    *)
(* Amounts a cent apart are as good as equal.  Of SimpleFIN transactions   *)
(* s1 alone goes with l2 and l3, and rather than s2 with l1.               *)
Posted == [t \in SfTxns |-> IF t = s1 THEN 2 ELSE 4]
Dated == [t \in LfTxns |-> IF t = l1 THEN 0 ELSE 2]
SfData(t) == [posted |-> Posted[t], amount |-> IF t = s1 THEN 100 ELSE 102, pending |-> FALSE]
LfData(t) == [date |-> Dated[t], amount |-> IF t = l1 THEN 101 ELSE 100, pending |-> t = l3]

LOCAL Similarity == INSTANCE Similarity WITH Day <- 2, CentBelow <- {}, CentAtMost <- {100, 101}

Computed ==
  [m \in SfTxns \X LfTxns |-> Similarity!Score(SfData(m[1]), LfData(m[2]), m = <<s1, l1>>)]
OneScoring == {Computed}

(* All that there is, and the last two seconds of it.                      *)
Asked == {[account |-> a1, from |-> 0, to |-> Forever], [account |-> a1, from |-> 3, to |-> 4]}
=============================================================================
