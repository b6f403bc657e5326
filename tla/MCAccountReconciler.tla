------------------------ MODULE MCAccountReconciler ------------------------
(* Constants of AccountReconciler that a .cfg cannot write.                *)
EXTENDS AccountReconciler, TLC

CONSTANTS s1, s2

(* In `Rival' both LunchFlow accounts prefer s1 and only one of them can   *)
(* do with s2; in `Tie' nothing tells the SimpleFIN accounts apart.        *)
Sf == {s1, s2}
Lf == {1, 2}
One == {1}
Scoring(a, b, c, d) == (<<s1, 1>> :> a) @@ (<<s1, 2>> :> b) @@ (<<s2, 1>> :> c) @@ (<<s2, 2>> :> d)
Rival == Scoring(3, 3, 1, 2)
Tie == Scoring(2, 2, 2, 2)
TwoScorings == {Rival, Tie}
OneScoring == {(<<s1, 1>> :> 2) @@ (<<s2, 1>> :> 1)}
=============================================================================
