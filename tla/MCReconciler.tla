----------------------------- MODULE MCReconciler -----------------------------
(* Constants of Reconciler that a .cfg cannot write.                       *)
EXTENDS Reconciler, TLC

CONSTANTS a, s, l  \* an account, a transaction of it and one of LunchFlow's

(* Neither the accounts nor their transactions are alike: the accounts are *)
(* matched while there is a rule, and the transactions stay alone.         *)
One == {1}
Apart == {<<a, 1>> :> 1}
SfTxnOf == s :> a
LfTxnOf == l :> 1
TxnsApart == {<<s, l>> :> 1}
=============================================================================
