------------------------------ MODULE MCFdxApi -------------------------------
(* Constants of FdxApi that a .cfg cannot write.                           *)
EXTENDS FdxApi, TLC

CONSTANT s1

(* Both LunchFlow accounts would do for s1.                                *)
Lf == {1, 2}
Either == {(<<s1, 1>> :> 2) @@ (<<s1, 2>> :> 2)}
=============================================================================
