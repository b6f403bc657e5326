----------------------------- MODULE Similarity ------------------------------
(***************************************************************************)
(* What the reconciler of src/src/reconciler/lib.rs takes for the same     *)
(* amount, the same time and the same transaction.                         *)
(*                                                                         *)
(* Amounts are cents without a sign, scores hundredths.  The code computes *)
(* both in floating point: the scores compare with the threshold as the    *)
(* hundredths do, but amounts a cent apart differ by a little more or less *)
(* than 0.01, whichever their values make it.                              *)
(***************************************************************************)
EXTENDS Integers

CONSTANTS
  Day,                     \* seconds of a day
  CentBelow, CentAtMost    \* the n for which n and n + 1 differ by < 0.01, <= 0.01

ASSUME SimilarityAssumption ==
  /\ Day \in Nat \ {0}
  /\ CentBelow \subseteq CentAtMost /\ CentAtMost \subseteq Nat

AtMostCent(a, b, near) == a = b \/ (b = a + 1 /\ a \in near) \/ (a = b + 1 /\ b \in near)

Distance(m, n) == IF m <= n THEN n - m ELSE m - n

(* LunchFlow says the day, which counts as its first second: of two days,  *)
(* the one before seems nearer than the one after.                         *)
DaysApart(posted, date) == Distance(posted, date * Day) \div Day

(* What the days between two posted transactions count for.                *)
DayPoints == [d \in 0 .. 5 |->
  IF d = 0 THEN 40 ELSE IF d = 1 THEN 25 ELSE IF d = 2 THEN 15 ELSE IF d = 3 THEN 10 ELSE 5]

SfTxn == [posted : Int, amount : Nat, pending : BOOLEAN]
LfTxn == [date : Int, amount : Nat, pending : BOOLEAN]

(* score_transactions; `alike' if the description of one holds that, or    *)
(* the merchant, of the other.                                             *)
Score(s, l, alike) ==
  LET bonus == IF alike THEN 15 ELSE 0
  IN  IF ~AtMostCent(s.amount, l.amount, CentAtMost) THEN 0
      ELSE IF s.pending /\ l.pending THEN 40 + 30 + bonus
      ELSE IF DaysApart(s.posted, l.date) > 5 THEN 0
      ELSE 40 + DayPoints[DaysApart(s.posted, l.date)] + bonus
             + (IF s.pending = l.pending THEN 5 ELSE 0)
=============================================================================
