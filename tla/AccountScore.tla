---------------------------- MODULE AccountScore -----------------------------
(***************************************************************************)
(* How similar two accounts are: score_accounts_by_transactions of         *)
(* src/src/reconciler/lib.rs, and what reconcile_accounts makes of it.     *)
(*                                                                         *)
(* The latest transactions of both accounts are read in descending order,  *)
(* and each SimpleFIN one, in turn, takes the first LunchFlow one left     *)
(* that has its amount and about its time.  A step is one turn.            *)
(***************************************************************************)
EXTENDS Similarity, Sequences, FiniteSets

CONSTANTS
  SfLists, LfLists,        \* the lists the two queries may return
  Window,                  \* the days that two transactions may be apart: 5
  MinTransactions          \* MIN_TRANSACTIONS

ASSUME ListAssumption ==
  /\ \A s \in SfLists : s \in Seq([posted : Nat, amount : Nat])
  /\ \A l \in LfLists : l \in Seq([date : Nat, amount : Nat])
  /\ \A s \in SfLists : \A m, n \in DOMAIN s : m < n => s[m].posted >= s[n].posted
  /\ \A l \in LfLists : \A m, n \in DOMAIN l : m < n => l[m].date >= l[n].date
  /\ Window \in Nat /\ MinTransactions \in Nat \ {0}

VARIABLES
  comparable,              \* no two different currencies
  sfTxns, lfTxns,          \* the lists
  turn,                    \* the SimpleFIN transaction whose turn it is
  used,                    \* the LunchFlow ones taken
  matched

vars == <<comparable, sfTxns, lfTxns, turn, used, matched>>

MinCount == IF Len(sfTxns) <= Len(lfTxns) THEN Len(sfTxns) ELSE Len(lfTxns)

(* The fraction matched / MinCount, the score, is never above 1.           *)
ScoreTypeOK ==
  /\ comparable \in BOOLEAN /\ sfTxns \in SfLists /\ lfTxns \in LfLists
  /\ turn \in 1 .. Len(sfTxns) + 1
  /\ used \subseteq DOMAIN lfTxns
  /\ matched \in 0 .. MinCount

Init ==
  /\ comparable \in BOOLEAN /\ sfTxns \in SfLists /\ lfTxns \in LfLists
  /\ turn = 1 /\ used = {} /\ matched = 0

Compatible(s, l) ==
  AtMostCent(s.amount, l.amount, CentBelow) /\ DaysApart(s.posted, l.date) <= Window

AnyFit == {j \in DOMAIN lfTxns : Compatible(sfTxns[turn], lfTxns[j])}  \* mutant: without used_lf
Fit == {j \in (DOMAIN lfTxns) \ used : Compatible(sfTxns[turn], lfTxns[j])}

(* Too few transactions, or other currencies, and none has a turn.         *)
Scored == comparable /\ MinCount >= MinTransactions
Turn == Scored /\ turn <= Len(sfTxns) /\ turn' = turn + 1 /\ UNCHANGED <<comparable, sfTxns, lfTxns>>

LastFit(j) == \A k \in Fit : k <= j  \* mutant: the lists are in opposite orders
FirstFit(j) == \A k \in Fit : j <= k

Take ==
  /\ Turn
  /\ \E j \in Fit : FirstFit(j) /\ used' = used \cup {j}
  /\ matched' = matched + 1

Pass ==
  /\ Turn
  /\ Fit = {}
  /\ UNCHANGED <<used, matched>>

Next == Take \/ Pass

Spec == Init /\ [][Next]_vars

(* The decision of reconcile_accounts, for names similar by so many        *)
(* hundredths: names alone if there is nothing else; and as a bonus of 15  *)
(* in 100, which for accounts without a score is never enough.             *)
Close(name) ==
  IF comparable /\ MinCount = 0 THEN name >= 60
  ELSE Scored /\ 10000 * matched + 15 * name * MinCount >= 6000 * MinCount

-----------------------------------------------------------------------------
(* Properties *)

(* Pairs of the lists' transactions that go together, each in one at most. *)
Pairings ==
  {M \in SUBSET {p \in (DOMAIN sfTxns) \X (DOMAIN lfTxns) : Compatible(sfTxns[p[1]], lfTxns[p[2]])} :
     \A p, q \in M : p # q => p[1] # q[1] /\ p[2] # q[2]}

CentApart ==
  \E m \in DOMAIN sfTxns, n \in DOMAIN lfTxns : Distance(sfTxns[m].amount, lfTxns[n].amount) = 1

(* The turns find as many pairs as there can be, in whatever order the     *)
(* queries return transactions of one time; or half as many at least, if   *)
(* amounts a cent apart are among them.                                    *)
GreedyIsMaximum ==
  Scored /\ turn > Len(sfTxns) =>
    \A M \in Pairings : Cardinality(M) <= (IF CentApart THEN 2 ELSE 1) * matched

(* "Below this, the caller falls back to name similarity alone"            *)
(* (lib.rs:28, of MIN_TRANSACTIONS).                                    *)
FewFallBack ==
  comparable /\ MinCount < MinTransactions =>
    \A name \in 0 .. 100 : Close(name) <=> name >= 60
=============================================================================
