----------------------------- MODULE UnifiedView -----------------------------
(***************************************************************************)
(* The transactions of a REC- account: get_unified_transactions of         *)
(* src/src/reconciler/db.rs, and list_transactions of                      *)
(* src/src/fdx/routes.rs around it.  The answer is put together from three *)
(* queries: the LunchFlow account matched with the SimpleFIN one, the      *)
(* SimpleFIN transactions with their rows, the LunchFlow transactions with *)
(* a row alone.  Runs of the reconciler empty and fill the tables between  *)
(* them (TxnReconciler).                                                   *)
(*                                                                         *)
(* The SimpleFIN account is in the cache.  The order of the list is left   *)
(* out.                                                                    *)
(***************************************************************************)
EXTENDS TxnReconciler

CONSTANTS
  SfPosted, LfDate,        \* when a transaction was posted: in seconds, in days
  SfPending, LfPending,    \* the pending transactions
  Day,                     \* seconds of a day
  Forever,                 \* i64::MAX
  Requests                 \* what is asked for: an account, a range of time

ASSUME ViewAssumption ==
  /\ SfPosted \in [SfTxns -> Nat] /\ LfDate \in [LfTxns -> Nat]
  /\ SfPending \subseteq SfTxns /\ LfPending \subseteq LfTxns
  /\ Day \in Nat \ {0} /\ Forever \in Nat
  /\ \A t \in SfTxns : SfPosted[t] <= Forever
  /\ \A t \in LfTxns : LfDate[t] <= Forever \div Day
  /\ Requests \subseteq [account : SfAccounts, from : Nat, to : Nat]
  /\ None \notin Requests /\ None \notin LfAccounts

VARIABLES
  view,                    \* the query the request is at
  asked, partner,          \* the request; the LunchFlow account found for it
  joined, single,          \* the SimpleFIN part of the list: matches, entries alone
  known,                   \* history: the SimpleFIN transactions there when it came
  settled, coveredSf, coveredLf,  \* history: the last run was alone; what it read
  calm                     \* history: settled since the request came

answer == <<view, asked, partner, joined, single, known>>
since  == <<settled, coveredSf, coveredLf, calm>>
uvars  == <<vars, answer, since>>

ViewTypeOK ==
  /\ view \in {"idle", "sfin", "lfOnly"}
  /\ asked \in Requests \cup {None} /\ partner \in LfAccounts \cup {None}
  /\ joined \subseteq SfTxns \X LfTxns /\ single \in [SfTxns -> Nat]
  /\ known \subseteq SfTxns
  /\ settled \in BOOLEAN /\ calm \in BOOLEAN
  /\ coveredSf \subseteq SfTxns /\ coveredLf \subseteq LfTxns
  /\ view # "idle" => asked \in Requests

UvInit ==
  /\ Init
  /\ view = "idle" /\ asked = None /\ partner = None
  /\ joined = {} /\ single = [t \in SfTxns |-> 0] /\ known = {}
  /\ settled = FALSE /\ coveredSf = {} /\ coveredLf = {} /\ calm = FALSE

-----------------------------------------------------------------------------
(* What the queries select.  A request without a start or an end is one    *)
(* for 0 or Forever; LunchFlow dates are compared with the days of both.   *)

BeforeEnd(t, q) ==  \* mutant: the end is exclusive
  t \in SfPending \/ (q.from <= SfPosted[t] /\ SfPosted[t] < q.to)
InSfRange(t, q) == t \in SfPending \/ (q.from <= SfPosted[t] /\ SfPosted[t] <= q.to)
NextDay(t, q) ==  \* mutant: the first day is left out
  t \in LfPending \/ (q.from \div Day < LfDate[t] /\ LfDate[t] <= q.to \div Day)
InLfRange(t, q) ==
  t \in LfPending \/ (q.from \div Day <= LfDate[t] /\ LfDate[t] <= q.to \div Day)

(* The lists of a SIMPLEFIN- and of a LUNCHFLOW- account. *)
SfinList(a, q) == {t \in transactions \cap OfSf(a) : InSfRange(t, q)}
LfList(b, q) == {t \in lf_transactions \cap OfLf(b) : InLfRange(t, q)}

Joined(q) == {m \in matched : m[1] \in SfinList(q.account, q)}

(* LEFT JOIN: a transaction without a row is listed too, as unreconciled.  *)
InnerJoin(q) ==  \* mutant: JOIN
  [t \in SfTxns |-> IF t \in SfinList(q.account, q) THEN sfinOnly[t] ELSE 0]
Single(q) ==
  [t \in SfTxns |-> IF t \notin SfinList(q.account, q) THEN 0
                    ELSE IF t \in SfOf(matched) THEN sfinOnly[t]
                    ELSE IF sfinOnly[t] = 0 THEN 1 ELSE sfinOnly[t]]

AnyLfOnly(b, q) ==  \* mutant: without rt.status = 'lf_only'
  [t \in LfTxns |-> IF t \notin LfList(b, q) THEN 0
                    ELSE IF t \in LfOf(matched) THEN 1 ELSE lfOnly[t]]
LfOnly(b, q) == [t \in LfTxns |-> IF t \in LfList(b, q) THEN lfOnly[t] ELSE 0]

-----------------------------------------------------------------------------
(* A request *)

AnyPartner(q) == LfOf(linked)  \* mutant: without WHERE sfin_account_id = ?
SwappedColumns(q) == {p[1] : p \in {o \in linked : o[1] = q.account}}  \* mutant
Partners(q) == {p[2] : p \in {o \in linked : o[1] = q.account}}

(* LIMIT 1, without an order. *)
FindPartner(q) ==
  /\ view = "idle"
  /\ view' = "sfin"
  /\ asked' = q
  /\ partner' \in (IF Partners(q) = {} THEN {None} ELSE Partners(q))
  /\ known' = SfinList(q.account, q)
  /\ calm' = settled
  /\ UNCHANGED <<vars, joined, single, settled, coveredSf, coveredLf>>

ReadSfin ==
  /\ view = "sfin"
  /\ view' = "lfOnly"
  /\ joined' = Joined(asked) /\ single' = Single(asked)
  /\ UNCHANGED <<vars, asked, partner, known, since>>

(* The answer, of which this query is the last part, or an error.          *)
Answer ==
  /\ view # "idle"
  /\ view' = "idle"
  /\ asked' = None /\ partner' = None
  /\ joined' = {} /\ single' = [t \in SfTxns |-> 0] /\ known' = {}
  /\ calm' = FALSE
  /\ UNCHANGED <<vars, settled, coveredSf, coveredLf>>

(* The part of the list that a query sent now selects.                     *)
Last == IF partner = None THEN [t \in LfTxns |-> 0] ELSE LfOnly(partner, asked)

-----------------------------------------------------------------------------
(* Beside it, the runs.  What a run without another beside it has read is  *)
(* covered until the next begins.                                          *)

Disturb ==
  settled' = FALSE /\ coveredSf' = {} /\ coveredLf' = {} /\ calm' = FALSE

Settle(r) ==
  IF AllWritten(r) /\ alone[r]
  THEN /\ settled' = TRUE /\ coveredSf' = sfDone[r] /\ coveredLf' = lfDone[r]
       /\ UNCHANGED calm
  ELSE UNCHANGED since

Reconcile(r) ==
  /\ \/ Begin(r) /\ Disturb
     \/ Run(r) /\ Settle(r)
     \/ Abort(r) /\ UNCHANGED since
  /\ UNCHANGED answer

Fetch == AddTxn /\ UNCHANGED <<answer, since>>

UvNext ==
  \/ \E r \in Runners : Reconcile(r)
  \/ Fetch
  \/ \E q \in Requests : FindPartner(q)
  \/ ReadSfin
  \/ Answer

UvSpec == UvInit /\ [][UvNext]_uvars

-----------------------------------------------------------------------------
(* Properties *)

(* Whatever runs do meanwhile, the list has every transaction of the       *)
(* SimpleFIN account that was there when the request came.                 *)
NoSfinMissing ==
  view = "lfOnly" => \A t \in known : single[t] > 0 \/ t \in SfOf(joined)

(* t is in the list, if at all, once; and it is there if `must'.           *)
Once(t, must) ==
  /\ \A m, n \in joined : m[2] = t /\ n[2] = t => m = n
  /\ Last[t] <= IF t \in LfOf(joined) THEN 0 ELSE 1
  /\ must => t \in LfOf(joined) \/ Last[t] = 1

Whole(q) == q.from = 0 /\ q.to = Forever

(* If no run has begun since one that was alone, the list of a matched     *)
(* account is the union of those of the two accounts: it has no match with *)
(* a stranger's, a SimpleFIN transaction with its matches or once alone,   *)
(* and a LunchFlow one once.  It may lack a LunchFlow one whose match is   *)
(* out of the range, or if either account has other partners.              *)
ListedOnce ==
  view = "lfOnly" /\ calm /\ partner # None =>
    /\ \A m \in joined : <<asked.account, LfOwner[m[2]]>> \in linked
    /\ \A t \in coveredSf \cap known : single[t] = IF t \in SfOf(joined) THEN 0 ELSE 1
    /\ \A t \in coveredLf \cap OfLf(partner) :
         Once(t, Whole(asked) /\ SfSole(asked.account) /\ LfSole(partner))

(* Wherever a request is cut in two, for ranges that follow on each other, *)
(* what it would list is in the answer to one part at least.  A posted     *)
(* SimpleFIN transaction is in one alone; a LunchFlow one may be in both,  *)
(* if the cut is not between two days and it is of the day of the cut.     *)
PagesMeet ==
  view = "sfin" => \A cut \in asked.from .. asked.to :
    LET first == [asked EXCEPT !.to = cut]
        rest == [asked EXCEPT !.from = cut + 1]
        Sf(q) == SfinList(q.account, q)
    IN  /\ Sf(first) \cup Sf(rest) = Sf(asked)
        /\ Sf(first) \cap Sf(rest) \subseteq SfPending
        /\ \A b \in LfAccounts :
             /\ LfList(b, first) \cup LfList(b, rest) = LfList(b, asked)
             /\ \A t \in (LfList(b, first) \cap LfList(b, rest)) \ LfPending :
                  LfDate[t] * Day <= cut /\ cut + 1 < (LfDate[t] + 1) * Day
=============================================================================
