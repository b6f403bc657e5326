-------------------------- MODULE LunchFlowFetcher --------------------------
(***************************************************************************)
(* src/src/lunchflow/fetcher.rs: the polling loop with LunchFlow's         *)
(* do_fetch.  FetcherLoop's contract of do_fetch is replaced by the code:  *)
(* one request lists the accounts, then each account is written, and for   *)
(* an active one the transactions and holdings are asked for and written.  *)
(*                                                                         *)
(* LunchFlow is external.  It shows the transaction watched as pending,    *)
(* without an id, from its date on, and under an id once it is `visible'.  *)
(* Dates are days of `Day' instants.  Balances and holdings are left out:  *)
(* what is kept of them is that their requests never fail a cycle.         *)
(***************************************************************************)
EXTENDS FetcherLoop, FiniteSets

CONSTANTS
  Accounts,
  Home,          \* the account of the transaction watched; always listed
  Day,
  Gaps,          \* may the request for an account's transactions fail?
  Dormancy,      \* may Home be other than active?
  SfConfigured,  \* is SimpleFIN configured too?
  MaxChanges     \* bound on the changes of status

ASSUME AccountAssumption ==
  /\ Home \in Accounts
  /\ None \notin Accounts
  /\ Day \in Nat \ {0}
  /\ Gaps \in BOOLEAN /\ Dormancy \in BOOLEAN /\ SfConfigured \in BOOLEAN
  /\ MaxChanges \in Nat
ASSUME LunchFlowAssumption == ~HasNextStart

VARIABLES
  status,      \* of every account, at the provider
  changes,
  step,        \* what lf_fetch is at
  listing,     \* the statuses that list_accounts gave
  todo,        \* the accounts of the listing not yet visited
  current,     \* the one being visited, or None
  answer,      \* what the answer for it has of the transaction
  lf_accounts, \* the ids in the table
  pendingRow,  \* is the row lf_pending_{Home}_{date} the transaction's?
  offered,     \* history: was it in the database when the reconciler last ran?
  logged       \* history: did that run fail?

upstream == <<status, changes>>
visit    == <<step, listing, todo, current, answer>>
tables   == <<lf_accounts, pendingRow>>
offering == <<offered, logged>>
lfvars   == <<vars, upstream, visit, tables, offering>>

Statuses == [Accounts -> {"active", "other", "absent"}]

LfTypeOK ==
  /\ TypeOK
  /\ status \in Statuses /\ listing \in Statuses
  /\ changes \in 0 .. MaxChanges
  /\ step \in {"list", "next", "ask", "store", "holdings"}
  /\ todo \subseteq Accounts
  /\ current \in Accounts \cup {None}
  /\ answer \in {"nothing", "pending", "settled"}
  /\ lf_accounts \subseteq Accounts
  /\ pendingRow \in BOOLEAN /\ offered \in BOOLEAN /\ logged \in BOOLEAN

Absent == [a \in Accounts |-> "absent"]

(* The locals of lf_fetch are gone. *)
NoVisit ==
  /\ step' = "list" /\ listing' = Absent /\ todo' = {}
  /\ current' = None /\ answer' = "nothing"

LfInit ==
  /\ Init
  /\ status \in {s \in Statuses : s[Home] = "active"}
  /\ changes = 0
  /\ step = "list" /\ listing = Absent /\ todo = {}
  /\ current = None /\ answer = "nothing"
  /\ lf_accounts = {} /\ pendingRow = FALSE
  /\ offered = FALSE /\ logged = FALSE

-----------------------------------------------------------------------------
(* A run of the reconciler: what is in the database is before it, or a     *)
(* statement fails, which is logged and leaves nothing else behind.        *)
Reconcile ==
  \/ offered' = stored /\ logged' = FALSE
  \/ Faults # {} /\ logged' = TRUE /\ UNCHANGED offered

(* main runs the reconciler before it spawns the task, if SimpleFIN is     *)
(* configured.  A process whose client cannot be built takes no such step. *)
StartAlone ==  \* mutant: no run of the reconciler at startup
  Start /\ UNCHANGED <<upstream, visit, tables, offering>>

LfStart ==
  /\ Start
  /\ IF SfConfigured THEN Reconcile ELSE UNCHANGED offering
  /\ UNCHANGED <<upstream, visit, tables>>

(* post_fetch_success.                                                     *)
LfPostFetch ==
  /\ PostFetch
  /\ Reconcile
  /\ UNCHANGED <<upstream, visit, tables>>

-----------------------------------------------------------------------------
(* do_fetch: lf_fetch *)

List ==
  /\ pc = "fetching" /\ step = "list"
  /\ listing' = status
  /\ todo' = {a \in Accounts : status[a] # "absent"}
  /\ step' = "next"
  /\ UNCHANGED <<vars, upstream, current, answer, tables, offering>>

(* get_balance, upsert_lf_account, and on to the transactions if the       *)
(* account is active.                                                      *)
Visit(a, rows) ==
  /\ step = "next"
  /\ a \in todo
  /\ todo' = todo \ {a}
  /\ lf_accounts' = rows
  /\ IF listing[a] = "active"
     THEN current' = a /\ step' = "ask"
     ELSE UNCHANGED <<current, step>>
  /\ UNCHANGED <<vars, upstream, listing, answer, pendingRow, offering>>

UpsertLater(a) == Visit(a, lf_accounts)  \* mutant: transactions are written first

UpsertAccount(a) == Visit(a, lf_accounts \cup {a})

(* The window in days, both ends included.                                 *)
DayOf(t) == t \div Day
BeforeToday ==  \* mutant: as if `to' were exclusive
  DayOf(from_ts) <= DayOf(txn.posted) /\ DayOf(txn.posted) < DayOf(now)
InDates == DayOf(from_ts) <= DayOf(txn.posted) /\ DayOf(txn.posted) <= DayOf(now)

Shown ==
  IF current # Home \/ ~InDates \/ txn.posted > clock THEN "nothing"
  ELSE IF txn.visible <= clock THEN "settled" ELSE "pending"

AskTransactions ==
  /\ step = "ask"
  /\ \/ answer' = Shown /\ step' = "store"
     \/ Gaps /\ step' = "holdings" /\ UNCHANGED answer
  /\ UNCHANGED <<vars, upstream, listing, todo, current, tables, offering>>

(* A settled transaction is a row under its own id.  The pending ones of   *)
(* an account and date share one row, which the last of them gets.         *)
UpsertTransactions ==
  /\ step = "store"
  /\ step' = "holdings"
  /\ answer' = "nothing"
  /\ stored' = (stored \/ answer = "settled")
  /\ \/ pendingRow' = (pendingRow \/ answer = "pending")
     \/ current = Home /\ pendingRow' = FALSE
  /\ UNCHANGED <<pc, clock, memory, config, txn, history,
                 upstream, listing, todo, current, lf_accounts, offering>>

(* get_holdings and replace_lf_holdings.                                   *)
Holdings ==
  /\ step = "holdings"
  /\ step' = "next"
  /\ current' = None
  /\ UNCHANGED <<vars, upstream, listing, todo, answer, tables, offering>>

LfFetchOk ==
  /\ step = "next" /\ todo = {}
  /\ Succeed
  /\ NoVisit
  /\ UNCHANGED <<upstream, tables, offering>>

(* list_accounts fails, or a write; requests for an account do not.        *)
LfFetchErr ==
  /\ \/ step = "list"
     \/ "write" \in Faults /\ (step = "next" => todo # {}) /\ step # "ask"
  /\ FetchErr
  /\ NoVisit
  /\ UNCHANGED <<upstream, tables, offering>>

-----------------------------------------------------------------------------

LfLoopStep ==
  \/ /\ LoadLastFetched \/ LoadFromTs \/ WaitRemainder \/ BeginCycle \/ PersistLastFetched
     /\ UNCHANGED <<upstream, visit, tables, offering>>
  \/ LfPostFetch

LfTick == Tick /\ UNCHANGED <<upstream, visit, tables, offering>>

(* An account appears, goes, loses its connection or gets it back.         *)
SetStatus ==
  /\ changes < MaxChanges
  /\ changes' = changes + 1
  /\ \E a \in Accounts, s \in {"active", "other", "absent"} :
       /\ a = Home => Dormancy /\ s # "absent"
       /\ status' = [status EXCEPT ![a] = s]
  /\ UNCHANGED <<vars, visit, tables, offering>>

LfCrash ==
  /\ Crash
  /\ NoVisit
  /\ UNCHANGED <<upstream, tables, offering>>

Write == (\E a \in Accounts : UpsertAccount(a)) \/ UpsertTransactions \/ Holdings

LfNext ==
  \/ LfStart \/ LfLoopStep
  \/ List \/ AskTransactions \/ Write \/ LfFetchOk \/ LfFetchErr
  \/ LfTick \/ SetStatus \/ LfCrash

LfSpec == LfInit /\ [][LfNext]_lfvars

-----------------------------------------------------------------------------
(* Properties *)

(* The cycles keep the contract of do_fetch, so all that holds of the      *)
(* polling loop holds of LunchFlow's.                                      *)
ImplementsLoop == Spec

(* lf_transactions REFERENCES lf_accounts (0003_lunchflow.sql:19): the     *)
(* foreign key never refuses a transaction, wherever a cycle has stopped.  *)
RowsHaveAccounts == stored \/ pendingRow => Home \in lf_accounts

(* README.md:323, reconciliation "runs automatically after each successful *)
(* LunchFlow fetch cycle", and main.rs:60 at startup: while the loop       *)
(* sleeps with no error to show, nor a failed run of the reconciler in its *)
(* log, no transaction is in the database that was not there when the      *)
(* reconciler ran, though cycles may fail halfway and processes die before *)
(* it has run.                                                             *)
AllOffered ==
  SfConfigured /\ pc = "asleep" /\ ~state.fetch_error /\ ~logged => (stored => offered)

(* fetcher_loop.rs:154, "24 h overlap so late-arriving transactions are    *)
(* not missed": a transaction no later window can reach is stored.         *)
NeverPassedOver ==
  from_ts # None /\ since <= txn.posted /\ DayOf(txn.posted) < DayOf(from_ts) => stored

(* README.md:340, "overlapping fetch windows never create duplicates".     *)
NoDuplicates == ~(stored /\ pendingRow)
=============================================================================
