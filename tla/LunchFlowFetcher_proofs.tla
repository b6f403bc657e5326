----------------------- MODULE LunchFlowFetcher_proofs -----------------------
(***************************************************************************)
(* LunchFlow's do_fetch keeps the contract run_loop relies on, if every    *)
(* account answers; its rows and the reconciler keep theirs in any case.   *)
(***************************************************************************)
EXTENDS LunchFlowFetcher, FetcherLoop_proofs, FiniteSetTheorems

(* An account is visited only inside a cycle, and after its row is there.  *)
Visiting ==
  /\ step # "list" => pc = "fetching"
  /\ current # None => step \in {"ask", "store", "holdings"} /\ current \in lf_accounts
  /\ step \in {"ask", "store", "holdings"} => current # None
  /\ answer # "nothing" => step = "store" /\ current = Home

(* AllOffered at every point between two cycles.  A process starts with an *)
(* empty CacheState.                                                       *)
Offered ==
  /\ pc \in {"down", "loadLast"} => state = [last_fetched |-> None, fetch_error |-> FALSE]
  /\ /\ SfConfigured
     /\ pc \in {"loadLast", "loadFrom", "wait", "asleep"}
     /\ ~state.fetch_error /\ ~logged
     => (stored => offered)

Shape == Visiting /\ RowsHaveAccounts /\ Offered

Settled == answer = "settled" => txn.visible <= clock

(* What needs no assumption about the answers.                             *)
LfCore == Core /\ LfTypeOK /\ Shape /\ Settled

(* What an active account had to show when the cycle began is stored or    *)
(* about to be.                                                            *)
Ahead ==
  step # "list" /\ InWindow /\ txn.visible <= now =>
    \/ stored
    \/ Home \in todo /\ listing[Home] = "active"
    \/ step = "ask" /\ current = Home
    \/ step = "store" /\ answer = "settled"

LfInv == LfCore /\ IInv /\ status[Home] = "active" /\ Ahead

(* Every account answers, and the one watched stays active: without either *)
(* the contract fails, as the run lunchflow_dormant shows.                 *)
FullAnswers == ~Gaps /\ ~Dormancy

LEMMA HomeFact == Home # None /\ Home \in Accounts /\ \A a \in Accounts : a # None
BY Zenon, AccountAssumption

(* Truncation to days keeps the order of instants.                         *)
LEMMA DayOrder == ASSUME NEW s \in Int, NEW t \in Int, s <= t PROVE DayOf(s) <= DayOf(t)
<1>1. Day \in Nat \ {0}
  BY AccountAssumption
<1> QED
  BY <1>1, SMTT(30) DEF DayOf

-----------------------------------------------------------------------------
(* The shape of a cycle and of the tables *)

LEMMA InitShape == LfInit => Shape
BY HomeFact DEF LfInit, Init, Shape, Visiting, RowsHaveAccounts, Offered

LEMMA LoopShape == ASSUME Shape, LfLoopStep PROVE Shape'
<1>1. CASE LfPostFetch
  BY <1>1 DEF LfPostFetch, Reconcile, PostFetch, Sleep, Shape, Visiting, RowsHaveAccounts,
              Offered, visit, tables
<1>2. CASE LoadLastFetched /\ UNCHANGED <<upstream, visit, tables, offering>>
  <2>1. pc = "loadLast" /\ pc' = "loadFrom" /\ stored' = stored
    BY <1>2 DEF LoadLastFetched
  <2>2. state' = state \/ \E ts : state' = [state EXCEPT !.last_fetched = ts]
    BY <1>2 DEF LoadLastFetched
  <2>3. state'.fetch_error = state.fetch_error
    BY <2>1, <2>2 DEF Shape, Offered
  <2> QED
    BY <1>2, <2>1, <2>3 DEF Shape, Visiting, RowsHaveAccounts, Offered, offering, visit, tables
<1>3. CASE /\ LoadFromTs \/ WaitRemainder \/ BeginCycle \/ PersistLastFetched
           /\ UNCHANGED <<upstream, visit, tables, offering>>
  BY <1>3 DEF LoadFromTs, WaitRemainder, BeginCycle, PersistLastFetched, memory,
              Shape, Visiting, RowsHaveAccounts, Offered, offering, visit, tables
<1> QED
  BY <1>1, <1>2, <1>3 DEF LfLoopStep

LEMMA ShapeStep == ASSUME Shape, [LfNext]_lfvars PROVE Shape'
<1> USE DEF Shape, Visiting, RowsHaveAccounts, Offered
<1>1. CASE LfStart
  BY <1>1 DEF LfStart, Start, Reconcile, offering, memory, visit, tables
<1>2. CASE LfLoopStep
  BY <1>2, LoopShape
<1>3. CASE List
  BY <1>3 DEF List, offering, vars, memory, tables
<1>4. ASSUME NEW a \in Accounts, UpsertAccount(a) PROVE Shape'
  BY <1>4, HomeFact DEF UpsertAccount, offering, Visit, vars, memory
<1>5. CASE AskTransactions
  <2>1. Shown # "nothing" => current = Home
    BY DEF Shown
  <2> QED
    BY <1>5, <2>1 DEF AskTransactions, offering, vars, memory, tables
<1>6. CASE UpsertTransactions
  BY <1>6 DEF UpsertTransactions, offering, memory
<1>7. CASE Holdings
  BY <1>7 DEF Holdings, offering, vars, memory, tables
<1>8. CASE LfFetchOk
  BY <1>8 DEF LfFetchOk, offering, Succeed, NoVisit, tables
<1>9. CASE LfFetchErr
  <2>1. state'.fetch_error = TRUE
    BY <1>9 DEF LfFetchErr, offering, FetchErr, Fail
  <2> QED
    BY <1>9, <2>1 DEF LfFetchErr, offering, FetchErr, Fail, Sleep, NoVisit, tables
<1>10. CASE LfTick
  BY <1>10 DEF LfTick, offering, Tick, memory, visit, tables
<1>11. CASE SetStatus
  BY <1>11 DEF SetStatus, offering, vars, memory, visit, tables
<1>12. CASE LfCrash
  BY <1>12 DEF LfCrash, offering, Crash, NoVisit, tables
<1>13. CASE UNCHANGED lfvars
  BY <1>13 DEF lfvars, offering, vars, memory, visit, tables
<1> QED
  BY <1>1, <1>2, <1>3, <1>4, <1>5, <1>6, <1>7, <1>8, <1>9, <1>10, <1>11, <1>12, <1>13
  DEF LfNext, Write

LEMMA ShapeInvariance == LfSpec => []Shape
<1>1. Shape /\ [LfNext]_lfvars => Shape'
  BY ShapeStep
<1> QED
  BY <1>1, InitShape, PTL DEF LfSpec

(* Whatever fails and wherever a cycle stops, a transaction is only in the *)
(* database with its account.                                              *)
THEOREM TransactionsHaveAccounts == LfSpec => []RowsHaveAccounts
<1>1. Shape => RowsHaveAccounts
  BY DEF Shape
<1> QED
  BY <1>1, ShapeInvariance, PTL

(* With both providers configured, a loop that sleeps and shows no error,  *)
(* neither in /health nor in the log of the reconciler's last run, has     *)
(* nothing in the database that the reconciler was not run over.           *)
THEOREM EverythingIsOffered == LfSpec => []AllOffered
<1>1. Shape => AllOffered
  BY DEF Shape, Offered, AllOffered
<1> QED
  BY <1>1, ShapeInvariance, PTL

-----------------------------------------------------------------------------
(* Steps of the task as steps of the loop *)

LEMMA LfInitInv == LfInit => LfInv
<1> SUFFICES ASSUME LfInit PROVE LfInv
  OBVIOUS
<1>1. IInv /\ Core
  BY InvInit DEF LfInit, IInv
<1>2. status[Home] = "active" /\ Ahead /\ Settled
  BY DEF LfInit, Ahead, Settled
<1>3. pendingRow \in BOOLEAN /\ offered \in BOOLEAN /\ logged \in BOOLEAN
  BY Zenon DEF LfInit
<1>4. changes \in 0 .. MaxChanges
  BY AccountAssumption DEF LfInit
<1>5. LfTypeOK
  BY <1>1, <1>3, <1>4 DEF LfInit, LfTypeOK, Statuses, Absent, Core
<1> QED
  BY <1>1, <1>2, <1>5, InitShape DEF LfInv, LfCore

(* Every step of the task, but the return of do_fetch, is a step of the    *)
(* loop, or none.                                                          *)
LEMMA StepMapsBut == ASSUME LfCore, [LfNext]_lfvars, ~LfFetchOk PROVE [Next]_vars
<1>1. CASE List \/ AskTransactions \/ Holdings \/ SetStatus
  BY <1>1 DEF List, AskTransactions, Holdings, SetStatus
<1>2. CASE \E a \in Accounts : UpsertAccount(a)
  BY <1>2 DEF UpsertAccount, Visit
<1>3. CASE LfStart
  BY <1>3 DEF LfStart, Next
<1>4. CASE LfLoopStep
  BY <1>4 DEF LfLoopStep, LfPostFetch, Next, LoopStep
<1>5. CASE UpsertTransactions
  <2>1. CASE answer = "settled"
    <3>1. stored' = TRUE
      BY <1>5, <2>1, Zenon DEF UpsertTransactions
    <3>2. pc = "fetching" /\ txn.visible <= clock
      BY <1>5, <2>1 DEF UpsertTransactions, LfCore, Shape, Visiting, Settled
    <3>3. FetchStore
      BY <1>5, <3>1, <3>2 DEF UpsertTransactions, FetchStore, memory
    <3> QED
      BY <3>3 DEF Next
  <2>2. CASE answer # "settled"
    <3>1. stored' = stored
      BY <1>5, <2>2, Zenon DEF UpsertTransactions, LfCore, Core, TypeOK
    <3> QED
      BY <1>5, <3>1 DEF UpsertTransactions, vars, memory, history
  <2> QED
    BY <2>1, <2>2
<1>6. CASE LfFetchErr
  BY <1>6 DEF LfFetchErr, Next, FetchReturns
<1>7. CASE LfTick
  BY <1>7 DEF LfTick, Next
<1>8. CASE LfCrash
  BY <1>8 DEF LfCrash, Next
<1>9. CASE UNCHANGED lfvars
  BY <1>9 DEF lfvars
<1> QED
  BY <1>1, <1>2, <1>3, <1>4, <1>5, <1>6, <1>7, <1>8, <1>9 DEF LfNext, Write

LEMMA LooseMaps == ASSUME LfCore, [LfNext]_lfvars PROVE [LooseNext]_vars
<1>1. CASE LfFetchOk
  BY <1>1 DEF LfFetchOk, LooseNext
<1> QED
  BY <1>1, StepMapsBut DEF LooseNext

(* And do_fetch returns with all of the range stored.                      *)
LEMMA StepMaps == ASSUME LfInv, [LfNext]_lfvars PROVE [Next]_vars
<1>1. CASE LfFetchOk
  <2>1. step = "next" /\ todo = {}
    BY <1>1 DEF LfFetchOk
  <2>2. Fetched
    BY <2>1 DEF Fetched, LfInv, Ahead
  <2> QED
    BY <1>1, <2>2 DEF LfFetchOk, FetchOk, Next, FetchReturns
<1> QED
  BY <1>1, StepMapsBut DEF LfInv

-----------------------------------------------------------------------------
(* What needs no assumption about the answers *)

LEMMA LfTypeStep == ASSUME LfCore, TypeOK', [LfNext]_lfvars PROVE LfTypeOK'
<1> DEFINE Rest ==
      /\ status \in Statuses /\ listing \in Statuses /\ changes \in 0 .. MaxChanges
      /\ step \in {"list", "next", "ask", "store", "holdings"}
      /\ todo \subseteq Accounts /\ current \in Accounts \cup {None}
      /\ answer \in {"nothing", "pending", "settled"} /\ lf_accounts \subseteq Accounts
      /\ pendingRow \in BOOLEAN /\ offered \in BOOLEAN /\ logged \in BOOLEAN
<1> SUFFICES Rest'
  BY DEF LfTypeOK
<1>0. Rest /\ stored \in BOOLEAN /\ stored' \in BOOLEAN
  BY DEF LfCore, LfTypeOK, TypeOK
<1>1. CASE LfStart \/ LfPostFetch
  <2>1. UNCHANGED <<upstream, visit, tables>>
    BY <1>1 DEF LfStart, LfPostFetch
  <2>2. (offered' = stored \/ offered' = offered) /\ (logged' \in BOOLEAN \/ logged' = logged)
    BY <1>1, Zenon DEF LfStart, LfPostFetch, Reconcile, offering
  <2> QED
    BY <1>0, <2>1, <2>2 DEF upstream, visit, tables
<1>2. CASE UNCHANGED <<upstream, visit, tables, offering>>
  BY <1>0, <1>2 DEF offering, upstream, visit, tables
<1>3. CASE List
  BY <1>0, <1>3 DEF List, offering, upstream, tables
<1>4. ASSUME NEW a \in Accounts, UpsertAccount(a) PROVE Rest'
  BY <1>0, <1>4 DEF UpsertAccount, offering, Visit, upstream
<1>5. CASE AskTransactions
  BY <1>0, <1>5 DEF AskTransactions, offering, Shown, upstream, tables
<1>6. CASE UpsertTransactions
  <2>1. pendingRow' \in BOOLEAN
    BY <1>0, <1>6, Zenon DEF UpsertTransactions
  <2> QED
    BY <1>0, <1>6, <2>1 DEF UpsertTransactions, offering, upstream
<1>7. CASE Holdings
  BY <1>0, <1>7 DEF Holdings, offering, upstream, tables
<1>8. CASE LfFetchOk \/ LfFetchErr \/ LfCrash
  BY <1>0, <1>8 DEF LfFetchOk, offering, LfFetchErr, LfCrash, NoVisit, Absent, Statuses, upstream, tables
<1>9. CASE SetStatus
  <2>1. changes' \in 0 .. MaxChanges
    BY <1>0, <1>9, AccountAssumption DEF SetStatus
  <2>2. status' \in Statuses
    BY <1>0, <1>9 DEF SetStatus, Statuses
  <2> QED
    BY <1>0, <1>9, <2>1, <2>2 DEF SetStatus, offering, visit, tables
<1>10. CASE LfTick \/ UNCHANGED lfvars
  BY <1>2, <1>10 DEF LfTick, lfvars
<1>11. CASE LfLoopStep /\ ~LfPostFetch
  BY <1>2, <1>11 DEF LfLoopStep
<1> QED
  BY <1>1, <1>3, <1>4, <1>5, <1>6, <1>7, <1>8, <1>9, <1>10, <1>11 DEF LfNext, Write

LEMMA SettledStep == ASSUME LfCore, [LfNext]_lfvars PROVE Settled'
<1> USE DEF LfCore
<1>1. CASE LfStart \/ LfLoopStep
  <2>1. step = "list" /\ answer = "nothing"
    BY <1>1 DEF LfStart, Start, LfLoopStep, LoadLastFetched, LoadFromTs, WaitRemainder,
                BeginCycle, PersistLastFetched, LfPostFetch, PostFetch, Shape, Visiting
  <2>2. UNCHANGED visit
    BY <1>1 DEF LfStart, LfLoopStep, LfPostFetch
  <2> QED
    BY <2>1, <2>2 DEF Settled, visit
<1>2. CASE LfFetchOk \/ LfFetchErr \/ LfCrash
  BY <1>2 DEF LfFetchOk, LfFetchErr, LfCrash, NoVisit, Settled
<1>3. CASE List \/ Holdings
  BY <1>3 DEF List, Holdings, Settled, vars
<1>4. ASSUME NEW a \in Accounts, UpsertAccount(a) PROVE Settled'
  BY <1>4 DEF UpsertAccount, Visit, Settled, vars
<1>5. CASE AskTransactions
  BY <1>5 DEF AskTransactions, Settled, Shown, vars
<1>6. CASE UpsertTransactions
  BY <1>6 DEF UpsertTransactions, Settled
<1>7. CASE LfTick
  <2>1. clock \in Nat /\ clock' = clock + 1 /\ txn.visible \in Nat
    BY <1>7 DEF LfTick, Tick, Core, TypeOK
  <2> QED
    BY <1>7, <2>1 DEF LfTick, Tick, Settled, visit
<1>8. CASE SetStatus \/ UNCHANGED lfvars
  BY <1>8 DEF SetStatus, lfvars, Settled, vars, visit
<1> QED
  BY <1>1, <1>2, <1>3, <1>4, <1>5, <1>6, <1>7, <1>8 DEF LfNext, Write

LEMMA LfCoreStep == ASSUME LfCore, [LfNext]_lfvars PROVE LfCore'
<1>1. Core' /\ TypeOK'
  BY LooseMaps, CoreStep DEF LfCore, Core
<1> QED
  BY <1>1, LfTypeStep, ShapeStep, SettledStep DEF LfCore

LEMMA LfCoreInvariance == LfSpec => []LfCore
<1>1. LfCore /\ [LfNext]_lfvars => LfCore'
  BY LfCoreStep
<1>2. LfInit => LfCore
  BY LfInitInv DEF LfInv
<1> QED
  BY <1>1, <1>2, PTL DEF LfSpec

(* Type correctness of the cycle and of what the tables hold.              *)
THEOREM LunchFlowTypeCorrect == LfSpec => []LfTypeOK
<1>1. LfCore => LfTypeOK
  BY DEF LfCore
<1> QED
  BY <1>1, LfCoreInvariance, PTL

LEMMA LfIsLoose == LfSpec => LooseSpec
<1>1. LfInit => Init
  BY DEF LfInit
<1>2. LfCore /\ [LfNext]_lfvars => [LooseNext]_vars
  BY LooseMaps
<1> QED
  BY <1>1, <1>2, LfCoreInvariance, PTL DEF LfSpec, LooseSpec

(* Whatever accounts do not answer or are not asked, the task resumes      *)
(* where it should, is honest about its polls, and does not poll too soon  *)
(* after a restart.                                                        *)
THEOREM LunchFlowKeepsPace == LfSpec => []ResumeSafe /\ []HealthHonest /\ RateLimited
BY LfIsLoose, LooseResults

-----------------------------------------------------------------------------
(* What needs full answers *)

(* The answer for Home, asked for in a window that holds the transaction.  *)
LEMMA HomeAnswers ==
  ASSUME LfInv, step = "ask", current = Home, InWindow, txn.visible <= now
  PROVE  Shown = "settled"
<1>1. pc = "fetching"
  BY DEF LfInv, LfCore, Shape, Visiting
<1>2. from_ts \in Int /\ now \in Int /\ now <= clock /\ clock \in Int
      /\ txn.posted \in Int /\ txn.visible \in Int
  BY <1>1, StampDef DEF LfInv, LfCore, Core, TypeOK, Undecided, Times
<1>3. from_ts <= txn.posted /\ txn.posted <= now
  BY <1>2 DEF InWindow
<1>4. InDates
  BY <1>2, <1>3, DayOrder DEF InDates
<1> QED
  BY <1>2, <1>3, <1>4 DEF Shown

LEMMA AheadStep ==
  ASSUME FullAnswers, LfInv, [LfNext]_lfvars PROVE status'[Home] = "active" /\ Ahead'
<1> USE DEF LfInv, LfCore
<1>1. CASE LfStart \/ LfLoopStep
  <2>1. step = "list" /\ answer = "nothing"
    BY <1>1 DEF LfStart, Start, LfLoopStep, LoadLastFetched, LoadFromTs, WaitRemainder,
                BeginCycle, PersistLastFetched, LfPostFetch, PostFetch, Shape, Visiting
  <2>2. UNCHANGED <<upstream, visit>>
    BY <1>1 DEF LfStart, LfLoopStep, LfPostFetch
  <2> QED
    BY <2>1, <2>2 DEF Ahead, upstream, visit
<1>2. CASE LfFetchOk \/ LfFetchErr \/ LfCrash
  BY <1>2 DEF LfFetchOk, LfFetchErr, LfCrash, NoVisit, Ahead, upstream
<1>3. CASE List
  BY <1>3, HomeFact DEF List, Ahead, vars, upstream
<1>4. ASSUME NEW a \in Accounts, UpsertAccount(a)
      PROVE  status'[Home] = "active" /\ Ahead'
  BY <1>4, HomeFact DEF UpsertAccount, Visit, Ahead, InWindow, vars, memory, upstream
<1>5. CASE AskTransactions
  <2>1. UNCHANGED <<vars, upstream, listing, todo, current>> /\ step = "ask"
        /\ answer' = Shown /\ step' = "store"
    BY <1>5 DEF AskTransactions, FullAnswers
  <2>2. Ahead'
    BY <2>1, HomeAnswers DEF Ahead, InWindow, vars, memory
  <2> QED
    BY <2>1, <2>2 DEF upstream
<1>6. CASE UpsertTransactions
  <2>1. stored \/ answer = "settled" => stored'
    BY <1>6, Zenon DEF UpsertTransactions
  <2> QED
    BY <1>6, <2>1 DEF UpsertTransactions, Ahead, InWindow, memory, upstream
<1>7. CASE Holdings
  BY <1>7 DEF Holdings, Ahead, InWindow, vars, memory, upstream
<1>8. CASE LfTick
  <2>1. clock \in Nat /\ clock' = clock + 1 /\ txn.visible \in Nat
    BY <1>8 DEF LfTick, Tick, Core, TypeOK
  <2> QED
    BY <1>8, <2>1 DEF LfTick, Tick, Ahead, InWindow, memory, visit, upstream
<1>9. CASE SetStatus
  <2>1. status'[Home] = "active"
    BY <1>9, HomeFact DEF SetStatus, FullAnswers, LfTypeOK, Statuses
  <2> QED
    BY <1>9, <2>1 DEF SetStatus, Ahead, InWindow, vars, memory, visit
<1>10. CASE UNCHANGED lfvars
  BY <1>10 DEF lfvars, Ahead, InWindow, vars, memory, visit, upstream
<1> QED
  BY <1>1, <1>2, <1>3, <1>4, <1>5, <1>6, <1>7, <1>8, <1>9, <1>10 DEF LfNext, Write

LEMMA LfInvStep == ASSUME FullAnswers, LfInv, [LfNext]_lfvars PROVE LfInv'
<1>1. IInv'
  BY StepMaps, InvStep DEF LfInv
<1> QED
  BY <1>1, LfCoreStep, AheadStep DEF LfInv

LEMMA LfInvariance == ASSUME FullAnswers PROVE LfSpec => []LfInv
<1>1. LfInv /\ [LfNext]_lfvars => LfInv'
  BY LfInvStep
<1> QED
  BY <1>1, LfInitInv, PTL DEF LfSpec

(* The LunchFlow task is a polling loop whose do_fetch keeps its contract: *)
(* every theorem about FetcherLoop's Spec holds of it.                     *)
THEOREM LunchFlowImplementsLoop == ASSUME FullAnswers PROVE LfSpec => ImplementsLoop
<1>1. LfInit => Init
  BY DEF LfInit
<1>2. LfInv /\ [LfNext]_lfvars => [Next]_vars
  BY StepMaps
<1> QED
  BY <1>1, <1>2, LfInvariance, PTL DEF LfSpec, Spec, ImplementsLoop

(* No late transaction of an account that stays active is missed.          *)
THEOREM LunchFlowMissesNothing == ASSUME FullAnswers PROVE LfSpec => []NotMissed
BY LunchFlowImplementsLoop, LateArrivals DEF ImplementsLoop

-----------------------------------------------------------------------------
(* Cycles end *)

(* A listing names finitely many accounts.                                 *)
FiniteListing == IsFiniteSet(Accounts)

(* Whether the listing is still to come, the accounts of it not visited,   *)
(* and the requests and writes of the account being visited.               *)
ListAhead == IF step = "list" THEN 1 ELSE 0
VisitsAhead == Cardinality(todo)
StagesAhead ==
  IF step = "ask" THEN 3 ELSE IF step = "store" THEN 2 ELSE IF step = "holdings" THEN 1 ELSE 0

Nearer ==
  \/ ListAhead' < ListAhead
  \/ /\ ListAhead' = ListAhead
     /\ VisitsAhead' < VisitsAhead \/ (VisitsAhead' = VisitsAhead /\ StagesAhead' < StagesAhead)

(* Every request and every write brings a cycle nearer to its end, and     *)
(* nothing that happens meanwhile puts the end farther off.                *)
CycleEnding ==
  pc = "fetching" =>
    /\ ListAhead \in Nat /\ VisitsAhead \in Nat /\ StagesAhead \in Nat
    /\ List \/ AskTransactions \/ Write => Nearer
    /\ pc' = "fetching" => Nearer \/ UNCHANGED <<ListAhead, VisitsAhead, StagesAhead>>

LEMMA VisitNearer ==
  ASSUME FiniteListing, LfCore, NEW a \in Accounts, UpsertAccount(a) PROVE Nearer
<1>1. step = "next" /\ a \in todo /\ todo' = todo \ {a} /\ step' \in {"ask", "next"}
  BY DEF UpsertAccount, Visit
<1>2. todo \subseteq Accounts /\ IsFiniteSet(todo)
  BY FS_Subset DEF LfCore, LfTypeOK, FiniteListing
<1>3. /\ Cardinality(todo \ {a}) = Cardinality(todo) - 1
      /\ Cardinality(todo) \in Nat
  BY <1>1, <1>2, FS_RemoveElement, FS_CardinalityType
<1>4. VisitsAhead' < VisitsAhead
  BY <1>1, <1>3 DEF VisitsAhead
<1> QED
  BY <1>1, <1>4 DEF Nearer, ListAhead

LEMMA CycleStep ==
  ASSUME FiniteListing, LfCore, [LfNext]_lfvars PROVE CycleEnding
<1> SUFFICES ASSUME pc = "fetching" PROVE CycleEnding
  BY DEF CycleEnding
<1>1. ListAhead \in Nat /\ VisitsAhead \in Nat /\ StagesAhead \in Nat
  <2>1. IsFiniteSet(todo)
    BY FS_Subset DEF LfCore, LfTypeOK, FiniteListing
  <2>2. Cardinality(todo) \in Nat
    BY <2>1, FS_CardinalityType
  <2> QED
    BY <2>2 DEF ListAhead, VisitsAhead, StagesAhead
<1>2. ASSUME List \/ AskTransactions \/ Write PROVE Nearer
  <2>1. CASE List
    BY <2>1 DEF List, Nearer, ListAhead
  <2>2. CASE AskTransactions \/ UpsertTransactions \/ Holdings
    BY <2>2 DEF AskTransactions, UpsertTransactions, Holdings, Nearer, ListAhead, VisitsAhead, StagesAhead
  <2> QED
    BY <1>2, <2>1, <2>2, VisitNearer DEF Write
<1>3. ASSUME pc' = "fetching", ~(List \/ AskTransactions \/ Write) PROVE UNCHANGED <<step, todo>>
  BY <1>3 DEF LfNext, lfvars, visit, LfStart, Start, LfLoopStep, LfPostFetch, PostFetch, BeginCycle,
     LoadLastFetched, LoadFromTs, WaitRemainder, PersistLastFetched, LfFetchOk, Succeed,
     LfFetchErr, FetchErr, Fail, Sleep, LfTick, SetStatus, LfCrash, Crash
<1>4. ASSUME UNCHANGED <<step, todo>> PROVE UNCHANGED <<ListAhead, VisitsAhead, StagesAhead>>
  BY <1>4 DEF ListAhead, VisitsAhead, StagesAhead
<1> QED
  BY <1>1, <1>2, <1>3, <1>4 DEF CycleEnding

(* A cycle makes finitely many requests and writes, whichever of them fail *)
(* and whatever changes at the provider meanwhile.                         *)
THEOREM LunchFlowCyclesAreFinite == ASSUME FiniteListing PROVE LfSpec => [][CycleEnding]_lfvars
<1>1. LfCore /\ [LfNext]_lfvars => [CycleEnding]_lfvars
  BY CycleStep
<1> QED
  BY <1>1, LfCoreInvariance, PTL DEF LfSpec
=============================================================================
