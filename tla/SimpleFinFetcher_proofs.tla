----------------------- MODULE SimpleFinFetcher_proofs -----------------------
(***************************************************************************)
(* SimpleFIN's do_fetch keeps the contract run_loop relies on.             *)
(***************************************************************************)
EXTENDS SimpleFinFetcher, FetcherLoop_proofs, FiniteSetTheorems

(* The loop runs inside the task, and only it has a window open.           *)
Nested ==
  /\ pc # "down" => task = "loop" /\ access_url
  /\ task = "loop" => access_url
  /\ step = "write" => pc = "fetching"
  /\ carried \/ current # None => step = "write"
  /\ pc = "fetching" => from_ts <= cursor

(* What a window being written carries, and what of it is written.         *)
Writing ==
  step = "write" =>
    /\ cursor < now
    /\ carried => InWindow /\ txn.visible <= clock
    /\ answer \ todo \subseteq accounts

(* What needs no assumption about the answers.                             *)
SfCore == Core /\ SfTypeOK /\ Nested /\ Writing /\ CacheBacked

(* What is in [from_ts, cursor), and was visible when the cycle began, is  *)
(* stored.                                                                 *)
Behind ==
  pc = "fetching" /\ from_ts <= txn.posted /\ txn.posted < cursor /\ txn.visible <= now
    => stored

(* What is in the window being written is stored or about to be.           *)
Within ==
  step = "write" /\ cursor <= txn.posted /\ txn.posted < WindowEnd /\ txn.visible <= now
    => stored \/ (carried /\ (Home \in todo \/ current = Home))

SfInv == SfCore /\ IInv /\ Behind /\ Within

(* An answer shows every account.  Without this the contract fails: the    *)
(* window moves past an account that `errors' stood for.                   *)
FullAnswers == ~PartialAnswers

LEMMA HomeFact == Home # None /\ Home \in Accounts /\ \A a \in Accounts : a # None
BY Zenon, AccountAssumption

LEMMA WindowFact == MaxWindow \in Nat /\ MaxWindow > 0
BY AccountAssumption

LEMMA SfInitInv == SfInit => SfInv
<1> SUFFICES ASSUME SfInit PROVE SfInv
  OBVIOUS
<1>1. IInv /\ Core
  BY InvInit DEF SfInit, IInv
<1>2. SfTypeOK
  <2>1. consumed \in BOOLEAN /\ access_url \in BOOLEAN /\ carried \in BOOLEAN /\ parses \in BOOLEAN
    BY Zenon DEF SfInit
  <2>2. changes \in 0 .. MaxChanges
    BY AccountAssumption DEF SfInit
  <2> QED
    BY <1>1, <2>1, <2>2 DEF SfInit, SfTypeOK, Core
<1>3. Nested /\ Writing /\ Behind /\ Within /\ CacheBacked
  BY Zenon DEF SfInit, Init, Nested, Writing, Behind, Within, CacheBacked
<1> QED
  BY <1>1, <1>2, <1>3 DEF SfInv, SfCore

-----------------------------------------------------------------------------

(* Every step of the task, but the return of do_fetch, is a step of the    *)
(* loop, or none.                                                          *)
LEMMA StepMapsBut == ASSUME SfCore, [SfNext]_sfvars, ~SfFetchOk PROVE [Next]_vars
<1>1. CASE Boot \/ ReadUrl \/ Claim \/ SaveUrl \/ Reconnect \/ Ask \/ UpsertAccount \/ CloseWindow
  BY <1>1 DEF Boot, ReadUrl, Lookup, Claim, SaveUrl, Save, Reconnect, Ask, Request,
              UpsertAccount, CloseWindow, CloseAt
<1>2. CASE SfStart
  BY <1>2 DEF SfStart, Next
<1>3. CASE SfLoopStep
  BY <1>3 DEF SfLoopStep, SfBeginCycle, Next, LoopStep
<1>4. CASE UpsertTransactions
  <2>1. CASE stored' = stored
    BY <1>4, <2>1 DEF UpsertTransactions, vars, memory, history
  <2>2. CASE stored' # stored
    <3>1. carried /\ stored' = TRUE
      BY <1>4, <2>2, Zenon DEF UpsertTransactions, SfCore, Core, TypeOK
    <3>2. pc = "fetching" /\ txn.visible <= clock
      BY <1>4, <3>1 DEF UpsertTransactions, SfCore, Nested, Writing
    <3>3. FetchStore
      BY <1>4, <3>1, <3>2 DEF UpsertTransactions, FetchStore, memory
    <3> QED
      BY <3>3 DEF Next
  <2> QED
    BY <2>1, <2>2
<1>5. CASE SfFetchErr
  BY <1>5 DEF SfFetchErr, Next, FetchReturns
<1>6. CASE SfTick
  BY <1>6 DEF SfTick, Next
<1>7. CASE SfCrash
  BY <1>7 DEF SfCrash, Next
<1>8. CASE UNCHANGED sfvars
  BY <1>8 DEF sfvars
<1> QED
  BY <1>1, <1>2, <1>3, <1>4, <1>5, <1>6, <1>7, <1>8 DEF SfNext, Resolve, Write

LEMMA LooseMaps == ASSUME SfCore, [SfNext]_sfvars PROVE [LooseNext]_vars
<1>1. CASE SfFetchOk
  BY <1>1 DEF SfFetchOk, LooseNext
<1> QED
  BY <1>1, StepMapsBut DEF LooseNext

(* And do_fetch returns with all of the range stored.                      *)
LEMMA StepMaps == ASSUME SfInv, [SfNext]_sfvars PROVE [Next]_vars
<1>1. CASE SfFetchOk
  <2>1. Fetched
    <3> SUFFICES ASSUME InWindow, txn.visible <= now PROVE stored
      BY DEF Fetched
    <3>1. pc = "fetching" /\ cursor \in Int /\ now \in Int /\ txn.posted \in Int
      BY <1>1 DEF SfFetchOk, Succeed, SfInv, SfCore, SfTypeOK, TypeOK
    <3>2. from_ts <= txn.posted /\ txn.posted < cursor
      BY <1>1, <3>1 DEF SfFetchOk, InWindow
    <3> QED
      BY <3>1, <3>2 DEF SfInv, Behind
  <2> QED
    BY <1>1, <2>1 DEF SfFetchOk, FetchOk, Next, FetchReturns
<1> QED
  BY <1>1, StepMapsBut DEF SfInv

-----------------------------------------------------------------------------
(* One lemma per step of a cycle *)

(* What the window asked for holds.                                        *)
LEMMA WindowTypes ==
  ASSUME SfCore, pc = "fetching"
  PROVE  /\ cursor \in Int /\ now \in Int /\ clock \in Int /\ now <= clock
         /\ from_ts \in Int /\ from_ts <= cursor
         /\ txn.posted \in Int /\ txn.visible \in Int
         /\ WindowEnd \in Int /\ WindowEnd <= now
         /\ cursor < now => cursor < WindowEnd
BY StampDef, WindowFact DEF SfCore, Core, SfTypeOK, TypeOK, Undecided, Times, Nested, WindowEnd

LEMMA AskStep == ASSUME SfCore, Ask PROVE Nested' /\ Writing' /\ CacheBacked'
<1>1. /\ UNCHANGED <<vars, link, bridge, cursor, current, accounts, cached>>
      /\ pc = "fetching" /\ cursor < now /\ step' = "write" /\ todo' = answer'
  BY DEF Ask, Request
<1>2. carried' => cursor <= txn.posted /\ txn.posted < WindowEnd /\ txn.visible <= clock
  BY Zenon DEF Ask, Request
<1>3. Nested' /\ CacheBacked'
  BY <1>1 DEF SfCore, Nested, CacheBacked, vars, memory, history, link
<1>4. carried' => InWindow' /\ txn.visible <= clock
  BY <1>1, <1>2, WindowTypes DEF InWindow, vars, memory
<1> QED
  BY <1>1, <1>3, <1>4 DEF Writing, vars, memory

LEMMA AskStores == ASSUME FullAnswers, SfInv, Ask PROVE Behind' /\ Within'
<1>1. /\ UNCHANGED <<vars, cursor>> /\ pc = "fetching"
      /\ answer' = upstream /\ todo' = answer'
  BY DEF Ask, Request, FullAnswers
<1>2. carried' <=> Home \in answer' /\ cursor <= txn.posted /\ txn.posted < WindowEnd
                     /\ txn.visible <= clock
  BY Zenon DEF Ask, Request
<1>3. WindowEnd' = WindowEnd /\ UNCHANGED <<txn, now, clock, from_ts, stored, pc>>
  BY <1>1 DEF WindowEnd, vars, memory
<1>4. Behind'
  BY <1>1, <1>3 DEF SfInv, Behind
<1>5. cursor <= txn.posted /\ txn.posted < WindowEnd /\ txn.visible <= now
        => carried' /\ Home \in todo'
  BY <1>1, <1>2, WindowTypes DEF SfInv, SfCore, SfTypeOK
<1> QED
  BY <1>1, <1>3, <1>4, <1>5 DEF Within

LEMMA UpsertAccountStep ==
  ASSUME SfCore, UpsertAccount PROVE Nested' /\ Writing' /\ CacheBacked'
<1>1. /\ UNCHANGED <<vars, link, bridge, cursor, step, answer, carried, cached>>
      /\ step = "write" /\ current = None
  BY DEF UpsertAccount
<1>2. PICK a \in todo : accounts' = accounts \cup {a} /\ todo' = todo \ {a} /\ current' = a
  BY DEF UpsertAccount
<1>3. Nested' /\ CacheBacked'
  BY <1>1, <1>2 DEF SfCore, Nested, CacheBacked, vars, memory, history, link
<1>4. InWindow' = InWindow /\ UNCHANGED <<txn, now, clock, cursor>>
  BY <1>1 DEF InWindow, vars, memory
<1>5. answer' \ todo' \subseteq accounts'
  BY <1>1, <1>2 DEF SfCore, Writing
<1> QED
  BY <1>1, <1>3, <1>4, <1>5 DEF SfCore, Writing

LEMMA UpsertAccountStores == ASSUME SfInv, UpsertAccount PROVE Behind' /\ Within'
<1>1. UNCHANGED <<vars, cursor, step, carried>> /\ current = None
  BY DEF UpsertAccount
<1>2. PICK a \in todo : todo' = todo \ {a} /\ current' = a
  BY DEF UpsertAccount
<1>3. Home \in todo \/ current = Home => Home \in todo' \/ current' = Home
  BY <1>1, <1>2, HomeFact
<1> QED
  BY <1>1, <1>3 DEF SfInv, Behind, Within, WindowEnd, vars, memory

LEMMA UpsertTransactionsStep ==
  ASSUME SfCore, UpsertTransactions PROVE Nested' /\ Writing' /\ CacheBacked'
<1>1. /\ UNCHANGED <<pc, clock, memory, config, txn, history, link, bridge,
                     cursor, step, answer, todo, carried, accounts, cached>>
      /\ step = "write" /\ current' = None
  BY DEF UpsertTransactions
<1>2. Nested' /\ CacheBacked'
  BY <1>1 DEF SfCore, Nested, CacheBacked, memory, history, link
<1>3. InWindow' = InWindow
  BY <1>1 DEF InWindow, memory
<1> QED
  BY <1>1, <1>2, <1>3 DEF SfCore, Writing, memory

LEMMA UpsertTransactionsStores == ASSUME SfInv, UpsertTransactions PROVE Behind' /\ Within'
<1>1. /\ UNCHANGED <<pc, memory, txn, cursor, step, todo, carried>> /\ current' = None
      /\ stored' = (stored \/ (current = Home /\ carried))
  BY DEF UpsertTransactions
<1> QED
  BY <1>1 DEF SfInv, Behind, Within, WindowEnd, memory

LEMMA CloseWindowStep ==
  ASSUME SfCore, CloseWindow PROVE Nested' /\ Writing' /\ CacheBacked'
<1>1. /\ UNCHANGED <<vars, link, bridge, todo, current, accounts>>
      /\ step = "write" /\ current = None /\ todo = {}
      /\ cached' = answer /\ cursor' = WindowEnd /\ step' = "ask" /\ carried' = FALSE
  BY DEF CloseWindow, CloseAt
<1>2. pc = "fetching" /\ cursor < now
  BY <1>1 DEF SfCore, Nested, Writing
<1>3. Nested'
  BY <1>1, <1>2, WindowTypes DEF SfCore, Nested, vars, memory, link
<1>4. CacheBacked'
  BY <1>1 DEF SfCore, Writing, CacheBacked
<1> QED
  BY <1>1, <1>3, <1>4 DEF Writing

LEMMA CloseWindowStores == ASSUME SfInv, CloseWindow PROVE Behind' /\ Within'
<1>1. /\ UNCHANGED vars /\ step = "write" /\ current = None /\ todo = {}
      /\ cursor' = WindowEnd /\ step' = "ask"
  BY DEF CloseWindow, CloseAt
<1>2. pc = "fetching"
  BY <1>1 DEF SfInv, SfCore, Nested
<1>3. Behind'
  <2> SUFFICES ASSUME from_ts <= txn.posted, txn.posted < WindowEnd, txn.visible <= now
               PROVE  stored
    BY <1>1 DEF Behind, vars, memory
  <2>1. CASE txn.posted < cursor
    BY <1>2, <2>1 DEF SfInv, Behind
  <2>2. CASE cursor <= txn.posted
    BY <1>1, <2>2, HomeFact DEF SfInv, Within
  <2> QED
    BY <1>2, <2>1, <2>2, WindowTypes DEF SfInv
<1> QED
  BY <1>1, <1>3 DEF Within

LEMMA SfTypeStep == ASSUME SfCore, TypeOK', [SfNext]_sfvars PROVE SfTypeOK'
<1>1. CASE Boot \/ ReadUrl \/ Claim \/ SaveUrl
  <2>1. UNCHANGED <<bridge, window, accounts, cached>>
    BY <1>1 DEF Boot, ReadUrl, Lookup, Claim, SaveUrl, Save
  <2>2. task' \in {"off", "resolve", "claim", "save", "loop", "dead"}
        /\ consumed' \in BOOLEAN /\ access_url' \in BOOLEAN
    BY <1>1, Zenon DEF Boot, ReadUrl, Lookup, Claim, SaveUrl, Save, Connect, SfCore, SfTypeOK
  <2> QED
    BY <2>1, <2>2 DEF SfCore, SfTypeOK, bridge, window
<1>2. CASE SfStart
  BY <1>2 DEF SfStart, SfCore, SfTypeOK, link, bridge, window
<1>3. CASE SfLoopStep
  <2>1. from_ts \in Int \/ ~SfBeginCycle
    BY StampDef DEF SfBeginCycle, BeginCycle, SfCore, Core, TypeOK, Undecided
  <2> QED
    BY <1>3, <2>1 DEF SfLoopStep, SfBeginCycle, SfCore, SfTypeOK, link, bridge, window
<1>4. CASE Ask
  <2>1. /\ UNCHANGED <<link, bridge, cursor, current, accounts, cached>>
        /\ step' = "write" /\ answer' \subseteq upstream /\ todo' = answer'
        /\ current = None \/ current \in answer'
    BY <1>4 DEF Ask, Request, SfCore, Nested
  <2>2. carried' \in BOOLEAN
    BY <1>4, Zenon DEF Ask, Request
  <2> QED
    BY <2>1, <2>2 DEF SfCore, SfTypeOK, link, bridge
<1>5. CASE UpsertAccount
  BY <1>5 DEF UpsertAccount, SfCore, SfTypeOK, link, bridge
<1>6. CASE UpsertTransactions
  BY <1>6 DEF UpsertTransactions, SfCore, SfTypeOK, link, bridge
<1>7. CASE CloseWindow
  <2>1. WindowEnd \in Int
    BY WindowFact DEF SfCore, SfTypeOK, TypeOK, WindowEnd
  <2> QED
    BY <1>7, <2>1 DEF CloseWindow, CloseAt, SfCore, SfTypeOK, link, bridge
<1>8. CASE SfFetchOk \/ SfFetchErr
  <2>1. carried' \in BOOLEAN
    BY <1>8, Zenon DEF SfFetchOk, SfFetchErr, NoWindow
  <2> QED
    BY <1>8, <2>1 DEF SfFetchOk, SfFetchErr, NoWindow, SfCore, SfTypeOK, link, bridge
<1>9. CASE SfTick \/ UNCHANGED sfvars
  BY <1>9 DEF SfTick, sfvars, SfCore, SfTypeOK, link, bridge, window
<1>10. CASE Reconnect
  <2>1. changes' \in 0 .. MaxChanges
    BY <1>10, AccountAssumption DEF Reconnect, SfCore, SfTypeOK
  <2>2. upstream' \subseteq Accounts /\ Home \in upstream'
    BY <1>10 DEF Reconnect, SfCore, SfTypeOK
  <2> QED
    BY <1>10, <2>1, <2>2 DEF Reconnect, SfCore, SfTypeOK, link, window
<1>11. CASE SfCrash
  <2>1. carried' \in BOOLEAN
    BY <1>11, Zenon DEF SfCrash, NoWindow
  <2> QED
    BY <1>11, <2>1 DEF SfCrash, NoWindow, SfCore, SfTypeOK, bridge
<1> QED
  BY <1>1, <1>2, <1>3, <1>4, <1>5, <1>6, <1>7, <1>8, <1>9, <1>10, <1>11
  DEF SfNext, Resolve, Write

LEMMA SfCoreStep == ASSUME SfCore, [SfNext]_sfvars PROVE SfCore'
<1>1. Core' /\ TypeOK'
  BY LooseMaps, CoreStep DEF SfCore, Core
<1>2. SfTypeOK'
  BY <1>1, SfTypeStep
<1> DEFINE Rest == Nested /\ Writing /\ CacheBacked
<1> SUFFICES Rest'
  BY <1>1, <1>2 DEF SfCore
<1>3. CASE Boot \/ ReadUrl \/ Claim \/ SaveUrl
  <2>1. UNCHANGED <<vars, bridge, window, accounts, cached>> /\ pc = "down" /\ pc' = "down"
    BY <1>3 DEF Boot, ReadUrl, Lookup, Claim, SaveUrl, Save, SfCore, Nested, vars
  <2>2. task' = "loop" => access_url'
    <3>1. CASE Boot
      BY <3>1 DEF Boot
    <3>4. CASE ReadUrl
      <4>1. CASE access_url
        BY <3>4, <4>1 DEF ReadUrl, Lookup, SfCore, Nested
      <4>2. CASE ~access_url
        BY <3>4, <4>2 DEF ReadUrl, Lookup
      <4> QED
        BY <4>1, <4>2
    <3>2. CASE Claim
      BY <3>2 DEF Claim, SfCore, Nested
    <3>3. CASE SaveUrl
      BY <3>3 DEF SaveUrl, Save, SfCore, Nested
    <3> QED
      BY <1>3, <3>1, <3>2, <3>3, <3>4
  <2> QED
    BY <2>1, <2>2 DEF window, SfCore, Nested, Writing, CacheBacked
<1>4. CASE SfStart
  BY <1>4 DEF SfStart, Start, memory, history, link, bridge, window,
              SfCore, Nested, Writing, CacheBacked
<1>5. CASE SfLoopStep /\ ~SfBeginCycle
  <2>1. UNCHANGED <<link, bridge, window, accounts, cached>> /\ pc # "down"
        /\ pc # "fetching" /\ pc' # "fetching"
    BY <1>5 DEF SfLoopStep, LoadLastFetched, LoadFromTs, WaitRemainder, PersistLastFetched,
                PersistNextStart, PersistNext, PostFetch, Sleep
  <2> QED
    BY <2>1 DEF SfCore, Nested, Writing, CacheBacked, link, window
<1>6. CASE SfBeginCycle
  <2>1. from_ts \in Int /\ txn.posted \in Int
    BY <1>6, StampDef DEF SfBeginCycle, BeginCycle, SfCore, Core, TypeOK, Undecided
  <2> QED
    BY <1>6, <2>1 DEF SfBeginCycle, BeginCycle, history, link, bridge,
                      SfCore, Nested, Writing, CacheBacked
<1>7. CASE Ask
  BY <1>7, AskStep
<1>8. CASE UpsertAccount
  BY <1>8, UpsertAccountStep
<1>9. CASE UpsertTransactions
  BY <1>9, UpsertTransactionsStep
<1>10. CASE CloseWindow
  BY <1>10, CloseWindowStep
<1>11. CASE SfFetchOk
  BY <1>11 DEF SfFetchOk, Succeed, NoWindow, link, bridge, history,
               SfCore, Nested, Writing, CacheBacked
<1>12. CASE SfFetchErr
  BY <1>12 DEF SfFetchErr, FetchErr, Fail, Sleep, NoWindow, link, bridge, history,
               SfCore, Nested, Writing, CacheBacked
<1>13. CASE SfTick
  <2>1. clock \in Nat /\ clock' = clock + 1 /\ txn.visible \in Nat
    BY <1>13 DEF SfTick, Tick, SfCore, Core, TypeOK
  <2> QED
    BY <1>13, <2>1 DEF SfTick, Tick, memory, history, link, bridge, window,
               SfCore, Nested, Writing, InWindow, CacheBacked
<1>14. CASE Reconnect
  BY <1>14 DEF Reconnect, vars, memory, history, link, window,
               SfCore, Nested, Writing, InWindow, CacheBacked
<1>15. CASE SfCrash
  BY <1>15 DEF SfCrash, Crash, NoWindow, vars, memory, history, bridge,
               SfCore, Nested, Writing, CacheBacked
<1>16. CASE UNCHANGED sfvars
  BY <1>16 DEF sfvars, vars, memory, history, link, bridge, window,
               SfCore, Nested, Writing, InWindow, CacheBacked
<1> QED
  BY <1>3, <1>4, <1>5, <1>6, <1>7, <1>8, <1>9, <1>10, <1>11, <1>12, <1>13, <1>14,
     <1>15, <1>16 DEF SfNext, Resolve, Write

LEMMA SfCoreInvariance == SfSpec => []SfCore
<1>1. SfCore /\ [SfNext]_sfvars => SfCore'
  BY SfCoreStep
<1>2. SfInit => SfCore
  BY SfInitInv DEF SfInv
<1> QED
  BY <1>1, <1>2, PTL DEF SfSpec

(* The windows behind the cursor stay stored, the one being written stays  *)
(* stored or carried.                                                      *)
LEMMA SfStoresStep == ASSUME FullAnswers, SfInv, [SfNext]_sfvars PROVE Behind' /\ Within'
<1> USE DEF SfInv, SfCore, Nested
<1>1. CASE Boot \/ ReadUrl \/ Claim \/ SaveUrl \/ SfStart
  <2>1. pc = "down" /\ pc' # "fetching" /\ UNCHANGED step
    BY <1>1 DEF Boot, ReadUrl, Lookup, Claim, SaveUrl, Save, SfStart, Start, vars, window
  <2> QED
    BY <2>1 DEF Behind, Within
<1>2. CASE SfLoopStep /\ ~SfBeginCycle
  <2>1. pc # "fetching" /\ pc' # "fetching" /\ UNCHANGED step
    BY <1>2 DEF SfLoopStep, LoadLastFetched, LoadFromTs, WaitRemainder, PersistLastFetched,
                PersistNextStart, PersistNext, PostFetch, Sleep, window
  <2> QED
    BY <2>1 DEF Behind, Within
<1>3. CASE SfBeginCycle
  <2>1. from_ts \in Int /\ txn.posted \in Int
    BY <1>3, StampDef DEF SfBeginCycle, BeginCycle, Core, TypeOK, Undecided
  <2> QED
    BY <1>3, <2>1 DEF SfBeginCycle, BeginCycle, Behind, Within
<1>4. CASE Ask
  BY <1>4, AskStores
<1>5. CASE UpsertAccount
  BY <1>5, UpsertAccountStores
<1>6. CASE UpsertTransactions
  BY <1>6, UpsertTransactionsStores
<1>7. CASE CloseWindow
  BY <1>7, CloseWindowStores
<1>8. CASE SfFetchOk \/ SfFetchErr \/ SfCrash
  BY <1>8 DEF SfFetchOk, Succeed, SfFetchErr, FetchErr, Fail, Sleep, SfCrash, Crash, NoWindow,
              vars, Behind, Within
<1>9. CASE SfTick \/ Reconnect \/ UNCHANGED sfvars
  BY <1>9 DEF SfTick, Tick, Reconnect, sfvars, vars, memory, window, Behind, Within, WindowEnd
<1> QED
  BY <1>1, <1>2, <1>3, <1>4, <1>5, <1>6, <1>7, <1>8, <1>9 DEF SfNext, Resolve, Write

LEMMA SfInvariance == ASSUME FullAnswers PROVE SfSpec => []SfInv
<1>1. SfInv /\ [SfNext]_sfvars => SfInv'
  <2> SUFFICES ASSUME SfInv, [SfNext]_sfvars PROVE SfInv'
    OBVIOUS
  <2>1. IInv'
    BY StepMaps, InvStep DEF SfInv
  <2> QED
    BY <2>1, SfCoreStep, SfStoresStep DEF SfInv
<1> QED
  BY <1>1, SfInitInv, PTL DEF SfSpec

-----------------------------------------------------------------------------

(* The SimpleFIN task is a polling loop whose do_fetch keeps its contract: *)
(* every theorem about FetcherLoop's Spec holds of it.                     *)
THEOREM SimpleFinImplementsLoop == ASSUME FullAnswers PROVE SfSpec => ImplementsLoop
<1>1. SfInit => Init
  BY DEF SfInit
<1>2. SfInv /\ [SfNext]_sfvars => [Next]_vars
  BY StepMaps
<1> QED
  BY <1>1, <1>2, SfInvariance, PTL DEF SfSpec, Spec, ImplementsLoop

(* No late transaction is missed by the SimpleFIN task as coded.           *)
THEOREM SimpleFinMissesNothing == ASSUME FullAnswers PROVE SfSpec => []NotMissed
BY SimpleFinImplementsLoop, LateArrivals DEF ImplementsLoop

LEMMA SfIsLoose == SfSpec => LooseSpec
<1>1. SfInit => Init
  BY DEF SfInit
<1>2. SfCore /\ [SfNext]_sfvars => [LooseNext]_vars
  BY LooseMaps
<1> QED
  BY <1>1, <1>2, SfCoreInvariance, PTL DEF SfSpec, LooseSpec

(* Whatever the answers leave out, the task resumes where it should, is    *)
(* honest about its polls, and does not poll too soon after a restart.     *)
THEOREM SimpleFinKeepsPace == SfSpec => []ResumeSafe /\ []HealthHonest /\ RateLimited
BY SfIsLoose, LooseResults

(* The cache never names an account the database does not have, whatever   *)
(* the answers leave out and wherever a cycle stops.                       *)
THEOREM CacheIsBacked == SfSpec => []CacheBacked
BY SfCoreInvariance, PTL DEF SfCore

(* The loop runs only once its access URL is saved.                        *)
THEOREM LoopRunsOnceSaved == SfSpec => []LoopsOnceSaved
<1>1. SfCore => LoopsOnceSaved
  BY DEF SfCore, Nested, LoopsOnceSaved
<1> QED
  BY <1>1, SfCoreInvariance, PTL

(* Type correctness of the task around the loop.                           *)
THEOREM SimpleFinTypeCorrect == SfSpec => []SfTypeOK
BY SfCoreInvariance, PTL DEF SfCore

-----------------------------------------------------------------------------
(* Cycles end *)

(* An answer lists finitely many accounts.                                 *)
FiniteAnswers == IsFiniteSet(Accounts)

(* What of the range is not behind the cursor, whether its first window is *)
(* still to be asked for, and the writes of the window that is open.       *)
RangeAhead == IF cursor < now THEN now - cursor ELSE 0
AskAhead == IF step = "ask" THEN 1 ELSE 0
WritesAhead == 2 * Cardinality(todo) + (IF current = None THEN 0 ELSE 1)

Nearer ==
  \/ RangeAhead' < RangeAhead
  \/ /\ RangeAhead' = RangeAhead
     /\ AskAhead' < AskAhead \/ (AskAhead' = AskAhead /\ WritesAhead' < WritesAhead)

(* Every request and every write brings a cycle nearer to its end, and     *)
(* nothing that happens meanwhile puts the end farther off.                *)
CycleEnding ==
  pc = "fetching" =>
    /\ RangeAhead \in Nat /\ AskAhead \in Nat /\ WritesAhead \in Nat
    /\ Ask \/ Write => Nearer
    /\ pc' = "fetching" => Nearer \/ UNCHANGED <<RangeAhead, AskAhead, WritesAhead>>

LEMMA Written ==
  ASSUME FiniteAnswers, NEW S, S \subseteq Accounts
  PROVE  /\ Cardinality(S) \in Nat
         /\ \A a \in S : Cardinality(S \ {a}) \in Nat /\ Cardinality(S \ {a}) < Cardinality(S)
<1>1. IsFiniteSet(S)
  BY FS_Subset DEF FiniteAnswers
<1>2. Cardinality(S) \in Nat
  BY <1>1, FS_CardinalityType
<1>3. ASSUME NEW a \in S PROVE Cardinality(S \ {a}) = Cardinality(S) - 1 /\ IsFiniteSet(S \ {a})
  BY <1>1, <1>3, FS_RemoveElement
<1>4. ASSUME NEW a \in S PROVE Cardinality(S \ {a}) \in Nat
  BY <1>3, FS_CardinalityType
<1> QED
  BY <1>2, <1>3, <1>4

LEMMA CycleNearer ==
  ASSUME FiniteAnswers, SfCore, pc = "fetching", Ask \/ Write PROVE Nearer
<1> DEFINE d == Cardinality(todo)
<1>1. cursor \in Int /\ now \in Int /\ todo \subseteq Accounts
  BY DEF SfCore, SfTypeOK, TypeOK
<1>2. CASE Ask
  BY <1>2 DEF Ask, Request, vars, memory, Nearer, RangeAhead, AskAhead
<1>3. CASE UpsertAccount
  <2>1. PICK a \in todo : todo' = todo \ {a} /\ current' = a
    BY <1>3 DEF UpsertAccount
  <2>2. d \in Nat /\ Cardinality(todo \ {a}) \in Nat /\ Cardinality(todo \ {a}) < d
    BY <1>1, <2>1, Written
  <2> HIDE DEF d
  <2>3. WritesAhead = 2 * d
    BY <1>3, <2>2 DEF UpsertAccount, WritesAhead, d
  <2>4. WritesAhead' <= 2 * Cardinality(todo \ {a}) + 1 /\ WritesAhead' \in Nat
    BY <2>1, <2>2 DEF WritesAhead
  <2>5. RangeAhead' = RangeAhead /\ AskAhead' = AskAhead
    BY <1>3 DEF UpsertAccount, vars, memory, RangeAhead, AskAhead
  <2>6. WritesAhead' < WritesAhead
    BY <2>2, <2>3, <2>4
  <2> QED
    BY <2>5, <2>6 DEF Nearer
<1>4. CASE UpsertTransactions
  <2>1. d \in Nat
    BY <1>1, Written
  <2> HIDE DEF d
  <2>2. WritesAhead = 2 * d + 1 /\ WritesAhead' = 2 * d
    BY <1>4, <2>1 DEF UpsertTransactions, WritesAhead, d
  <2>3. RangeAhead' = RangeAhead /\ AskAhead' = AskAhead
    BY <1>4 DEF UpsertTransactions, memory, RangeAhead, AskAhead
  <2> QED
    BY <2>1, <2>2, <2>3 DEF Nearer
<1>5. CASE CloseWindow
  <2>1. cursor < now /\ cursor' = WindowEnd /\ now' = now
    BY <1>5 DEF CloseWindow, CloseAt, SfCore, Writing, vars, memory
  <2>2. cursor < WindowEnd /\ WindowEnd <= now /\ WindowEnd \in Int
    BY <1>1, <2>1, WindowFact DEF WindowEnd
  <2> QED
    BY <1>1, <2>1, <2>2 DEF Nearer, RangeAhead
<1> QED
  BY <1>2, <1>3, <1>4, <1>5 DEF Write

LEMMA CycleStep ==
  ASSUME FiniteAnswers, SfCore, [SfNext]_sfvars PROVE CycleEnding
<1> SUFFICES ASSUME pc = "fetching" PROVE CycleEnding
  BY DEF CycleEnding
<1>1. RangeAhead \in Nat /\ AskAhead \in Nat /\ WritesAhead \in Nat
  <2>1. cursor \in Int /\ now \in Int /\ Cardinality(todo) \in Nat
    BY Written DEF SfCore, SfTypeOK, TypeOK
  <2> QED
    BY <2>1 DEF RangeAhead, AskAhead, WritesAhead
<1>2. Ask \/ Write => Nearer
  BY CycleNearer
<1>3. ASSUME pc' = "fetching", ~(Ask \/ Write) PROVE UNCHANGED <<now, window>>
  <2>1. CASE Boot \/ Reconnect \/ SfTick
    BY <2>1 DEF Boot, Reconnect, SfTick, Tick, vars, memory
  <2>2. CASE Resolve
    BY <2>2, <1>3 DEF Resolve, ReadUrl, Lookup, Claim, SaveUrl, Save, SfStart, Start, vars, memory
  <2>3. CASE SfLoopStep \/ SfFetchOk \/ SfFetchErr \/ SfCrash
    BY <2>3, <1>3 DEF SfLoopStep, SfBeginCycle, BeginCycle, LoadLastFetched, LoadFromTs, WaitRemainder,
       PersistLastFetched, PersistNextStart, PersistNext, PostFetch, SfFetchOk, Succeed,
       SfFetchErr, FetchErr, Fail, Sleep, SfCrash, Crash
  <2>4. CASE UNCHANGED sfvars
    BY <2>4 DEF sfvars, vars, memory
  <2> QED
    BY <1>3, <2>1, <2>2, <2>3, <2>4 DEF SfNext
<1>4. ASSUME UNCHANGED <<now, window>> PROVE UNCHANGED <<RangeAhead, AskAhead, WritesAhead>>
  BY <1>4 DEF window, RangeAhead, AskAhead, WritesAhead
<1> QED
  BY <1>1, <1>2, <1>3, <1>4 DEF CycleEnding

(* A cycle makes finitely many requests and writes, however the answers    *)
(* and the clock run meanwhile.                                            *)
THEOREM SimpleFinCyclesAreFinite == ASSUME FiniteAnswers PROVE SfSpec => [][CycleEnding]_sfvars
<1>1. SfCore /\ [SfNext]_sfvars => [CycleEnding]_sfvars
  BY CycleStep
<1> QED
  BY <1>1, SfCoreInvariance, PTL DEF SfSpec
=============================================================================
