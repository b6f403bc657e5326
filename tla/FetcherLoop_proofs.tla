------------------------- MODULE FetcherLoop_proofs -------------------------
(***************************************************************************)
(* Proofs about the polling loop.                                          *)
(***************************************************************************)
EXTENDS FetcherLoop, TLAPS

(* Nothing on record, in memory or in the history, is from the future, and *)
(* a saved stamp is never ahead of the success it was saved for.           *)
Times ==
  /\ now <= clock
  /\ lastOk # None => lastOk <= clock /\ since # None
  /\ since # None => since <= FirstFrom
  /\ config.last_fetched # None => lastOk # None /\ config.last_fetched <= lastOk
  /\ config.next_start # None => lastOk # None /\ config.next_start <= NextFrom(lastOk)
  /\ last_fetched # None => lastOk # None /\ last_fetched <= lastOk
  /\ txn.posted <= txn.visible /\ txn.visible <= txn.posted + Lateness

(* What each point of the cycle knows.                                     *)
AtLabel ==
  /\ pc = "fetching" /\ lastOk # None => lastOk <= now
  /\ pc \in {"persistLast", "persistNext", "post"} => lastOk = now /\ from_ts = NextFrom(now)
  /\ pc \notin Undecided => since # None

(* A window either began a chain or overlaps the one before it.            *)
Chained == from_ts # None => from_ts = since \/ (lastOk # None /\ from_ts <= NextFrom(lastOk))

Core == TypeOK /\ Times /\ AtLabel
IInv == Core /\ Chained /\ NotMissed

(* Most of what holds of the loop needs no contract of do_fetch: a fetch   *)
(* may return Ok although it has left things out.                          *)
LooseNext == Next \/ Succeed
LooseSpec == Init /\ [][LooseNext]_vars

(* Once started, a process knows what is on record, or that it has not     *)
(* read it (`unread').                                                     *)
Restored ==
  /\ pc \in {"down", "loadLast"} => state.last_fetched = None
  /\ pc \in {"loadFrom", "wait"} =>
       \/ last_fetched = config.last_fetched
       \/ last_fetched = None /\ "last_fetched" \in unread
  /\ pc = "asleep" /\ config.last_fetched # None =>
       \/ wakeAt >= config.last_fetched + Interval
       \/ "last_fetched" \in unread /\ now = 0
  /\ pc \in Undecided \cup {"wait"} => now = 0
  /\ pc \in {"persistLast", "persistNext", "post"}
       => state = [last_fetched |-> now, fetch_error |-> FALSE]

IInv2 == Restored /\ ResumeSafe /\ HealthHonest
-----------------------------------------------------------------------------

(* An optional stamp is a number or None, never both.  The proofs below    *)
(* cite these two facts and leave Stamp unexpanded.                        *)
LEMMA StampDef == \A v : v \in Stamp <=> v \in Int \/ v = None
BY Zenon DEF Stamp

LEMMA NoneFact == \A i \in Int : i # None
BY Zenon, NoneAssumption

USE StampDef, NoneFact, ModeAssumption, TimeAssumption

LEMMA TypeInit == Init => TypeOK
<1> SUFFICES ASSUME Init PROVE TypeOK
  OBVIOUS
<1>1. txn \in [posted : Nat, visible : Nat]
  BY DEF Init
<1>2. state \in [last_fetched : Stamp, fetch_error : BOOLEAN]
  BY DEF Init
<1> QED
  BY <1>1, <1>2 DEF Init, TypeOK, Label, Undecided

LEMMA TypeStep == TypeOK /\ [LooseNext]_vars => TypeOK'
<1> SUFFICES ASSUME TypeOK, [LooseNext]_vars PROVE TypeOK'
  OBVIOUS
<1> USE DEF TypeOK, Label, Undecided
<1>1. CASE Start
  BY <1>1 DEF Start, memory, history
<1>2. CASE LoadLastFetched
  BY <1>2 DEF LoadLastFetched, GetConfig
<1>3. CASE LoadFromTs
  BY <1>3 DEF LoadFromTs, ResumeMarks, GetConfig, FirstFrom, NextFrom
<1>4. CASE WaitRemainder
  BY <1>4 DEF WaitRemainder, history, Remainder
<1>5. CASE BeginCycle
  BY <1>5 DEF BeginCycle, history
<1>6. CASE FetchStore
  BY <1>6 DEF FetchStore, memory, history
<1>7. CASE Succeed
  BY <1>7 DEF Succeed, NextFrom
<1>8. CASE FetchErr
  <2>1. state' \in [last_fetched : Stamp, fetch_error : BOOLEAN]
    BY <1>8, TRUE \in BOOLEAN DEF FetchErr, Fail
  <2> QED
    BY <1>8, <2>1 DEF FetchErr, Fail, Sleep, history
<1>9. CASE PersistLastFetched
  BY <1>9 DEF PersistLastFetched, SetConfig, memory, history
<1>10. CASE PersistNextStart
  BY <1>10 DEF PersistNextStart, PersistNext, SetConfig, memory, history
<1>11. CASE PostFetch
  BY <1>11 DEF PostFetch, Sleep, history
<1>12. CASE Crash
  BY <1>12 DEF Crash, history
<1>13. CASE Tick
  BY <1>13 DEF Tick, memory, history
<1>14. CASE UNCHANGED vars
  BY <1>14 DEF vars, memory, history
<1> QED
  BY <1>1, <1>2, <1>3, <1>4, <1>5, <1>6, <1>7, <1>8, <1>9, <1>10, <1>11, <1>12,
     <1>13, <1>14 DEF LooseNext, Next, LoopStep, FetchReturns, FetchOk

(* Type correctness: in particular a process past its startup always has a *)
(* window to fetch (run_loop's from_ts is never left unset).               *)
THEOREM TypeCorrect == Spec => []TypeOK
<1>1. TypeOK /\ [Next]_vars => TypeOK'
  BY TypeStep DEF LooseNext
<1> QED
  BY <1>1, TypeInit, PTL DEF Spec
-----------------------------------------------------------------------------

LEMMA InvInit == Init => IInv
<1> SUFFICES ASSUME Init PROVE IInv
  OBVIOUS
<1>1. TypeOK
  BY TypeInit
<1>2. Times
  BY DEF Init, Times
<1> QED
  BY <1>1, <1>2 DEF Init, IInv, Core, AtLabel, Chained, NotMissed, Undecided

(* The one step that extends what NotMissed speaks of.  A transaction that *)
(* is not in the window was posted before it, so the last window ended     *)
(* after it became visible.                                                *)
LEMMA FetchOkStep == IInv /\ FetchOk => NotMissed'
<1> SUFFICES ASSUME IInv, FetchOk,
                    since # None, since <= txn.posted,
                    txn.posted < now, txn.visible <= now
             PROVE  stored
  BY DEF FetchOk, Succeed, NotMissed
<1> USE DEF IInv, Core, TypeOK
<1>1. from_ts \in Int /\ now \in Int /\ since \in Int
  BY DEF FetchOk, Succeed, Undecided
<1>2. txn.posted \in Int /\ txn.visible \in Int
  OBVIOUS
<1>3. CASE from_ts <= txn.posted
  BY <1>3 DEF FetchOk, Succeed, Fetched, InWindow
<1>4. CASE txn.posted < from_ts
  <2>1. from_ts # since
    BY <1>1, <1>2, <1>4
  <2>2. lastOk \in Int /\ from_ts <= lastOk - Overlap
    BY <1>1, <2>1 DEF Chained, NextFrom
  <2>3. txn.visible <= txn.posted + Lateness
    BY DEF Times
  <2>4. txn.posted < lastOk /\ txn.visible <= lastOk
    BY <1>1, <1>2, <1>4, <2>2, <2>3
  <2> QED
    BY <2>2, <2>4 DEF NotMissed
<1> QED
  BY <1>1, <1>2, <1>3, <1>4

(* A window that resumes from something overlaps the last one.             *)
LEMMA MarkReaches ==
  ASSUME TypeOK, Times, NEW mark \in ResumeMarks, mark # None \/ ReachesBack,
         from_ts' = IF mark = None THEN FirstFrom ELSE mark
  PROVE  lastOk \in Int /\ from_ts' \in Int /\ from_ts' <= NextFrom(lastOk)
<1> USE DEF TypeOK
<1>1. CASE mark # None /\ HasNextStart
  <2>1. mark = config.next_start
    BY <1>1 DEF ResumeMarks, GetConfig
  <2> QED
    BY <1>1, <2>1 DEF Times, NextFrom
<1>2. CASE mark # None /\ ~HasNextStart
  <2>1. last_fetched \in Int /\ mark = NextFrom(last_fetched)
    BY <1>2 DEF ResumeMarks
  <2> QED
    BY <1>2, <2>1 DEF Times, NextFrom
<1>3. CASE mark = None
  BY <1>3 DEF ReachesBack, FirstFrom, NextFrom
<1> QED
  BY <1>1, <1>2, <1>3

LEMMA CoreStep == Core /\ [LooseNext]_vars => Core'
<1> SUFFICES ASSUME Core, [LooseNext]_vars PROVE Core'
  OBVIOUS
<1> USE DEF Core
<1>0. TypeOK'
  BY TypeStep
<1> USE DEF TypeOK, Undecided
<1> SUFFICES Times' /\ AtLabel'
  BY <1>0
<1> USE <1>0
<1>1. CASE Start
  BY <1>1 DEF Start, memory, history, Times, AtLabel, FirstFrom, NextFrom
<1>2. CASE LoadLastFetched
  <2>1. Times'
    BY <1>2 DEF LoadLastFetched, GetConfig, Times, FirstFrom, NextFrom
  <2> QED
    BY <1>2, <2>1 DEF LoadLastFetched, AtLabel, NextFrom
<1>3. CASE LoadFromTs
  <2>1. PICK mark \in ResumeMarks :
          /\ from_ts' = IF mark = None THEN FirstFrom ELSE mark
          /\ since' = IF mark = None /\ ~ReachesBack THEN FirstFrom ELSE since
    BY <1>3 DEF LoadFromTs
  <2>2. CASE mark = None /\ ~ReachesBack
    BY <1>3, <2>1, <2>2 DEF LoadFromTs, Times, AtLabel, FirstFrom, NextFrom
  <2>3. CASE mark # None \/ ReachesBack
    <3>1. lastOk \in Int /\ since' = since
      BY <2>1, <2>3, MarkReaches
    <3> QED
      BY <1>3, <3>1 DEF LoadFromTs, Times, AtLabel, FirstFrom, NextFrom
  <2> QED
    BY <2>2, <2>3
<1>4. CASE WaitRemainder
  BY <1>4 DEF WaitRemainder, history, Times, AtLabel, FirstFrom, NextFrom
<1>5. CASE BeginCycle
  BY <1>5 DEF BeginCycle, history, Times, AtLabel, FirstFrom, NextFrom
<1>6. CASE FetchStore
  BY <1>6 DEF FetchStore, memory, history, Times, AtLabel, FirstFrom, NextFrom
<1>7. CASE Succeed
  BY <1>7 DEF Succeed, Times, AtLabel, FirstFrom, NextFrom
<1>8. CASE FetchErr
  BY <1>8 DEF FetchErr, Fail, Sleep, history, Times, AtLabel, FirstFrom, NextFrom
<1>9. CASE PersistLastFetched
  <2>1. Times'
    BY <1>9 DEF PersistLastFetched, SetConfig, memory, history, Times, AtLabel, FirstFrom, NextFrom
  <2> QED
    BY <1>9, <2>1 DEF PersistLastFetched, memory, history, AtLabel, NextFrom
<1>10. CASE PersistNextStart
  <2>1. Times'
    BY <1>10 DEF PersistNextStart, PersistNext, SetConfig, memory, history, Times, AtLabel, FirstFrom, NextFrom
  <2> QED
    BY <1>10, <2>1 DEF PersistNextStart, PersistNext, memory, history, AtLabel, NextFrom
<1>11. CASE PostFetch
  BY <1>11 DEF PostFetch, Sleep, history, Times, AtLabel, FirstFrom, NextFrom
<1>12. CASE Crash
  BY <1>12 DEF Crash, Times, AtLabel, FirstFrom, NextFrom
<1>13. CASE Tick
  BY <1>13 DEF Tick, memory, history, Times, AtLabel, FirstFrom, NextFrom
<1>14. CASE UNCHANGED vars
  BY <1>14 DEF vars, memory, history, Times, AtLabel, FirstFrom, NextFrom
<1> QED
  BY <1>1, <1>2, <1>3, <1>4, <1>5, <1>6, <1>7, <1>8, <1>9, <1>10, <1>11, <1>12,
     <1>13, <1>14 DEF LooseNext, Next, LoopStep, FetchReturns, FetchOk

LEMMA InvStep == IInv /\ [Next]_vars => IInv'
<1> SUFFICES ASSUME IInv, [Next]_vars PROVE IInv'
  OBVIOUS
<1>0. Core'
  BY CoreStep DEF IInv, LooseNext
<1> USE DEF IInv, Core, TypeOK, Undecided
<1> SUFFICES Chained' /\ NotMissed'
  BY <1>0
<1>1. CASE Start
  BY <1>1 DEF Start, memory, history, Chained, NotMissed, NextFrom
<1>2. CASE LoadLastFetched
  BY <1>2 DEF LoadLastFetched, Chained, NotMissed, NextFrom
<1>3. CASE LoadFromTs
  <2>1. PICK mark \in ResumeMarks :
          /\ from_ts' = IF mark = None THEN FirstFrom ELSE mark
          /\ since' = IF mark = None /\ ~ReachesBack THEN FirstFrom ELSE since
    BY <1>3 DEF LoadFromTs
  <2>2. CASE mark = None /\ ~ReachesBack
    <3>1. from_ts' = FirstFrom /\ since' = FirstFrom
      BY <2>1, <2>2
    <3>2. since' # None /\ (since # None => since <= since')
      BY <3>1 DEF Times, FirstFrom
    <3>3. NotMissed'
      <4> SUFFICES ASSUME NotMissed' = FALSE PROVE FALSE
        BY DEF NotMissed
      <4> QED
        BY <1>3, <3>1, <3>2 DEF LoadFromTs, NotMissed, Chained, AtLabel, Times, FirstFrom
    <3> QED
      BY <3>1, <3>3 DEF Chained
  <2>3. CASE mark # None \/ ReachesBack
    <3>1. lastOk \in Int /\ from_ts' \in Int /\ from_ts' <= NextFrom(lastOk) /\ since' = since
      BY <2>1, <2>3, MarkReaches
    <3> QED
      BY <1>3, <3>1 DEF LoadFromTs, Chained, NotMissed
  <2> QED
    BY <2>2, <2>3
<1>4. CASE WaitRemainder
  BY <1>4 DEF WaitRemainder, history, Chained, NotMissed, NextFrom
<1>5. CASE BeginCycle
  BY <1>5 DEF BeginCycle, history, Chained, NotMissed, NextFrom
<1>6. CASE FetchStore
  BY <1>6 DEF FetchStore, memory, history, Chained, NotMissed, NextFrom
<1>7. CASE FetchOk
  BY <1>7, FetchOkStep DEF FetchOk, Succeed, Chained, NextFrom
<1>8. CASE FetchErr
  BY <1>8 DEF FetchErr, Fail, Sleep, history, Chained, NotMissed, NextFrom
<1>9. CASE PersistLastFetched
  BY <1>9 DEF PersistLastFetched, memory, history, Chained, NotMissed, NextFrom
<1>10. CASE PersistNextStart
  BY <1>10 DEF PersistNextStart, PersistNext, memory, history, Chained, NotMissed, NextFrom
<1>11. CASE PostFetch
  BY <1>11 DEF PostFetch, Sleep, history, Chained, NotMissed, NextFrom
<1>12. CASE Crash
  BY <1>12 DEF Crash, Chained, NotMissed, NextFrom
<1>13. CASE Tick
  BY <1>13 DEF Tick, memory, history, Chained, NotMissed, NextFrom
<1>14. CASE UNCHANGED vars
  BY <1>14 DEF vars, memory, history, Chained, NotMissed, NextFrom
<1> QED
  BY <1>1, <1>2, <1>3, <1>4, <1>5, <1>6, <1>7, <1>8, <1>9, <1>10, <1>11, <1>12,
     <1>13, <1>14 DEF Next, LoopStep, FetchReturns

LEMMA Invariance == Spec => []IInv
BY InvInit, InvStep, PTL DEF Spec

(* Late-arriving transactions are not missed (fetcher_loop.rs:154), for    *)
(* any overlap, lateness, interval and fallback, whatever database calls   *)
(* fail and wherever the process dies.                                     *)
THEOREM LateArrivals == Spec => []NotMissed
BY Invariance, PTL DEF IInv
-----------------------------------------------------------------------------

LEMMA Inv2Init == Init => IInv2
BY DEF Init, IInv2, Restored, ResumeSafe, HealthHonest, Undecided

(* The window a startup opens.                                             *)
LEMMA OpenWindow ==
  ASSUME Core, Restored, LoadFromTs
  PROVE  /\ from_ts' \in Int
         /\ \/ lastOk \in Int /\ from_ts' <= lastOk - Overlap /\ since' = since
            \/ /\ from_ts' = FirstFrom /\ since' = FirstFrom
               /\ ResumeMark = None \/ ResumeKey \in unread'
<1> USE DEF Core, TypeOK
<1>1. PICK mark \in ResumeMarks :
        /\ from_ts' = IF mark = None THEN FirstFrom ELSE mark
        /\ since' = IF mark = None /\ ~ReachesBack THEN FirstFrom ELSE since
        /\ unread' = IF HasNextStart /\ mark # config.next_start
                     THEN unread \cup {"next_start"} ELSE unread
  BY DEF LoadFromTs
<1>2. CASE mark # None \/ ReachesBack
  BY <1>1, <1>2, MarkReaches DEF NextFrom
<1>3. CASE mark = None /\ ~ReachesBack
  <2>1. from_ts' = FirstFrom /\ since' = FirstFrom /\ FirstFrom \in Int
    BY <1>1, <1>3 DEF FirstFrom
  <2>2. CASE HasNextStart
    BY <1>1, <1>3, <2>1, <2>2 DEF ResumeMark, ResumeKey
  <2>3. CASE ~HasNextStart
    <3>1. last_fetched = None
      BY <1>3, <2>3 DEF ResumeMarks, NextFrom
    <3>2. unread' = unread
      BY <1>1, <2>3
    <3>3. config.last_fetched = None \/ "last_fetched" \in unread
      BY <3>1 DEF LoadFromTs, Restored
    <3> QED
      BY <2>1, <2>3, <3>2, <3>3 DEF ResumeMark, ResumeKey
  <2> QED
    BY <2>2, <2>3
<1> QED
  BY <1>2, <1>3

LEMMA Inv2Step ==
  ASSUME Core, Core', IInv2, [LooseNext]_vars
  PROVE  IInv2'
<1> USE DEF Core, TypeOK, Undecided, Times, AtLabel, IInv2
<1>1. CASE Start
  BY <1>1 DEF Start, memory, history, Restored, ResumeSafe, ResumeMark, ResumeKey, HealthHonest
<1>2. CASE LoadLastFetched
  BY <1>2 DEF LoadLastFetched, GetConfig, history, Restored, ResumeSafe, ResumeMark, ResumeKey, HealthHonest
<1>3. CASE LoadFromTs
  <2>1. Restored' /\ HealthHonest'
    BY <1>3 DEF LoadFromTs, Restored, HealthHonest
  <2>2. ResumeSafe'
    <3>1. UNCHANGED <<config, lastOk>>
      BY <1>3 DEF LoadFromTs
    <3>2. ResumeMark' = ResumeMark
      BY <3>1 DEF ResumeMark
    <3> QED
      BY <1>3, <3>1, <3>2, OpenWindow DEF ResumeSafe, ResumeKey
  <2> QED
    BY <2>1, <2>2
<1>4. CASE WaitRemainder
  <2>1. config.last_fetched # None =>
          \/ wakeAt' >= config.last_fetched + Interval
          \/ "last_fetched" \in unread /\ now = 0
    BY <1>4 DEF WaitRemainder, Remainder, Restored
  <2> QED
    BY <1>4, <2>1 DEF WaitRemainder, history, Restored, ResumeSafe, ResumeMark, ResumeKey, HealthHonest
<1>5. CASE BeginCycle
  BY <1>5 DEF BeginCycle, history, Restored, ResumeSafe, ResumeMark, ResumeKey, HealthHonest
<1>6. CASE FetchStore
  BY <1>6 DEF FetchStore, memory, history, Restored, ResumeSafe, ResumeMark, ResumeKey, HealthHonest
<1>7. CASE Succeed
  <2>1. Restored'
    BY <1>7 DEF Succeed, Restored
  <2>2. ResumeSafe'
    BY <1>7 DEF Succeed, ResumeSafe, ResumeMark, ResumeKey, NextFrom
  <2>3. HealthHonest'
    BY <1>7 DEF Succeed, HealthHonest
  <2> QED
    BY <2>1, <2>2, <2>3
<1>8. CASE FetchErr
  <2>1. config.last_fetched # None => wakeAt' >= config.last_fetched + Interval
    BY <1>8 DEF FetchErr, Fail, Sleep
  <2>2. HealthHonest'
    BY <1>8 DEF FetchErr, Fail, Sleep, history, HealthHonest
  <2> QED
    BY <1>8, <2>1, <2>2 DEF FetchErr, Fail, Sleep, history, Restored, ResumeSafe, ResumeMark, ResumeKey
<1>9. CASE PersistLastFetched
  <2>1. /\ config'.next_start = config.next_start
        /\ config'.last_fetched \in {config.last_fetched, now}
    BY <1>9 DEF PersistLastFetched, SetConfig
  <2>2. Restored'
    BY <1>9, <2>1 DEF PersistLastFetched, memory, history, Restored
  <2>3. ResumeSafe'
    BY <1>9, <2>1 DEF PersistLastFetched, memory, history, ResumeSafe, ResumeMark, ResumeKey, NextFrom
  <2>4. HealthHonest'
    <3>1. UNCHANGED <<now, state, lastOk>> /\ pc' \in {"persistNext", "post"}
      BY <1>9 DEF PersistLastFetched, memory, history
    <3>2. state.last_fetched = now /\ lastOk = now /\ now \in Int
      BY <1>9 DEF PersistLastFetched, Restored
    <3>3. config'.last_fetched # None => config'.last_fetched <= now
      BY <2>1, <3>2
    <3> QED
      BY <3>1, <3>2, <3>3 DEF HealthHonest
  <2> QED
    BY <2>2, <2>3, <2>4
<1>10. CASE PersistNextStart
  <2>1. /\ config'.last_fetched = config.last_fetched
        /\ config'.next_start \in {config.next_start, from_ts}
    BY <1>10 DEF PersistNextStart, PersistNext, SetConfig
  <2>2. Restored'
    BY <1>10, <2>1 DEF PersistNextStart, PersistNext, memory, history, Restored
  <2>3. ResumeSafe'
    BY <1>10, <2>1 DEF PersistNextStart, PersistNext, memory, history, ResumeSafe, ResumeMark, ResumeKey, NextFrom
  <2>4. HealthHonest'
    BY <1>10, <2>1 DEF PersistNextStart, PersistNext, memory, history, HealthHonest
  <2> QED
    BY <2>2, <2>3, <2>4
<1>11. CASE PostFetch
  BY <1>11 DEF PostFetch, Sleep, history, Restored, ResumeSafe, ResumeMark, ResumeKey, HealthHonest
<1>12. CASE Crash
  BY <1>12 DEF Crash, history, Restored, ResumeSafe, ResumeMark, ResumeKey, HealthHonest
<1>13. CASE Tick
  BY <1>13 DEF Tick, memory, history, Restored, ResumeSafe, ResumeMark, ResumeKey, HealthHonest
<1>14. CASE UNCHANGED vars
  BY <1>14 DEF vars, memory, history, Restored, ResumeSafe, ResumeMark, ResumeKey, HealthHonest
<1> QED
  BY <1>1, <1>2, <1>3, <1>4, <1>5, <1>6, <1>7, <1>8, <1>9, <1>10, <1>11, <1>12,
     <1>13, <1>14 DEF LooseNext, Next, LoopStep, FetchReturns, FetchOk

LEMMA LooseInvariance == LooseSpec => [](Core /\ IInv2)
<1>1. Init => Core /\ IInv2
  BY InvInit, Inv2Init DEF IInv
<1>2. (Core /\ IInv2) /\ [LooseNext]_vars => (Core /\ IInv2)'
  BY CoreStep, Inv2Step
<1> QED
  BY <1>1, <1>2, PTL DEF LooseSpec

LEMMA LoosePace == LooseSpec => RateLimited
<1>1. Core /\ IInv2 =>
        [BeginCycle => \/ config.last_fetched = None \/ clock - config.last_fetched >= Interval
                       \/ "last_fetched" \in unread /\ now = 0]_vars
  <2> SUFFICES ASSUME Core, IInv2, BeginCycle, config.last_fetched # None,
                      ~("last_fetched" \in unread /\ now = 0)
               PROVE  clock - config.last_fetched >= Interval
    OBVIOUS
  <2>1. config.last_fetched \in Int /\ clock \in Int /\ wakeAt \in Int
    BY DEF Core, TypeOK
  <2>2. clock >= wakeAt /\ wakeAt >= config.last_fetched + Interval
    BY DEF BeginCycle, IInv2, Restored
  <2> QED
    BY <2>1, <2>2
<1> QED
  BY <1>1, LooseInvariance, PTL DEF RateLimited

(* What the two fetchers take from here, whatever their answers leave out. *)
LEMMA LooseResults ==
  LooseSpec => []TypeOK /\ []ResumeSafe /\ []HealthHonest /\ RateLimited
<1>1. Core /\ IInv2 => TypeOK /\ ResumeSafe /\ HealthHonest
  BY DEF Core, IInv2
<1> QED
  BY <1>1, LooseInvariance, LoosePace, PTL

LEMMA SpecIsLoose == Spec => LooseSpec
<1>1. [Next]_vars => [LooseNext]_vars
  BY DEF LooseNext
<1> QED
  BY <1>1, PTL DEF Spec, LooseSpec

(* README.md:314: once a mark is saved, every window of a process that     *)
(* could read it overlaps the last successful one, and so does every one   *)
(* after the first success of a process that could not.                    *)
THEOREM ResumesSafely == Spec => []ResumeSafe
BY SpecIsLoose, LooseResults

(* What /health reports lies between the poll on record and the last       *)
(* success, or is none while the record has not been read.                 *)
THEOREM HealthIsHonest == Spec => []HealthHonest
BY SpecIsLoose, LooseResults

(* README.md:57: no poll begins within the interval of the poll on record, *)
(* but the first of a process that failed to read when that was.           *)
THEOREM RestartsAreRateLimited == Spec => RateLimited
BY SpecIsLoose, LooseResults
-----------------------------------------------------------------------------

LEMMA PromiseInit == Init => Promise!Init
<1> SUFFICES ASSUME Init PROVE Promise!Init
  OBVIOUS
<1>1. txn \in [posted : Nat, visible : Nat] /\ txn.visible \in txn.posted .. txn.posted + Lateness
  BY DEF Init
<1>2. (ResumeMark # None) = FALSE
  BY DEF Init, ResumeMark
<1> QED
  BY <1>1, <1>2 DEF Init, Promise!Init

LEMMA PromiseStep ==
  ASSUME IInv, IInv', IInv2, [Next]_vars
  PROVE  [Promise!Next]_(Promise!vars)
<1> USE DEF IInv, Core, TypeOK, Undecided, Promise!vars
<1>1. CASE Start
  BY <1>1 DEF Start, memory, history, ResumeMark, ResumeKey
<1>2. CASE LoadLastFetched
  BY <1>2 DEF LoadLastFetched, ResumeMark, ResumeKey, Promise!Next, Promise!Lose
<1>3. CASE LoadFromTs
  <2>1. from_ts = None /\ ResumeMark' = ResumeMark /\ UNCHANGED <<lastOk, txn, stored>>
    BY <1>3 DEF LoadFromTs, ResumeMark
  <2>2. CASE lastOk \in Int /\ from_ts' <= lastOk - Overlap /\ since' = since
    BY <1>3, <2>1, <2>2, OpenWindow DEF IInv2, Promise!Next, Promise!OpenResumed
  <2>3. CASE from_ts' = FirstFrom /\ since' = FirstFrom
             /\ (ResumeMark = None \/ ResumeKey \in unread')
    <3>1. since # None => since <= from_ts'
      BY <2>3 DEF Times
    <3> QED
      BY <1>3, <2>1, <2>3, <3>1, OpenWindow
      DEF IInv2, ResumeKey, Promise!Next, Promise!OpenFresh
  <2> QED
    BY <1>3, <2>2, <2>3, OpenWindow DEF IInv2
<1>4. CASE WaitRemainder
  BY <1>4 DEF WaitRemainder, history, ResumeMark, ResumeKey
<1>5. CASE BeginCycle
  BY <1>5 DEF BeginCycle, history, ResumeMark, ResumeKey
<1>6. CASE FetchStore
  BY <1>6 DEF FetchStore, InWindow, memory, history, ResumeMark, ResumeKey, Promise!Next, Promise!Store
<1>7. CASE FetchOk
  <2>1. from_ts # None /\ now \in Int /\ (lastOk # None => lastOk <= now)
    BY <1>7 DEF FetchOk, Succeed, AtLabel
  <2> QED
    BY <1>7, <2>1
    DEF FetchOk, Succeed, Fetched, InWindow, NextFrom, ResumeMark, ResumeKey, Promise!Next, Promise!Close
<1>8. CASE FetchErr
  BY <1>8 DEF FetchErr, Fail, history, ResumeMark, ResumeKey
<1>9. CASE PersistLastFetched \/ PersistNextStart
  <2>1. UNCHANGED <<from_ts, lastOk, since, unread, txn, stored>>
    BY <1>9 DEF PersistLastFetched, PersistNextStart, PersistNext, memory, history
  <2>2. from_ts # None /\ lastOk # None /\ from_ts = lastOk - Overlap
    BY <1>9 DEF PersistLastFetched, PersistNextStart, PersistNext, AtLabel, NextFrom
  <2>3. ResumeMark' = ResumeMark \/ ResumeMark' # None
    BY <1>9 DEF PersistLastFetched, PersistNextStart, PersistNext, SetConfig, ResumeMark
  <2> QED
    BY <2>1, <2>2, <2>3 DEF ResumeKey, Promise!Next, Promise!Mark
<1>10. CASE PostFetch
  BY <1>10 DEF PostFetch, history, ResumeMark, ResumeKey
<1>11. CASE Crash
  BY <1>11 DEF Crash, history, ResumeMark, ResumeKey, Promise!Next, Promise!Lose
<1>12. CASE Tick
  BY <1>12 DEF Tick, memory, history, ResumeMark, ResumeKey
<1>13. CASE UNCHANGED vars
  BY <1>13 DEF vars, memory, history, ResumeMark, ResumeKey
<1> QED
  BY <1>1, <1>2, <1>3, <1>4, <1>5, <1>6, <1>7, <1>8, <1>9, <1>10, <1>11, <1>12,
     <1>13 DEF Next, LoopStep, FetchReturns

(* The polling loop implements Coverage, whatever reads and writes fail.   *)
THEOREM LoopKeepsPromise == Spec => KeepsPromise
<1>1. IInv /\ IInv' /\ IInv2 /\ [Next]_vars => [Promise!Next]_(Promise!vars)
  BY PromiseStep
<1>2. Spec => []IInv2
  BY SpecIsLoose, LooseInvariance, PTL
<1> QED
  BY <1>1, <1>2, PromiseInit, Invariance, PTL DEF Spec, KeepsPromise, Promise!Spec
=============================================================================
