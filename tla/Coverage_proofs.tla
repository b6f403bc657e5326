--------------------------- MODULE Coverage_proofs ---------------------------
(***************************************************************************)
(* The promise of incremental polling, proved once at the abstract level.  *)
(***************************************************************************)
EXTENDS Coverage, TLAPS

Stamp == Int \cup {None}

Types ==
  /\ start \in Stamp
  /\ hi \in Stamp
  /\ marked \in BOOLEAN
  /\ since \in Stamp
  /\ txn.posted \in Int /\ txn.visible \in Int
  /\ txn.visible <= txn.posted + Lateness

(* A window either began a chain or overlaps the one before it.            *)
Chained ==
  /\ start # None => start = since \/ (hi # None /\ start <= hi - Overlap)
  /\ start # None \/ hi # None => since # None
  /\ marked => hi # None

IInv == Types /\ Chained /\ ResumeSafe /\ NotMissed

LEMMA StampDef == \A v : v \in Stamp <=> v \in Int \/ v = None
BY Zenon DEF Stamp

LEMMA NoneFact == ASSUME Overlapping PROVE \A i \in Int : i # None
BY Zenon DEF Overlapping

LEMMA OverlapFact == ASSUME Overlapping PROVE Overlap \in Nat /\ Lateness \in 0 .. Overlap
BY Zenon DEF Overlapping

LEMMA InvInit == ASSUME Overlapping, Init PROVE IInv
<1>1. txn.posted \in Nat /\ txn.visible \in Nat
  BY DEF Init
<1>2. txn.visible <= txn.posted + Lateness
  BY <1>1, OverlapFact DEF Init
<1>3. Types
  <2>1. marked \in BOOLEAN
    BY Zenon DEF Init
  <2>2. start \in Stamp /\ hi \in Stamp /\ since \in Stamp
    BY StampDef DEF Init
  <2>3. txn.posted \in Int /\ txn.visible \in Int
    BY <1>1
  <2> QED
    BY <1>2, <2>1, <2>2, <2>3 DEF Types
<1>4. Chained /\ ResumeSafe /\ NotMissed
  BY Zenon DEF Init, Chained, ResumeSafe, NotMissed
<1> QED
  BY <1>3, <1>4 DEF IInv

(* What is behind the window to be closed was fetched with an earlier one. *)
LEMMA CloseStep == ASSUME Overlapping, IInv, Close PROVE NotMissed'
<1> SUFFICES ASSUME since # None, since <= txn.posted,
                    txn.posted < hi', txn.visible <= hi'
             PROVE  stored
  BY DEF Close, NotMissed
<1> USE NoneFact, OverlapFact, StampDef DEF IInv, Types
<1>1. start \in Int /\ hi' \in Int /\ since \in Int
  BY DEF Close
<1>2. CASE start <= txn.posted
  BY <1>2 DEF Close
<1>3. CASE txn.posted < start
  <2>1. hi \in Int /\ start <= hi - Overlap
    BY <1>1, <1>3 DEF Chained
  <2>2. txn.posted < hi /\ txn.visible <= hi
    BY <1>1, <1>3, <2>1
  <2> QED
    BY <2>1, <2>2 DEF NotMissed
<1> QED
  BY <1>1, <1>2, <1>3

LEMMA InvStep == ASSUME Overlapping, IInv, [Next]_vars PROVE IInv'
<1> USE NoneFact, OverlapFact, StampDef DEF IInv, Types, Chained
<1>1. CASE OpenFresh
  <2>1. Types' /\ Chained' /\ ResumeSafe'
    BY <1>1 DEF OpenFresh, ResumeSafe
  <2>2. since # None => since \in Int /\ since <= since'
    BY <1>1 DEF OpenFresh
  <2>3. NotMissed'
    <3> SUFFICES ASSUME hi # None, since' <= txn.posted, txn.posted < hi, txn.visible <= hi
                 PROVE  stored
      BY <1>1 DEF OpenFresh, NotMissed
    <3>1. since \in Int /\ since <= since' /\ since' \in Int
      BY <1>1, <2>2 DEF OpenFresh
    <3>2. since # None /\ since <= txn.posted
      BY <3>1
    <3> QED
      BY <3>2 DEF NotMissed
  <2> QED
    BY <2>1, <2>3
<1>2. CASE OpenResumed
  BY <1>2 DEF OpenResumed, ResumeSafe, NotMissed
<1>3. CASE Store
  BY <1>3 DEF Store, ResumeSafe, NotMissed
<1>4. CASE Close
  <2>1. Types' /\ Chained' /\ ResumeSafe'
    BY <1>4 DEF Close, ResumeSafe
  <2> QED
    BY <1>4, <2>1, CloseStep
<1>5. CASE Mark
  BY <1>5 DEF Mark, ResumeSafe, NotMissed
<1>6. CASE Lose
  BY <1>6 DEF Lose, ResumeSafe, NotMissed
<1>7. CASE UNCHANGED vars
  BY <1>7 DEF vars, ResumeSafe, NotMissed
<1> QED
  BY <1>1, <1>2, <1>3, <1>4, <1>5, <1>6, <1>7 DEF Next

(* Overlapping windows whose lateness is within the overlap miss nothing.  *)
THEOREM NothingMissed ==
  ASSUME Overlapping PROVE Spec => [](NotMissed /\ ResumeSafe)
<1>1. Init => IInv
  BY InvInit
<1>2. IInv /\ [Next]_vars => IInv'
  BY InvStep
<1>3. IInv => NotMissed /\ ResumeSafe
  BY DEF IInv
<1> QED
  BY <1>1, <1>2, <1>3, PTL DEF Spec
=============================================================================
