------------------------- MODULE TxnReconciler_proofs -------------------------
(***************************************************************************)
(* What runs leave in reconciled_transactions, for any number of runs,     *)
(* accounts and transactions.  The invariant says what a run knows of the  *)
(* pair it is at (Own, Choices), what of it is in the table until another  *)
(* run empties one of its accounts (Holds), and, for a run that is alone,  *)
(* the rows of the pair it is at (Here) and of those it has left (Done).   *)
(***************************************************************************)
EXTENDS TxnReconciler, FiniteSetTheorems, WellFoundedInduction, TLAPS

AtPair(r) == pc[r] \in {"readSf", "readLf", "write"}
Past(r) == AtPair(r) \/ pc[r] = "next"

(* A run writes once it has read, transactions of its pair, and matches    *)
(* first.                                                                  *)
Own ==
  \A r \in Runners :
    /\ AtPair(r) <=> pair[r] # None
    /\ AtPair(r) => sf[r] \subseteq OfSf(pair[r][1]) /\ lf[r] \subseteq OfLf(pair[r][2])
    /\ ~Past(r) => sfDone[r] = {} /\ lfDone[r] = {}
    /\ pc[r] \notin {"readLf", "write"} => sf[r] = {}
    /\ pc[r] # "write" => lf[r] = {} /\ mine[r] = {} /\ keptSf[r] = {} /\ keptLf[r] = {}
    /\ mine[r] \subseteq sf[r] \X lf[r]
    /\ keptSf[r] \subseteq sf[r] \ SfOf(mine[r])
    /\ keptLf[r] \subseteq lf[r] \ LfOf(mine[r])
    /\ keptSf[r] # {} => ToMatch(r) = {}

(* The matches of a run are the best ones, and leave no candidate out.     *)
Choices ==
  \A r \in Runners :
    /\ \A m, n \in mine[r] : m[2] = n[2] => m = n
    /\ \A m \in mine[r], s \in sf[r] :
         score[<<s, m[2]>>] >= Threshold => score[<<s, m[2]>>] <= score[m]
    /\ \A l \in keptLf[r], s \in sf[r] : ~(score[<<s, l>>] >= Threshold)

(* What a run has written since it emptied both accounts, if it was the    *)
(* last to.                                                                *)
Holds ==
  \A r \in Runners :
    AtPair(r) /\ emptiedSf[pair[r][1]] = r /\ emptiedLf[pair[r][2]] = r =>
      /\ mine[r] \subseteq matched
      /\ \A t \in keptSf[r] : sfinOnly[t] > 0
      /\ \A t \in keptLf[r] : lfOnly[t] > 0

(* The rows of the pair a run is at. *)
Here(r) ==
  /\ mine[r] \subseteq matched
  /\ \A m \in matched :
       SfOwner[m[1]] = pair[r][1] \/ LfOwner[m[2]] = pair[r][2] => m \in mine[r]
  /\ \A t \in OfSf(pair[r][1]) : sfinOnly[t] = IF t \in keptSf[r] THEN 1 ELSE 0
  /\ \A t \in OfLf(pair[r][2]) : lfOnly[t] = IF t \in keptLf[r] THEN 1 ELSE 0

(* No row joins an account of a pair the run has come to with a stranger.  *)
Known(r) ==
  /\ queue[r] \subseteq linked
  /\ pair[r] # None => pair[r] \in linked \ queue[r]
  /\ \A m \in matched :
       SfOwner[m[1]] \in SfOf(linked \ queue[r]) \/ LfOwner[m[2]] \in LfOf(linked \ queue[r])
         => <<SfOwner[m[1]], LfOwner[m[2]]>> \in linked

(* What a run has read is still there.                                     *)
Seen ==
  \A r \in Runners : sfDone[r] \subseteq transactions /\ lfDone[r] \subseteq lf_transactions

(* The transactions it has read: those of the pair it is at, which it      *)
(* reads again if it was at another pair of their account before, and      *)
(* those of pairs it has left, whose rows are as they should be.           *)
SfLeft(r, t) == ~AtPair(r) \/ SfOwner[t] # pair[r][1]
LfLeft(r, t) == ~AtPair(r) \/ LfOwner[t] # pair[r][2]

Read(r) ==
  /\ \A t \in sfDone[r] : /\ \E d \in linked \ queue[r] : SfOwner[t] = d[1]
                          /\ SfLeft(r, t) \/ t \in sf[r] \/ pc[r] = "readSf"
  /\ \A t \in lfDone[r] : /\ \E d \in linked \ queue[r] : LfOwner[t] = d[2]
                          /\ LfLeft(r, t) \/ t \in lf[r] \/ pc[r] # "write"

BestFor(r, l) ==
  \A s \in sfDone[r] :
    /\ <<SfOwner[s], LfOwner[l]>> \in linked
    /\ SfSole(SfOwner[s]) /\ LfSole(LfOwner[l])
    /\ score[<<s, l>>] >= Threshold
    => \E m \in matched : m[2] = l /\ score[m] >= score[<<s, l>>]

Done(r) ==
  /\ \A t \in sfDone[r] : SfLeft(r, t) => SfCovered(t)
  /\ \A t \in lfDone[r] : LfLeft(r, t) => LfCovered(t) /\ BestFor(r, t)

Alone ==
  \A r \in Runners : alone[r] =>
    /\ \A q \in Runners \ {r} : pc[q] = "idle"
    /\ Past(r) => Known(r)
    /\ AtPair(r) => Here(r)
    /\ Past(r) => Read(r) /\ Done(r)

Rest == Own /\ Choices /\ Holds /\ Alone

-----------------------------------------------------------------------------
(* Type correctness *)

LEMMA LinksOfNone == \E G \in Links : {} \subseteq G
BY TxnAssumption

LEMMA TypeInit == Init => TypeOK
BY TxnAssumption, LinksOfNone DEF Init, TypeOK

LEMMA OwnerTypes ==
  /\ \A t \in SfTxns : SfOwner[t] \in SfAccounts
  /\ \A t \in LfTxns : LfOwner[t] \in LfAccounts
BY TxnAssumption

LEMMA MatchedPair == \A r : Match(r) => \E l \in ToMatch(r) : \E s \in Best(r, l) : WriteMatch(r, <<s, l>>)
BY Zenon DEF Match

LEMMA TypeStep == TypeOK /\ [Next]_vars => TypeOK'
<1> SUFFICES ASSUME TypeOK, [Next]_vars PROVE TypeOK'
  OBVIOUS
<1> USE DEF TypeOK, Goto, source, table, todo, read, wrote, history
<1>1. ASSUME NEW r \in Runners, Begin(r) PROVE TypeOK'
  <2>1. alone' \in [Runners -> BOOLEAN]
    BY <1>1, Zenon DEF Begin
  <2> QED
    BY <1>1, <2>1 DEF Begin
<1>13. ASSUME NEW r \in Runners, Link(r) PROVE TypeOK'
  <2>1. PICK p \in Pairs : /\ \E G \in Links : links[r] \cup {p} \subseteq G
                          /\ links' = [links EXCEPT ![r] = @ \cup {p}]
                          /\ linked' = linked \cup {p}
    BY <1>13 DEF Link
  <2>2. links' \in [Runners -> SUBSET Pairs]
    BY <2>1
  <2>3. \A q \in Runners : \E G \in Links : links'[q] \subseteq G
    BY <2>1
  <2> QED
    BY <1>13, <2>1, <2>2, <2>3 DEF Link
<1>2. ASSUME NEW r \in Runners, ReadPairs(r) PROVE TypeOK'
  BY <1>2, LinksOfNone DEF ReadPairs, ReadRows
<1>3. ASSUME NEW r \in Runners, NEW p \in Pairs, Clear(r, p) PROVE TypeOK'
  BY <1>3 DEF Clear, Empty, Pairs
<1>4. ASSUME NEW r \in Runners, ReadSf(r) PROVE TypeOK'
  BY <1>4 DEF ReadSf
<1>5. ASSUME NEW r \in Runners, ReadLf(r) PROVE TypeOK'
  BY <1>5 DEF ReadLf
<1>6. ASSUME NEW r \in Runners, Match(r) PROVE TypeOK'
  <2> PICK l \in ToMatch(r) : \E s \in Best(r, l) : WriteMatch(r, <<s, l>>)
    BY <1>6, MatchedPair
  <2> PICK s \in Best(r, l) : WriteMatch(r, <<s, l>>)
    OBVIOUS
  <2>1. <<s, l>> \in SfTxns \X LfTxns
    BY DEF Best, Close, ToMatch
  <2> QED
    BY <1>6, <2>1 DEF Match, WriteMatch
<1>7. ASSUME NEW r \in Runners, LeaveLf(r) PROVE TypeOK'
  BY <1>7 DEF LeaveLf, WriteLfOnly, ToMatch
<1>8. ASSUME NEW r \in Runners, LeaveSf(r) PROVE TypeOK'
  BY <1>8 DEF LeaveSf, WriteSfOnly, ToKeep
<1>9. ASSUME NEW r \in Runners, EndPair(r) PROVE TypeOK'
  BY <1>9 DEF EndPair, Forget
<1>10. ASSUME NEW r \in Runners, Stop(r) PROVE TypeOK'
  BY <1>10, LinksOfNone DEF Stop, Forget
<1>11. CASE AddTxn
  BY <1>11 DEF AddTxn
<1>12. CASE UNCHANGED vars
  BY <1>12 DEF vars
<1> QED
  BY <1>1, <1>2, <1>3, <1>4, <1>5, <1>6, <1>7, <1>8, <1>9, <1>10, <1>11, <1>12, <1>13
  DEF Next, Run, Finish, Abort

(* Type correctness, whatever pairs account matching leaves at each run.   *)
THEOREM TypeCorrect == Spec => []TypeOK
BY TypeInit, TypeStep, PTL DEF Spec

-----------------------------------------------------------------------------
(* The invariant *)

LEMMA RestInit == ASSUME Init, TypeOK PROVE Rest
<1>1. Own
  BY DEF Init, Own, AtPair, Past, SfOf, LfOf
<1>2. Choices /\ Holds
  BY DEF Init, Choices, Holds, AtPair
<1>3. Alone
  BY Zenon DEF Init, Alone
<1> QED
  BY <1>1, <1>2, <1>3 DEF Rest

(* A run's step shows Alone' from what it shows of that run.               *)
LEMMA AloneStep ==
  ASSUME TypeOK, Alone, NEW r \in Runners, pc[r] # "idle", UNCHANGED alone,
         \A q \in Runners \ {r} : pc[q]' = pc[q],
         alone[r] => /\ Past(r)' => Known(r)'
                     /\ AtPair(r)' => Here(r)'
                     /\ Past(r)' => Read(r)' /\ Done(r)'
  PROVE  Alone'
<1> SUFFICES ASSUME NEW q \in Runners, alone[q]'
             PROVE  /\ \A o \in Runners \ {q} : pc[o]' = "idle"
                    /\ Past(q)' => Known(q)'
                    /\ AtPair(q)' => Here(q)'
                    /\ Past(q)' => Read(q)' /\ Done(q)'
  BY Zenon DEF Alone
<1>1. alone[q] /\ \A o \in Runners \ {q} : pc[o] = "idle"
  BY Zenon DEF Alone
<1>2. q = r
  BY <1>1
<1> QED
  BY <1>1, <1>2

LEMMA BeginStep ==
  ASSUME TypeOK, Rest, NEW r \in Runners, Begin(r) PROVE Rest'
<1>1. /\ pc[r] = "idle" /\ pc' = [pc EXCEPT ![r] = "link"]
      /\ alone' = [q \in Runners |-> q = r /\ \A o \in Runners \ {r} : ~Active(o)]
      /\ UNCHANGED <<score, table, todo, read, wrote, sfDone, lfDone>>
  BY DEF Begin, Goto
<1>2. \A q \in Runners : /\ AtPair(q)' <=> AtPair(q)
                         /\ Past(q)' <=> Past(q)
                         /\ pc'[q] \in {"readLf", "write"} <=> pc[q] \in {"readLf", "write"}
                         /\ pc'[q] = "write" <=> pc[q] = "write"
  BY <1>1 DEF AtPair, Past, TypeOK
<1>3. Own'
  BY <1>1, <1>2 DEF Rest, Own, todo, read, wrote, ToMatch
<1>4. Choices' /\ Holds'
  BY <1>1, <1>2 DEF Rest, Choices, Holds, table, todo, read, wrote
<1>5. Alone'
  <2> SUFFICES ASSUME NEW q \in Runners, alone'[q]
               PROVE  ~Past(q)' /\ \A o \in Runners \ {q} : pc'[o] = "idle"
    BY Zenon DEF Alone, Past
  <2>1. q = r /\ \A o \in Runners \ {r} : ~Active(o)
    BY <1>1, Zenon
  <2>2. pc'[r] = "link" /\ \A o \in Runners \ {r} : pc'[o] = pc[o]
    BY <1>1 DEF TypeOK
  <2> QED
    BY <2>1, <2>2 DEF Active, Past, AtPair
<1> QED
  BY <1>3, <1>4, <1>5 DEF Rest

LEMMA LinkStep ==
  ASSUME TypeOK, Rest, NEW r \in Runners, Link(r) PROVE Rest'
<1>1. pc[r] = "link" /\ UNCHANGED <<score, table, pc, queue, pair, read, wrote, history>>
  BY DEF Link
<1>2. Own'
  BY <1>1 DEF Rest, Own, AtPair, Past, read, wrote, history, ToMatch
<1>3. Choices' /\ Holds'
  BY <1>1 DEF Rest, Choices, Holds, AtPair, table, read, wrote
<1>4. ~AtPair(r)' /\ ~Past(r)'
  BY <1>1 DEF AtPair, Past
<1>5. Alone'
  BY <1>1, <1>4, AloneStep DEF Rest, history
<1> QED
  BY <1>2, <1>3, <1>5 DEF Rest

LEMMA ReadPairsStep ==
  ASSUME TypeOK, Rest, NEW r \in Runners, ReadPairs(r) PROVE Rest'
<1>1. /\ pc[r] = "link" /\ pc' = [pc EXCEPT ![r] = "next"]
      /\ queue' = [queue EXCEPT ![r] = linked]
      /\ UNCHANGED <<source, table, pair, read, wrote, history>>
  BY DEF ReadPairs, ReadRows, Goto
<1>2. \A q \in Runners : /\ AtPair(q)' <=> AtPair(q)
                         /\ ~Past(q)' => ~Past(q)
                         /\ pc'[q] \in {"readLf", "write"} <=> pc[q] \in {"readLf", "write"}
                         /\ pc'[q] = "write" <=> pc[q] = "write"
  BY <1>1 DEF AtPair, Past, TypeOK
<1>3. Own'
  BY <1>1, <1>2 DEF Rest, Own, read, wrote, history, ToMatch
<1>4. Choices' /\ Holds'
  BY <1>1, <1>2 DEF Rest, Choices, Holds, table, read, wrote, source
<1>5. ~AtPair(r)' /\ ~AtPair(r) /\ ~Past(r) /\ pair[r] = None
  BY <1>1, <1>2 DEF AtPair, Past, Rest, Own
<1>6. linked' = linked /\ queue'[r] = linked /\ pair'[r] = None
  BY <1>1, <1>5 DEF source, TypeOK
<1>7. Known(r)'
  BY <1>6 DEF Known, SfOf, LfOf
<1>8. Read(r)' /\ Done(r)'
  BY <1>1, <1>5 DEF Rest, Own, Read, Done, history
<1>9. Alone'
  BY <1>1, <1>5, <1>7, <1>8, AloneStep DEF Rest, history, TypeOK
<1> QED
  BY <1>3, <1>4, <1>9 DEF Rest

(* An account's only partner.                                              *)
LEMMA SfSoleUse ==
  ASSUME NEW a, SfSole(a), NEW b, NEW c, <<a, b>> \in linked, <<a, c>> \in linked
  PROVE  b = c
BY <<a, b>>[1] = a, <<a, b>>[2] = b, <<a, c>>[1] = a, <<a, c>>[2] = c DEF SfSole

LEMMA LfSoleUse ==
  ASSUME NEW b, LfSole(b), NEW a, NEW c, <<a, b>> \in linked, <<c, b>> \in linked
  PROVE  a = c
BY <<a, b>>[1] = a, <<a, b>>[2] = b, <<c, b>>[1] = c, <<c, b>>[2] = b DEF LfSole

(* The premises are about the accounts, and do not change in a run.        *)
LEMMA SparedKept ==
  ASSUME linked' = linked
  PROVE  /\ \A a : SfSole(a)' = SfSole(a) /\ LfSole(a)' = LfSole(a)
         /\ \A t : SfSpared(t)' = SfSpared(t) /\ LfSpared(t)' = LfSpared(t)
BY DEF SfSole, LfSole, SfSpared, LfSpared

LEMMA ClearStep ==
  ASSUME TypeOK, Rest, NEW r \in Runners, NEW p \in Pairs, Clear(r, p) PROVE Rest'
<1> DEFINE S == OfSf(p[1])
           L == OfLf(p[2])
<1>1. /\ pc[r] = "next" /\ p \in queue[r] /\ pc' = [pc EXCEPT ![r] = "readSf"]
      /\ UNCHANGED <<source, read, wrote, history>>
  BY DEF Clear, Empty, Goto
<1>2. /\ queue' = [queue EXCEPT ![r] = @ \ {p}]
      /\ pair' = [pair EXCEPT ![r] = p]
      /\ matched' = {m \in matched : m[1] \notin S /\ m[2] \notin L}
      /\ sfinOnly' = [t \in SfTxns |-> IF t \in S THEN 0 ELSE sfinOnly[t]]
      /\ lfOnly' = [t \in LfTxns |-> IF t \in L THEN 0 ELSE lfOnly[t]]
      /\ emptiedSf' = [emptiedSf EXCEPT ![p[1]] = r]
      /\ emptiedLf' = [emptiedLf EXCEPT ![p[2]] = r]
  BY DEF Clear, Empty
<1>3. /\ pair'[r] = p /\ queue'[r] = queue[r] \ {p} /\ p # None
      /\ \A q \in Runners \ {r} : pair'[q] = pair[q]
  BY <1>2, TxnAssumption DEF TypeOK, Pairs
<1>4. /\ ~AtPair(r) /\ AtPair(r)' /\ Past(r) /\ Past(r)' /\ pc'[r] # "write" /\ pc[r] # "write"
      /\ \A q \in Runners \ {r} : pc'[q] = pc[q]
  BY <1>1 DEF AtPair, Past, TypeOK
<1>5. Own'
  BY <1>1, <1>3, <1>4 DEF Rest, Own, AtPair, Past, read, wrote, history, ToMatch
<1>6. Choices'
  BY <1>1 DEF Rest, Choices, source, read, wrote
<1>7. Holds'
  <2> SUFFICES ASSUME NEW q \in Runners, AtPair(q)',
                      emptiedSf'[pair'[q][1]] = q, emptiedLf'[pair'[q][2]] = q
               PROVE  /\ mine'[q] \subseteq matched'
                      /\ \A t \in keptSf'[q] : sfinOnly'[t] > 0
                      /\ \A t \in keptLf'[q] : lfOnly'[t] > 0
    BY DEF Holds
  <2>1. CASE q = r
    BY <1>1, <1>4, <2>1 DEF Rest, Own, wrote
  <2>2. CASE q # r
    <3>1. AtPair(q) /\ pair'[q] = pair[q] /\ pair[q] \in Pairs
      BY <1>3, <1>4, <2>2 DEF AtPair, Rest, Own, TypeOK
    <3>2. pair[q][1] # p[1] /\ pair[q][2] # p[2]
      BY <1>2, <2>2, <3>1 DEF TypeOK, Pairs
    <3>3. emptiedSf[pair[q][1]] = q /\ emptiedLf[pair[q][2]] = q
      BY <1>2, <3>1, <3>2 DEF TypeOK, Pairs
    <3>4. /\ mine[q] \subseteq matched
          /\ \A t \in keptSf[q] : sfinOnly[t] > 0
          /\ \A t \in keptLf[q] : lfOnly[t] > 0
      BY <3>1, <3>3 DEF Rest, Holds
    <3>5. /\ \A m \in mine[q] : m[1] \notin S /\ m[2] \notin L
          /\ \A t \in keptSf[q] : t \in SfTxns /\ t \notin S
          /\ \A t \in keptLf[q] : t \in LfTxns /\ t \notin L
      BY <3>1, <3>2 DEF Rest, Own, OfSf, OfLf
    <3> QED
      BY <1>1, <1>2, <3>4, <3>5 DEF wrote
  <2> QED
    BY <2>1, <2>2
<1>8. ASSUME alone[r] PROVE Known(r)'
  <2>1. Known(r)
    BY <1>4, <1>8 DEF Rest, Alone
  <2>2. p \in linked /\ queue'[r] \subseteq linked /\ p \notin queue'[r] /\ linked' = linked
    BY <1>1, <1>3, <2>1 DEF Known, source
  <2>3. ASSUME NEW m \in matched',
               SfOwner[m[1]] \in SfOf(linked \ queue'[r]) \/ LfOwner[m[2]] \in LfOf(linked \ queue'[r])
        PROVE  <<SfOwner[m[1]], LfOwner[m[2]]>> \in linked
    <3>1. m \in matched /\ m[1] \in SfTxns /\ m[2] \in LfTxns /\ m[1] \notin S /\ m[2] \notin L
      BY <1>2 DEF TypeOK
    <3>2. SfOwner[m[1]] # p[1] /\ LfOwner[m[2]] # p[2]
      BY <3>1 DEF OfSf, OfLf
    <3>3. SfOwner[m[1]] \in SfOf(linked \ queue[r]) \/ LfOwner[m[2]] \in LfOf(linked \ queue[r])
      BY <1>3, <2>3, <3>2 DEF SfOf, LfOf
    <3> QED
      BY <2>1, <3>1, <3>3 DEF Known
  <2> QED
    BY <1>3, <2>2, <2>3 DEF Known
<1>9. Here(r)'
  <2>1. mine'[r] = {} /\ keptSf'[r] = {} /\ keptLf'[r] = {}
    BY <1>1, <1>4 DEF Rest, Own, wrote
  <2>2. \A m \in matched' : SfOwner[m[1]] # p[1] /\ LfOwner[m[2]] # p[2]
    BY <1>2 DEF OfSf, OfLf, TypeOK
  <2>3. /\ \A t \in OfSf(p[1]) : sfinOnly'[t] = 0
        /\ \A t \in OfLf(p[2]) : lfOnly'[t] = 0
    BY <1>2 DEF OfSf, OfLf
  <2> QED
    BY <1>3, <2>1, <2>2, <2>3 DEF Here
<1>10. ASSUME alone[r] PROVE Read(r)' /\ Done(r)'
  <2>1. Known(r) /\ Read(r) /\ Done(r)
    BY <1>4, <1>10 DEF Rest, Alone
  <2>2. /\ p \in linked /\ linked' = linked /\ p = <<p[1], p[2]>>
        /\ \A d \in linked \ queue[r] : d \in linked \ queue'[r]
    BY <1>1, <1>3, <2>1 DEF Known, source, Pairs
  <2>3. Read(r)'
    <3>1. /\ \A t \in sfDone[r] : \E d \in linked \ queue'[r] : SfOwner[t] = d[1]
          /\ \A t \in lfDone[r] : \E d \in linked \ queue'[r] : LfOwner[t] = d[2]
      BY <2>1, <2>2 DEF Read
    <3> QED
      BY <1>1, <1>4, <2>2, <3>1 DEF Read, history, TypeOK
  <2>4. matched' \subseteq matched
    BY <1>2
  (* The rows of pairs left go only with a pair of an account they share.  *)
  <2>5. ASSUME NEW m \in matched, m[1] \in sfDone[r] \/ m[2] \in lfDone[r]
        PROVE  /\ <<SfOwner[m[1]], LfOwner[m[2]]>> \in linked
               /\ SfOwner[m[1]] # p[1] /\ LfOwner[m[2]] # p[2] => m \in matched'
    <3>1. m[1] \in SfTxns /\ m[2] \in LfTxns
      BY DEF TypeOK
    <3>2. SfOwner[m[1]] \in SfOf(linked \ queue[r]) \/ LfOwner[m[2]] \in LfOf(linked \ queue[r])
      BY <2>1, <2>5 DEF Read, SfOf, LfOf
    <3> QED
      BY <1>2, <2>1, <3>1, <3>2 DEF Known, OfSf, OfLf
  <2>6. ASSUME NEW t \in sfDone[r], SfOwner[t] # p[1] PROVE SfCovered(t)'
    <3>1. SfCovered(t) /\ t \in SfTxns /\ sfinOnly'[t] = sfinOnly[t]
      BY <1>2, <1>4, <2>1, <2>6 DEF Done, SfLeft, TypeOK, OfSf
    <3>2. SfOnce(t)'
      BY <2>4, <3>1 DEF SfCovered, SfOnce, SfOf, TypeOK
    <3>3. ASSUME SfSpared(t), t \in SfOf(matched) PROVE t \in SfOf(matched')
      <4>1. PICK m \in matched : m[1] = t
        BY <3>3 DEF SfOf
      <4>2. <<SfOwner[t], LfOwner[m[2]]>> \in linked
        BY <2>5, <4>1
      <4>3. LfSole(LfOwner[m[2]])
        BY <3>3, <4>2 DEF SfSpared
      <4>4. LfOwner[m[2]] # p[2]
        BY <2>2, <2>6, <4>2, <4>3, LfSoleUse
      <4> QED
        BY <2>5, <2>6, <4>1, <4>4 DEF SfOf
    <3>4. SfSpared(t) => SfRow(t)'
      BY <3>1, <3>3 DEF SfCovered, SfRow
    <3> QED
      BY <2>2, <3>2, <3>4, SparedKept DEF SfCovered
  <2>7. ASSUME NEW t \in lfDone[r], LfOwner[t] # p[2] PROVE LfCovered(t)'
    <3>1. LfCovered(t) /\ t \in LfTxns /\ lfOnly'[t] = lfOnly[t]
      BY <1>2, <1>4, <2>1, <2>7 DEF Done, LfLeft, TypeOK, OfLf
    <3>2. LfOnce(t)'
      BY <2>4, <3>1 DEF LfCovered, LfOnce, LfOf, TypeOK
    <3>3. ASSUME LfSpared(t), t \in LfOf(matched) PROVE t \in LfOf(matched')
      <4>1. PICK m \in matched : m[2] = t
        BY <3>3 DEF LfOf
      <4>2. <<SfOwner[m[1]], LfOwner[t]>> \in linked
        BY <2>5, <4>1
      <4>3. SfSole(SfOwner[m[1]])
        BY <3>3, <4>2 DEF LfSpared
      <4>4. SfOwner[m[1]] # p[1]
        BY <2>2, <2>7, <4>2, <4>3, SfSoleUse
      <4> QED
        BY <2>5, <2>7, <4>1, <4>4 DEF LfOf
    <3>4. LfSpared(t) => LfRow(t)'
      BY <3>1, <3>3 DEF LfCovered, LfRow
    <3> QED
      BY <2>2, <3>2, <3>4, SparedKept DEF LfCovered
  <2>8. ASSUME NEW l \in lfDone[r], LfOwner[l] # p[2] PROVE BestFor(r, l)'
    <3>1. BestFor(r, l)
      BY <1>4, <2>1, <2>8 DEF Done, LfLeft
    <3>2. ASSUME NEW s \in sfDone[r], <<SfOwner[s], LfOwner[l]>> \in linked,
                 SfSole(SfOwner[s]), LfSole(LfOwner[l]), score[<<s, l>>] >= Threshold
          PROVE  \E m \in matched' : m[2] = l /\ score[m] >= score[<<s, l>>]
      <4>1. PICK m \in matched : m[2] = l /\ score[m] >= score[<<s, l>>]
        BY <3>1, <3>2 DEF BestFor
      <4>2. <<SfOwner[m[1]], LfOwner[l]>> \in linked
        BY <2>5, <4>1
      <4>3. SfOwner[m[1]] = SfOwner[s]
        BY <3>2, <4>2, LfSoleUse
      <4>4. SfOwner[m[1]] # p[1]
        BY <2>2, <2>8, <3>2, <4>2, <4>3, SfSoleUse
      <4> QED
        BY <2>5, <2>8, <4>1, <4>4
    <3> QED
      BY <1>1, <2>2, <3>2, SparedKept DEF BestFor, source, history
  <2> QED
    BY <1>1, <1>3, <1>4, <2>3, <2>6, <2>7, <2>8 DEF Done, SfLeft, LfLeft, history
<1>11. Alone'
  BY <1>1, <1>4, <1>8, <1>9, <1>10, AloneStep DEF Rest, history, source
<1> QED
  BY <1>5, <1>6, <1>7, <1>11 DEF Rest

LEMMA ReadSfStep ==
  ASSUME TypeOK, Seen, Rest, NEW r \in Runners, ReadSf(r) PROVE Rest'
<1> DEFINE T == transactions \cap OfSf(pair[r][1])
<1>1. /\ pc[r] = "readSf" /\ pc' = [pc EXCEPT ![r] = "readLf"]
      /\ sf' = [sf EXCEPT ![r] = T] /\ sfDone' = [sfDone EXCEPT ![r] = @ \cup T]
      /\ UNCHANGED <<source, table, todo, lf, wrote, alone, lfDone>>
  BY DEF ReadSf, Goto
<1>2. /\ sf'[r] = T /\ sfDone'[r] = sfDone[r] \cup T
      /\ \A q \in Runners \ {r} : sf'[q] = sf[q] /\ sfDone'[q] = sfDone[q]
  BY <1>1 DEF TypeOK
<1>3. /\ AtPair(r) /\ Past(r) /\ pc'[r] = "readLf" /\ pc[r] # "write" /\ T \subseteq OfSf(pair[r][1])
      /\ \A q \in Runners \ {r} : pc'[q] = pc[q]
      /\ \A q \in Runners : (AtPair(q)' <=> AtPair(q)) /\ (Past(q)' <=> Past(q))
  BY <1>1 DEF AtPair, Past, TypeOK
<1> HIDE DEF T
<1>4. mine[r] = {} /\ keptSf[r] = {} /\ keptLf[r] = {} /\ pair[r] # None
  BY <1>3 DEF Rest, Own
<1>5. Own'
  BY <1>1, <1>2, <1>3, <1>4 DEF Rest, Own, Past, todo, wrote, ToMatch
<1>6. Choices'
  BY <1>1, <1>2, <1>4 DEF Rest, Choices, source, wrote
<1>7. Holds'
  BY <1>1, <1>3 DEF Rest, Holds, table, todo, wrote
<1>8. ASSUME alone[r] PROVE Known(r)' /\ Here(r)'
  <2>1. Known(r) /\ Here(r)
    BY <1>3, <1>8 DEF Rest, Alone, Past
  <2> QED
    BY <1>1, <2>1 DEF Known, Here, source, table, todo, wrote
<1>9. ASSUME alone[r] PROVE Read(r)' /\ Done(r)'
  <2>1. Known(r) /\ Read(r) /\ Done(r)
    BY <1>3, <1>9 DEF Rest, Alone, Past
  <2>2. pair[r] \in linked \ queue[r] /\ pair[r] = <<pair[r][1], pair[r][2]>> /\ linked' = linked
    BY <1>1, <1>4, <2>1 DEF Known, TypeOK, Pairs, source
  <2>3. /\ \A t \in T : t \in SfTxns /\ SfOwner[t] = pair[r][1]
        /\ \A t \in sfDone[r] : SfLeft(r, t) \/ t \in T
    BY <1>1, <1>3 DEF Seen, SfLeft, OfSf, TypeOK, T
  <2>4. Read(r)'
    BY <1>1, <1>2, <1>3, <2>1, <2>2, <2>3 DEF Read, SfLeft, LfLeft, source, todo
  <2>5. \A t \in sfDone'[r] : SfLeft(r, t)' => SfCovered(t)'
    <3> SUFFICES ASSUME NEW t \in sfDone'[r], SfLeft(r, t)' PROVE SfCovered(t)'
      OBVIOUS
    <3>1. SfCovered(t)
      BY <1>1, <1>2, <1>3, <2>1, <2>3 DEF Done, SfLeft, todo
    <3> QED
      BY <1>1, <2>2, <3>1, SparedKept DEF SfCovered, SfOnce, SfRow, table
  <2>6. ASSUME NEW l \in lfDone[r], LfLeft(r, l) PROVE LfCovered(l)' /\ BestFor(r, l)'
    <3>1. LfCovered(l) /\ BestFor(r, l) /\ LfOwner[l] # pair[r][2]
      BY <1>3, <2>1, <2>6 DEF Done, LfLeft
    <3>2. \A t \in T : SfSole(SfOwner[t]) => <<SfOwner[t], LfOwner[l]>> \notin linked
      BY <2>2, <2>3, <3>1, SfSoleUse
    <3>3. BestFor(r, l)'
      BY <1>1, <1>2, <2>2, <3>1, <3>2, SparedKept DEF BestFor, source, table
    <3> QED
      BY <1>1, <2>2, <3>1, <3>3, SparedKept DEF LfCovered, LfOnce, LfRow, table
  <2>7. \A t \in lfDone'[r] : LfLeft(r, t)' => LfCovered(t)' /\ BestFor(r, t)'
    BY <1>1, <1>3, <2>6 DEF LfLeft, todo
  <2> QED
    BY <2>4, <2>5, <2>7 DEF Done
<1>10. Alone'
  BY <1>1, <1>3, <1>8, <1>9, AloneStep DEF Rest, source, Past, AtPair, TypeOK
<1> QED
  BY <1>5, <1>6, <1>7, <1>10 DEF Rest

LEMMA ReadLfStep ==
  ASSUME TypeOK, Seen, Rest, NEW r \in Runners, ReadLf(r) PROVE Rest'
<1> DEFINE T == lf_transactions \cap OfLf(pair[r][2])
<1>1. /\ pc[r] = "readLf" /\ pc' = [pc EXCEPT ![r] = "write"]
      /\ lf' = [lf EXCEPT ![r] = T] /\ lfDone' = [lfDone EXCEPT ![r] = @ \cup T]
      /\ UNCHANGED <<source, table, todo, sf, wrote, alone, sfDone>>
  BY DEF ReadLf, Goto
<1>2. /\ lf'[r] = T /\ lfDone'[r] = lfDone[r] \cup T
      /\ \A q \in Runners \ {r} : lf'[q] = lf[q] /\ lfDone'[q] = lfDone[q]
  BY <1>1 DEF TypeOK
<1>3. /\ AtPair(r) /\ Past(r) /\ pc'[r] = "write" /\ pc[r] # "write" /\ T \subseteq OfLf(pair[r][2])
      /\ \A q \in Runners \ {r} : pc'[q] = pc[q]
      /\ \A q \in Runners : (AtPair(q)' <=> AtPair(q)) /\ (Past(q)' <=> Past(q))
  BY <1>1 DEF AtPair, Past, TypeOK
<1> HIDE DEF T
<1>4. lf[r] = {} /\ mine[r] = {} /\ keptSf[r] = {} /\ keptLf[r] = {} /\ pair[r] # None
  BY <1>3 DEF Rest, Own
<1>5. Own'
  BY <1>1, <1>2, <1>3, <1>4 DEF Rest, Own, Past, todo, wrote, ToMatch, LfOf
<1>6. Choices'
  BY <1>1 DEF Rest, Choices, source, wrote
<1>7. Holds'
  BY <1>1, <1>3 DEF Rest, Holds, table, todo, wrote
<1>8. ASSUME alone[r] PROVE Known(r)' /\ Here(r)'
  <2>1. Known(r) /\ Here(r)
    BY <1>3, <1>8 DEF Rest, Alone
  <2> QED
    BY <1>1, <2>1 DEF Known, Here, source, table, todo, wrote
<1>9. ASSUME alone[r] PROVE Read(r)' /\ Done(r)'
  <2>1. Known(r) /\ Read(r) /\ Done(r)
    BY <1>3, <1>9 DEF Rest, Alone
  <2>2. pair[r] \in linked \ queue[r] /\ linked' = linked
    BY <1>1, <1>4, <2>1 DEF Known, source
  <2>3. /\ \A t \in T : t \in LfTxns /\ LfOwner[t] = pair[r][2]
        /\ \A t \in lfDone[r] : LfLeft(r, t) \/ t \in T
    BY <1>3 DEF Seen, LfLeft, OfLf, TypeOK, T
  <2>4. Read(r)'
    BY <1>1, <1>2, <1>3, <2>1, <2>2, <2>3 DEF Read, SfLeft, LfLeft, source, todo
  <2>5. \A t \in sfDone'[r] : SfLeft(r, t)' => SfCovered(t)'
    BY <1>1, <1>3, <2>1, <2>2, SparedKept DEF Done, SfLeft, SfCovered, SfOnce, SfRow, table, todo
  <2>6. \A t \in lfDone'[r] : LfLeft(r, t)' => t \in lfDone[r] /\ LfLeft(r, t)
    BY <1>1, <1>2, <1>3, <2>3 DEF LfLeft, todo
  <2>7. \A t \in lfDone[r] : LfLeft(r, t) => LfCovered(t)' /\ BestFor(r, t)'
    BY <1>1, <2>1, <2>2, SparedKept DEF Done, LfCovered, LfOnce, LfRow, BestFor, table, source
  <2> QED
    BY <2>4, <2>5, <2>6, <2>7 DEF Done
<1>10. Alone'
  BY <1>1, <1>3, <1>8, <1>9, AloneStep DEF Rest, source, Past, AtPair, TypeOK
<1> QED
  BY <1>5, <1>6, <1>7, <1>10 DEF Rest

(* The rows a run writes are of the pair it is at, and leave alone those   *)
(* of pairs it has left.                                                   *)
LEMMA LeftAlone ==
  ASSUME TypeOK, Alone, Own, NEW r \in Runners, alone[r], AtPair(r),
         UNCHANGED <<source, pc, todo, sf, lf, history>>,
         NEW A \in SUBSET (OfSf(pair[r][1]) \X OfLf(pair[r][2])), matched' = matched \cup A,
         \A t \in SfTxns : SfOwner[t] # pair[r][1] => sfinOnly'[t] = sfinOnly[t],
         \A t \in LfTxns : LfOwner[t] # pair[r][2] => lfOnly'[t] = lfOnly[t]
  PROVE  Read(r)' /\ Done(r)'
<1>1. Read(r) /\ Done(r)
  BY DEF Alone, Past
<1>2. \A m \in A : SfOwner[m[1]] = pair[r][1] /\ LfOwner[m[2]] = pair[r][2]
  BY DEF OfSf, OfLf
<1>3. /\ linked' = linked /\ score' = score /\ queue' = queue /\ pair' = pair
      /\ sfDone' = sfDone /\ lfDone' = lfDone
  BY DEF source, todo, history
<1>4. Read(r)'
  BY <1>1, <1>3 DEF Read, SfLeft, LfLeft, AtPair
<1>5. ASSUME NEW t \in sfDone[r], SfLeft(r, t) PROVE SfCovered(t)'
  <2>1. SfCovered(t) /\ SfOwner[t] # pair[r][1] /\ sfinOnly'[t] = sfinOnly[t]
    BY <1>1, <1>5 DEF Done, SfLeft, TypeOK
  <2>2. (t \in SfOf(matched))' <=> t \in SfOf(matched)
    BY <1>2, <2>1 DEF SfOf
  <2> QED
    BY <1>3, <2>1, <2>2, SparedKept DEF SfCovered, SfOnce, SfRow
<1>6. ASSUME NEW t \in lfDone[r], LfLeft(r, t) PROVE LfCovered(t)' /\ BestFor(r, t)'
  <2>1. LfCovered(t) /\ BestFor(r, t) /\ LfOwner[t] # pair[r][2] /\ lfOnly'[t] = lfOnly[t]
    BY <1>1, <1>6 DEF Done, LfLeft, TypeOK
  <2>2. LfCovered(t)'
    <3>1. (t \in LfOf(matched))' <=> t \in LfOf(matched)
      BY <1>2, <2>1 DEF LfOf
    <3>2. \A m \in matched' : m[2] = t => m \in matched
      BY <1>2, <2>1
    <3> QED
      BY <1>3, <2>1, <3>1, <3>2, SparedKept DEF LfCovered, LfOnce, LfRow
  <2>3. BestFor(r, t)'
    BY <1>3, <2>1, SparedKept DEF BestFor
  <2> QED
    BY <2>2, <2>3
<1> QED
  BY <1>3, <1>4, <1>5, <1>6 DEF Done, SfLeft, LfLeft, AtPair

LEMMA MatchStep ==
  ASSUME TypeOK, Rest, NEW r \in Runners, Match(r) PROVE Rest'
<1> PICK l \in ToMatch(r) : \E s \in Best(r, l) : WriteMatch(r, <<s, l>>)
  BY MatchedPair
<1> PICK s \in Best(r, l) : WriteMatch(r, <<s, l>>)
  OBVIOUS
<1> DEFINE m == <<s, l>>
<1>1. /\ pc[r] = "write" /\ UNCHANGED <<source, pc, todo, read, history>>
      /\ matched' = matched \cup {m}
      /\ UNCHANGED <<sfinOnly, lfOnly, emptiedSf, emptiedLf, keptSf, keptLf>>
  BY DEF Match, WriteMatch
<1>2. /\ mine'[r] = mine[r] \cup {m}
      /\ \A q \in Runners \ {r} : mine'[q] = mine[q]
  BY DEF WriteMatch, TypeOK
<1>3. /\ s \in sf[r] /\ l \in lf[r] /\ l \notin LfOf(mine[r]) /\ l \notin keptLf[r]
      /\ keptSf[r] = {}
      /\ \A t \in sf[r] : score[<<t, l>>] >= Threshold => score[<<t, l>>] <= score[m]
  BY DEF Best, Close, ToMatch, Rest, Own
<1>4. AtPair(r) /\ s \in OfSf(pair[r][1]) /\ l \in OfLf(pair[r][2])
  BY <1>1, <1>3 DEF AtPair, Rest, Own
<1>5. m[1] = s /\ m[2] = l
  OBVIOUS
<1>6. m \in sf[r] \X lf[r] /\ {m} \in SUBSET (OfSf(pair[r][1]) \X OfLf(pair[r][2]))
  BY <1>3, <1>4
<1>7. SfOwner[s] = pair[r][1] /\ LfOwner[l] = pair[r][2] /\ pair[r] \in Pairs
  BY <1>4 DEF OfSf, OfLf, Rest, Own, TypeOK
<1> HIDE DEF m
<1>8. Own'
  BY <1>1, <1>2, <1>3, <1>5, <1>6
  DEF Rest, Own, AtPair, Past, todo, read, history, ToMatch, SfOf, LfOf
<1>9. Choices'
  BY <1>1, <1>2, <1>3, <1>5 DEF Rest, Choices, source, read, LfOf
<1>10. Holds'
  BY <1>1, <1>2 DEF Rest, Holds, AtPair, todo
<1>11. ASSUME alone[r] PROVE Known(r)' /\ Here(r)'
  <2>1. Known(r) /\ Here(r)
    BY <1>4, <1>11 DEF Rest, Alone, Past
  <2>2. <<SfOwner[s], LfOwner[l]>> \in linked
    BY <1>4, <1>7, <2>1 DEF Known, Rest, Own, Pairs
  <2>3. Known(r)'
    BY <1>1, <1>5, <2>1, <2>2 DEF Known, source, todo
  <2>4. Here(r)'
    BY <1>1, <1>2, <2>1 DEF Here, todo
  <2> QED
    BY <2>3, <2>4
<1>12. ASSUME alone[r] PROVE Read(r)' /\ Done(r)'
  BY <1>1, <1>4, <1>6, <1>12, LeftAlone DEF Rest, read, AtPair
<1>13. Alone'
  BY <1>1, <1>11, <1>12, AloneStep DEF Rest, source, history
<1> QED
  BY <1>8, <1>9, <1>10, <1>13 DEF Rest

LEMMA LeaveLfStep ==
  ASSUME TypeOK, Rest, NEW r \in Runners, LeaveLf(r) PROVE Rest'
<1> PICK l \in ToMatch(r) : Close(r, l) = {} /\ WriteLfOnly(r, l)
  BY DEF LeaveLf
<1>1. /\ pc[r] = "write" /\ UNCHANGED <<source, pc, todo, read, history>>
      /\ lfOnly' = [lfOnly EXCEPT ![l] = @ + 1]
      /\ UNCHANGED <<matched, sfinOnly, emptiedSf, emptiedLf, mine, keptSf>>
  BY DEF LeaveLf, WriteLfOnly
<1>2. /\ keptLf'[r] = keptLf[r] \cup {l}
      /\ \A q \in Runners \ {r} : keptLf'[q] = keptLf[q]
  BY DEF WriteLfOnly, TypeOK
<1>3. /\ l \in lf[r] /\ l \notin LfOf(mine[r]) /\ l \notin keptLf[r] /\ l \in LfTxns
      /\ keptSf[r] = {}
      /\ \A t \in sf[r] : ~(score[<<t, l>>] >= Threshold)
  BY DEF Close, ToMatch, Rest, Own, TypeOK
<1>4. AtPair(r) /\ LfOwner[l] = pair[r][2]
  BY <1>1, <1>3 DEF AtPair, Rest, Own, OfLf
<1>5. /\ lfOnly'[l] = lfOnly[l] + 1 /\ lfOnly[l] \in Nat
      /\ \A k \in LfTxns \ {l} : lfOnly'[k] = lfOnly[k]
  BY <1>1, <1>3 DEF TypeOK
<1>6. Own'
  BY <1>1, <1>2, <1>3 DEF Rest, Own, AtPair, Past, todo, read, history, ToMatch
<1>7. Choices'
  BY <1>1, <1>2, <1>3 DEF Rest, Choices, source, read
<1>8. Holds'
  BY <1>1, <1>2, <1>5 DEF Rest, Holds, AtPair, todo, TypeOK
<1>9. ASSUME alone[r] PROVE Known(r)' /\ Here(r)'
  <2>1. Known(r) /\ Here(r)
    BY <1>4, <1>9 DEF Rest, Alone, Past
  <2>2. Here(r)'
    BY <1>1, <1>2, <1>3, <1>5, <2>1 DEF Here, todo, OfLf
  <2> QED
    BY <1>1, <2>1, <2>2 DEF Known, source, todo
<1>10. ASSUME alone[r] PROVE Read(r)' /\ Done(r)'
  <2>1. /\ matched' = matched \cup {} /\ {} \in SUBSET (OfSf(pair[r][1]) \X OfLf(pair[r][2]))
        /\ \A t \in LfTxns : LfOwner[t] # pair[r][2] => lfOnly'[t] = lfOnly[t]
    BY <1>1, <1>4, <1>5
  <2> QED
    BY <1>1, <1>4, <1>10, <2>1, LeftAlone DEF Rest, read, AtPair
<1>11. Alone'
  BY <1>1, <1>9, <1>10, AloneStep DEF Rest, source, history
<1> QED
  BY <1>6, <1>7, <1>8, <1>11 DEF Rest

LEMMA LeaveSfStep ==
  ASSUME TypeOK, Rest, NEW r \in Runners, LeaveSf(r) PROVE Rest'
<1> PICK s \in ToKeep(r) : WriteSfOnly(r, s)
  BY DEF LeaveSf
<1>1. /\ pc[r] = "write" /\ ToMatch(r) = {} /\ UNCHANGED <<source, pc, todo, read, history>>
      /\ sfinOnly' = [sfinOnly EXCEPT ![s] = @ + 1]
      /\ UNCHANGED <<matched, lfOnly, emptiedSf, emptiedLf, mine, keptLf>>
  BY DEF LeaveSf, WriteSfOnly
<1>2. /\ keptSf'[r] = keptSf[r] \cup {s}
      /\ \A q \in Runners \ {r} : keptSf'[q] = keptSf[q]
  BY DEF WriteSfOnly, TypeOK
<1>3. s \in sf[r] /\ s \notin SfOf(mine[r]) /\ s \notin keptSf[r] /\ s \in SfTxns
  BY DEF ToKeep, TypeOK
<1>4. AtPair(r) /\ SfOwner[s] = pair[r][1]
  BY <1>1, <1>3 DEF AtPair, Rest, Own, OfSf
<1>5. /\ sfinOnly'[s] = sfinOnly[s] + 1 /\ sfinOnly[s] \in Nat
      /\ \A k \in SfTxns \ {s} : sfinOnly'[k] = sfinOnly[k]
  BY <1>1, <1>3 DEF TypeOK
<1>6. Own'
  BY <1>1, <1>2, <1>3 DEF Rest, Own, AtPair, Past, todo, read, history, ToMatch
<1>7. Choices'
  BY <1>1 DEF Rest, Choices, source, read
<1>8. Holds'
  BY <1>1, <1>2, <1>5 DEF Rest, Holds, AtPair, todo, TypeOK
<1>9. ASSUME alone[r] PROVE Known(r)' /\ Here(r)'
  <2>1. Known(r) /\ Here(r)
    BY <1>4, <1>9 DEF Rest, Alone, Past
  <2>2. Here(r)'
    BY <1>1, <1>2, <1>3, <1>5, <2>1 DEF Here, todo, OfSf
  <2> QED
    BY <1>1, <2>1, <2>2 DEF Known, source, todo
<1>10. ASSUME alone[r] PROVE Read(r)' /\ Done(r)'
  <2>1. /\ matched' = matched \cup {} /\ {} \in SUBSET (OfSf(pair[r][1]) \X OfLf(pair[r][2]))
        /\ \A t \in SfTxns : SfOwner[t] # pair[r][1] => sfinOnly'[t] = sfinOnly[t]
    BY <1>1, <1>4, <1>5
  <2> QED
    BY <1>1, <1>4, <1>10, <2>1, LeftAlone DEF Rest, read, AtPair
<1>11. Alone'
  BY <1>1, <1>9, <1>10, AloneStep DEF Rest, source, history
<1> QED
  BY <1>6, <1>7, <1>8, <1>11 DEF Rest

(* When a pair is written, every transaction read of it has its rows.      *)
LEMMA WrittenPair ==
  ASSUME TypeOK, Rest, NEW r \in Runners, PairWritten(r)
  PROVE  /\ AtPair(r)
         /\ sf[r] \subseteq SfOf(mine[r]) \cup keptSf[r]
         /\ lf[r] \subseteq LfOf(mine[r]) \cup keptLf[r]
         /\ keptSf[r] \cap SfOf(mine[r]) = {} /\ keptLf[r] \cap LfOf(mine[r]) = {}
BY DEF PairWritten, AtPair, ToMatch, ToKeep, Rest, Own

LEMMA EndPairStep ==
  ASSUME TypeOK, Rest, NEW r \in Runners, EndPair(r) PROVE Rest'
<1>1. /\ PairWritten(r) /\ pc' = [pc EXCEPT ![r] = "next"]
      /\ pair' = [pair EXCEPT ![r] = None]
      /\ UNCHANGED <<source, table, queue, history>>
  BY DEF EndPair, Forget, Goto
<1>2. /\ sf'[r] = {} /\ lf'[r] = {} /\ mine'[r] = {} /\ keptSf'[r] = {} /\ keptLf'[r] = {}
      /\ pair'[r] = None /\ pc'[r] = "next" /\ queue' = queue
      /\ \A q \in Runners \ {r} : /\ sf'[q] = sf[q] /\ lf'[q] = lf[q] /\ mine'[q] = mine[q]
                                  /\ keptSf'[q] = keptSf[q] /\ keptLf'[q] = keptLf[q]
                                  /\ pair'[q] = pair[q] /\ pc'[q] = pc[q]
  BY <1>1 DEF EndPair, Forget, TypeOK
<1>3. AtPair(r) /\ ~AtPair(r)' /\ Past(r) /\ Past(r)'
  BY <1>1, <1>2 DEF PairWritten, AtPair, Past
<1>4. Own'
  BY <1>1, <1>2, <1>3 DEF Rest, Own, AtPair, Past, history, ToMatch, SfOf, LfOf
<1>5. Choices'
  BY <1>1, <1>2 DEF Rest, Choices, source
<1>6. Holds'
  BY <1>1, <1>2, <1>3 DEF Rest, Holds, AtPair, table
<1>7. ASSUME alone[r] PROVE Known(r)'
  BY <1>1, <1>2, <1>3, <1>7 DEF Rest, Alone, Known, source, table
<1>8. ASSUME alone[r] PROVE Read(r)' /\ Done(r)'
  <2>1. Known(r) /\ Here(r) /\ Read(r) /\ Done(r)
    BY <1>3, <1>8 DEF Rest, Alone
  <2>2. pair[r] \in linked /\ pair[r] = <<pair[r][1], pair[r][2]>> /\ linked' = linked
    BY <1>1, <1>3, <2>1 DEF Known, Rest, Own, TypeOK, Pairs, source
  <2>3. /\ \A t \in sf[r] : t \in SfTxns /\ SfOwner[t] = pair[r][1] /\ t \in OfSf(pair[r][1])
        /\ \A t \in lf[r] : t \in LfTxns /\ LfOwner[t] = pair[r][2] /\ t \in OfLf(pair[r][2])
    BY <1>3 DEF Rest, Own, OfSf, OfLf
  <2>4. Read(r)'
    BY <1>1, <1>2, <1>3, <2>1 DEF Read, SfLeft, LfLeft, source, history
  <2>5. ASSUME NEW t \in sf[r] PROVE SfCovered(t)
    <3>1. t \in SfOf(matched) <=> t \in SfOf(mine[r])
      BY <2>1, <2>3 DEF Here, SfOf
    <3> QED
      BY <1>1, <2>1, <2>3, <3>1, WrittenPair DEF Here, SfCovered, SfOnce, SfRow
  <2>6. ASSUME NEW t \in lf[r] PROVE LfCovered(t)
    <3>1. \A m \in matched : m[2] = t => m \in mine[r]
      BY <2>1, <2>3 DEF Here
    <3>2. t \in LfOf(matched) <=> t \in LfOf(mine[r])
      BY <2>1, <3>1 DEF Here, LfOf
    <3>3. \A m, n \in matched : m[2] = t /\ n[2] = t => m = n
      BY <3>1 DEF Rest, Choices
    <3> QED
      BY <1>1, <2>1, <2>3, <3>2, <3>3, WrittenPair DEF Here, LfCovered, LfOnce, LfRow
  <2>7. ASSUME NEW l \in lf[r] PROVE BestFor(r, l)
    <3> SUFFICES ASSUME NEW s \in sfDone[r], <<SfOwner[s], LfOwner[l]>> \in linked,
                        LfSole(LfOwner[l]), score[<<s, l>>] >= Threshold
                 PROVE  \E m \in matched : m[2] = l /\ score[m] >= score[<<s, l>>]
      BY DEF BestFor
    <3>1. SfOwner[s] = pair[r][1]
      BY <2>2, <2>3, LfSoleUse
    <3>2. s \in sf[r]
      BY <1>1, <1>3, <2>1, <3>1 DEF Read, SfLeft, PairWritten
    <3>3. l \notin keptLf[r]
      BY <3>2 DEF Rest, Choices
    <3>4. PICK m \in mine[r] : m[2] = l
      BY <1>1, <3>3, WrittenPair DEF LfOf
    <3>5. score[<<s, l>>] <= score[m]
      BY <3>2, <3>4 DEF Rest, Choices
    <3>6. m \in SfTxns \X LfTxns /\ <<s, l>> \in SfTxns \X LfTxns /\ m \in matched
      BY <2>1, <2>3, <3>2 DEF TypeOK, Here
    <3>7. score[m] \in Nat /\ score[<<s, l>>] \in Nat
      BY <3>6, TxnAssumption DEF TypeOK
    <3> QED
      BY <3>4, <3>5, <3>6, <3>7
  <2>8. /\ \A t \in sfDone[r] : SfCovered(t)
        /\ \A t \in lfDone[r] : LfCovered(t) /\ BestFor(r, t)
    BY <1>1, <1>3, <2>1, <2>5, <2>6, <2>7 DEF Read, Done, PairWritten
  <2> QED
    BY <1>1, <2>2, <2>4, <2>8, SparedKept
    DEF Done, SfCovered, LfCovered, SfOnce, LfOnce, SfRow, LfRow, BestFor, source, table, history
<1>9. Alone'
  BY <1>1, <1>2, <1>3, <1>7, <1>8, AloneStep DEF Rest, source, history, PairWritten
<1> QED
  BY <1>4, <1>5, <1>6, <1>9 DEF Rest

LEMMA StopStep ==
  ASSUME TypeOK, Rest, NEW r \in Runners, Active(r), Stop(r) PROVE Rest'
<1>1. /\ pc[r] # "idle" /\ alone' = [alone EXCEPT ![r] = FALSE]
      /\ UNCHANGED <<source, table>>
  BY DEF Stop, Active
<1>2. /\ sf'[r] = {} /\ lf'[r] = {} /\ mine'[r] = {} /\ keptSf'[r] = {} /\ keptLf'[r] = {}
      /\ sfDone'[r] = {} /\ lfDone'[r] = {} /\ pair'[r] = None /\ pc'[r] = "idle"
      /\ \A q \in Runners \ {r} : /\ sf'[q] = sf[q] /\ lf'[q] = lf[q] /\ mine'[q] = mine[q]
                                  /\ keptSf'[q] = keptSf[q] /\ keptLf'[q] = keptLf[q]
                                  /\ sfDone'[q] = sfDone[q] /\ lfDone'[q] = lfDone[q]
                                  /\ pair'[q] = pair[q] /\ pc'[q] = pc[q]
  BY DEF Stop, Forget, Goto, TypeOK
<1>3. ~AtPair(r)' /\ ~Past(r)'
  BY <1>2 DEF AtPair, Past
<1>4. Own'
  BY <1>2, <1>3 DEF Rest, Own, AtPair, Past, ToMatch, SfOf, LfOf
<1>5. Choices'
  BY <1>1, <1>2 DEF Rest, Choices, source
<1>6. Holds'
  BY <1>1, <1>2, <1>3 DEF Rest, Holds, AtPair, table
<1>7. Alone'
  <2>1. \A q \in Runners : ~alone'[q]
    <3>1. \A q \in Runners \ {r} : ~alone[q]
      BY <1>1, Zenon DEF Rest, Alone
    <3> QED
      BY <1>1, <3>1, Zenon DEF TypeOK
  <2> QED
    BY <2>1, Zenon DEF Alone
<1> QED
  BY <1>4, <1>5, <1>6, <1>7 DEF Rest

(* New transactions, and steps of others, change nothing a run has read.   *)
LEMMA OtherStep ==
  ASSUME Rest, UNCHANGED <<score, linked, table, pc, todo, read, wrote, history>> PROVE Rest'
<1>1. Own' /\ Choices' /\ Holds'
  BY DEF Rest, Own, Choices, Holds, AtPair, Past, ToMatch, table, todo, read, wrote, history
<1>2. \A r : /\ Known(r)' = Known(r) /\ Here(r)' = Here(r)
             /\ Read(r)' = Read(r) /\ Done(r)' = Done(r)
  BY SparedKept DEF Known, Here, Read, Done, AtPair, SfLeft, LfLeft, SfCovered, LfCovered,
         SfOnce, LfOnce, SfRow, LfRow, BestFor, table, todo, read, wrote, history
<1>3. Alone'
  BY <1>2 DEF Rest, Alone, AtPair, Past, history
<1> QED
  BY <1>1, <1>3 DEF Rest

LEMMA RestStep == TypeOK /\ Seen /\ Rest /\ [Next]_vars => Rest'
<1> SUFFICES ASSUME TypeOK, Seen, Rest, [Next]_vars PROVE Rest'
  OBVIOUS
<1>1. ASSUME NEW r \in Runners, Run(r) PROVE Rest'
  BY <1>1, LinkStep, ReadPairsStep, ClearStep, ReadSfStep, ReadLfStep, MatchStep, LeaveLfStep,
     LeaveSfStep, EndPairStep, StopStep
  DEF Run, Finish, AllWritten, Active
<1>2. ASSUME NEW r \in Runners, Begin(r) \/ Abort(r) PROVE Rest'
  BY <1>2, BeginStep, StopStep DEF Abort
<1>3. CASE AddTxn
  BY <1>3, OtherStep DEF AddTxn
<1>4. CASE UNCHANGED vars
  BY <1>4, OtherStep DEF vars, source
<1> QED
  BY <1>1, <1>2, <1>3, <1>4 DEF Next

(* No transaction is ever removed.                                         *)
LEMMA SeenStep == TypeOK /\ Seen /\ [Next]_vars => Seen'
<1> SUFFICES ASSUME TypeOK, Seen, [Next]_vars PROVE Seen'
  OBVIOUS
<1> USE DEF Seen
<1>1. ASSUME NEW r \in Runners, ReadSf(r) PROVE Seen'
  BY <1>1 DEF ReadSf, TypeOK, source
<1>2. ASSUME NEW r \in Runners, ReadLf(r) PROVE Seen'
  BY <1>2 DEF ReadLf, TypeOK, source
<1>3. ASSUME NEW r \in Runners, Stop(r) PROVE Seen'
  BY <1>3 DEF Stop, TypeOK, source
<1>4. ASSUME NEW r \in Runners,
             \/ Begin(r) \/ Link(r) \/ ReadPairs(r) \/ (\E p \in Pairs : Clear(r, p))
             \/ Match(r) \/ LeaveLf(r) \/ LeaveSf(r) \/ EndPair(r)
      PROVE  Seen'
  <2>1. UNCHANGED <<transactions, lf_transactions, sfDone, lfDone>>
    BY <1>4 DEF Begin, Link, ReadPairs, ReadRows, Clear, Empty, Match, LeaveLf, LeaveSf, EndPair,
                source, history
  <2> QED
    BY <2>1
<1>5. CASE AddTxn
  <2>1. /\ UNCHANGED <<sfDone, lfDone>>
        /\ transactions \subseteq transactions' /\ lf_transactions \subseteq lf_transactions'
    BY <1>5 DEF AddTxn, history
  <2> QED
    BY <2>1
<1>6. CASE UNCHANGED vars
  BY <1>6 DEF vars, source, history
<1> QED
  BY <1>1, <1>2, <1>3, <1>4, <1>5, <1>6 DEF Next, Run, Finish, Abort

IInv == TypeOK /\ Seen /\ Rest

LEMMA Inductive == Spec => []IInv
<1>1. Init => IInv
  <2>1. Init => Seen
    BY DEF Init, Seen
  <2> QED
    BY <2>1, TypeInit, RestInit DEF IInv
<1>2. IInv /\ [Next]_vars => IInv'
  BY TypeStep, SeenStep, RestStep DEF IInv
<1> QED
  BY <1>1, <1>2, PTL DEF Spec

-----------------------------------------------------------------------------
(* What follows *)

(* For any number of pairs and of earlier runs that were stopped anywhere, *)
(* a run with no other beside it leaves every transaction it read with the *)
(* rows it should have, without doubles in any case, and with none missing *)
(* but for those whose account shares a partner with another.              *)
THEOREM EachTxnCovered == Spec => []EachCovered
<1>1. IInv => EachCovered
  <2> SUFFICES ASSUME IInv, NEW r \in Runners, Completed(r)
               PROVE  /\ \A t \in lfDone[r] : LfCovered(t)
                      /\ \A t \in sfDone[r] : SfCovered(t)
    BY Zenon DEF EachCovered
  <2>1. Past(r) /\ ~AtPair(r)
    BY DEF Completed, AllWritten, Past, AtPair
  <2>2. Done(r)
    BY <2>1 DEF IInv, Rest, Alone, Completed
  <2> QED
    BY <2>1, <2>2 DEF Done, SfLeft, LfLeft
<1> QED
  BY <1>1, Inductive, PTL

(* Such a run matches each LunchFlow transaction with one as similar as    *)
(* any of the account its own is matched with, and neither with another.   *)
THEOREM MatchesAreBest == Spec => []BestMatches
<1>1. IInv => BestMatches
  <2> SUFFICES ASSUME IInv, NEW r \in Runners, Completed(r)
               PROVE  \A l \in lfDone[r] : BestFor(r, l)
    BY Zenon DEF BestMatches, BestFor
  <2>1. Past(r) /\ ~AtPair(r)
    BY DEF Completed, AllWritten, Past, AtPair
  <2>2. Done(r)
    BY <2>1 DEF IInv, Rest, Alone, Completed
  <2> QED
    BY <2>1, <2>2 DEF Done, LfLeft
<1> QED
  BY <1>1, Inductive, PTL

(* A run with no other beside it leaves no match with a transaction of an  *)
(* account that is no partner, whatever the accounts were matched with     *)
(* before and however many share one.                                      *)
THEOREM NoStrangerStays == Spec => []NoStrangers
<1>1. IInv => NoStrangers
  <2> SUFFICES ASSUME IInv, NEW r \in Runners, Completed(r)
               PROVE  \A m \in matched :
                        SfOwner[m[1]] \in SfOf(linked) \/ LfOwner[m[2]] \in LfOf(linked)
                          => <<SfOwner[m[1]], LfOwner[m[2]]>> \in linked
    BY DEF NoStrangers
  <2>1. Known(r) /\ queue[r] = {}
    BY DEF IInv, Rest, Alone, Completed, AllWritten, Past
  <2>2. linked \ queue[r] = linked
    BY <2>1
  <2> QED
    BY <2>1, <2>2 DEF Known
<1> QED
  BY <1>1, Inductive, PTL

(* Runs that overlap lose no transaction of a pair no other run empties.   *)
THEOREM OverlapLosesNobody == Spec => []NoTxnLost
<1>1. IInv => NoTxnLost
  <2> SUFFICES ASSUME IInv, NEW r \in Runners, PairWritten(r),
                      emptiedSf[pair[r][1]] = r, emptiedLf[pair[r][2]] = r
               PROVE  (\A t \in sf[r] : SfRow(t)) /\ (\A t \in lf[r] : LfRow(t))
    BY DEF NoTxnLost
  <2>1. /\ AtPair(r)
        /\ sf[r] \subseteq SfOf(mine[r]) \cup keptSf[r]
        /\ lf[r] \subseteq LfOf(mine[r]) \cup keptLf[r]
    BY WrittenPair DEF IInv
  <2>2. /\ mine[r] \subseteq matched
        /\ \A t \in keptSf[r] : sfinOnly[t] > 0
        /\ \A t \in keptLf[r] : lfOnly[t] > 0
    BY <2>1 DEF IInv, Rest, Holds
  <2> QED
    BY <2>1, <2>2 DEF SfRow, LfRow, SfOf, LfOf
<1> QED
  BY <1>1, Inductive, PTL

-----------------------------------------------------------------------------
(* Runs end: what EventuallyReconciled rests on, beside fairness *)

FiniteTables ==
  /\ IsFiniteSet(SfAccounts) /\ IsFiniteSet(LfAccounts)
  /\ IsFiniteSet(SfTxns) /\ IsFiniteSet(LfTxns)

(* The pairs a run has to go to, and what is left to do at the one it is   *)
(* at: no more than two reads, a row for each transaction, and the next.   *)
(* Before, the pairs it has not matched.                                   *)
PairsAhead(r) ==
  IF pc[r] = "idle" THEN 0
  ELSE IF pc[r] = "link" THEN Cardinality(Pairs) + 2
  ELSE Cardinality(queue[r]) + 1

AllTxns == Cardinality(SfTxns) + Cardinality(LfTxns)

StepsAhead(r) ==
  IF pc[r] = "link" THEN Cardinality(Pairs \ links[r])
  ELSE IF pc[r] = "readSf" THEN AllTxns + 3
  ELSE IF pc[r] = "readLf" THEN AllTxns + 2
  ELSE IF pc[r] = "write" THEN Cardinality(ToMatch(r)) + Cardinality(ToKeep(r)) + 1
  ELSE 0

Nearer(r) ==
  \/ PairsAhead(r)' < PairsAhead(r)
  \/ PairsAhead(r)' = PairsAhead(r) /\ StepsAhead(r)' < StepsAhead(r)

(* Every statement of a run brings it nearer to its end, and nothing that  *)
(* other runs and the fetchers do puts the end farther off.                *)
Ending ==
  \A r \in Runners :
    /\ PairsAhead(r) \in Nat /\ StepsAhead(r) \in Nat
    /\ Run(r) => Nearer(r)
    /\ Begin(r) \/ Nearer(r) \/ UNCHANGED <<PairsAhead(r), StepsAhead(r)>>

LEMMA Smaller ==
  ASSUME NEW S, IsFiniteSet(S), NEW T, T \subseteq S
  PROVE  /\ IsFiniteSet(T) /\ Cardinality(T) \in Nat /\ Cardinality(S) \in Nat
         /\ Cardinality(T) <= Cardinality(S)
         /\ T # S => Cardinality(T) < Cardinality(S)
<1>1. /\ IsFiniteSet(T) /\ Cardinality(T) <= Cardinality(S)
      /\ Cardinality(S) = Cardinality(T) => S = T
  BY FS_Subset
<1>2. Cardinality(T) \in Nat /\ Cardinality(S) \in Nat
  BY <1>1, FS_CardinalityType
<1> QED
  BY <1>1, <1>2

LEMMA FiniteRows ==
  ASSUME FiniteTables, TypeOK, NEW r \in Runners
  PROVE  /\ IsFiniteSet(Pairs) /\ queue[r] \subseteq Pairs
         /\ IsFiniteSet(SfTxns) /\ IsFiniteSet(LfTxns)
         /\ sf[r] \subseteq SfTxns /\ lf[r] \subseteq LfTxns
         /\ ToMatch(r) \subseteq LfTxns /\ ToKeep(r) \subseteq SfTxns
BY FS_Product DEF FiniteTables, TypeOK, Pairs, ToMatch, ToKeep

LEMMA Measures ==
  ASSUME FiniteTables, TypeOK, NEW r \in Runners
  PROVE  /\ PairsAhead(r) \in Nat /\ StepsAhead(r) \in Nat
         /\ Cardinality(queue[r]) \in Nat /\ Cardinality(Pairs) \in Nat
         /\ Cardinality(queue[r]) <= Cardinality(Pairs)
         /\ AllTxns \in Nat /\ Cardinality(ToMatch(r)) \in Nat /\ Cardinality(ToKeep(r)) \in Nat
         /\ Cardinality(ToMatch(r)) + Cardinality(ToKeep(r)) <= AllTxns
<1>1. /\ Cardinality(queue[r]) \in Nat /\ Cardinality(Pairs) \in Nat
      /\ Cardinality(queue[r]) <= Cardinality(Pairs)
  BY FiniteRows, Smaller
<1>2. /\ Cardinality(ToMatch(r)) \in Nat /\ Cardinality(LfTxns) \in Nat
      /\ Cardinality(ToMatch(r)) <= Cardinality(LfTxns)
  BY FiniteRows, Smaller
<1>3. /\ Cardinality(ToKeep(r)) \in Nat /\ Cardinality(SfTxns) \in Nat
      /\ Cardinality(ToKeep(r)) <= Cardinality(SfTxns)
  BY FiniteRows, Smaller
<1>4. Cardinality(Pairs \ links[r]) \in Nat
  BY FiniteRows, Smaller
<1> QED
  BY <1>1, <1>2, <1>3, <1>4 DEF PairsAhead, StepsAhead, AllTxns

(* A row is one of those that were to be written.                          *)
LEMMA RowWritten ==
  ASSUME FiniteTables, TypeOK, TypeOK', NEW r \in Runners, pc[r] = "write", UNCHANGED <<pc, queue>>,
         ToMatch(r)' \subseteq ToMatch(r), ToKeep(r)' \subseteq ToKeep(r),
         ToMatch(r)' # ToMatch(r) \/ ToKeep(r)' # ToKeep(r)
  PROVE  Nearer(r)
<1>1. /\ Cardinality(ToMatch(r)') \in Nat /\ Cardinality(ToMatch(r)) \in Nat
      /\ Cardinality(ToMatch(r)') <= Cardinality(ToMatch(r))
      /\ ToMatch(r)' # ToMatch(r) => Cardinality(ToMatch(r)') < Cardinality(ToMatch(r))
  <2>1. IsFiniteSet(ToMatch(r))
    BY FiniteRows, Smaller
  <2> QED
    BY <2>1, Smaller
<1>2. /\ Cardinality(ToKeep(r)') \in Nat /\ Cardinality(ToKeep(r)) \in Nat
      /\ Cardinality(ToKeep(r)') <= Cardinality(ToKeep(r))
      /\ ToKeep(r)' # ToKeep(r) => Cardinality(ToKeep(r)') < Cardinality(ToKeep(r))
  <2>1. IsFiniteSet(ToKeep(r))
    BY FiniteRows, Smaller
  <2> QED
    BY <2>1, Smaller
<1>3. /\ StepsAhead(r) = Cardinality(ToMatch(r)) + Cardinality(ToKeep(r)) + 1
      /\ StepsAhead(r)' = Cardinality(ToMatch(r)') + Cardinality(ToKeep(r)') + 1
      /\ PairsAhead(r)' = PairsAhead(r)
  BY DEF StepsAhead, PairsAhead
<1> QED
  BY <1>1, <1>2, <1>3 DEF Nearer

LEMMA RunNearer ==
  ASSUME FiniteTables, TypeOK, TypeOK', NEW r \in Runners, Run(r) PROVE Nearer(r)
<1>1. CASE ReadPairs(r)
  <2>1. pc[r] = "link" /\ pc'[r] = "next"
    BY <1>1 DEF ReadPairs, ReadRows, Goto, TypeOK
  <2>2. PairsAhead(r) = Cardinality(Pairs) + 2 /\ PairsAhead(r)' = Cardinality(queue'[r]) + 1
    BY <2>1 DEF PairsAhead
  <2>3. /\ Cardinality(queue'[r]) \in Nat /\ Cardinality(Pairs) \in Nat
        /\ Cardinality(queue'[r]) <= Cardinality(Pairs)
    <3>1. queue'[r] \subseteq Pairs
      BY DEF TypeOK
    <3> QED
      BY <3>1, FiniteRows, Smaller
  <2> QED
    BY <2>2, <2>3 DEF Nearer
<1>2. ASSUME NEW p \in Pairs, Clear(r, p) PROVE Nearer(r)
  <2>1. /\ pc[r] = "next" /\ pc'[r] = "readSf"
        /\ p \in queue[r] /\ queue'[r] = queue[r] \ {p}
    BY <1>2 DEF Clear, Empty, Goto, TypeOK
  <2>2. IsFiniteSet(queue[r])
    BY FiniteRows, Smaller
  <2>3. /\ Cardinality(queue'[r]) \in Nat /\ Cardinality(queue[r]) \in Nat
        /\ Cardinality(queue'[r]) < Cardinality(queue[r])
    BY <2>1, <2>2, Smaller
  <2> QED
    BY <2>1, <2>3 DEF Nearer, PairsAhead
<1>3. CASE ReadSf(r)
  <2>1. pc[r] = "readSf" /\ pc'[r] = "readLf" /\ queue' = queue
    BY <1>3 DEF ReadSf, Goto, TypeOK, todo
  <2>2. PairsAhead(r)' = PairsAhead(r) /\ StepsAhead(r) = AllTxns + 3 /\ StepsAhead(r)' = AllTxns + 2
    BY <2>1 DEF PairsAhead, StepsAhead
  <2> QED
    BY <2>2, Measures DEF Nearer
<1>4. CASE ReadLf(r)
  <2>1. pc[r] = "readLf" /\ pc'[r] = "write" /\ queue' = queue
    BY <1>4 DEF ReadLf, Goto, TypeOK, todo
  <2>2. /\ PairsAhead(r)' = PairsAhead(r) /\ StepsAhead(r) = AllTxns + 2
        /\ StepsAhead(r)' = Cardinality(ToMatch(r)') + Cardinality(ToKeep(r)') + 1
    BY <2>1 DEF PairsAhead, StepsAhead
  <2>3. /\ Cardinality(ToMatch(r)') \in Nat /\ Cardinality(ToMatch(r)') <= Cardinality(LfTxns)
        /\ Cardinality(ToKeep(r)') \in Nat /\ Cardinality(ToKeep(r)') <= Cardinality(SfTxns)
        /\ Cardinality(LfTxns) \in Nat /\ Cardinality(SfTxns) \in Nat
    <3>1. ToMatch(r)' \subseteq LfTxns /\ ToKeep(r)' \subseteq SfTxns
      BY DEF TypeOK, ToMatch, ToKeep
    <3> QED
      BY <3>1, FiniteRows, Smaller
  <2> QED
    BY <2>2, <2>3 DEF Nearer, AllTxns
<1>5. CASE Match(r)
  <2> PICK l \in ToMatch(r) : \E s \in Best(r, l) : WriteMatch(r, <<s, l>>)
    BY <1>5, MatchedPair
  <2> PICK s \in Best(r, l) : WriteMatch(r, <<s, l>>)
    OBVIOUS
  <2>1. /\ pc[r] = "write" /\ UNCHANGED <<pc, queue, sf, lf, keptSf, keptLf>>
        /\ mine'[r] = mine[r] \cup {<<s, l>>}
    BY <1>5 DEF Match, WriteMatch, TypeOK, todo, read
  <2>2. l \in LfOf(mine'[r]) /\ LfOf(mine[r]) \subseteq LfOf(mine'[r]) /\ SfOf(mine[r]) \subseteq SfOf(mine'[r])
    <3>1. <<s, l>>[2] = l
      OBVIOUS
    <3> QED
      BY <2>1, <3>1 DEF SfOf, LfOf
  <2>3. /\ ToMatch(r)' \subseteq ToMatch(r) /\ l \notin ToMatch(r)'
        /\ ToKeep(r)' \subseteq ToKeep(r)
    BY <2>1, <2>2 DEF ToMatch, ToKeep
  <2> QED
    BY <2>1, <2>3, RowWritten
<1>6. CASE LeaveLf(r)
  <2>1. PICK l \in ToMatch(r) : WriteLfOnly(r, l)
    BY <1>6 DEF LeaveLf
  <2>2. /\ pc[r] = "write" /\ UNCHANGED <<pc, queue, sf, lf, mine, keptSf>>
        /\ keptLf'[r] = keptLf[r] \cup {l}
    BY <1>6, <2>1 DEF LeaveLf, WriteLfOnly, TypeOK, todo, read
  <2>3. /\ ToMatch(r)' \subseteq ToMatch(r) /\ l \notin ToMatch(r)'
        /\ ToKeep(r)' \subseteq ToKeep(r)
    BY <2>2 DEF ToMatch, ToKeep
  <2> QED
    BY <2>2, <2>3, RowWritten
<1>7. CASE LeaveSf(r)
  <2>1. PICK t \in ToKeep(r) : WriteSfOnly(r, t)
    BY <1>7 DEF LeaveSf
  <2>2. /\ pc[r] = "write" /\ UNCHANGED <<pc, queue, sf, lf, mine, keptLf>>
        /\ keptSf'[r] = keptSf[r] \cup {t}
    BY <1>7, <2>1 DEF LeaveSf, WriteSfOnly, TypeOK, todo, read
  <2>3. /\ ToKeep(r)' \subseteq ToKeep(r) /\ t \notin ToKeep(r)'
        /\ ToMatch(r)' \subseteq ToMatch(r)
    BY <2>2 DEF ToMatch, ToKeep
  <2> QED
    BY <2>2, <2>3, RowWritten
<1>8. CASE EndPair(r)
  <2>1. pc[r] = "write" /\ pc'[r] = "next" /\ queue' = queue
    BY <1>8 DEF EndPair, PairWritten, Goto, TypeOK
  <2>2. /\ PairsAhead(r)' = PairsAhead(r) /\ StepsAhead(r)' = 0
        /\ StepsAhead(r) = Cardinality(ToMatch(r)) + Cardinality(ToKeep(r)) + 1
    BY <2>1 DEF PairsAhead, StepsAhead
  <2> QED
    BY <2>2, Measures DEF Nearer
<1>9. CASE Finish(r)
  <2>1. pc[r] = "next" /\ pc'[r] = "idle"
    BY <1>9 DEF Finish, AllWritten, Stop, Goto, TypeOK
  <2>2. PairsAhead(r) = Cardinality(queue[r]) + 1 /\ PairsAhead(r)' = 0
    BY <2>1 DEF PairsAhead
  <2> QED
    BY <2>2, Measures DEF Nearer
<1>10. CASE Link(r)
  <2>1. PICK p \in Pairs \ links[r] : links' = [links EXCEPT ![r] = @ \cup {p}]
    BY <1>10 DEF Link
  <2>2. pc[r] = "link" /\ pc' = pc
    BY <1>10 DEF Link
  <2>3. links'[r] = links[r] \cup {p}
    BY <2>1 DEF TypeOK
  <2>4. IsFiniteSet(Pairs \ links[r])
    BY FiniteRows, Smaller
  <2>5. /\ Cardinality(Pairs \ links'[r]) \in Nat /\ Cardinality(Pairs \ links[r]) \in Nat
        /\ Cardinality(Pairs \ links'[r]) < Cardinality(Pairs \ links[r])
    BY <2>3, <2>4, Smaller
  <2>6. PairsAhead(r)' = PairsAhead(r)
    BY <2>2 DEF PairsAhead
  <2> QED
    BY <2>2, <2>5, <2>6 DEF Nearer, StepsAhead
<1> QED
  BY <1>1, <1>2, <1>3, <1>4, <1>5, <1>6, <1>7, <1>8, <1>9, <1>10 DEF Run

LEMMA OthersKeep ==
  ASSUME TypeOK, NEW r \in Runners, NEW q \in Runners \ {r}, Begin(r) \/ Run(r) \/ Stop(r)
  PROVE  UNCHANGED <<PairsAhead(q), StepsAhead(q)>>
<1> USE DEF TypeOK, Goto
<1>1. /\ pc'[q] = pc[q] /\ links'[q] = links[q] /\ queue'[q] = queue[q]
      /\ sf'[q] = sf[q] /\ lf'[q] = lf[q] /\ mine'[q] = mine[q]
      /\ keptSf'[q] = keptSf[q] /\ keptLf'[q] = keptLf[q]
  <2> USE DEF todo, read, wrote
  <2>1. CASE Begin(r)
    BY <2>1 DEF Begin
  <2>2. CASE Link(r) \/ ReadPairs(r) \/ \E p \in Pairs : Clear(r, p)
    BY <2>2 DEF Link, ReadPairs, ReadRows, Clear, Empty
  <2>3. CASE ReadSf(r) \/ ReadLf(r)
    BY <2>3 DEF ReadSf, ReadLf
  <2>4. CASE Match(r)
    <3> PICK l \in ToMatch(r) : \E s \in Best(r, l) : WriteMatch(r, <<s, l>>)
      BY <2>4, MatchedPair
    <3> PICK s \in Best(r, l) : WriteMatch(r, <<s, l>>)
      OBVIOUS
    <3> QED
      BY <2>4 DEF Match, WriteMatch
  <2>5. CASE LeaveLf(r) \/ LeaveSf(r)
    BY <2>5 DEF LeaveLf, LeaveSf, WriteLfOnly, WriteSfOnly
  <2>6. CASE EndPair(r) \/ Stop(r)
    BY <2>6 DEF EndPair, Stop, Forget
  <2> QED
    BY <2>1, <2>2, <2>3, <2>4, <2>5, <2>6 DEF Run, Finish
<1>2. ToMatch(q)' = ToMatch(q) /\ ToKeep(q)' = ToKeep(q)
  BY <1>1 DEF ToMatch, ToKeep
<1> QED
  BY <1>1, <1>2 DEF PairsAhead, StepsAhead

LEMMA EndingStep == ASSUME FiniteTables, TypeOK, TypeOK', [Next]_vars PROVE Ending
<1> SUFFICES ASSUME NEW r \in Runners
             PROVE  /\ PairsAhead(r) \in Nat /\ StepsAhead(r) \in Nat
                    /\ Run(r) => Nearer(r)
                    /\ Begin(r) \/ Nearer(r) \/ UNCHANGED <<PairsAhead(r), StepsAhead(r)>>
  BY DEF Ending
<1>1. Run(r) => Nearer(r)
  BY RunNearer
<1>2. ASSUME Abort(r) PROVE Nearer(r)
  <2>1. pc[r] # "idle" /\ pc'[r] = "idle"
    BY <1>2 DEF Abort, Active, Stop, Goto, TypeOK
  <2>2. PairsAhead(r) > 0 /\ PairsAhead(r)' = 0
    BY <2>1, Measures DEF PairsAhead
  <2> QED
    BY <2>2, Measures DEF Nearer
<1>3. ASSUME NEW o \in Runners \ {r}, Begin(o) \/ Run(o) \/ Abort(o)
      PROVE  UNCHANGED <<PairsAhead(r), StepsAhead(r)>>
  BY <1>3, OthersKeep DEF Abort
<1>4. ASSUME AddTxn \/ UNCHANGED vars PROVE UNCHANGED <<PairsAhead(r), StepsAhead(r)>>
  <2>1. UNCHANGED <<pc, links, queue, sf, lf, mine, keptSf, keptLf>>
    BY <1>4 DEF AddTxn, vars, todo, read, wrote
  <2> QED
    BY <2>1 DEF PairsAhead, StepsAhead, ToMatch, ToKeep
<1>5. Begin(r) \/ Nearer(r) \/ UNCHANGED <<PairsAhead(r), StepsAhead(r)>>
  BY <1>1, <1>2, <1>3, <1>4 DEF Next
<1> QED
  BY <1>1, <1>5, Measures

(* A run ends after finitely many statements, however many transactions    *)
(* arrive while it goes on and whatever other runs do to the table.        *)
THEOREM RunsAreFinite == ASSUME FiniteTables PROVE Spec => [][Ending]_vars
<1>1. TypeOK /\ TypeOK' /\ [Next]_vars => [Ending]_vars
  BY EndingStep
<1> QED
  BY <1>1, TypeCorrect, PTL DEF Spec

(* A run that is not over has a statement to send: the next pair of those  *)
(* it comes to, or the SELECT of the pairs; and what max_by takes of       *)
(* candidates is there whenever they are.                                  *)
GoesOn ==
  \A r \in Runners :
    /\ pc[r] = "link" =>
         \/ links[r] \in Links
         \/ \E p \in Pairs \ links[r], G \in Links : links[r] \cup {p} \subseteq G
    /\ pc[r] = "write" =>
         \/ \E l \in ToMatch(r) : Close(r, l) = {} \/ Best(r, l) # {}
         \/ ToMatch(r) = {} /\ ToKeep(r) # {}
         \/ PairWritten(r)

Less == {p \in Nat \X Nat : p[1] < p[2]}

LEMMA LeastNatural ==
  ASSUME NEW T, T \subseteq Nat, T # {} PROVE \E n \in T : \A m \in T : n <= m
<1>1. IsWellFoundedOn(Less, Nat)
  BY NatLessThanWellFounded, Zenon DEF OpToRel, Less
<1>2. PICK n \in T : \A m \in T : <<m, n>> \notin Less
  BY <1>1, WFMin
<1>3. \A m \in T : ~(m < n)
  BY <1>2 DEF Less
<1> QED
  BY <1>3

(* Of candidates, the one that the fewest others excel is excelled by none. *)
LEMMA BestExists ==
  ASSUME FiniteTables, TypeOK, NEW r \in Runners, NEW l \in LfTxns, Close(r, l) # {}
  PROVE  Best(r, l) # {}
<1> DEFINE Above(s) == {t \in Close(r, l) : score[<<t, l>>] > score[<<s, l>>]}
           Counts == {Cardinality(Above(s)) : s \in Close(r, l)}
<1>1. Close(r, l) \subseteq SfTxns /\ IsFiniteSet(Close(r, l))
  <2>1. Close(r, l) \subseteq SfTxns
    BY DEF Close, TypeOK
  <2> QED
    BY <2>1, Smaller DEF FiniteTables
<1>2. \A s \in Close(r, l) : score[<<s, l>>] \in Nat
  BY <1>1, TxnAssumption DEF TypeOK
<1>3. \A s \in Close(r, l) : IsFiniteSet(Above(s)) /\ Cardinality(Above(s)) \in Nat
  BY <1>1, Smaller
<1>4. PICK s \in Close(r, l) : \A t \in Close(r, l) : Cardinality(Above(s)) <= Cardinality(Above(t))
  <2>1. Counts \subseteq Nat /\ Counts # {}
    BY <1>3
  <2>2. PICK n \in Counts : \A m \in Counts : n <= m
    BY <2>1, LeastNatural
  <2> QED
    BY <2>2
<1>5. ASSUME NEW t \in Close(r, l), score[<<t, l>>] > score[<<s, l>>] PROVE FALSE
  <2>1. Above(t) \subseteq Above(s) /\ t \in Above(s) /\ t \notin Above(t)
    BY <1>2, <1>5
  <2>2. Cardinality(Above(t)) < Cardinality(Above(s))
    BY <1>3, <2>1, Smaller
  <2> QED
    BY <1>3, <1>4, <2>2
<1>6. s \in Best(r, l)
  BY <1>2, <1>5 DEF Best
<1> QED
  BY <1>6

(* No run of the transactions gets stuck before its end.                   *)
THEOREM RunsGoOn == ASSUME FiniteTables PROVE Spec => []GoesOn
<1>1. TypeOK => GoesOn
  <2> SUFFICES ASSUME TypeOK, NEW r \in Runners
               PROVE  /\ links[r] \notin Links =>
                           \E p \in Pairs \ links[r], G \in Links : links[r] \cup {p} \subseteq G
                      /\ \A l \in ToMatch(r) : Close(r, l) = {} \/ Best(r, l) # {}
    BY DEF GoesOn, PairWritten
  <2>1. ASSUME links[r] \notin Links
        PROVE  \E p \in Pairs \ links[r], G \in Links : links[r] \cup {p} \subseteq G
    <3>1. PICK G \in Links : links[r] \subseteq G
      BY DEF TypeOK
    <3>2. PICK p \in G : p \notin links[r]
      BY <2>1, <3>1
    <3> QED
      BY <3>1, <3>2, TxnAssumption DEF Pairs
  <2>2. ASSUME NEW l \in ToMatch(r) PROVE Close(r, l) = {} \/ Best(r, l) # {}
    <3>1. l \in LfTxns
      BY DEF ToMatch, TypeOK
    <3> QED
      BY <3>1, BestExists
  <2> QED
    BY <2>1, <2>2
<1> QED
  BY <1>1, TypeCorrect, PTL
=============================================================================
