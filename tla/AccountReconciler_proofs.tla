----------------------- MODULE AccountReconciler_proofs -----------------------
(***************************************************************************)
(* What a run of reconcile_accounts leaves in reconciled_accounts, for any *)
(* number of runs, accounts and rules.  The invariant says what each run   *)
(* knows of its own writes (Own, Paired, Kept), what of them is in the     *)
(* table while no other run empties it (Holds), and that the table is just *)
(* that while the run is alone (Alone).  At the end, what lists of         *)
(* accounts show of the table meanwhile (FdxApi), and that what is proved  *)
(* here and of TxnReconciler holds of whole runs (Reconciler).             *)
(***************************************************************************)
EXTENDS FdxApi, Reconciler, FiniteSetTheorems, WellFoundedInduction, TLAPS

(* No two rules have the same id, in the table or as a run has read them.  *)
Distinct(R) == \A x, y \in R : x.id = y.id => x = y
Ids ==
  /\ Distinct(rules)
  /\ \A x \in rules : x.id <= created
  /\ \A r \in Runners : Distinct(seen[r])

(* A run has read accounts that exist, and writes once it has read.        *)
Own ==
  \A r \in Runners :
    /\ sf[r] \subseteq accounts /\ lf[r] \subseteq lf_accounts
    /\ pc[r] # "write" => mine[r] = {} /\ keptSf[r] = {} /\ keptLf[r] = {}
    /\ mine[r] \subseteq sf[r] \X lf[r]

(* The matches of a run: forced ones first, and one to one but for those.  *)
Paired ==
  \A r \in Runners :
    /\ ~(mine[r] \subseteq ForcedHere(r)) => ForcedHere(r) \subseteq mine[r]
    /\ \A p, q \in mine[r] :
         p # q => p[1] # q[1] /\ (p[2] # q[2] \/ {p, q} \subseteq ForcedHere(r))
    /\ \A p \in mine[r] \ ForcedHere(r) :
         p[1] \notin KeepSf(seen[r]) /\ p[2] \notin KeepLf(seen[r]) /\ p \notin KeepApart(seen[r])

(* The rows a run writes for an account alone: LunchFlow's once all is     *)
(* forced, SimpleFIN's once all is matched.                                *)
Kept ==
  \A r \in Runners :
    /\ keptSf[r] \subseteq sf[r] \ SfOf(mine[r])
    /\ keptLf[r] \subseteq lf[r] \ LfOf(mine[r])
    /\ keptLf[r] # {} => ForcedHere(r) \subseteq mine[r]
    /\ keptSf[r] # {} => AllMatched(r)

(* A LunchFlow account is left alone when no account it may be matched     *)
(* with is close enough.                                                   *)
Far ==
  \A r \in Runners : steady[r] =>
    \A l \in keptLf[r] \ KeepLf(seen[r]), s \in sf[r] \ (SfOf(mine[r]) \cup KeepSf(seen[r])) :
      <<s, l>> \notin KeepApart(seen[r]) => ~(score[<<s, l>>] >= Threshold)

(* What a run has written since it emptied the table, if it was the last.  *)
Holds ==
  \A r \in Runners : cleared = r =>
    /\ mine[r] \subseteq matched
    /\ \A s \in keptSf[r] : sfinOnly[s] > 0
    /\ \A l \in keptLf[r] : lfOnly[l] > 0

(* The table of a run that is alone. *)
Exactly(r) ==
  /\ matched = mine[r]
  /\ \A s \in SfAccounts : sfinOnly[s] = IF s \in keptSf[r] THEN 1 ELSE 0
  /\ \A l \in LfAccounts : lfOnly[l] = IF l \in keptLf[r] THEN 1 ELSE 0
Alone ==
  \A r \in Runners : alone[r] =>
    /\ \A q \in Runners \ {r} : pc[q] = "idle"
    /\ pc[r] \in {"readSf", "readLf", "write"} => Exactly(r)

Rest == Ids /\ Own /\ Paired /\ Kept /\ Far /\ Holds /\ Alone /\ ForeignKeys

-----------------------------------------------------------------------------
(* Type correctness *)

LEMMA TypeInit == Init => TypeOK
BY ScoreAssumption, BoundAssumption DEF Init, TypeOK

LEMMA KnowsType ==
  ASSUME TypeOK, NEW r \in Runners, NEW R \in SUBSET Rules, Knows(r, R)
  PROVE  /\ seen' \in [Runners -> SUBSET Rules]
         /\ sf' \in [Runners -> SUBSET SfAccounts] /\ lf' \in [Runners -> SUBSET LfAccounts]
         /\ mine' \in [Runners -> SUBSET Pairs]
         /\ keptSf' \in [Runners -> SUBSET SfAccounts]
         /\ keptLf' \in [Runners -> SUBSET LfAccounts]
BY DEF TypeOK, Knows

(* A forced match is a rule the run has read, of accounts it has read.     *)
LEMMA ForcedRule ==
  ASSUME NEW r, NEW p \in ForcedHere(r)
  PROVE  \E x \in seen[r] : /\ x.action = "match" /\ p = <<x.sf, x.lf>>
                            /\ x.sf \in sf[r] /\ x.lf \in lf[r]
                            /\ \A z \in seen[r] : z.action = "match" /\ z.sf = x.sf => z.id <= x.id
<1>1. p \in Forced(seen[r]) /\ p[1] \in sf[r] /\ p[2] \in lf[r]
  BY DEF ForcedHere
<1>2. PICK x \in seen[r] : /\ x.action = "match" /\ p = <<x.sf, x.lf>>
                           /\ \A z \in seen[r] : z.action = "match" /\ z.sf = x.sf => z.id <= x.id
  BY <1>1, Zenon DEF Forced
<1> QED
  BY <1>1, <1>2

LEMMA ForcedPair ==
  ASSUME NEW r, NEW p \in ForcedHere(r) PROVE p = <<p[1], p[2]>> /\ p \in sf[r] \X lf[r]
BY ForcedRule

LEMMA Writes ==
  /\ \A r : ApplyRule(r) => \E p \in ForcedHere(r) \ mine[r] : WriteMatch(r, p)
  /\ \A r : AutoMatch(r) => \E l \in LfAccounts : /\ NextLf(r, l) /\ l \notin KeepLf(seen[r])
                                                 /\ \E s \in Best(r, l) : WriteMatch(r, <<s, l>>)
BY Zenon DEF ApplyRule, AutoMatch

LEMMA TypeStep == TypeOK /\ [Next]_vars => TypeOK'
<1> SUFFICES ASSUME TypeOK, [Next]_vars PROVE TypeOK'
  OBVIOUS
<1> USE DEF TypeOK, Goto, source, table, read, wrote
<1>1. ASSUME NEW r \in Runners, Begin(r) PROVE TypeOK'
  <2>1. Knows(r, rules) /\ rules \in SUBSET Rules
    BY <1>1 DEF Begin
  <2>2. alone' \in [Runners -> BOOLEAN]
    BY <1>1, Zenon DEF Begin
  <2> QED
    BY <1>1, <2>1, <2>2, KnowsType DEF Begin
<1>2. ASSUME NEW r \in Runners, Clear(r) PROVE TypeOK'
  BY <1>2 DEF Clear, Empty
<1>3. ASSUME NEW r \in Runners, ReadSf(r) PROVE TypeOK'
  BY <1>3 DEF ReadSf
<1>4. ASSUME NEW r \in Runners, ReadLf(r) PROVE TypeOK'
  BY <1>4 DEF ReadLf
<1>5. ASSUME NEW r \in Runners, ApplyRule(r) PROVE TypeOK'
  <2> PICK p \in ForcedHere(r) : WriteMatch(r, p)
    BY <1>5, Writes
  <2>1. p \in Pairs
    BY ForcedPair DEF Pairs
  <2> QED
    BY <1>5, <2>1 DEF ApplyRule, WriteMatch
<1>6. ASSUME NEW r \in Runners, AutoMatch(r) PROVE TypeOK'
  <2> PICK l \in LfAccounts : \E s \in Best(r, l) : WriteMatch(r, <<s, l>>)
    BY <1>6, Writes
  <2> PICK s \in Best(r, l) : WriteMatch(r, <<s, l>>)
    OBVIOUS
  <2>1. <<s, l>> \in Pairs
    BY DEF Best, Close, Candidates, Pairs
  <2> QED
    BY <1>6, <2>1 DEF AutoMatch, WriteMatch
<1>7. ASSUME NEW r \in Runners, LeaveLf(r) PROVE TypeOK'
  BY <1>7 DEF LeaveLf, WriteLfOnly
<1>8. ASSUME NEW r \in Runners, LeaveSf(r) PROVE TypeOK'
  BY <1>8 DEF LeaveSf, WriteSfOnly, ToKeep
<1>9. ASSUME NEW r \in Runners, Stop(r) PROVE TypeOK'
  <2>1. Knows(r, {}) /\ {} \in SUBSET Rules
    BY <1>9 DEF Stop
  <2> QED
    BY <1>9, <2>1, KnowsType DEF Stop
<1>10. CASE AddAccount
  BY <1>10 DEF AddAccount
<1>11. CASE CreateRule
  BY <1>11, BoundAssumption DEF CreateRule, Creatable, Rules
<1>12. CASE DeleteRule
  BY <1>12 DEF DeleteRule
<1>13. CASE Rescore
  BY <1>13, BoundAssumption DEF Rescore
<1>14. CASE UNCHANGED vars
  BY <1>14 DEF vars
<1> QED
  BY <1>1, <1>2, <1>3, <1>4, <1>5, <1>6, <1>7, <1>8, <1>9, <1>10, <1>11, <1>12, <1>13, <1>14
  DEF Next, Run, Finish, Abort

(* Type correctness: no rule without its CHECKs (create_reconciliation_rule*)
(* asks what the table asks), no match of accounts that are not.           *)
THEOREM TypeCorrect == Spec => []TypeOK
BY TypeInit, TypeStep, PTL DEF Spec

-----------------------------------------------------------------------------
(* The invariant *)

LEMMA RestInit == ASSUME Init, TypeOK PROVE Rest
<1>1. Ids /\ Own /\ ForeignKeys
  BY DEF Init, Ids, Distinct, Own, ForeignKeys
<1>2. Paired /\ Kept /\ Far
  BY DEF Init, Paired, Kept, Far
<1>3. Holds /\ Alone
  BY AccountAssumption, Zenon DEF Init, Holds, Alone
<1> QED
  BY <1>1, <1>2, <1>3 DEF Rest

(* What a run has still to do does not depend on the others.               *)
LEMMA Reads ==
  ASSUME UNCHANGED read
  PROVE  \A r : /\ ForcedHere(r)' = ForcedHere(r)
               /\ seen[r]' = seen[r] /\ sf[r]' = sf[r] /\ lf[r]' = lf[r]
BY DEF read, ForcedHere

(* Of the rules for one SimpleFIN account, one counts.                     *)
LEMMA ForcedOnce ==
  ASSUME TypeOK, Ids, NEW r \in Runners, NEW p \in ForcedHere(r), NEW q \in ForcedHere(r), p # q
  PROVE  p[1] # q[1]
<1>1. PICK x \in seen[r] : /\ x.action = "match" /\ p = <<x.sf, x.lf>>
                           /\ \A z \in seen[r] : z.action = "match" /\ z.sf = x.sf => z.id <= x.id
  BY ForcedRule
<1>2. PICK y \in seen[r] : /\ y.action = "match" /\ q = <<y.sf, y.lf>>
                           /\ \A z \in seen[r] : z.action = "match" /\ z.sf = y.sf => z.id <= y.id
  BY ForcedRule
<1>3. x.id \in Int /\ y.id \in Int
  BY DEF TypeOK, Rules, Requests
<1>4. x.id = y.id => x = y
  BY DEF Ids, Distinct
<1> QED
  BY <1>1, <1>2, <1>3, <1>4

LEMMA ApplyRuleStep ==
  ASSUME TypeOK, Rest, NEW r \in Runners, ApplyRule(r) PROVE Rest'
<1> PICK p \in ForcedHere(r) \ mine[r] : WriteMatch(r, p)
  BY Writes
<1>1. /\ pc[r] = "write" /\ UNCHANGED <<source, pc, read, alone, steady>>
      /\ matched' = matched \cup {p} /\ UNCHANGED <<sfinOnly, lfOnly, cleared, keptSf, keptLf>>
  BY DEF ApplyRule, WriteMatch
<1>2. /\ mine[r]' = mine[r] \cup {p}
      /\ \A q \in Runners \ {r} : mine[q]' = mine[q]
  BY DEF WriteMatch, TypeOK
<1>3. p \in sf[r] \X lf[r]
  BY ForcedPair
<1>4. mine[r] \subseteq ForcedHere(r) /\ keptLf[r] = {} /\ keptSf[r] = {}
  BY DEF Rest, Paired, Kept, AllMatched
<1>5. Ids' /\ Own' /\ ForeignKeys'
  BY <1>1, <1>2, <1>3 DEF Rest, Ids, Distinct, Own, ForeignKeys, source, read
<1>6. Paired'
  <2>1. \A a, b \in mine[r]' : a # b => a[1] # b[1] /\ {a, b} \subseteq ForcedHere(r)
    BY <1>2, <1>4, ForcedOnce DEF Rest
  <2> QED
    BY <1>1, <1>2, <1>4, <2>1, Reads DEF Rest, Paired
<1>7. Kept'
  BY <1>1, <1>2, <1>4, Reads DEF Rest, Kept, AllMatched, ToMatch
<1>8. Far' /\ Holds'
  BY <1>1, <1>2, <1>4, Reads DEF Rest, Far, Holds, source
<1>9. Alone'
  BY <1>1, <1>2 DEF Rest, Alone, Exactly
<1> QED
  BY <1>5, <1>6, <1>7, <1>8, <1>9 DEF Rest

LEMMA AutoMatchStep ==
  ASSUME TypeOK, Rest, NEW r \in Runners, AutoMatch(r) PROVE Rest'
<1> PICK l \in LfAccounts : /\ NextLf(r, l) /\ l \notin KeepLf(seen[r])
                            /\ \E s \in Best(r, l) : WriteMatch(r, <<s, l>>)
  BY Writes
<1> PICK s \in Best(r, l) : WriteMatch(r, <<s, l>>)
  OBVIOUS
<1> DEFINE p == <<s, l>>
<1>1. /\ pc[r] = "write" /\ UNCHANGED <<source, pc, read, alone, steady>>
      /\ matched' = matched \cup {p} /\ UNCHANGED <<sfinOnly, lfOnly, cleared, keptSf, keptLf>>
  BY DEF AutoMatch, WriteMatch, NextLf
<1>2. /\ mine[r]' = mine[r] \cup {p}
      /\ \A q \in Runners \ {r} : mine[q]' = mine[q]
  BY DEF WriteMatch, TypeOK
<1>3. /\ ForcedHere(r) \subseteq mine[r] /\ keptSf[r] = {}
      /\ l \in lf[r] /\ l \notin LfOf(mine[r]) /\ l \notin keptLf[r]
  BY DEF NextLf, ToMatch, Rest, Kept, AllMatched
<1>4. /\ s \in sf[r] /\ s \notin SfOf(mine[r]) /\ s \notin KeepSf(seen[r])
      /\ p \notin KeepApart(seen[r])
  BY DEF Best, Close, Candidates
<1>5. p[1] = s /\ p[2] = l /\ p \in sf[r] \X lf[r]
  BY <1>3, <1>4
<1>6. \A q \in mine[r] : q[1] # s /\ q[2] # l
  BY <1>3, <1>4 DEF SfOf, LfOf
<1> HIDE DEF p
<1>7. Ids' /\ Own' /\ ForeignKeys'
  BY <1>1, <1>2, <1>5 DEF Rest, Ids, Distinct, Own, ForeignKeys, source, read
<1>8. Paired'
  <2>1. \A a, b \in mine[r]' : a # b => a[1] # b[1] /\ (a[2] # b[2] \/ {a, b} \subseteq ForcedHere(r))
    BY <1>2, <1>5, <1>6 DEF Rest, Paired
  <2>2. \A a \in mine[r]' \ ForcedHere(r) : /\ a[1] \notin KeepSf(seen[r])
                                            /\ a[2] \notin KeepLf(seen[r])
                                            /\ a \notin KeepApart(seen[r])
    BY <1>2, <1>4, <1>5 DEF Rest, Paired
  <2> QED
    BY <1>1, <1>2, <1>3, <2>1, <2>2, Reads DEF Rest, Paired
<1>9. Kept'
  BY <1>1, <1>2, <1>3, <1>5, Reads DEF Rest, Kept, AllMatched, ToMatch, LfOf
<1>10. Far'
  BY <1>1, <1>2, Reads DEF Rest, Far, source, SfOf
<1>11. Holds' /\ Alone'
  BY <1>1, <1>2 DEF Rest, Holds, Alone, Exactly
<1> QED
  BY <1>7, <1>8, <1>9, <1>10, <1>11 DEF Rest

LEMMA LeaveLfStep ==
  ASSUME TypeOK, Rest, NEW r \in Runners, LeaveLf(r) PROVE Rest'
<1> PICK l \in LfAccounts : /\ NextLf(r, l) /\ WriteLfOnly(r, l)
                            /\ l \in KeepLf(seen[r]) \/ Close(r, l) = {}
  BY DEF LeaveLf
<1>1. /\ pc[r] = "write" /\ UNCHANGED <<source, pc, read, alone, steady>>
      /\ lfOnly' = [lfOnly EXCEPT ![l] = @ + 1]
      /\ UNCHANGED <<matched, sfinOnly, cleared, mine, keptSf>>
  BY DEF LeaveLf, WriteLfOnly, NextLf
<1>2. /\ keptLf[r]' = keptLf[r] \cup {l}
      /\ \A q \in Runners \ {r} : keptLf[q]' = keptLf[q]
  BY DEF WriteLfOnly, TypeOK
<1>3. /\ ForcedHere(r) \subseteq mine[r] /\ keptSf[r] = {}
      /\ l \in lf[r] /\ l \notin LfOf(mine[r]) /\ l \notin keptLf[r]
  BY DEF NextLf, ToMatch, Rest, Kept, AllMatched
<1>4. /\ lfOnly[l]' = lfOnly[l] + 1 /\ lfOnly[l] \in Nat
      /\ \A k \in LfAccounts \ {l} : lfOnly[k]' = lfOnly[k]
  BY <1>1 DEF TypeOK
<1>5. l \notin KeepLf(seen[r]) =>
        \A s \in sf[r] \ (SfOf(mine[r]) \cup KeepSf(seen[r])) :
          <<s, l>> \notin KeepApart(seen[r]) => ~(score[<<s, l>>] >= Threshold)
  BY DEF Close, Candidates
<1>6. Ids' /\ Own' /\ ForeignKeys'
  BY <1>1, <1>2, <1>3, <1>4 DEF Rest, Ids, Distinct, Own, ForeignKeys, source, read
<1>7. Paired'
  BY <1>1, Reads DEF Rest, Paired
<1>8. Kept'
  BY <1>1, <1>2, <1>3, Reads DEF Rest, Kept, AllMatched, ToMatch
<1>9. Far'
  BY <1>1, <1>2, <1>5, Reads DEF Rest, Far, source
<1>10. Holds'
  BY <1>1, <1>2, <1>4 DEF Rest, Holds, TypeOK
<1>11. Alone'
  BY <1>1, <1>2, <1>3, <1>4 DEF Rest, Alone, Exactly
<1> QED
  BY <1>6, <1>7, <1>8, <1>9, <1>10, <1>11 DEF Rest

LEMMA LeaveSfStep ==
  ASSUME TypeOK, Rest, NEW r \in Runners, LeaveSf(r) PROVE Rest'
<1> PICK s \in ToKeep(r) : WriteSfOnly(r, s)
  BY DEF LeaveSf
<1>1. /\ pc[r] = "write" /\ AllMatched(r) /\ UNCHANGED <<source, pc, read, alone, steady>>
      /\ sfinOnly' = [sfinOnly EXCEPT ![s] = @ + 1]
      /\ UNCHANGED <<matched, lfOnly, cleared, mine, keptLf>>
  BY DEF LeaveSf, WriteSfOnly
<1>2. /\ keptSf[r]' = keptSf[r] \cup {s}
      /\ \A q \in Runners \ {r} : keptSf[q]' = keptSf[q]
  BY DEF WriteSfOnly, TypeOK
<1>3. s \in sf[r] /\ s \notin SfOf(mine[r]) /\ s \notin keptSf[r] /\ s \in SfAccounts
  BY DEF ToKeep, TypeOK
<1>4. /\ sfinOnly[s]' = sfinOnly[s] + 1 /\ sfinOnly[s] \in Nat
      /\ \A k \in SfAccounts \ {s} : sfinOnly[k]' = sfinOnly[k]
  BY <1>1, <1>3 DEF TypeOK
<1>5. Ids' /\ Own' /\ ForeignKeys'
  BY <1>1, <1>2, <1>3, <1>4 DEF Rest, Ids, Distinct, Own, ForeignKeys, source, read
<1>6. Paired' /\ Far'
  BY <1>1, Reads DEF Rest, Paired, Far, source
<1>7. Kept'
  BY <1>1, <1>2, <1>3, Reads DEF Rest, Kept, AllMatched, ToMatch
<1>8. Holds'
  BY <1>1, <1>2, <1>4 DEF Rest, Holds, TypeOK
<1>9. Alone'
  BY <1>1, <1>2, <1>3, <1>4 DEF Rest, Alone, Exactly
<1> QED
  BY <1>5, <1>6, <1>7, <1>8, <1>9 DEF Rest

(* A run that has written nothing keeps its part of the invariant.         *)
Blank(r) == mine[r] = {} /\ keptSf[r] = {} /\ keptLf[r] = {}

LEMMA KnowsBlank ==
  ASSUME TypeOK, NEW r \in Runners, NEW R, Knows(r, R)
  PROVE  /\ Blank(r)' /\ seen[r]' = R /\ sf[r]' = {} /\ lf[r]' = {}
         /\ \A q \in Runners \ {r} :
              /\ seen[q]' = seen[q] /\ sf[q]' = sf[q] /\ lf[q]' = lf[q]
              /\ mine[q]' = mine[q] /\ keptSf[q]' = keptSf[q] /\ keptLf[q]' = keptLf[q]
BY DEF Knows, TypeOK, Blank

(* The parts of the invariant that are about the runs, when one of them is *)
(* blank after the step and the others are left as they were.              *)
LEMMA BlankStep ==
  ASSUME Paired, Kept, Far, NEW r \in Runners, Blank(r)', UNCHANGED score,
         \A q \in Runners \ {r} :
           /\ seen[q]' = seen[q] /\ sf[q]' = sf[q] /\ lf[q]' = lf[q]
           /\ mine[q]' = mine[q] /\ keptSf[q]' = keptSf[q] /\ keptLf[q]' = keptLf[q]
           /\ steady[q]' => steady[q]
  PROVE  Paired' /\ Kept' /\ Far'
<1>1. \A q \in Runners \ {r} : ForcedHere(q)' = ForcedHere(q)
  BY DEF ForcedHere
<1>2. \A q \in Runners \ {r} : AllMatched(q)' = AllMatched(q)
  BY <1>1, Zenon DEF AllMatched, ToMatch
<1>3. Paired'
  BY <1>1 DEF Paired, Blank
<1>4. Kept'
  BY <1>1, <1>2 DEF Kept, Blank
<1>5. Far'
  BY DEF Far, Blank
<1> QED
  BY <1>3, <1>4, <1>5

LEMMA BeginStep == ASSUME TypeOK, Rest, NEW r \in Runners, Begin(r) PROVE Rest'
<1>1. Knows(r, rules) /\ UNCHANGED <<source, table>>
  BY DEF Begin
<1>2. /\ pc[r] = "idle" /\ pc[r]' = "clear"
      /\ \A q \in Runners \ {r} : pc[q]' = pc[q] /\ steady[q]' = steady[q]
  BY DEF Begin, Goto, TypeOK
<1>3. \A q \in Runners : alone[q]' => q = r /\ \A o \in Runners \ {r} : pc[o] = "idle"
  BY Zenon DEF Begin, Active
<1>4. Paired' /\ Kept' /\ Far'
  BY <1>1, <1>2, KnowsBlank, BlankStep DEF Rest, source
<1>5. Ids' /\ ForeignKeys'
  BY <1>1, KnowsBlank DEF Rest, Ids, Distinct, ForeignKeys, source, table
<1>6. Own'
  BY <1>1, <1>2, KnowsBlank DEF Rest, Own, source, Blank
<1>7. Holds'
  BY <1>1, KnowsBlank DEF Rest, Holds, table, Blank
<1>8. Alone'
  BY <1>2, <1>3 DEF Alone
<1> QED
  BY <1>4, <1>5, <1>6, <1>7, <1>8 DEF Rest

LEMMA ClearStep == ASSUME TypeOK, Rest, NEW r \in Runners, Clear(r) PROVE Rest'
<1>1. /\ pc[r] = "clear" /\ pc[r]' = "readSf" /\ \A q \in Runners \ {r} : pc[q]' = pc[q]
      /\ matched' = {} /\ cleared' = r /\ UNCHANGED <<source, read, wrote, alone, steady>>
      /\ sfinOnly' = [s \in SfAccounts |-> 0] /\ lfOnly' = [l \in LfAccounts |-> 0]
  BY DEF Clear, Empty, Goto, TypeOK
<1>2. Blank(r) /\ Blank(r)'
  BY <1>1 DEF Rest, Own, Blank, wrote
<1>3. Paired' /\ Kept' /\ Far'
  BY <1>1, <1>2, BlankStep DEF Rest, source, read, wrote
<1>4. Ids' /\ Own' /\ ForeignKeys'
  BY <1>1, <1>2 DEF Rest, Ids, Distinct, Own, ForeignKeys, source, read, wrote, Blank
<1>5. Holds'
  BY <1>1, <1>2 DEF Holds, Blank
<1>6. Alone'
  BY <1>1, <1>2 DEF Rest, Alone, Exactly, Blank
<1> QED
  BY <1>3, <1>4, <1>5, <1>6 DEF Rest

LEMMA ReadStep ==
  ASSUME TypeOK, Rest, NEW r \in Runners, ReadSf(r) \/ ReadLf(r) PROVE Rest'
<1>1. /\ pc[r] \in {"readSf", "readLf"} /\ pc[r]' \in {"readLf", "write"}
      /\ \A q \in Runners \ {r} : pc[q]' = pc[q]
      /\ UNCHANGED <<source, table, seen, wrote, alone, steady>>
      /\ sf[r]' = sf[r] \/ sf[r]' = accounts
      /\ lf[r]' = lf[r] \/ lf[r]' = lf_accounts
      /\ \A q \in Runners \ {r} : sf[q]' = sf[q] /\ lf[q]' = lf[q]
  BY DEF ReadSf, ReadLf, Goto, TypeOK
<1>2. Blank(r) /\ Blank(r)'
  BY <1>1 DEF Rest, Own, Blank, wrote
<1>3. Paired' /\ Kept' /\ Far'
  BY <1>1, <1>2, BlankStep DEF Rest, source, wrote
<1>4. Ids' /\ ForeignKeys'
  BY <1>1 DEF Rest, Ids, Distinct, ForeignKeys, source, table
<1>5. Own'
  BY <1>1, <1>2 DEF Rest, Own, source, wrote, Blank
<1>6. Holds'
  BY <1>1 DEF Rest, Holds, table, wrote
<1>7. Alone'
  BY <1>1 DEF Rest, Alone, Exactly, table, wrote
<1> QED
  BY <1>3, <1>4, <1>5, <1>6, <1>7 DEF Rest

LEMMA StopStep == ASSUME TypeOK, Rest, NEW r \in Runners, Stop(r) PROVE Rest'
<1>1. /\ Knows(r, {}) /\ UNCHANGED <<source, table>>
      /\ pc[r]' = "idle" /\ \A q \in Runners \ {r} : pc[q]' = pc[q]
      /\ \A q \in Runners \ {r} : steady[q]' = steady[q]
  BY DEF Stop, Goto, TypeOK
<1>2. ~alone[r]' /\ \A q \in Runners \ {r} : alone[q]' = alone[q]
  BY DEF Stop, TypeOK
<1>3. Paired' /\ Kept' /\ Far'
  BY <1>1, KnowsBlank, BlankStep DEF Rest, source
<1>4. Ids' /\ ForeignKeys'
  BY <1>1, KnowsBlank DEF Rest, Ids, Distinct, ForeignKeys, source, table
<1>5. Own'
  BY <1>1, KnowsBlank DEF Rest, Own, source, Blank
<1>6. Holds'
  BY <1>1, KnowsBlank DEF Rest, Holds, table, Blank
<1>7. Alone'
  BY <1>1, <1>2, KnowsBlank DEF Rest, Alone, Exactly, table
<1> QED
  BY <1>3, <1>4, <1>5, <1>6, <1>7 DEF Rest

(* Steps beside the runs. *)
LEMMA BesideStep ==
  ASSUME TypeOK, Rest, AddAccount \/ CreateRule \/ DeleteRule \/ Rescore \/ UNCHANGED vars
  PROVE  Rest'
<1>1. /\ accounts \subseteq accounts' /\ lf_accounts \subseteq lf_accounts'
      /\ UNCHANGED <<table, pc, read, wrote, alone>>
  BY DEF AddAccount, CreateRule, DeleteRule, Rescore, vars, source
<1>2. Distinct(rules)' /\ \A x \in rules' : x.id <= created'
  <2>1. CASE CreateRule
    <3>1. PICK x \in Requests : x.id = created + 1 /\ rules' = rules \cup {x}
      BY <2>1 DEF CreateRule
    <3>2. created' = created + 1 /\ created \in Int /\ \A y \in rules : y.id \in Int
      BY <2>1, BoundAssumption DEF CreateRule, TypeOK, Rules, Requests
    <3> QED
      BY <3>1, <3>2 DEF Rest, Ids, Distinct
  <2>2. CASE ~CreateRule
    <3>1. rules' \subseteq rules /\ created' = created
      BY <2>2 DEF AddAccount, DeleteRule, Rescore, vars, source
    <3> QED
      BY <3>1 DEF Rest, Ids, Distinct
  <2> QED
    BY <2>1, <2>2
<1>3. Ids' /\ Own' /\ ForeignKeys'
  BY <1>1, <1>2 DEF Rest, Ids, Distinct, Own, ForeignKeys, table, read, wrote
<1>4. Paired' /\ Kept'
  BY <1>1, Reads DEF Rest, Paired, Kept, AllMatched, ToMatch, wrote
<1>5. Far'
  <2>1. CASE Rescore
    BY <2>1 DEF Rescore, Far
  <2>2. CASE ~Rescore
    BY <1>1, <2>2 DEF AddAccount, CreateRule, DeleteRule, vars, source, read, wrote, Rest, Far
  <2> QED
    BY <2>1, <2>2
<1>6. Holds' /\ Alone'
  BY <1>1 DEF Rest, Holds, Alone, Exactly, table, wrote
<1> QED
  BY <1>3, <1>4, <1>5, <1>6 DEF Rest

LEMMA Invariance == Spec => [](TypeOK /\ Rest)
<1>1. Init => TypeOK /\ Rest
  BY TypeInit, RestInit
<1>2. TypeOK /\ Rest /\ [Next]_vars => (TypeOK /\ Rest)'
  BY TypeStep, ApplyRuleStep, AutoMatchStep, LeaveLfStep, LeaveSfStep, BeginStep, ClearStep,
     ReadStep, StopStep, BesideStep
  DEF Next, Run, Finish, Abort
<1> QED
  BY <1>1, <1>2, PTL DEF Spec

-----------------------------------------------------------------------------
(* What it gives *)

LEMMA ClaimsForced == ASSUME NEW r PROVE Claims(r) = ForcedHere(r)
<1>1. ForcedHere(r) \subseteq Claims(r)
  BY ForcedPair DEF ForcedHere, Claims
<1>2. Claims(r) \subseteq ForcedHere(r)
  BY DEF ForcedHere, Claims
<1> QED
  BY <1>1, <1>2

LEMMA AllWritten ==
  ASSUME Rest, NEW r \in Runners, Written(r)
  PROVE  /\ ForcedHere(r) \subseteq mine[r]
         /\ sf[r] = SfOf(mine[r]) \cup keptSf[r] /\ keptSf[r] \cap SfOf(mine[r]) = {}
         /\ lf[r] = LfOf(mine[r]) \cup keptLf[r] /\ keptLf[r] \cap LfOf(mine[r]) = {}
<1>1. ForcedHere(r) \subseteq mine[r] /\ ToMatch(r) = {} /\ ToKeep(r) = {}
  BY DEF Written, AllMatched
<1>2. SfOf(mine[r]) \subseteq sf[r] /\ LfOf(mine[r]) \subseteq lf[r]
  BY DEF Rest, Own, SfOf, LfOf
<1> QED
  BY <1>1, <1>2 DEF Rest, Kept, ToMatch, ToKeep

LEMMA AloneExactly ==
  ASSUME Rest, NEW r \in Runners, Completed(r) PROVE Written(r) /\ Exactly(r)
BY DEF Completed, Written, Rest, Alone

LEMMA EachOnceInv == ASSUME TypeOK, Rest PROVE EachOnce
<1> SUFFICES ASSUME NEW r \in Runners, Completed(r)
             PROVE  /\ Covers(sf[r], SfOf(matched), sfinOnly)
                    /\ Covers(lf[r], LfOf(matched), lfOnly)
                    /\ \A p, q \in matched :
                         p # q => p[1] # q[1] /\ (p[2] # q[2] \/ {p, q} \subseteq Claims(r))
  BY DEF EachOnce
<1>1. Exactly(r) /\ Written(r)
  BY AloneExactly
<1>2. DOMAIN sfinOnly = SfAccounts /\ DOMAIN lfOnly = LfAccounts
  BY DEF TypeOK
<1>3. Covers(sf[r], SfOf(matched), sfinOnly)
  BY <1>1, <1>2, AllWritten DEF Exactly, Covers
<1>4. Covers(lf[r], LfOf(matched), lfOnly)
  BY <1>1, <1>2, AllWritten DEF Exactly, Covers
<1> QED
  BY <1>1, <1>3, <1>4, ClaimsForced DEF Exactly, Rest, Paired

LEMMA RulesObeyedInv == ASSUME Rest PROVE RulesObeyed
<1> SUFFICES ASSUME NEW r \in Runners, Completed(r)
             PROVE  /\ Claims(r) \subseteq matched
                    /\ (matched \ Claims(r)) \cap KeepApart(seen[r]) = {}
                    /\ SfOf(matched \ Claims(r)) \cap KeepSf(seen[r]) = {}
                    /\ LfOf(matched \ Claims(r)) \cap KeepLf(seen[r]) = {}
  BY DEF RulesObeyed
<1>1. matched = mine[r] /\ ForcedHere(r) \subseteq mine[r] /\ Claims(r) = ForcedHere(r)
  BY AloneExactly, AllWritten, ClaimsForced DEF Exactly
<1>2. \A p \in matched \ Claims(r) : /\ p[1] \notin KeepSf(seen[r])
                                      /\ p[2] \notin KeepLf(seen[r])
                                      /\ p \notin KeepApart(seen[r])
  BY <1>1 DEF Rest, Paired
<1> QED
  BY <1>1, <1>2 DEF SfOf, LfOf

LEMMA NoMissedMatchInv == ASSUME TypeOK, Rest PROVE NoMissedMatch
<1> SUFFICES ASSUME NEW r \in Runners, Completed(r), steady[r], NEW s \in sf[r], NEW l \in lf[r],
                    sfinOnly[s] > 0, lfOnly[l] > 0,
                    s \notin KeepSf(seen[r]), l \notin KeepLf(seen[r]),
                    <<s, l>> \notin KeepApart(seen[r])
             PROVE  score[<<s, l>>] < Threshold
  BY DEF NoMissedMatch
<1>1. s \in SfAccounts /\ l \in LfAccounts
  BY DEF TypeOK
<1>2. s \in keptSf[r] /\ l \in keptLf[r]
  BY <1>1, AloneExactly DEF Exactly
<1>3. ~(score[<<s, l>>] >= Threshold)
  BY <1>2 DEF Rest, Far, Kept
<1>4. score[<<s, l>>] \in Nat /\ Threshold \in Nat
  BY <1>1, ScoreAssumption DEF TypeOK
<1> QED
  BY <1>3, <1>4

LEMMA NobodyLostInv == ASSUME Rest PROVE NobodyLost
<1> SUFFICES ASSUME NEW r \in Runners, Written(r), cleared = r
             PROVE  /\ \A s \in sf[r] : s \in SfOf(matched) \/ sfinOnly[s] > 0
                    /\ \A l \in lf[r] : l \in LfOf(matched) \/ lfOnly[l] > 0
                    /\ Claims(r) \subseteq matched
  BY DEF NobodyLost
<1>1. mine[r] \subseteq matched /\ (\A s \in keptSf[r] : sfinOnly[s] > 0)
      /\ \A l \in keptLf[r] : lfOnly[l] > 0
  BY DEF Rest, Holds
<1>2. SfOf(mine[r]) \subseteq SfOf(matched) /\ LfOf(mine[r]) \subseteq LfOf(matched)
  BY <1>1 DEF SfOf, LfOf
<1> QED
  BY <1>1, <1>2, AllWritten, ClaimsForced

(* A run of reconcile_accounts with no other beside it leaves every account*)
(* it read in the table exactly once, and nothing else there, whatever     *)
(* runs that were stopped or overlapped had left.                          *)
THEOREM EachAccountOnce == Spec => []EachOnce
BY Invariance, EachOnceInv, PTL

(* It obeys the user's rules as it read them. *)
THEOREM RulesAreObeyed == Spec => []RulesObeyed
BY Invariance, RulesObeyedInv, PTL

(* It leaves no two accounts alone that it should have matched. *)
THEOREM NoMatchIsMissed == Spec => []NoMissedMatch
BY Invariance, NoMissedMatchInv, PTL

(* However many runs overlap, the last to empty the table loses nothing.   *)
THEOREM OverlapLosesNobody == Spec => []NobodyLost
BY Invariance, NobodyLostInv, PTL

(* No statement of a run is ever refused by the foreign keys. *)
THEOREM RowsHaveAccounts == Spec => []ForeignKeys
BY Invariance, PTL DEF Rest

-----------------------------------------------------------------------------
(* Runs end: what RulesTakeEffect rests on, beside fairness.  The accounts *)
(* are finitely many (AccountAssumption).                                  *)

(* The statements before the writes, and the rows to be written.           *)
StagesAhead(r) ==
  IF pc[r] = "idle" THEN 0
  ELSE IF pc[r] = "write" THEN 1
  ELSE IF pc[r] = "readLf" THEN 2
  ELSE IF pc[r] = "readSf" THEN 3
  ELSE 4

ToForce(r) == ForcedHere(r) \ mine[r]

RowsAhead(r) ==
  IF pc[r] = "write"
  THEN Cardinality(ToForce(r)) + Cardinality(ToMatch(r)) + Cardinality(ToKeep(r))
  ELSE 0

Nearer(r) ==
  \/ StagesAhead(r)' < StagesAhead(r)
  \/ StagesAhead(r)' = StagesAhead(r) /\ RowsAhead(r)' < RowsAhead(r)

(* Every statement of a run brings it nearer to its end, and nothing that  *)
(* others do, new rules and accounts included, puts the end farther off.   *)
Ending ==
  \A r \in Runners :
    /\ StagesAhead(r) \in Nat /\ RowsAhead(r) \in Nat
    /\ Run(r) => Nearer(r)
    /\ Begin(r) \/ Nearer(r) \/ UNCHANGED <<StagesAhead(r), RowsAhead(r)>>

LEMMA Smaller ==
  ASSUME NEW S, IsFiniteSet(S), NEW V, V \subseteq S
  PROVE  /\ IsFiniteSet(V) /\ Cardinality(V) \in Nat /\ Cardinality(S) \in Nat
         /\ Cardinality(V) <= Cardinality(S)
         /\ V # S => Cardinality(V) < Cardinality(S)
<1>1. /\ IsFiniteSet(V) /\ Cardinality(V) <= Cardinality(S)
      /\ Cardinality(S) = Cardinality(V) => S = V
  BY FS_Subset
<1>2. Cardinality(V) \in Nat /\ Cardinality(S) \in Nat
  BY <1>1, FS_CardinalityType
<1> QED
  BY <1>1, <1>2

LEMMA FiniteRows ==
  ASSUME TypeOK, NEW r \in Runners
  PROVE  IsFiniteSet(ToForce(r)) /\ IsFiniteSet(ToMatch(r)) /\ IsFiniteSet(ToKeep(r))
<1>1. IsFiniteSet(Pairs)
  BY AccountAssumption, FS_Product DEF Pairs
<1>2. ToForce(r) \subseteq Pairs
  BY ForcedPair DEF ToForce, TypeOK, Pairs
<1>3. ToMatch(r) \subseteq LfAccounts /\ ToKeep(r) \subseteq SfAccounts
  BY DEF ToMatch, ToKeep, TypeOK
<1> QED
  BY <1>1, <1>2, <1>3, AccountAssumption, Smaller

LEMMA Measures == ASSUME TypeOK, NEW r \in Runners PROVE StagesAhead(r) \in Nat /\ RowsAhead(r) \in Nat
BY FiniteRows, FS_CardinalityType DEF StagesAhead, RowsAhead

(* A row is one of those that were to be written.                          *)
LEMMA RowWritten ==
  ASSUME TypeOK, NEW r \in Runners, pc[r] = "write", UNCHANGED pc,
         ToForce(r)' \subseteq ToForce(r), ToMatch(r)' \subseteq ToMatch(r), ToKeep(r)' \subseteq ToKeep(r),
         \/ ToForce(r)' # ToForce(r) \/ ToMatch(r)' # ToMatch(r) \/ ToKeep(r)' # ToKeep(r)
  PROVE  Nearer(r)
<1>1. /\ Cardinality(ToForce(r)') \in Nat /\ Cardinality(ToForce(r)) \in Nat
      /\ Cardinality(ToForce(r)') <= Cardinality(ToForce(r))
      /\ ToForce(r)' # ToForce(r) => Cardinality(ToForce(r)') < Cardinality(ToForce(r))
  BY FiniteRows, Smaller
<1>2. /\ Cardinality(ToMatch(r)') \in Nat /\ Cardinality(ToMatch(r)) \in Nat
      /\ Cardinality(ToMatch(r)') <= Cardinality(ToMatch(r))
      /\ ToMatch(r)' # ToMatch(r) => Cardinality(ToMatch(r)') < Cardinality(ToMatch(r))
  BY FiniteRows, Smaller
<1>3. /\ Cardinality(ToKeep(r)') \in Nat /\ Cardinality(ToKeep(r)) \in Nat
      /\ Cardinality(ToKeep(r)') <= Cardinality(ToKeep(r))
      /\ ToKeep(r)' # ToKeep(r) => Cardinality(ToKeep(r)') < Cardinality(ToKeep(r))
  BY FiniteRows, Smaller
<1>4. /\ RowsAhead(r) = Cardinality(ToForce(r)) + Cardinality(ToMatch(r)) + Cardinality(ToKeep(r))
      /\ RowsAhead(r)' = Cardinality(ToForce(r)') + Cardinality(ToMatch(r)') + Cardinality(ToKeep(r)')
      /\ StagesAhead(r)' = StagesAhead(r)
  BY DEF RowsAhead, StagesAhead
<1> QED
  BY <1>1, <1>2, <1>3, <1>4 DEF Nearer

(* What is left to be written shrinks with what has been.                  *)
LEMMA LeftToWrite ==
  ASSUME NEW r \in Runners, UNCHANGED <<seen, sf, lf>>, mine[r] \subseteq mine'[r],
         keptSf[r] \subseteq keptSf'[r], keptLf[r] \subseteq keptLf'[r]
  PROVE  /\ ToForce(r)' \subseteq ToForce(r) /\ ToMatch(r)' \subseteq ToMatch(r)
         /\ ToKeep(r)' \subseteq ToKeep(r)
<1>1. SfOf(mine[r]) \subseteq SfOf(mine'[r]) /\ LfOf(mine[r]) \subseteq LfOf(mine'[r])
  BY DEF SfOf, LfOf
<1> QED
  BY <1>1 DEF ToForce, ForcedHere, ToMatch, ToKeep

LEMMA RunNearer == ASSUME TypeOK, TypeOK', NEW r \in Runners, Run(r) PROVE Nearer(r)
<1>1. CASE Clear(r) \/ ReadSf(r) \/ ReadLf(r) \/ Finish(r)
  <2>1. \/ pc[r] = "clear" /\ pc'[r] = "readSf"
        \/ pc[r] = "readSf" /\ pc'[r] = "readLf"
        \/ pc[r] = "readLf" /\ pc'[r] = "write"
        \/ pc[r] = "write" /\ pc'[r] = "idle"
    BY <1>1 DEF Clear, Empty, ReadSf, ReadLf, Finish, Written, Stop, Goto, TypeOK
  <2> QED
    BY <2>1 DEF Nearer, StagesAhead
<1>2. CASE ApplyRule(r)
  <2>1. PICK p \in ForcedHere(r) \ mine[r] : WriteMatch(r, p)
    BY <1>2, Writes
  <2>2. /\ pc[r] = "write" /\ UNCHANGED <<pc, seen, sf, lf, keptSf, keptLf>>
        /\ mine'[r] = mine[r] \cup {p}
    BY <1>2, <2>1 DEF ApplyRule, WriteMatch, read, TypeOK
  <2>3. p \in ToForce(r) /\ p \notin ToForce(r)'
    BY <2>2 DEF ToForce
  <2> QED
    BY <2>2, <2>3, LeftToWrite, RowWritten
<1>3. CASE AutoMatch(r)
  <2>1. PICK l \in LfAccounts : NextLf(r, l) /\ \E s \in Best(r, l) : WriteMatch(r, <<s, l>>)
    BY <1>3, Writes
  <2>2. PICK s \in Best(r, l) : WriteMatch(r, <<s, l>>)
    BY <2>1
  <2>3. /\ pc[r] = "write" /\ UNCHANGED <<pc, seen, sf, lf, keptSf, keptLf>>
        /\ mine'[r] = mine[r] \cup {<<s, l>>}
    BY <1>3, <2>1, <2>2 DEF AutoMatch, NextLf, WriteMatch, read, TypeOK
  <2>4. l \in LfOf(mine'[r])
    BY <2>3, <<s, l>>[2] = l DEF LfOf
  <2>5. l \in ToMatch(r) /\ l \notin ToMatch(r)'
    BY <2>1, <2>4 DEF NextLf, ToMatch
  <2> QED
    BY <2>3, <2>5, LeftToWrite, RowWritten
<1>4. CASE LeaveLf(r)
  <2>1. PICK l \in LfAccounts : NextLf(r, l) /\ WriteLfOnly(r, l)
    BY <1>4 DEF LeaveLf
  <2>2. /\ pc[r] = "write" /\ UNCHANGED <<pc, seen, sf, lf, mine, keptSf>>
        /\ keptLf'[r] = keptLf[r] \cup {l}
    BY <1>4, <2>1 DEF LeaveLf, NextLf, WriteLfOnly, read, TypeOK
  <2>3. l \in ToMatch(r) /\ l \notin ToMatch(r)'
    BY <2>1, <2>2 DEF NextLf, ToMatch
  <2> QED
    BY <2>2, <2>3, LeftToWrite, RowWritten
<1>5. CASE LeaveSf(r)
  <2>1. PICK s \in ToKeep(r) : WriteSfOnly(r, s)
    BY <1>5 DEF LeaveSf
  <2>2. /\ pc[r] = "write" /\ UNCHANGED <<pc, seen, sf, lf, mine, keptLf>>
        /\ keptSf'[r] = keptSf[r] \cup {s}
    BY <1>5, <2>1 DEF LeaveSf, WriteSfOnly, read, TypeOK
  <2>3. s \in ToKeep(r) /\ s \notin ToKeep(r)'
    BY <2>2 DEF ToKeep
  <2> QED
    BY <2>2, <2>3, LeftToWrite, RowWritten
<1> QED
  BY <1>1, <1>2, <1>3, <1>4, <1>5 DEF Run

LEMMA OthersKeep ==
  ASSUME TypeOK, NEW r \in Runners, NEW q \in Runners \ {r}, Begin(r) \/ Run(r) \/ Stop(r)
  PROVE  UNCHANGED <<StagesAhead(q), RowsAhead(q)>>
<1> USE DEF TypeOK, Goto
<1>1. /\ pc'[q] = pc[q] /\ seen'[q] = seen[q] /\ sf'[q] = sf[q] /\ lf'[q] = lf[q]
      /\ mine'[q] = mine[q] /\ keptSf'[q] = keptSf[q] /\ keptLf'[q] = keptLf[q]
  <2> USE DEF read, wrote
  <2>1. CASE Begin(r) \/ Stop(r)
    BY <2>1 DEF Begin, Stop, Knows
  <2>2. CASE Clear(r) \/ ReadSf(r) \/ ReadLf(r)
    BY <2>2 DEF Clear, Empty, ReadSf, ReadLf
  <2>3. CASE ApplyRule(r)
    <3>1. PICK p \in ForcedHere(r) : WriteMatch(r, p)
      BY <2>3, Writes
    <3> QED
      BY <2>3, <3>1 DEF ApplyRule, WriteMatch
  <2>4. CASE AutoMatch(r)
    <3>1. PICK l \in LfAccounts : \E s \in Best(r, l) : WriteMatch(r, <<s, l>>)
      BY <2>4, Writes
    <3> QED
      BY <2>4, <3>1 DEF AutoMatch, WriteMatch
  <2>5. CASE LeaveLf(r) \/ LeaveSf(r)
    BY <2>5 DEF LeaveLf, LeaveSf, WriteLfOnly, WriteSfOnly
  <2> QED
    BY <2>1, <2>2, <2>3, <2>4, <2>5 DEF Run, Finish
<1>2. ToForce(q)' = ToForce(q) /\ ToMatch(q)' = ToMatch(q) /\ ToKeep(q)' = ToKeep(q)
  BY <1>1 DEF ToForce, ForcedHere, ToMatch, ToKeep
<1> QED
  BY <1>1, <1>2 DEF StagesAhead, RowsAhead

LEMMA EndingStep == ASSUME TypeOK, TypeOK', [Next]_vars PROVE Ending
<1> SUFFICES ASSUME NEW r \in Runners
             PROVE  /\ StagesAhead(r) \in Nat /\ RowsAhead(r) \in Nat
                    /\ Run(r) => Nearer(r)
                    /\ Begin(r) \/ Nearer(r) \/ UNCHANGED <<StagesAhead(r), RowsAhead(r)>>
  BY DEF Ending
<1>1. Run(r) => Nearer(r)
  BY RunNearer
<1>2. ASSUME Abort(r) PROVE Nearer(r)
  <2>1. pc[r] # "idle" /\ pc'[r] = "idle"
    BY <1>2 DEF Abort, Active, Stop, Goto, TypeOK
  <2> QED
    BY <2>1 DEF Nearer, StagesAhead
<1>3. ASSUME NEW o \in Runners \ {r}, Begin(o) \/ Run(o) \/ Abort(o)
      PROVE  UNCHANGED <<StagesAhead(r), RowsAhead(r)>>
  BY <1>3, OthersKeep DEF Abort
<1>4. ASSUME AddAccount \/ CreateRule \/ DeleteRule \/ Rescore \/ UNCHANGED vars
      PROVE  UNCHANGED <<StagesAhead(r), RowsAhead(r)>>
  <2>1. UNCHANGED <<pc, seen, sf, lf, mine, keptSf, keptLf>>
    BY <1>4 DEF AddAccount, CreateRule, DeleteRule, Rescore, vars, read, wrote
  <2> QED
    BY <2>1 DEF StagesAhead, RowsAhead, ToForce, ForcedHere, ToMatch, ToKeep
<1>5. Begin(r) \/ Nearer(r) \/ UNCHANGED <<StagesAhead(r), RowsAhead(r)>>
  BY <1>1, <1>2, <1>3, <1>4 DEF Next
<1> QED
  BY <1>1, <1>5, Measures

(* A run of reconcile_accounts ends after finitely many statements,        *)
(* whatever rules, accounts and other runs come meanwhile.                 *)
THEOREM RunsAreFinite == Spec => [][Ending]_vars
<1>1. TypeOK /\ TypeOK' /\ [Next]_vars => [Ending]_vars
  BY EndingStep
<1> QED
  BY <1>1, TypeCorrect, PTL DEF Spec

(* A run that is not over has a statement to send: there is a next account *)
(* while any is to be matched, and a best candidate if any is close.       *)
GoesOn ==
  \A r \in Runners : pc[r] = "write" =>
    \/ ToForce(r) # {}
    \/ \E l \in LfAccounts : NextLf(r, l) /\ (Close(r, l) = {} \/ Best(r, l) # {})
    \/ AllMatched(r) /\ ToKeep(r) # {}
    \/ Written(r)

Less == {p \in Nat \X Nat : p[1] < p[2]}

LEMMA LeastNatural ==
  ASSUME NEW V, V \subseteq Nat, V # {} PROVE \E n \in V : \A m \in V : n <= m
<1>1. IsWellFoundedOn(Less, Nat)
  BY NatLessThanWellFounded, Zenon DEF OpToRel, Less
<1>2. PICK n \in V : \A m \in V : <<m, n>> \notin Less
  BY <1>1, WFMin
<1>3. \A m \in V : ~(m < n)
  BY <1>2 DEF Less
<1> QED
  BY <1>3

(* Of finitely many, the one that the fewest excel is excelled by none.    *)
LEMMA Greatest ==
  ASSUME NEW S, IsFiniteSet(S), S # {}, NEW f \in [S -> Int]
  PROVE  \E x \in S : \A y \in S : f[y] <= f[x]
<1> DEFINE Above(x) == {y \in S : f[y] > f[x]}
           Counts == {Cardinality(Above(x)) : x \in S}
<1>1. \A x \in S : IsFiniteSet(Above(x)) /\ Cardinality(Above(x)) \in Nat
  BY Smaller
<1>2. PICK x \in S : \A y \in S : Cardinality(Above(x)) <= Cardinality(Above(y))
  <2>1. Counts \subseteq Nat /\ Counts # {}
    BY <1>1
  <2>2. PICK n \in Counts : \A m \in Counts : n <= m
    BY <2>1, LeastNatural
  <2> QED
    BY <2>2
<1>3. ASSUME NEW y \in S, f[y] > f[x] PROVE FALSE
  <2>1. Above(y) \subseteq Above(x) /\ y \in Above(x) /\ y \notin Above(y)
    BY <1>3
  <2> HIDE DEF Above
  <2>2. Cardinality(Above(y)) < Cardinality(Above(x))
    BY <1>1, <2>1, Smaller
  <2>3. Cardinality(Above(x)) \in Nat /\ Cardinality(Above(y)) \in Nat
    BY <1>1
  <2>4. Cardinality(Above(x)) <= Cardinality(Above(y))
    BY <1>2
  <2> QED
    BY <2>2, <2>3, <2>4
<1> QED
  BY <1>3

LEMMA NextExists ==
  ASSUME TypeOK, NEW r \in Runners, ToMatch(r) # {}
  PROVE  \E l \in ToMatch(r) : \A k \in ToMatch(r) : l <= k
<1> DEFINE f == [l \in ToMatch(r) |-> -l]
<1>1. ToMatch(r) \subseteq Int
  BY AccountAssumption DEF ToMatch, TypeOK
<1>2. f \in [ToMatch(r) -> Int]
  BY <1>1
<1>3. PICK l \in ToMatch(r) : \A k \in ToMatch(r) : f[k] <= f[l]
  BY <1>2, FiniteRows, Greatest
<1> QED
  BY <1>1, <1>3

LEMMA BestExists ==
  ASSUME TypeOK, NEW r \in Runners, NEW l \in LfAccounts, Close(r, l) # {}
  PROVE  Best(r, l) # {}
<1> DEFINE f == [s \in Close(r, l) |-> score[<<s, l>>]]
<1>1. Close(r, l) \subseteq SfAccounts
  BY DEF Close, Candidates, TypeOK
<1>2. f \in [Close(r, l) -> Int]
  BY <1>1, ScoreAssumption DEF TypeOK
<1>3. IsFiniteSet(Close(r, l))
  BY <1>1, AccountAssumption, Smaller
<1>4. PICK s \in Close(r, l) : \A t \in Close(r, l) : f[t] <= f[s]
  BY <1>2, <1>3, Greatest
<1> QED
  BY <1>4 DEF Best

(* No run gets stuck before its end.                                       *)
THEOREM RunsGoOn == Spec => []GoesOn
<1>1. TypeOK => GoesOn
  <2> SUFFICES ASSUME TypeOK, NEW r \in Runners, pc[r] = "write",
                      ForcedHere(r) \subseteq mine[r], ToMatch(r) # {}
               PROVE  \E l \in LfAccounts : NextLf(r, l) /\ (Close(r, l) = {} \/ Best(r, l) # {})
    BY DEF GoesOn, Written, AllMatched, ToForce
  <2>1. PICK l \in ToMatch(r) : \A k \in ToMatch(r) : l <= k
    BY NextExists
  <2>2. l \in LfAccounts
    BY DEF ToMatch, TypeOK
  <2> QED
    BY <2>1, <2>2, BestExists DEF NextLf
<1> QED
  BY <1>1, TypeCorrect, PTL

-----------------------------------------------------------------------------
(* The API.  Runs beside it are those of Spec.                             *)

LEMMA ApiStepMaps == [ApiNext]_avars => [Next]_vars
<1> SUFFICES ASSUME [ApiNext]_avars PROVE [Next]_vars
  OBVIOUS
<1>1. ASSUME NEW r \in Runners, Reconcile(r) PROVE Next
  BY <1>1 DEF Reconcile, Write, Next, Run
<1>2. CASE Tables
  BY <1>2 DEF Tables, Next
<1>3. CASE UNCHANGED avars
  BY <1>3 DEF avars
<1> QED
  BY <1>1, <1>2, <1>3 DEF ApiNext, ListBegin, ListLf, ListPairs, ListPrefs, ListEnd,
     ReplaceCache, SetPolled, Restart, SetPreference

(* What the handlers of the API and the SimpleFIN fetcher do between the   *)
(* statements of runs leaves them runs of Spec: each theorem above holds   *)
(* of them.                                                                *)
THEOREM ApiKeepsRuns == ApiSpec => Spec
<1>1. ApiInit => Init
  BY DEF ApiInit
<1> QED
  BY <1>1, ApiStepMaps, PTL DEF ApiSpec, Spec

LEMMA ApiInvariance == ApiSpec => [](TypeOK /\ Rest)
<1>1. ApiInit => Init
  BY DEF ApiInit
<1> QED
  BY <1>1, ApiStepMaps, Invariance, PTL DEF ApiSpec, Spec

(* While a run alone has written, the table has nothing but its matches.   *)
Authored ==
  \A r \in Runners : authors \subseteq {r} =>
    /\ pc[r] \in {"readSf", "readLf", "write"} => matched \subseteq mine[r]
    /\ \A p, q \in matched : p[1] = q[1] => p = q

(* A list holds the cache, and names LunchFlow accounts that exist.        *)
Linked ==
  /\ lister # "idle" => listed = cache /\ Ready
  /\ lister # "answer" => recs = {}
  /\ \A p \in listedPairs : p[2] \in lf_accounts
  /\ \A e \in recs : e.id \in listed /\ e.lf \in lf_accounts

(* While all is calm, what a list has read is what there is to read.       *)
Fresh ==
  calm =>
    /\ lister \in {"pairs", "prefs", "answer"} => listedLf = lf_accounts
    /\ lister = "prefs" => listedPairs = matched
    /\ lister = "answer" => recs = UNION {MatchedAs(s) : s \in cache}

ApiInv == ApiTypeOK /\ Linked /\ Fresh

LEMMA WriteEffect ==
  ASSUME TypeOK, Rest, NEW r \in Runners, Write(r)
  PROVE  /\ pc[r] = "write" /\ pc' = pc
         /\ \/ matched' = matched /\ mine' = mine
            \/ \E p : matched' = matched \cup {p} /\ mine' = [mine EXCEPT ![r] = @ \cup {p}]
<1>1. CASE ApplyRule(r)
  <2> PICK p \in ForcedHere(r) \ mine[r] : WriteMatch(r, p)
    BY <1>1, Zenon DEF ApplyRule
  <2> QED
    BY <1>1 DEF ApplyRule, WriteMatch
<1>2. CASE AutoMatch(r)
  <2> PICK l \in LfAccounts : NextLf(r, l) /\ \E s \in Best(r, l) : WriteMatch(r, <<s, l>>)
    BY <1>2, Zenon DEF AutoMatch
  <2> PICK s \in Best(r, l) : WriteMatch(r, <<s, l>>)
    OBVIOUS
  <2> QED
    BY <1>2 DEF AutoMatch, NextLf, WriteMatch
<1>3. CASE LeaveLf(r)
  <2> PICK l \in LfAccounts : NextLf(r, l) /\ WriteLfOnly(r, l)
    BY <1>3, Zenon DEF LeaveLf
  <2> QED
    BY <1>3 DEF LeaveLf, NextLf, WriteLfOnly
<1>4. CASE LeaveSf(r)
  BY <1>4 DEF LeaveSf, WriteSfOnly
<1> QED
  BY <1>1, <1>2, <1>3, <1>4 DEF Write

LEMMA AuthoredStep ==
  ASSUME TypeOK, Rest, Rest', Authored, [ApiNext]_avars PROVE Authored'
<1>1. ASSUME NEW r \in Runners, Reconcile(r) PROVE Authored'
  <2>1. CASE Clear(r) /\ authors' = {}
    BY <2>1 DEF Clear, Empty, Authored
  <2>2. CASE Write(r) /\ authors' = authors \cup {r}
    <3>1. SUFFICES ASSUME NEW q \in Runners, authors' \subseteq {q}
                   PROVE  /\ matched' \subseteq mine'[q]
                          /\ \A m, n \in matched' : m[1] = n[1] => m = n
      BY DEF Authored
    <3>2. q = r /\ authors \subseteq {r}
      BY <2>2, <3>1
    <3>3. pc[r] = "write" /\ matched \subseteq mine[r]
      BY <2>2, <3>2, WriteEffect DEF Authored
    <3>4. matched' \subseteq mine'[r]
      BY <2>2, <3>3, WriteEffect DEF TypeOK
    <3>5. \A m, n \in mine'[r] : m[1] = n[1] => m = n
      BY DEF Rest, Paired
    <3> QED
      BY <3>2, <3>4, <3>5
  <2>3. CASE (Begin(r) \/ Finish(r) \/ Abort(r)) /\ UNCHANGED authors
    <3>1. /\ matched' = matched /\ pc'[r] \in {"idle", "clear"}
          /\ \A q \in Runners \ {r} : pc'[q] = pc[q] /\ mine'[q] = mine[q]
      BY <2>3 DEF Begin, Finish, Abort, Stop, Knows, Goto, table, TypeOK
    <3> QED
      BY <2>3, <3>1 DEF Authored
  <2>4. CASE (ReadSf(r) \/ ReadLf(r)) /\ UNCHANGED authors
    <3>1. /\ matched' = matched /\ mine' = mine /\ pc[r] \in {"readSf", "readLf"}
          /\ \A q \in Runners \ {r} : pc'[q] = pc[q]
      BY <2>4 DEF ReadSf, ReadLf, Goto, table, wrote, TypeOK
    <3> QED
      BY <2>4, <3>1 DEF Authored
  <2> QED
    BY <1>1, <2>1, <2>2, <2>3, <2>4 DEF Reconcile
<1>2. CASE UNCHANGED <<matched, mine, pc, authors>>
  BY <1>2 DEF Authored
<1> QED
  BY <1>1, <1>2 DEF ApiNext, ListBegin, ListLf, ListPairs, ListPrefs, ListEnd,
     ReplaceCache, SetPolled, Restart, SetPreference, Tables, AddAccount, CreateRule,
     DeleteRule, Rescore, avars, vars, table, wrote

LEMMA AnswerOf ==
  ASSUME TypeOK, listedPairs = matched, listedLf = lf_accounts
  PROVE  RecsFor(prefers) = UNION {MatchedAs(s) : s \in cache}
<1>1. ASSUME NEW p \in matched PROVE p = <<p[1], p[2]>>
  BY DEF TypeOK, Pairs
<1> QED
  BY <1>1 DEF RecsFor, MatchedAs, PartnersOf, LfOf

LEMMA ApiInvInit == ASSUME ApiInit PROVE ApiInv /\ Authored
<1>1. ApiTypeOK
  BY DEF ApiInit, NoList, ApiTypeOK, Init
<1>2. Linked /\ Fresh
  BY DEF ApiInit, NoList, Linked, Fresh
<1>3. Authored
  BY DEF ApiInit, Init, Authored
<1> QED
  BY <1>1, <1>2, <1>3 DEF ApiInv

(* The queries of a list.                                                  *)
LEMMA ListStep ==
  ASSUME TypeOK, Rest, ApiInv,
         ListBegin \/ ListLf \/ ListPairs \/ ListPrefs \/ ListEnd
  PROVE  ApiInv'
<1> USE DEF ApiInv
<1>1. UNCHANGED <<vars, shown, authors>>
  BY DEF ListBegin, ListLf, ListPairs, ListPrefs, ListEnd
<1>2. UNCHANGED <<accounts, lf_accounts, matched, cache, polled, prefers>>
  BY <1>1 DEF vars, source, table, shown
<1>3. /\ cache \subseteq SfAccounts /\ lf_accounts \subseteq LfAccounts /\ matched \subseteq Pairs
      /\ \A p \in matched : p[2] \in lf_accounts
  BY DEF TypeOK, ApiTypeOK, Rest, ForeignKeys
<1>4. CASE ListBegin
  BY <1>1, <1>2, <1>3, <1>4 DEF ListBegin, ApiTypeOK, Linked, Fresh, Ready
<1>5. CASE ListLf
  <2>1. ApiTypeOK'
    BY <1>1, <1>2, <1>5 DEF ListLf, ApiTypeOK
  <2>2. Linked'
    BY <1>1, <1>2, <1>5 DEF ListLf, Linked, Ready
  <2>3. Fresh'
    BY <1>2, <1>5 DEF ListLf, Fresh
  <2> QED
    BY <2>1, <2>2, <2>3
<1>6. CASE ListPairs
  <2>1. ApiTypeOK'
    BY <1>1, <1>2, <1>3, <1>6 DEF ListPairs, ApiTypeOK
  <2>2. Linked'
    BY <1>1, <1>2, <1>3, <1>6 DEF ListPairs, Linked, Ready
  <2>3. Fresh'
    BY <1>2, <1>6 DEF ListPairs, Fresh
  <2> QED
    BY <2>1, <2>2, <2>3
<1>7. CASE ListPrefs
  <2>1. PICK P \in {prefers, {}} : recs' = RecsFor(P)
    BY <1>7 DEF ListPrefs
  <2>2. recs' \subseteq RecAccounts /\ \A e \in recs' : e.id \in listed /\ e.lf \in lf_accounts
    <3>1. ASSUME NEW e \in recs' PROVE e \in RecAccounts /\ e.id \in listed /\ e.lf \in lf_accounts
      <4>1. PICK q \in listedPairs : /\ q[1] \in cache
                                     /\ e = Rec(q[1], q[2], IF q[1] \in P /\ q[2] \in listedLf
                                                            THEN "lunchflow" ELSE "simplefin")
        BY <2>1 DEF RecsFor
      <4>2. q[1] \in listed /\ q[2] \in lf_accounts
        BY <1>7, <4>1 DEF ListPrefs, Linked
      <4> QED
        BY <1>3, <4>1, <4>2 DEF Rec, RecAccounts
    <3> QED
      BY <3>1
  <2>3. calm' => recs' = UNION {MatchedAs(s) : s \in cache}
    BY <1>7, AnswerOf DEF ListPrefs, Fresh
  <2>4. (UNION {MatchedAs(s) : s \in cache})' = UNION {MatchedAs(s) : s \in cache}
    BY <1>2 DEF MatchedAs, PartnersOf
  <2>5. ApiTypeOK'
    BY <1>1, <1>2, <1>7, <2>2 DEF ListPrefs, ApiTypeOK
  <2>6. Linked'
    BY <1>1, <1>2, <1>7, <2>2 DEF ListPrefs, Linked, Ready
  <2>7. Fresh'
    BY <1>2, <1>7, <2>3, <2>4 DEF ListPrefs, Fresh
  <2> QED
    BY <2>5, <2>6, <2>7
<1>8. CASE ListEnd
  BY <1>1, <1>2, <1>3, <1>8 DEF ListEnd, ApiTypeOK, Linked, Fresh, Ready
<1> QED
  BY <1>4, <1>5, <1>6, <1>7, <1>8

(* The steps beside it, which leave the list as it is.                     *)
LEMMA BesideListStep ==
  ASSUME TypeOK, Rest, ApiInv, UNCHANGED list,
         accounts \subseteq accounts', lf_accounts \subseteq lf_accounts',
         lister # "idle" => UNCHANGED cache /\ (polled => polled'),
         calm' => calm /\ (lister # "idle" => UNCHANGED <<lf_accounts, matched, prefers>>),
         cache' \subseteq accounts', prefers' \subseteq SfAccounts, polled' \in BOOLEAN,
         calm' \in BOOLEAN, authors' \subseteq Runners
  PROVE  ApiInv'
<1> USE DEF ApiInv, list
<1>1. ApiTypeOK'
  BY DEF ApiTypeOK
<1>2. Linked'
  BY DEF Linked, Ready
<1>3. Fresh'
  <2>1. CASE calm' /\ lister # "idle"
    <3>1. (UNION {MatchedAs(s) : s \in cache})' = UNION {MatchedAs(s) : s \in cache}
      BY <2>1 DEF MatchedAs, PartnersOf
    <3> QED
      BY <2>1, <3>1 DEF Fresh
  <2>2. CASE calm' /\ lister = "idle"
    BY <2>2 DEF Fresh
  <2> QED
    BY <2>1, <2>2 DEF Fresh, ApiTypeOK
<1> QED
  BY <1>1, <1>2, <1>3

LEMMA ApiStep ==
  ASSUME TypeOK, Rest, ApiInv, [ApiNext]_avars PROVE ApiInv'
<1>1. ASSUME NEW r \in Runners, Reconcile(r) PROVE ApiInv'
  <2>1. UNCHANGED <<accounts, lf_accounts>>
    BY <1>1 DEF Reconcile, Write, Clear, Empty, ApplyRule, AutoMatch, LeaveLf, LeaveSf,
       Begin, ReadSf, ReadLf, Finish, Abort, Stop, source
  <2>2. calm' => UNCHANGED matched
    BY <1>1 DEF Reconcile, Begin, ReadSf, ReadLf, Finish, Abort, Stop, table
  <2>3. UNCHANGED <<shown, list>> /\ (calm' = calm \/ calm' = FALSE)
    BY <1>1, Zenon DEF Reconcile
  <2>4. authors' \subseteq Runners
    BY <1>1 DEF Reconcile, ApiInv, ApiTypeOK
  <2>5. calm' \in BOOLEAN /\ (calm' => calm)
    <3>1. CASE calm' = calm
      BY <3>1 DEF ApiInv, ApiTypeOK
    <3>2. CASE calm' = FALSE
      BY <3>2
    <3> QED
      BY <2>3, <3>1, <3>2
  <2> QED
    BY <2>1, <2>2, <2>3, <2>4, <2>5, BesideListStep DEF shown, ApiInv, ApiTypeOK
<1>2. CASE Tables
  <2>1. /\ accounts \subseteq accounts' /\ lf_accounts \subseteq lf_accounts' /\ UNCHANGED matched
    BY <1>2 DEF Tables, AddAccount, CreateRule, DeleteRule, Rescore, table
  <2>2. /\ UNCHANGED <<shown, list, authors>> /\ calm' \in BOOLEAN
        /\ calm' => calm /\ UNCHANGED lf_accounts
    BY <1>2 DEF Tables, ApiInv, ApiTypeOK
  <2> QED
    BY <2>1, <2>2, BesideListStep DEF shown, ApiInv, ApiTypeOK
<1>3. CASE ReplaceCache \/ SetPolled \/ Restart \/ SetPreference
  <2>1. UNCHANGED <<vars, list, authors>>
    BY <1>3 DEF ReplaceCache, SetPolled, Restart, SetPreference
  <2>2. UNCHANGED <<accounts, lf_accounts, matched>>
    BY <2>1 DEF vars, source, table
  <2>3. cache' \subseteq accounts /\ prefers' \subseteq SfAccounts
    BY <1>3 DEF ReplaceCache, SetPolled, Restart, SetPreference, ApiInv, ApiTypeOK
  <2>4. polled' \in BOOLEAN /\ (lister # "idle" => UNCHANGED cache /\ (polled => polled'))
    BY <1>3, Zenon DEF ReplaceCache, SetPolled, Restart, SetPreference, ApiInv, ApiTypeOK
  <2>5. /\ (calm' = calm /\ prefers' = prefers) \/ calm' = FALSE
        /\ calm' \in BOOLEAN
    BY <1>3, Zenon DEF ReplaceCache, SetPolled, Restart, SetPreference, ApiInv, ApiTypeOK
  <2>6. calm' => calm /\ (lister # "idle" => UNCHANGED prefers)
    BY <2>5
  <2> QED
    BY <2>1, <2>2, <2>3, <2>4, <2>5, <2>6, BesideListStep DEF ApiInv, ApiTypeOK
<1>4. CASE UNCHANGED avars
  BY <1>4, BesideListStep DEF avars, vars, source, table, shown, ApiInv, ApiTypeOK
<1> QED
  BY <1>1, <1>2, <1>3, <1>4, ListStep DEF ApiNext

LEMMA ApiInvariant == ApiSpec => [](TypeOK /\ Rest /\ ApiInv /\ Authored)
<1>1. ApiInit => ApiInv /\ Authored
  BY ApiInvInit
<1>2. TypeOK /\ Rest /\ (TypeOK /\ Rest)' /\ ApiInv /\ Authored /\ [ApiNext]_avars
        => (ApiInv /\ Authored)'
  BY ApiStep, AuthoredStep
<1> QED
  BY <1>1, <1>2, ApiInvariance, PTL DEF ApiSpec

LEMMA LinksResolveInv == ASSUME ApiInv PROVE LinksResolve
BY DEF ApiInv, ApiTypeOK, Linked, LinksResolve, StatusSf, StatusLf

LEMMA ListAgreesInv == ASSUME TypeOK, Rest, ApiInv PROVE ListAgreesWithGet
<1> SUFFICES ASSUME lister = "answer", calm, NEW s \in SfAccounts
             PROVE  {e \in recs : e.id = s}
                      = IF s \in cache THEN Get(s) \ {Rec(s, None, "simplefin")} ELSE {}
  BY DEF ListAgreesWithGet
<1>1. recs = UNION {MatchedAs(c) : c \in cache}
  BY DEF ApiInv, Fresh
<1>2. \A c : \A e \in MatchedAs(c) : e.id = c
  BY DEF MatchedAs, Rec
<1>3. \A e \in MatchedAs(s) : e # Rec(s, None, "simplefin")
  <2>1. PartnersOf(s) \subseteq LfAccounts
    BY DEF PartnersOf, LfOf, TypeOK, Pairs
  <2> QED
    BY <2>1, AccountAssumption DEF MatchedAs, Rec
<1>4. PartnersOf(s) = {} => MatchedAs(s) = {}
  BY DEF MatchedAs
<1>5. {e \in recs : e.id = s} = IF s \in cache THEN MatchedAs(s) ELSE {}
  BY <1>1, <1>2
<1>6. Get(s) \ {Rec(s, None, "simplefin")} = MatchedAs(s)
  BY <1>3, <1>4 DEF Get
<1> QED
  BY <1>5, <1>6

LEMMA IdsUniqueInv == ASSUME Authored PROVE IdsUnique
BY DEF Authored, IdsUnique

(* Types of the API's state: accounts that are in the cache are in the     *)
(* tables.                                                                 *)
THEOREM ApiTypeCorrect == ApiSpec => []ApiTypeOK
BY ApiInvariant, PTL DEF ApiInv

(* No list of accounts has a link to an account the API does not know,     *)
(* whatever it raced with.                                                 *)
THEOREM LinksAlwaysResolve == ApiSpec => []LinksResolve
BY ApiInvariant, LinksResolveInv, PTL

(* A list nothing raced with says of each account what get_account says.   *)
THEOREM ListsAgree == ApiSpec => []ListAgreesWithGet
BY ApiInvariant, ListAgreesInv, PTL

(* An id is on a list twice only if two runs have written to the table.    *)
THEOREM IdsStayUnique == ApiSpec => []IdsUnique
BY ApiInvariant, IdsUniqueInv, PTL
-----------------------------------------------------------------------------
(* Whole runs (Reconciler).                                                *)

(* A run is in one of its halves, if in any. *)
Halves ==
  /\ step \in [Runners -> {"idle", "next", "readSf", "readLf", "write"}]
  /\ \A r \in Runners : pc[r] # "idle" => step[r] = "idle"

(* Account matching, as the second half sees it: by itself or of a run.    *)
LEMMA WholeStepMaps == [RNext]_rvars => [Next]_vars
<1> SUFFICES ASSUME [RNext]_rvars PROVE [Next]_vars
  OBVIOUS
<1>1. ASSUME NEW r \in Runners, Start(r) PROVE Next
  BY <1>1 DEF Start, Next
<1>2. ASSUME NEW r \in Runners, EmptyPairs(r) \/ MatchAccounts(r) \/ ReadMatched(r) PROVE Next
  <2>1. Run(r)
    BY <1>2 DEF EmptyPairs, MatchAccounts, ReadMatched, Run
  <2> QED
    BY <2>1 DEF Next
<1>3. ASSUME NEW r \in Runners, MatchTxns(r) PROVE UNCHANGED vars
  BY <1>3 DEF MatchTxns
<1>4. ASSUME NEW r \in Runners, Break(r) PROVE [Next]_vars
  <2>1. UNCHANGED vars \/ Finish(r) \/ Abort(r)
    BY <1>4 DEF Break, Finish, Abort
  <2> QED
    BY <2>1 DEF Next, Run
<1>5. CASE Beside
  BY <1>5 DEF Beside, Next
<1>6. CASE UNCHANGED rvars
  BY <1>6 DEF rvars
<1> QED
  BY <1>1, <1>2, <1>3, <1>4, <1>5, <1>6 DEF RNext, GoOn

(* Whole runs match accounts as runs of account matching do: each theorem  *)
(* about Spec holds of them.                                               *)
THEOREM WholeRunsMatchAccounts == RSpec => Spec
<1>1. RInit => Init
  BY DEF RInit
<1> QED
  BY <1>1, WholeStepMaps, PTL DEF RSpec, Spec

LEMMA HalvesInit == RInit => Halves
BY DEF RInit, Init, Halves

LEMMA InOneHalf ==
  ASSUME Halves, TypeOK, NEW r \in Runners, pc[r] # "idle", MatchTxns(r) PROVE FALSE
<1>1. /\ step[r] = "idle" /\ \A q : Matching(q)' = Matching(q)
      /\ mine' = mine /\ T!Run(r)
  BY DEF Halves, MatchTxns, Matching, vars, wrote
<1>2. T!Link(r) \/ T!ReadPairs(r)
  BY <1>1 DEF T!Run, T!Clear, T!Empty, T!ReadSf, T!ReadLf, T!Match, T!LeaveLf, T!LeaveSf,
     T!EndPair, T!PairWritten, T!Finish, T!AllWritten
<1>3. Matching(r)
  BY <1>1, <1>2 DEF T!Link, T!ReadPairs, T!ReadRows
<1>4. CASE T!Link(r)
  BY <1>1, <1>3, <1>4 DEF T!Link
<1>5. CASE T!ReadPairs(r)
  BY <1>1, <1>3, <1>5 DEF T!ReadPairs, T!ReadRows, T!Goto
<1> QED
  BY <1>2, <1>4, <1>5

LEMMA HalvesStep == ASSUME Halves, TypeOK, [RNext]_rvars PROVE Halves'
<1> USE DEF Halves
<1>1. ASSUME NEW r \in Runners, Start(r) PROVE Halves'
  BY <1>1 DEF Start, Begin, Goto, TypeOK
<1>2. ASSUME NEW r \in Runners, EmptyPairs(r) \/ MatchAccounts(r) PROVE Halves'
  <2>1. UNCHANGED step /\ pc[r] # "idle" /\ \A q \in Runners \ {r} : pc'[q] = pc[q]
    BY <1>2 DEF EmptyPairs, MatchAccounts, Clear, Empty, ReadSf, ReadLf, ApplyRule, AutoMatch,
       LeaveLf, LeaveSf, NextLf, Goto, TypeOK
  <2> QED
    BY <2>1
<1>3. ASSUME NEW r \in Runners, ReadMatched(r) PROVE Halves'
  BY <1>3 DEF ReadMatched, Finish, Stop, Goto, TypeOK
<1>4. ASSUME NEW r \in Runners, MatchTxns(r) PROVE Halves'
  BY <1>4, InOneHalf DEF MatchTxns, vars
<1>5. ASSUME NEW r \in Runners, Break(r) PROVE Halves'
  <2>1. CASE UNCHANGED step /\ Active(r) /\ Stop(r)
    BY <2>1 DEF Active, Stop, Goto, TypeOK
  <2>2. CASE UNCHANGED vars /\ step' = [step EXCEPT ![r] = "idle"]
    BY <2>2 DEF vars
  <2> QED
    BY <1>5, <2>1, <2>2 DEF Break
<1>6. CASE Beside \/ UNCHANGED rvars
  BY <1>6 DEF Beside, AddAccount, CreateRule, DeleteRule, Rescore, vars, rvars
<1> QED
  BY <1>1, <1>2, <1>3, <1>4, <1>5, <1>6 DEF RNext, GoOn

LEMMA WholeInvariance == RSpec => [](TypeOK /\ Rest /\ Halves)
<1>1. RInit => Init
  BY DEF RInit
<1>2. TypeOK /\ Halves /\ [RNext]_rvars => Halves'
  BY HalvesStep
<1> QED
  BY <1>1, <1>2, HalvesInit, WholeStepMaps, Invariance, PTL DEF RSpec, Spec
(* What the second half sees of account matching: nothing but the DELETE   *)
(* of the pairs, and each new one.                                         *)
LEMMA MatchingSame ==
  ASSUME UNCHANGED <<matched, mine, step, txnVars>>, \A q \in Runners : Matching(q)' = Matching(q)
  PROVE  UNCHANGED T!vars
BY DEF txnVars, txnSource, txnRun, T!vars, T!source, T!table, T!todo, T!read, T!wrote, T!history

LEMMA EmptyPairsMaps ==
  ASSUME TypeOK, Rest, Halves, NEW r \in Runners, EmptyPairs(r) PROVE T!Begin(r)
<1>1. /\ pc[r] = "clear" /\ pc' = [pc EXCEPT ![r] = "readSf"] /\ matched' = {}
      /\ UNCHANGED <<mine, step>> /\ UNCHANGED txnSource /\ UNCHANGED txnRun
      /\ txnAlone' = [q \in Runners |-> q = r /\ \A o \in Runners \ {r} : ~T!Active(o)]
  BY DEF EmptyPairs, Clear, Empty, Goto, wrote
<1>2. step[r] = "idle" /\ mine[r] = {}
  BY <1>1 DEF Halves, Rest, Own
<1>3. /\ ~Matching(r) /\ Matching(r)'
      /\ \A q \in Runners \ {r} : Matching(q)' = Matching(q)
  BY <1>1 DEF Matching, TypeOK
<1>4. T!Goto(r, "link")
  BY <1>1, <1>3 DEF T!Goto
<1>5. UNCHANGED T!todo
  BY <1>1, <1>2, <1>3 DEF T!todo, txnRun
<1> QED
  BY <1>1, <1>2, <1>3, <1>4, <1>5
  DEF T!Begin, T!table, T!read, T!wrote, txnSource, txnRun

LEMMA NewPairMaps ==
  ASSUME TypeOK, NEW r \in Runners, pc[r] = "write", NEW p \in Pairs \ mine[r], WriteMatch(r, p),
         UNCHANGED <<pc, step, txnVars>>
  PROVE  T!Link(r)
<1>1. matched' = matched \cup {p} /\ mine' = [mine EXCEPT ![r] = @ \cup {p}]
  BY DEF WriteMatch
<1>2. /\ Matching(r) /\ \A q : Matching(q)' = Matching(q)
      /\ mine[r] \cup {p} \in SUBSET Pairs
  BY DEF Matching, TypeOK
<1> DEFINE links == [q \in Runners |-> IF Matching(q) THEN mine[q] ELSE {}]
<1>3. links' = [links EXCEPT ![r] = @ \cup {p}]
  BY <1>1, <1>2 DEF TypeOK
<1>4. /\ links[r] = mine[r]
      /\ [q \in Runners |-> IF Matching(q) THEN "link" ELSE step[q]][r] = "link"
      /\ UNCHANGED [q \in Runners |-> IF Matching(q) THEN "link" ELSE step[q]]
  BY <1>2
<1>5. UNCHANGED <<T!table, T!read, T!wrote, T!history, txnSource, queue, pair>>
  BY DEF T!table, T!read, T!wrote, T!history, txnVars, txnRun
<1> QED
  BY <1>1, <1>2, <1>3, <1>4, <1>5 DEF T!Link, T!Pairs, Pairs, txnSource

LEMMA MatchAccountsMaps ==
  ASSUME TypeOK, NEW r \in Runners, MatchAccounts(r) PROVE T!Link(r) \/ UNCHANGED T!vars
<1>1. UNCHANGED <<step, txnVars>>
  BY DEF MatchAccounts
<1>2. CASE ReadSf(r) \/ ReadLf(r) \/ LeaveLf(r) \/ LeaveSf(r)
  <2>1. UNCHANGED <<matched, mine>> /\ \A q \in Runners : Matching(q)' = Matching(q)
    BY <1>2 DEF ReadSf, ReadLf, LeaveLf, LeaveSf, WriteLfOnly, WriteSfOnly, NextLf, Goto,
       Matching, table, wrote, TypeOK
  <2> QED
    BY <1>1, <2>1, MatchingSame
<1>3. CASE ApplyRule(r)
  <2>1. PICK p \in ForcedHere(r) \ mine[r] : WriteMatch(r, p)
    BY <1>3, Writes
  <2>2. p \in Pairs \ mine[r] /\ pc[r] = "write" /\ UNCHANGED pc
    BY <1>3, <2>1, ForcedPair DEF ApplyRule, Pairs, TypeOK
  <2> QED
    BY <1>1, <2>1, <2>2, NewPairMaps
<1>4. CASE AutoMatch(r)
  <2>1. PICK l \in LfAccounts : NextLf(r, l) /\ \E s \in Best(r, l) : WriteMatch(r, <<s, l>>)
    BY <1>4, Writes
  <2>2. PICK s \in Best(r, l) : WriteMatch(r, <<s, l>>)
    BY <2>1
  <2>3. <<s, l>> \in Pairs \ mine[r]
    BY <2>1 DEF Best, Close, Candidates, Pairs, NextLf, ToMatch, LfOf, TypeOK
  <2>4. pc[r] = "write" /\ UNCHANGED pc
    BY <1>4, <2>1 DEF AutoMatch, NextLf
  <2> QED
    BY <1>1, <2>2, <2>3, <2>4, NewPairMaps
<1> QED
  BY <1>2, <1>3, <1>4 DEF MatchAccounts

LEMMA BreakMaps ==
  ASSUME TypeOK, NEW r \in Runners, Break(r) PROVE T!Abort(r) \/ UNCHANGED T!vars
<1> SUFFICES ASSUME Active(r), Stop(r), UNCHANGED <<step, txnVars>>, ~Matching(r)
             PROVE  UNCHANGED T!vars
  BY DEF Break
<1>1. /\ pc' = [pc EXCEPT ![r] = "idle"] /\ mine' = [mine EXCEPT ![r] = {}]
      /\ UNCHANGED matched
  BY DEF Stop, Goto, Knows, table
<1>2. \A q \in Runners : Matching(q)' = Matching(q) /\ (Matching(q) => mine'[q] = mine[q])
  BY <1>1 DEF Matching, TypeOK
<1> QED
  BY <1>1, <1>2
  DEF txnVars, txnSource, txnRun, T!vars, T!source, T!table, T!todo, T!read, T!wrote, T!history

LEMMA HalvesMeetStep ==
  ASSUME TypeOK, Rest, Halves, [RNext]_rvars PROVE [T!Next]_(T!vars)
<1>1. ASSUME NEW r \in Runners, Start(r) PROVE UNCHANGED T!vars
  <2>1. /\ UNCHANGED <<matched, step, txnVars>>
        /\ pc[r] = "idle" /\ pc' = [pc EXCEPT ![r] = "clear"]
        /\ mine' = [mine EXCEPT ![r] = {}]
    BY <1>1 DEF Start, Begin, Goto, Knows, table
  <2>2. \A q \in Runners : Matching(q)' = Matching(q) /\ (Matching(q) => mine'[q] = mine[q])
    BY <2>1 DEF Matching, TypeOK
  <2> QED
    BY <2>1, <2>2
    DEF txnVars, txnSource, txnRun, T!vars, T!source, T!table, T!todo, T!read, T!wrote, T!history
<1>2. ASSUME NEW r \in Runners, GoOn(r) PROVE [T!Begin(r) \/ T!Run(r)]_(T!vars)
  BY <1>2, EmptyPairsMaps, MatchAccountsMaps
  DEF GoOn, ReadMatched, MatchTxns, T!Run
<1>3. ASSUME NEW r \in Runners, Break(r) PROVE [T!Abort(r)]_(T!vars)
  BY <1>3, BreakMaps
<1>4. CASE Beside
  <2>1. CASE T!AddTxn
    BY <2>1 DEF T!Next
  <2>2. CASE AddAccount \/ CreateRule \/ DeleteRule \/ Rescore
    <3>1. UNCHANGED <<matched, mine, pc>>
      BY <2>2 DEF AddAccount, CreateRule, DeleteRule, Rescore, table, wrote
    <3>2. UNCHANGED <<step, txnVars>> \/ T!AddTxn
      BY <1>4 DEF Beside
    <3> QED
      BY <2>1, <3>1, <3>2, MatchingSame DEF Matching
  <2> QED
    BY <1>4, <2>1, <2>2 DEF Beside
<1>5. CASE UNCHANGED rvars
  BY <1>5, MatchingSame DEF rvars, vars, table, wrote, Matching
<1> QED
  BY <1>1, <1>2, <1>3, <1>4, <1>5 DEF RNext, T!Next

(* The two halves of a run fit: over account matching as it is, statement  *)
(* by statement, transaction matching does what TxnReconciler says, so     *)
(* what is proved of TxnReconciler's Spec holds of whole runs.             *)
THEOREM TheHalvesMeet == RSpec => HalvesMeet
<1>1. RInit => T!Init
  BY DEF RInit
<1>2. TypeOK /\ Rest /\ Halves /\ [RNext]_rvars => [T!Next]_(T!vars)
  BY HalvesMeetStep
<1> QED
  BY <1>1, <1>2, WholeInvariance, PTL DEF RSpec, HalvesMeet, T!Spec

(* The theorems about TxnReconciler, at what the second half makes of its  *)
(* variables: P!Spec is T!Spec.                                            *)
P == INSTANCE TxnReconciler_proofs WITH
  Links <- SUBSET Pairs, linked <- matched,
  pc <- [r \in Runners |-> IF Matching(r) THEN "link" ELSE step[r]],
  links <- [r \in Runners |-> IF Matching(r) THEN mine[r] ELSE {}],
  Scores <- TxnScores, Threshold <- TxnThreshold, score <- txnScore,
  matched <- txnMatched, sfinOnly <- txnSfinOnly, lfOnly <- txnLfOnly,
  sf <- txnSf, lf <- txnLf, mine <- txnMine, keptSf <- txnKeptSf, keptLf <- txnKeptLf,
  alone <- txnAlone

LEMMA TxnConstants == T!TxnAssumption
BY HalvesAssumption, AccountAssumption DEF T!TxnAssumption, Pairs

LEMMA SameVars == UNCHANGED T!vars => UNCHANGED P!vars
BY DEF T!vars, P!vars, T!source, P!source, T!table, P!table, T!todo, P!todo, T!read, P!read,
   T!wrote, P!wrote, T!history, P!history

LEMMA SameInit == T!Init <=> P!Init
BY DEF T!Init, P!Init

LEMMA SameNext == T!Next <=> P!Next
BY DEF T!Next, P!Next, T!Run, P!Run, T!Active, P!Active, T!Goto, P!Goto, T!Begin, P!Begin,
   T!Link, P!Link, T!ReadRows, P!ReadRows, T!ReadPairs, P!ReadPairs, T!Empty, P!Empty,
   T!Clear, P!Clear, T!ReadSf, P!ReadSf, T!ReadLf, P!ReadLf, T!WriteMatch, P!WriteMatch,
   T!WriteLfOnly, P!WriteLfOnly, T!WriteSfOnly, P!WriteSfOnly, T!ToMatch, P!ToMatch,
   T!Close, P!Close, T!Best, P!Best, T!Match, P!Match, T!LeaveLf, P!LeaveLf,
   T!ToKeep, P!ToKeep, T!LeaveSf, P!LeaveSf, T!PairWritten, P!PairWritten,
   T!Forget, P!Forget, T!EndPair, P!EndPair, T!AllWritten, P!AllWritten, T!Stop, P!Stop,
   T!Finish, P!Finish, T!Abort, P!Abort, T!AddTxn, P!AddTxn, T!Pairs, P!Pairs,
   T!SfOf, P!SfOf, T!LfOf, P!LfOf, T!OfSf, P!OfSf, T!OfLf, P!OfLf,
   T!source, P!source, T!table, P!table, T!todo, P!todo, T!read, P!read,
   T!wrote, P!wrote, T!history, P!history

LEMMA SameNoTxnLost == P!NoTxnLost => T!NoTxnLost
BY DEF T!NoTxnLost, P!NoTxnLost, T!PairWritten, P!PairWritten, T!ToMatch, P!ToMatch,
   T!ToKeep, P!ToKeep, T!LfOf, P!LfOf, T!SfOf, P!SfOf, T!SfRow, P!SfRow, T!LfRow, P!LfRow

(* Whole runs that overlap lose no transaction, in whichever halves they   *)
(* are (NoTxnLost, for the accounts that account matching does match).     *)
THEOREM WholeRunsLoseNoTxn == RSpec => []NoTxnLost
<1>1. P!Spec => []P!NoTxnLost
  BY TxnConstants, P!OverlapLosesNobody
<1>2. [T!Next]_(T!vars) => [P!Next]_(P!vars)
  BY SameVars, SameNext
<1>3. T!Spec => P!Spec
  BY <1>2, SameInit, PTL DEF T!Spec, P!Spec
<1>4. T!Spec => []T!NoTxnLost
  BY <1>1, <1>3, SameNoTxnLost, PTL
<1> QED
  BY <1>4, TheHalvesMeet, PTL DEF HalvesMeet, NoTxnLost
=============================================================================
