-------------------------- MODULE UnifiedView_proofs --------------------------
(***************************************************************************)
(* What the list of a REC- account shows, for any number of runs beside    *)
(* it, any accounts, transactions and ranges.  Runs are those of           *)
(* TxnReconciler, so its invariant holds here too; to it come what the     *)
(* tables hold (Backed), what a run that was alone leaves until the next   *)
(* begins (Settled), and what of it a request has read (Listed).           *)
(***************************************************************************)
EXTENDS UnifiedView, TxnReconciler_proofs

(* Runs read and match transactions that are in the tables.                *)
Backed ==
  /\ \A r \in Runners : sf[r] \subseteq transactions /\ lf[r] \subseteq lf_transactions
  /\ matched \subseteq transactions \X lf_transactions

Settled ==
  settled =>
    /\ \A r \in Runners : pc[r] = "idle"
    /\ \A m \in matched :
         SfOwner[m[1]] \in SfOf(linked) \/ LfOwner[m[2]] \in LfOf(linked)
           => <<SfOwner[m[1]], LfOwner[m[2]]>> \in linked
    /\ coveredLf \subseteq lf_transactions
    /\ (\A t \in coveredSf : SfCovered(t)) /\ (\A t \in coveredLf : LfCovered(t))

(* The rows of the SimpleFIN account, whichever transactions come.         *)
Asked(t) == t \in OfSf(asked.account) /\ InSfRange(t, asked)

Listed ==
  /\ calm => settled
  /\ view # "idle" => known \subseteq {t \in transactions : Asked(t)}
  /\ view # "idle" /\ calm /\ partner # None => <<asked.account, partner>> \in linked
  /\ view = "lfOnly" =>
       /\ \A t \in known : single[t] > 0 \/ t \in SfOf(joined)
       /\ calm =>
            /\ joined = {m \in matched : Asked(m[1])}
            /\ \A t \in known :
                 single[t] = IF t \in SfOf(matched) \/ sfinOnly[t] # 0 THEN sfinOnly[t] ELSE 1

UvInv == ViewTypeOK /\ Backed /\ Settled /\ Listed

-----------------------------------------------------------------------------
(* The runs *)

LEMMA RunMaps == [UvNext]_uvars => [Next]_vars
BY DEF UvNext, Reconcile, Fetch, FindPartner, ReadSfin, Answer, uvars, Next

(* Requests for pages between the statements of a run leave it a run of    *)
(* Spec: each theorem of TxnReconciler_proofs holds of it.                 *)
THEOREM ViewKeepsRuns == UvSpec => Spec
<1>1. UvInit => Init
  BY DEF UvInit
<1> QED
  BY <1>1, RunMaps, PTL DEF UvSpec, Spec

LEMMA RunInvariance == UvSpec => []IInv
<1>1. UvInit => Init
  BY DEF UvInit
<1> QED
  BY <1>1, RunMaps, Inductive, PTL DEF UvSpec, Spec

(* An idle run takes no step but its first, and one that has written all   *)
(* none but its last.                                                      *)
LEMMA RunActive ==
  ASSUME NEW r \in Runners, Run(r)
  PROVE  pc[r] # "idle" /\ (AllWritten(r) => Finish(r))
BY DEF Run, Link, ReadPairs, ReadRows, Clear, Empty, ReadSf, ReadLf, Match, LeaveLf, LeaveSf,
   EndPair, PairWritten, Finish, AllWritten

LEMMA SourceKept ==
  ASSUME NEW r \in Runners, Run(r) \/ Begin(r) \/ Abort(r)
  PROVE  UNCHANGED <<transactions, lf_transactions>>
BY DEF Run, Link, ReadPairs, ReadRows, Clear, Empty, ReadSf, ReadLf, Match, LeaveLf, LeaveSf,
   EndPair, Finish, Abort, Stop, Begin, source

LEMMA MatchBacked ==
  ASSUME TypeOK, Backed, NEW r \in Runners, Match(r)
  PROVE  /\ matched' \subseteq transactions \X lf_transactions
         /\ UNCHANGED <<sf, lf, lfDone, transactions, lf_transactions>>
<1> PICK l \in ToMatch(r) : \E s \in Best(r, l) : WriteMatch(r, <<s, l>>)
  BY MatchedPair
<1> PICK s \in Best(r, l) : WriteMatch(r, <<s, l>>)
  OBVIOUS
<1>1. s \in transactions /\ l \in lf_transactions
  BY DEF Best, Close, ToMatch, Backed
<1> QED
  BY <1>1 DEF Match, WriteMatch, Backed, source, read, history

LEMMA BackedStep == ASSUME TypeOK, Backed, [Next]_vars PROVE Backed'
<1>1. ASSUME NEW r \in Runners, Stop(r) PROVE Backed'
  BY <1>1 DEF Stop, Forget, Backed, TypeOK, source, table
<1>2. ASSUME NEW r \in Runners, NEW p \in Pairs, Clear(r, p) PROVE Backed'
  <2>1. matched' \subseteq matched /\ UNCHANGED <<sf, lf, lfDone, transactions, lf_transactions>>
    BY <1>2 DEF Clear, Empty, source, read, history
  <2> QED
    BY <2>1 DEF Backed
<1>3. ASSUME NEW r \in Runners, ReadSf(r) PROVE Backed'
  BY <1>3 DEF ReadSf, Backed, TypeOK, source, table
<1>4. ASSUME NEW r \in Runners, ReadLf(r) PROVE Backed'
  BY <1>4 DEF ReadLf, Backed, TypeOK, source, table
<1>5. ASSUME NEW r \in Runners, Match(r) PROVE Backed'
  BY <1>5, MatchBacked DEF Backed
<1>6. ASSUME NEW r \in Runners, EndPair(r) PROVE Backed'
  BY <1>6 DEF EndPair, Forget, Backed, TypeOK, source, table, history
<1>7. ASSUME NEW r \in Runners,
             LeaveLf(r) \/ LeaveSf(r) \/ Begin(r) \/ Link(r) \/ ReadPairs(r)
      PROVE  Backed'
  <2>1. UNCHANGED <<matched, sf, lf, lfDone, transactions, lf_transactions>>
    BY <1>7 DEF LeaveLf, WriteLfOnly, LeaveSf, WriteSfOnly, Begin, Link, ReadPairs, ReadRows,
       source, table, read, history
  <2> QED
    BY <2>1 DEF Backed
<1>8. CASE AddTxn
  <2>1. /\ UNCHANGED <<matched, sf, lf, lfDone>>
        /\ transactions \subseteq transactions' /\ lf_transactions \subseteq lf_transactions'
    BY <1>8 DEF AddTxn, table, read, history
  <2> QED
    BY <2>1 DEF Backed
<1>9. CASE UNCHANGED vars
  BY <1>9 DEF vars, source, table, read, history, Backed
<1> QED
  BY <1>1, <1>2, <1>3, <1>4, <1>5, <1>6, <1>7, <1>8, <1>9 DEF Next, Run, Finish, Abort

-----------------------------------------------------------------------------
(* What a run that was alone leaves *)

(* Being covered is about the tables and the pairs alone.                  *)
LEMMA CoveredKept ==
  ASSUME UNCHANGED <<linked, matched, sfinOnly, lfOnly>>
  PROVE  \A t : SfCovered(t)' = SfCovered(t) /\ LfCovered(t)' = LfCovered(t)
BY SparedKept DEF SfCovered, LfCovered, SfOnce, LfOnce, SfRow, LfRow

(* The end of a run that was alone.                                        *)
LEMMA SettleStep ==
  ASSUME IInv, Backed, NEW r \in Runners, Finish(r), alone[r],
         settled' = TRUE, coveredSf' = sfDone[r], coveredLf' = lfDone[r]
  PROVE  Settled'
<1>1. /\ pc[r] = "next" /\ queue[r] = {} /\ Known(r) /\ Done(r)
      /\ \A q \in Runners \ {r} : pc[q] = "idle"
  BY DEF IInv, Rest, Alone, Past, Finish, AllWritten
<1>2. /\ UNCHANGED <<linked, matched, sfinOnly, lfOnly, transactions, lf_transactions>>
      /\ \A q \in Runners : pc'[q] = "idle"
  BY <1>1 DEF Finish, Stop, Goto, source, table, IInv, TypeOK
<1>3. \A m \in matched :
         SfOwner[m[1]] \in SfOf(linked) \/ LfOwner[m[2]] \in LfOf(linked)
           => <<SfOwner[m[1]], LfOwner[m[2]]>> \in linked
  <2>1. linked \ queue[r] = linked
    BY <1>1
  <2> QED
    BY <1>1, <2>1 DEF Known
<1>4. (\A t \in sfDone[r] : SfCovered(t)) /\ (\A t \in lfDone[r] : LfCovered(t))
  BY <1>1 DEF Done, SfLeft, LfLeft, AtPair
<1>5. lfDone[r] \subseteq lf_transactions
  BY DEF IInv, Seen
<1>6. /\ \A t : SfCovered(t)' = SfCovered(t)
      /\ \A t : LfCovered(t)' = LfCovered(t)
  BY <1>2, CoveredKept
<1> QED
  BY <1>2, <1>3, <1>4, <1>5, <1>6 DEF Settled, SfOf, LfOf

(* Steps that leave it as it is. *)
LEMMA SettledKept ==
  ASSUME Settled, UNCHANGED <<pc, linked, matched, sfinOnly, lfOnly, settled, coveredSf, coveredLf>>,
         lf_transactions \subseteq lf_transactions'
  PROVE  Settled'
BY CoveredKept DEF Settled

(* What the answer holds does not change with transactions that come.      *)
LEMMA ListedKept ==
  ASSUME Listed, UNCHANGED answer, transactions \subseteq transactions',
         calm' => calm /\ settled' /\ UNCHANGED <<matched, sfinOnly, linked>>
  PROVE  Listed'
<1>1. \A t : Asked(t)' = Asked(t)
  BY DEF Asked, answer
<1> QED
  BY <1>1 DEF Listed, answer, SfOf

(* A run.  While all is calm there is none.                                *)
LEMMA ReconcileStep ==
  ASSUME IInv, UvInv, NEW r \in Runners, Reconcile(r)
  PROVE  ViewTypeOK' /\ Settled' /\ Listed'
<1> USE DEF UvInv
<1>1. UNCHANGED <<answer, transactions, lf_transactions>>
  BY SourceKept DEF Reconcile
<1>2. CASE Begin(r) /\ Disturb
  <2>1. ~settled' /\ ~calm' /\ coveredSf' = {} /\ coveredLf' = {}
    BY <1>2 DEF Disturb
  <2>2. ViewTypeOK'
    BY <1>1, <1>2 DEF Disturb, ViewTypeOK, answer
  <2>3. Settled' /\ Listed'
    BY <1>1, <2>1, ListedKept DEF Settled
  <2> QED
    BY <2>2, <2>3
<1>3. CASE Run(r) /\ AllWritten(r) /\ alone[r] /\ Settle(r)
  <2>1. Finish(r) /\ ~settled
    BY <1>3, RunActive DEF Settled
  <2>2. settled' = TRUE /\ coveredSf' = sfDone[r] /\ coveredLf' = lfDone[r] /\ calm' = calm
    BY <1>3 DEF Settle
  <2>3. sfDone[r] \subseteq SfTxns /\ lfDone[r] \subseteq LfTxns
    BY DEF IInv, TypeOK
  <2>4. ViewTypeOK'
    BY <1>1, <2>2, <2>3 DEF ViewTypeOK, answer
  <2>5. Settled'
    BY <1>3, <2>1, <2>2, SettleStep
  <2>6. ~calm'
    BY <2>1, <2>2 DEF Listed
  <2> QED
    BY <1>1, <2>4, <2>5, <2>6, ListedKept
<1>4. CASE (Run(r) \/ Abort(r)) /\ UNCHANGED since
  <2>1. ~settled
    BY <1>4, RunActive DEF Settled, Abort, Active
  <2>2. ViewTypeOK'
    BY <1>1, <1>4 DEF ViewTypeOK, answer, since
  <2>3. ~settled' /\ ~calm'
    BY <1>4, <2>1 DEF Listed, since
  <2> QED
    BY <1>1, <2>2, <2>3, ListedKept DEF Settled
<1> QED
  BY <1>2, <1>3, <1>4 DEF Reconcile, Settle

LEMMA FetchStep == ASSUME UvInv, Fetch PROVE ViewTypeOK' /\ Settled' /\ Listed'
<1>1. /\ UNCHANGED <<answer, since, pc, linked, matched, sfinOnly, lfOnly>>
      /\ transactions \subseteq transactions' /\ lf_transactions \subseteq lf_transactions'
  BY DEF Fetch, AddTxn, table
<1>2. ViewTypeOK'
  BY <1>1 DEF UvInv, ViewTypeOK, answer, since
<1>3. Settled'
  BY <1>1, SettledKept DEF UvInv, since
<1>4. Listed'
  BY <1>1, ListedKept DEF UvInv, Listed, since
<1> QED
  BY <1>2, <1>3, <1>4

-----------------------------------------------------------------------------
(* A request *)

LEMMA FindPartnerStep ==
  ASSUME IInv, UvInv, NEW q \in Requests, FindPartner(q)
  PROVE  ViewTypeOK' /\ Settled' /\ Listed'
<1> USE DEF UvInv
<1>1. /\ view' = "sfin" /\ asked' = q /\ known' = SfinList(q.account, q) /\ calm' = settled
      /\ UNCHANGED <<vars, joined, single, settled, coveredSf, coveredLf>>
  BY DEF FindPartner
<1>2. partner' \in LfAccounts \cup {None} /\ (partner' # None => <<q.account, partner'>> \in linked)
  <2>1. linked \subseteq SfAccounts \X LfAccounts
    BY DEF IInv, TypeOK, Pairs
  <2>2. ASSUME NEW b \in Partners(q) PROVE b \in LfAccounts /\ <<q.account, b>> \in linked
    BY <2>1 DEF Partners
  <2> QED
    BY <2>2 DEF FindPartner
<1>3. SfinList(q.account, q) \subseteq SfTxns
  BY DEF SfinList, OfSf
<1>4. ViewTypeOK'
  BY <1>1, <1>2, <1>3 DEF ViewTypeOK
<1>5. Settled'
  BY <1>1, SettledKept DEF vars, source, table
<1>6. Listed'
  BY <1>1, <1>2 DEF Listed, Asked, SfinList, vars, source
<1> QED
  BY <1>4, <1>5, <1>6

LEMMA ReadSfinStep ==
  ASSUME IInv, UvInv, ReadSfin PROVE ViewTypeOK' /\ Settled' /\ Listed'
<1> USE DEF UvInv
<1>1. /\ view = "sfin" /\ view' = "lfOnly" /\ UNCHANGED <<vars, asked, partner, known, since>>
      /\ joined' = Joined(asked) /\ single' = Single(asked)
  BY DEF ReadSfin
<1>2. UNCHANGED <<pc, transactions, lf_transactions, linked, matched, sfinOnly, lfOnly>>
  BY <1>1 DEF vars, source, table
<1>3. sfinOnly \in [SfTxns -> Nat] /\ matched \subseteq SfTxns \X LfTxns
  BY DEF IInv, TypeOK
<1>4. Single(asked) \in [SfTxns -> Nat] /\ Joined(asked) \subseteq SfTxns \X LfTxns
  BY <1>3 DEF Single, Joined
<1>5. ViewTypeOK'
  BY <1>1, <1>4 DEF ViewTypeOK, since
<1>6. Settled'
  BY <1>1, <1>2, SettledKept DEF since
<1>7. \A t : t \in SfinList(asked.account, asked) <=> t \in transactions /\ Asked(t)
  BY DEF SfinList, Asked, OfSf
<1>8. Joined(asked) = {m \in matched : Asked(m[1])}
  BY <1>7 DEF Joined, Backed
<1>9. \A t \in known :
        Single(asked)[t] = IF t \in SfOf(matched) \/ sfinOnly[t] # 0 THEN sfinOnly[t] ELSE 1
  <2>1. \A t \in known : t \in SfTxns /\ t \in SfinList(asked.account, asked)
    BY <1>1, <1>7 DEF Listed, Asked, OfSf
  <2> QED
    BY <2>1 DEF Single
<1>10. \A t \in known : Single(asked)[t] > 0 \/ t \in SfOf(Joined(asked))
  <2>1. ASSUME NEW t \in known, t \in SfOf(matched) PROVE t \in SfOf(Joined(asked))
    BY <1>1, <1>8, <2>1 DEF Listed, SfOf
  <2>2. ASSUME NEW t \in known, t \notin SfOf(matched) PROVE Single(asked)[t] > 0
    <3>1. sfinOnly[t] \in Nat
      BY <1>3 DEF ViewTypeOK
    <3> QED
      BY <1>9, <2>2, <3>1
  <2> QED
    BY <2>1, <2>2
<1>11. Listed'
  <2>1. \A t : Asked(t)' = Asked(t)
    BY <1>1 DEF Asked
  <2> QED
    BY <1>1, <1>2, <1>8, <1>9, <1>10, <2>1 DEF Listed, since, SfOf
<1> QED
  BY <1>5, <1>6, <1>11

LEMMA AnswerStep == ASSUME UvInv, Answer PROVE ViewTypeOK' /\ Settled' /\ Listed'
<1>1. ViewTypeOK'
  BY DEF UvInv, ViewTypeOK, Answer
<1>2. Settled'
  BY SettledKept DEF UvInv, Answer, vars, source, table
<1>3. Listed'
  BY DEF Listed, Answer
<1> QED
  BY <1>1, <1>2, <1>3

LEMMA UvInitial == ASSUME UvInit PROVE UvInv
<1>1. ViewTypeOK /\ Settled /\ Listed
  BY DEF UvInit, ViewTypeOK, Settled, Listed
<1>2. Backed
  BY DEF UvInit, Init, Backed
<1> QED
  BY <1>1, <1>2 DEF UvInv

LEMMA UvStep == ASSUME IInv, UvInv, [UvNext]_uvars PROVE UvInv'
<1>1. Backed'
  BY RunMaps, BackedStep DEF IInv, UvInv
<1>2. CASE UNCHANGED uvars
  <2>1. UNCHANGED <<answer, since, pc, linked, matched, sfinOnly, lfOnly, transactions, lf_transactions>>
    BY <1>2 DEF uvars, vars, source, table
  <2>2. ViewTypeOK'
    BY <2>1 DEF UvInv, ViewTypeOK, answer, since
  <2>3. Settled' /\ Listed'
    BY <2>1, SettledKept, ListedKept DEF UvInv, Listed, since
  <2> QED
    BY <1>1, <2>2, <2>3 DEF UvInv
<1>3. ViewTypeOK' /\ Settled' /\ Listed'
  BY <1>1, <1>2, ReconcileStep, FetchStep, FindPartnerStep, ReadSfinStep, AnswerStep DEF UvNext, UvInv
<1> QED
  BY <1>1, <1>3 DEF UvInv

LEMMA UvInvariant == UvSpec => [](IInv /\ UvInv)
<1>1. UvInit => UvInv
  BY UvInitial
<1>2. IInv /\ UvInv /\ [UvNext]_uvars => UvInv'
  BY UvStep
<1> QED
  BY <1>1, <1>2, RunInvariance, PTL DEF UvSpec

-----------------------------------------------------------------------------
(* What it gives *)

LEMMA NoSfinMissingInv == ASSUME Listed PROVE NoSfinMissing
BY DEF Listed, NoSfinMissing

LEMMA DivTypes == \A n \in Nat : n \div Day \in Nat
BY ViewAssumption

LEMMA DivFacts ==
  \A n \in Nat : (n \div Day) * Day <= n /\ n < (n \div Day + 1) * Day
BY ViewAssumption, SMTT(30)

LEMMA DivMonotonic == ASSUME NEW m \in Nat, NEW n \in Nat, m <= n PROVE m \div Day <= n \div Day
<1>1. Day \in Nat \ {0} /\ m \div Day \in Nat /\ n \div Day \in Nat
  BY ViewAssumption, DivTypes
<1>2. (m \div Day) * Day < (n \div Day + 1) * Day
  BY <1>1, DivFacts
<1>3. \A x, y \in Nat : x * Day < (y + 1) * Day => x <= y
  BY <1>1, SMTT(30)
<1> QED
  BY <1>1, <1>2, <1>3

LEMMA WholeLf ==
  ASSUME NEW q \in Requests, Whole(q), NEW t \in LfTxns PROVE InLfRange(t, q)
<1>1. LfDate[t] \in Nat /\ LfDate[t] <= Forever \div Day
  BY ViewAssumption
<1>2. 0 \div Day = 0
  BY ViewAssumption
<1> QED
  BY <1>1, <1>2 DEF Whole, InLfRange

LEMMA WholeSf ==
  ASSUME NEW q \in Requests, Whole(q), NEW t \in SfTxns PROVE InSfRange(t, q)
BY ViewAssumption DEF Whole, InSfRange

(* No other account's pair takes the rows of one that is matched with one  *)
(* that has no other partner.                                              *)
LEMMA SoleSpared ==
  ASSUME NEW a, NEW t, <<a, LfOwner[t]>> \in linked, SfSole(a), LfSole(LfOwner[t])
  PROVE  LfSpared(t)
<1> SUFFICES ASSUME NEW p \in linked, p[2] = LfOwner[t] PROVE SfSole(p[1])
  BY DEF LfSpared
<1>1. p = <<a, LfOwner[t]>>
  BY <<a, LfOwner[t]>>[2] = LfOwner[t] DEF LfSole
<1> QED
  BY <1>1

LEMMA ListedOnceInv == ASSUME IInv, UvInv PROVE ListedOnce
<1> DEFINE Sole == SfSole(asked.account) /\ LfSole(partner)
<1> SUFFICES ASSUME view = "lfOnly", calm, partner # None
             PROVE  /\ \A m \in joined : <<asked.account, LfOwner[m[2]]>> \in linked
                    /\ \A t \in coveredSf \cap known : single[t] = IF t \in SfOf(joined) THEN 0 ELSE 1
                    /\ \A t \in coveredLf \cap OfLf(partner) : Once(t, Whole(asked) /\ Sole)
  BY DEF ListedOnce
<1>1. /\ asked \in Requests /\ asked.account \in SfAccounts
      /\ <<asked.account, partner>> \in linked
  BY ViewAssumption DEF UvInv, ViewTypeOK, Listed
<1>2. asked.account \in SfOf(linked) /\ partner \in LfOf(linked)
  BY <1>1 DEF SfOf, LfOf
<1>3. \A m \in matched : SfOwner[m[1]] = asked.account \/ LfOwner[m[2]] = partner
                           => <<SfOwner[m[1]], LfOwner[m[2]]>> \in linked
  BY <1>2 DEF UvInv, Settled, Listed
<1>4. joined = {m \in matched : Asked(m[1])}
  BY DEF UvInv, Listed
<1>5. \A m \in joined : m \in matched /\ SfOwner[m[1]] = asked.account
  BY <1>4 DEF Asked, OfSf
<1>6. ASSUME NEW t \in coveredSf \cap known
      PROVE  single[t] = IF t \in SfOf(joined) THEN 0 ELSE 1
  <2>1. (t \in SfOf(joined)) <=> (t \in SfOf(matched))
    <3>1. Asked(t)
      BY DEF UvInv, Listed
    <3> QED
      BY <1>4, <3>1 DEF SfOf
  <2>2. SfCovered(t)
    BY DEF UvInv, Settled, Listed
  <2>3. single[t] = IF t \in SfOf(matched) \/ sfinOnly[t] # 0 THEN sfinOnly[t] ELSE 1
    BY DEF UvInv, Listed
  <2>4. sfinOnly[t] \in Nat
    BY DEF IInv, TypeOK, UvInv, ViewTypeOK
  <2> QED
    BY <2>1, <2>2, <2>3, <2>4 DEF SfCovered, SfOnce
<1>7. ASSUME NEW t \in coveredLf \cap OfLf(partner) PROVE Once(t, Whole(asked) /\ Sole)
  <2>1. LfCovered(t) /\ t \in lf_transactions /\ t \in LfTxns /\ LfOwner[t] = partner
    BY DEF UvInv, Settled, Listed, OfLf
  <2>2. \A m, n \in joined : m[2] = t /\ n[2] = t => m = n
    BY <1>5, <2>1 DEF LfCovered, LfOnce
  <2>3. Last[t] = IF t \in LfList(partner, asked) THEN lfOnly[t] ELSE 0
    BY <2>1 DEF Last, LfOnly
  <2>4. t \in LfOf(joined) => t \in LfOf(matched)
    BY <1>5 DEF LfOf
  <2>5. lfOnly[t] \in Nat /\ lfOnly[t] <= IF t \in LfOf(matched) THEN 0 ELSE 1
    BY <2>1 DEF IInv, TypeOK, LfCovered, LfOnce
  <2>6. Last[t] <= IF t \in LfOf(joined) THEN 0 ELSE 1
    BY <2>3, <2>4, <2>5
  <2>7. ASSUME Whole(asked), Sole PROVE t \in LfOf(joined) \/ Last[t] = 1
    <3>1. CASE t \in LfOf(matched)
      <4>1. PICK m \in matched : m[2] = t
        BY <3>1 DEF LfOf
      <4>2. m[1] \in SfTxns /\ SfOwner[m[1]] = asked.account
        BY <1>1, <1>3, <2>1, <2>7, <4>1, LfSoleUse DEF IInv, TypeOK
      <4>3. m \in joined
        BY <1>1, <1>4, <2>7, <4>2, WholeSf DEF Asked, OfSf
      <4> QED
        BY <4>1, <4>3 DEF LfOf
    <3>2. CASE t \notin LfOf(matched)
      <4>1. t \in LfList(partner, asked)
        BY <1>1, <2>1, <2>7, WholeLf DEF LfList, OfLf
      <4>2. LfSpared(t)
        BY <1>1, <2>1, <2>7, SoleSpared
      <4> QED
        BY <2>1, <2>3, <2>5, <3>2, <4>1, <4>2 DEF LfCovered, LfRow
    <3> QED
      BY <3>1, <3>2
  <2> QED
    BY <2>2, <2>6, <2>7 DEF Once
<1> QED
  BY <1>3, <1>5, <1>6, <1>7

(* A cut of a range of days.                                               *)
LEMMA DaysMeet ==
  ASSUME NEW from \in Nat, NEW to \in Nat, NEW cut \in Nat, from <= cut, cut <= to, NEW d \in Nat
  PROVE  LET D(n) == n \div Day
             first == D(from) <= d /\ d <= D(cut)
             rest == D(cut + 1) <= d /\ d <= D(to)
         IN  /\ (first \/ rest) <=> (D(from) <= d /\ d <= D(to))
             /\ first /\ rest => d * Day <= cut /\ cut + 1 < (d + 1) * Day
<1> DEFINE D(n) == n \div Day
<1>1. D(from) \in Nat /\ D(cut) \in Nat /\ D(cut + 1) \in Nat /\ D(to) \in Nat
  BY DivTypes
<1>2. D(from) <= D(cut) /\ D(cut) <= D(cut + 1) /\ D(cut) <= D(to)
  BY DivMonotonic
<1>3. D(cut + 1) <= D(cut) + 1
  <2>1. D(cut + 1) * Day <= cut + 1 /\ cut < (D(cut) + 1) * Day
    BY DivFacts
  <2>2. Day \in Nat \ {0}
    BY ViewAssumption
  <2>3. \A x, y, n \in Nat : x * Day <= n + 1 /\ n < (y + 1) * Day => x <= y + 1
    <3>1. \A x, y, n \in Nat : x * Day <= n + 1 /\ n < (y + 1) * Day => x * Day <= (y + 1) * Day
      BY <2>2, SMTT(30)
    <3>2. \A x, y \in Nat : x * Day <= (y + 1) * Day => x <= y + 1
      BY <2>2, SMTT(30)
    <3> QED
      BY <3>1, <3>2
  <2> QED
    BY <1>1, <2>1, <2>3
<1>4. D(cut) * Day <= cut /\ cut + 1 < (D(cut + 1) + 1) * Day
  BY DivFacts
<1> HIDE DEF D
<1>5. /\ ((D(from) <= d /\ d <= D(cut)) \/ (D(cut + 1) <= d /\ d <= D(to)))
           <=> (D(from) <= d /\ d <= D(to))
      /\ (D(from) <= d /\ d <= D(cut)) /\ (D(cut + 1) <= d /\ d <= D(to))
           => d = D(cut) /\ d = D(cut + 1)
  BY <1>1, <1>2, <1>3
<1> QED
  BY <1>4, <1>5 DEF D

LEMMA PagesMeetInv == ASSUME ViewTypeOK PROVE PagesMeet
<1> SUFFICES ASSUME asked \in Requests, NEW cut \in asked.from .. asked.to
             PROVE  LET first == [asked EXCEPT !.to = cut]
                        rest == [asked EXCEPT !.from = cut + 1]
                        Sf(q) == SfinList(q.account, q)
                    IN  /\ Sf(first) \cup Sf(rest) = Sf(asked)
                        /\ Sf(first) \cap Sf(rest) \subseteq SfPending
                        /\ \A b \in LfAccounts :
                             /\ LfList(b, first) \cup LfList(b, rest) = LfList(b, asked)
                             /\ \A t \in (LfList(b, first) \cap LfList(b, rest)) \ LfPending :
                                  LfDate[t] * Day <= cut /\ cut + 1 < (LfDate[t] + 1) * Day
  BY DEF PagesMeet, ViewTypeOK
<1> DEFINE first == [asked EXCEPT !.to = cut]
           rest == [asked EXCEPT !.from = cut + 1]
<1>1. /\ asked.from \in Nat /\ asked.to \in Nat /\ cut \in Nat
      /\ asked.from <= cut /\ cut <= asked.to
      /\ first.from = asked.from /\ first.to = cut /\ rest.from = cut + 1 /\ rest.to = asked.to
      /\ first.account = asked.account /\ rest.account = asked.account
  BY ViewAssumption
<1> HIDE DEF first, rest
<1>2. \A t \in SfTxns : SfPosted[t] \in Nat
  BY ViewAssumption
<1>3. \A t \in SfTxns : /\ InSfRange(t, first) \/ InSfRange(t, rest) <=> InSfRange(t, asked)
                        /\ InSfRange(t, first) /\ InSfRange(t, rest) => t \in SfPending
  BY <1>1, <1>2 DEF InSfRange
<1>4. \A t \in LfTxns : /\ InLfRange(t, first) \/ InLfRange(t, rest) <=> InLfRange(t, asked)
                        /\ InLfRange(t, first) /\ InLfRange(t, rest) /\ t \notin LfPending =>
                             LfDate[t] * Day <= cut /\ cut + 1 < (LfDate[t] + 1) * Day
  <2> TAKE t \in LfTxns
  <2>1. LfDate[t] \in Nat
    BY ViewAssumption
  <2>2. /\ ((asked.from \div Day <= LfDate[t] /\ LfDate[t] <= cut \div Day)
             \/ ((cut + 1) \div Day <= LfDate[t] /\ LfDate[t] <= asked.to \div Day))
           <=> (asked.from \div Day <= LfDate[t] /\ LfDate[t] <= asked.to \div Day)
        /\ (asked.from \div Day <= LfDate[t] /\ LfDate[t] <= cut \div Day)
             /\ ((cut + 1) \div Day <= LfDate[t] /\ LfDate[t] <= asked.to \div Day)
           => LfDate[t] * Day <= cut /\ cut + 1 < (LfDate[t] + 1) * Day
    BY <1>1, <2>1, DaysMeet
  <2> QED
    BY <1>1, <2>2, Zenon DEF InLfRange
<1>5. /\ SfinList(first.account, first) \cup SfinList(rest.account, rest)
           = SfinList(asked.account, asked)
      /\ SfinList(first.account, first) \cap SfinList(rest.account, rest) \subseteq SfPending
  BY <1>1, <1>3 DEF SfinList, OfSf
<1>6. ASSUME NEW b \in LfAccounts
      PROVE  /\ LfList(b, first) \cup LfList(b, rest) = LfList(b, asked)
             /\ \A t \in (LfList(b, first) \cap LfList(b, rest)) \ LfPending :
                  LfDate[t] * Day <= cut /\ cut + 1 < (LfDate[t] + 1) * Day
  BY <1>4 DEF LfList, OfLf
<1> QED
  BY <1>5, <1>6 DEF first, rest

(* Types of a request and of what is remembered of runs.                   *)
THEOREM ViewTypeCorrect == UvSpec => []ViewTypeOK
BY UvInvariant, PTL DEF UvInv

(* No run makes a list lose a SimpleFIN transaction.                       *)
THEOREM NoSfinIsMissing == UvSpec => []NoSfinMissing
<1>1. UvInv => NoSfinMissing
  BY NoSfinMissingInv DEF UvInv
<1> QED
  BY <1>1, UvInvariant, PTL

(* While no run has begun since one that was alone, a list is the union of *)
(* those of the two accounts, without doubles.                             *)
THEOREM ListIsUnion == UvSpec => []ListedOnce
BY UvInvariant, ListedOnceInv, PTL

(* Wherever a range is cut in two, nothing is left out between the parts.  *)
THEOREM NoGapBetweenPages == UvSpec => []PagesMeet
<1>1. UvInv => PagesMeet
  BY PagesMeetInv DEF UvInv
<1> QED
  BY <1>1, UvInvariant, PTL
=============================================================================
