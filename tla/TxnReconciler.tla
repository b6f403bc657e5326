---------------------------- MODULE TxnReconciler ----------------------------
(***************************************************************************)
(* Transaction matching: the second half of reconciler::run in             *)
(* src/src/reconciler/lib.rs.  For each pair of matched accounts, in turn, *)
(* reconcile_transactions_for_pair empties what reconciled_transactions    *)
(* has of either account, reads the transactions of both and writes a row  *)
(* for each: each a statement of its own, with no SQL transaction around   *)
(* them and nothing to keep two runs apart.                                *)
(*                                                                         *)
(* The first half is AccountReconciler; here it empties reconciled_accounts *)
(* and matches the pairs of one of `Links' again, one after the other, so  *)
(* that another run may read the pairs while some are still to come.       *)
(***************************************************************************)
EXTENDS Integers, FiniteSets

CONSTANTS
  Runners,
  SfAccounts, LfAccounts,
  SfTxns, LfTxns,          \* all transactions there may be
  SfOwner, LfOwner,        \* the account each belongs to
  Links,                   \* sets of pairs that account matching may come to
  Scores,                  \* what score_transactions may say
  Threshold,               \* MATCH_THRESHOLD
  None

ASSUME TxnAssumption ==
  /\ SfOwner \in [SfTxns -> SfAccounts] /\ LfOwner \in [LfTxns -> LfAccounts]
  /\ Links \subseteq SUBSET (SfAccounts \X LfAccounts) /\ Links # {}
  /\ Threshold \in Nat \ {0}
  /\ Scores \subseteq [SfTxns \X LfTxns -> Nat]
  /\ None \notin Runners /\ None \notin SfAccounts \X LfAccounts

VARIABLES
  transactions, lf_transactions, \* the ids in the two tables
  score,
  linked,                        \* the pairs in reconciled_accounts
  matched, sfinOnly, lfOnly,     \* reconciled_transactions: pairs, and rows per transaction alone
  pc,                            \* per run, the statement it is at
  links,                         \* per run, the pairs it has matched, until it reads them
  queue, pair,                   \* per run, the pairs to come and the one it is at
  sf, lf,                        \* per run, the transactions it has read of that pair
  mine, keptSf, keptLf,          \* per run, what it has written of that pair
  alone, sfDone, lfDone,         \* history, per run: no other run so far; all it has read
  emptiedSf, emptiedLf           \* history: the run that last emptied an account's rows

source  == <<transactions, lf_transactions, score, linked>>
table   == <<matched, sfinOnly, lfOnly, emptiedSf, emptiedLf>>
todo    == <<links, queue, pair>>
read    == <<sf, lf>>
wrote   == <<mine, keptSf, keptLf>>
history == <<alone, sfDone, lfDone>>
vars    == <<source, table, pc, todo, read, wrote, history>>

Pairs == SfAccounts \X LfAccounts

TypeOK ==
  /\ transactions \subseteq SfTxns /\ lf_transactions \subseteq LfTxns
  /\ score \in Scores
  /\ linked \subseteq Pairs
  /\ matched \subseteq SfTxns \X LfTxns
  /\ sfinOnly \in [SfTxns -> Nat] /\ lfOnly \in [LfTxns -> Nat]
  /\ pc \in [Runners -> {"idle", "link", "next", "readSf", "readLf", "write"}]
  /\ links \in [Runners -> SUBSET Pairs]
  /\ \A r \in Runners : \E G \in Links : links[r] \subseteq G
  /\ queue \in [Runners -> SUBSET Pairs] /\ pair \in [Runners -> Pairs \cup {None}]
  /\ sf \in [Runners -> SUBSET SfTxns] /\ lf \in [Runners -> SUBSET LfTxns]
  /\ mine \in [Runners -> SUBSET (SfTxns \X LfTxns)]
  /\ keptSf \in [Runners -> SUBSET SfTxns] /\ keptLf \in [Runners -> SUBSET LfTxns]
  /\ alone \in [Runners -> BOOLEAN]
  /\ sfDone \in [Runners -> SUBSET SfTxns] /\ lfDone \in [Runners -> SUBSET LfTxns]
  /\ emptiedSf \in [SfAccounts -> Runners \cup {None}]
  /\ emptiedLf \in [LfAccounts -> Runners \cup {None}]

Init ==
  /\ transactions = {} /\ lf_transactions = {}
  /\ score \in Scores
  /\ linked = {}
  /\ matched = {}
  /\ sfinOnly = [t \in SfTxns |-> 0] /\ lfOnly = [t \in LfTxns |-> 0]
  /\ pc = [r \in Runners |-> "idle"]
  /\ links = [r \in Runners |-> {}]
  /\ queue = [r \in Runners |-> {}] /\ pair = [r \in Runners |-> None]
  /\ sf = [r \in Runners |-> {}] /\ lf = [r \in Runners |-> {}]
  /\ mine = [r \in Runners |-> {}]
  /\ keptSf = [r \in Runners |-> {}] /\ keptLf = [r \in Runners |-> {}]
  /\ alone = [r \in Runners |-> FALSE]
  /\ sfDone = [r \in Runners |-> {}] /\ lfDone = [r \in Runners |-> {}]
  /\ emptiedSf = [a \in SfAccounts |-> None] /\ emptiedLf = [a \in LfAccounts |-> None]

SfOf(P) == {p[1] : p \in P}
LfOf(P) == {p[2] : p \in P}
OfSf(a) == {t \in SfTxns : SfOwner[t] = a}
OfLf(a) == {t \in LfTxns : LfOwner[t] = a}

-----------------------------------------------------------------------------
(* A run *)

Active(r) == pc[r] # "idle"
Goto(r, label) == pc' = [pc EXCEPT ![r] = label]

(* Account matching: the DELETE of all pairs, and a statement for each.    *)
Begin(r) ==
  /\ pc[r] = "idle"
  /\ Goto(r, "link")
  /\ linked' = {}
  /\ alone' = [q \in Runners |-> q = r /\ \A o \in Runners \ {r} : ~Active(o)]
  /\ UNCHANGED <<transactions, lf_transactions, score, table, todo, read, wrote, sfDone, lfDone>>

Link(r) ==
  /\ pc[r] = "link"
  /\ \E p \in Pairs \ links[r] :
       /\ \E G \in Links : links[r] \cup {p} \subseteq G
       /\ links' = [links EXCEPT ![r] = @ \cup {p}]
       /\ linked' = linked \cup {p}
  /\ UNCHANGED <<transactions, lf_transactions, score, table, pc, queue, pair, read, wrote, history>>

(* The pairs as they are now, which another run may have emptied.          *)
ReadRows(r, P) ==
  /\ pc[r] = "link"
  /\ links[r] \in Links
  /\ Goto(r, "next")
  /\ queue' = [queue EXCEPT ![r] = P]
  /\ links' = [links EXCEPT ![r] = {}]
  /\ UNCHANGED <<source, table, pair, read, wrote, history>>

ReadAll(r) ==  \* mutant: without WHERE status = 'matched'
  ReadRows(r, linked \cup ((SfAccounts \ SfOf(linked)) \X {None}))
ReadPairs(r) == ReadRows(r, linked)

(* The DELETE for one pair removes the rows that name a transaction of     *)
(* either account, also in a match with one of a third.                    *)
Empty(r, p, S, L) ==
  /\ pc[r] = "next"
  /\ p \in queue[r]
  /\ Goto(r, "readSf")
  /\ queue' = [queue EXCEPT ![r] = @ \ {p}]
  /\ pair' = [pair EXCEPT ![r] = p]
  /\ UNCHANGED links
  /\ matched' = {m \in matched : m[1] \notin S /\ m[2] \notin L}
  /\ sfinOnly' = [t \in SfTxns |-> IF t \in S THEN 0 ELSE sfinOnly[t]]
  /\ lfOnly' = [t \in LfTxns |-> IF t \in L THEN 0 ELSE lfOnly[t]]
  /\ emptiedSf' = [emptiedSf EXCEPT ![p[1]] = r]
  /\ emptiedLf' = [emptiedLf EXCEPT ![p[2]] = r]
  /\ UNCHANGED <<source, read, wrote, history>>

ClearSf(r, p) == Empty(r, p, OfSf(p[1]), {})  \* mutant: rows of the LunchFlow account stay
Clear(r, p) == Empty(r, p, OfSf(p[1]), OfLf(p[2]))

ReadSf(r) ==
  /\ pc[r] = "readSf"
  /\ Goto(r, "readLf")
  /\ LET T == transactions \cap OfSf(pair[r][1])
     IN  sf' = [sf EXCEPT ![r] = T] /\ sfDone' = [sfDone EXCEPT ![r] = @ \cup T]
  /\ UNCHANGED <<source, table, todo, lf, wrote, alone, lfDone>>

ReadLf(r) ==
  /\ pc[r] = "readLf"
  /\ Goto(r, "write")
  /\ LET T == lf_transactions \cap OfLf(pair[r][2])
     IN  lf' = [lf EXCEPT ![r] = T] /\ lfDone' = [lfDone EXCEPT ![r] = @ \cup T]
  /\ UNCHANGED <<source, table, todo, sf, wrote, alone, sfDone>>

(* upsert_reconciled_transaction of a pair, of a transaction alone.        *)
WriteMatch(r, m) ==
  /\ matched' = matched \cup {m}
  /\ mine' = [mine EXCEPT ![r] = @ \cup {m}]
  /\ UNCHANGED <<sfinOnly, lfOnly, emptiedSf, emptiedLf, keptSf, keptLf>>

WriteLfOnly(r, t) ==
  /\ lfOnly' = [lfOnly EXCEPT ![t] = @ + 1]
  /\ keptLf' = [keptLf EXCEPT ![r] = @ \cup {t}]
  /\ UNCHANGED <<matched, sfinOnly, emptiedSf, emptiedLf, mine, keptSf>>

WriteSfOnly(r, t) ==
  /\ sfinOnly' = [sfinOnly EXCEPT ![t] = @ + 1]
  /\ keptSf' = [keptSf EXCEPT ![r] = @ \cup {t}]
  /\ UNCHANGED <<matched, lfOnly, emptiedSf, emptiedLf, mine, keptLf>>

ToMatch(r) == lf[r] \ (LfOf(mine[r]) \cup keptLf[r])

(* Every SimpleFIN transaction is a candidate for every LunchFlow one,     *)
(* those already matched too.  Of equal scores max_by takes the last read. *)
Close(r, l) == {s \in sf[r] : score[<<s, l>>] >= Threshold}
FirstClose(r, l) == Close(r, l)  \* mutant: find for max_by
Best(r, l) == {s \in Close(r, l) : \A t \in Close(r, l) : score[<<t, l>>] <= score[<<s, l>>]}

Match(r) ==
  /\ pc[r] = "write"
  /\ \E l \in ToMatch(r) : \E s \in Best(r, l) : WriteMatch(r, <<s, l>>)
  /\ UNCHANGED <<source, pc, todo, read, history>>

SkipLf(r) ==  \* mutant: continue, without a row
  /\ pc[r] = "write"
  /\ \E l \in ToMatch(r) : Close(r, l) = {} /\ keptLf' = [keptLf EXCEPT ![r] = @ \cup {l}]
  /\ UNCHANGED <<source, table, pc, todo, read, mine, keptSf, history>>
LeaveLf(r) ==
  /\ pc[r] = "write"
  /\ \E l \in ToMatch(r) : Close(r, l) = {} /\ WriteLfOnly(r, l)
  /\ UNCHANGED <<source, pc, todo, read, history>>

KeepAll(r) == sf[r] \ keptSf[r]  \* mutant: matched transactions are not told apart
ToKeep(r) == sf[r] \ (SfOf(mine[r]) \cup keptSf[r])

LeaveSf(r) ==
  /\ pc[r] = "write"
  /\ ToMatch(r) = {}
  /\ \E t \in ToKeep(r) : WriteSfOnly(r, t)
  /\ UNCHANGED <<source, pc, todo, read, history>>

PairWritten(r) == pc[r] = "write" /\ ToMatch(r) = {} /\ ToKeep(r) = {}

Forget(r) ==
  /\ pair' = [pair EXCEPT ![r] = None]
  /\ sf' = [sf EXCEPT ![r] = {}] /\ lf' = [lf EXCEPT ![r] = {}]
  /\ mine' = [mine EXCEPT ![r] = {}]
  /\ keptSf' = [keptSf EXCEPT ![r] = {}] /\ keptLf' = [keptLf EXCEPT ![r] = {}]

EndPair(r) ==
  /\ PairWritten(r)
  /\ Goto(r, "next")
  /\ Forget(r)
  /\ UNCHANGED <<source, table, links, queue, history>>

AllWritten(r) == pc[r] = "next" /\ queue[r] = {}

Stop(r) ==
  /\ Goto(r, "idle")
  /\ Forget(r)
  /\ links' = [links EXCEPT ![r] = {}]
  /\ queue' = [queue EXCEPT ![r] = {}]
  /\ alone' = [alone EXCEPT ![r] = FALSE]
  /\ sfDone' = [sfDone EXCEPT ![r] = {}] /\ lfDone' = [lfDone EXCEPT ![r] = {}]
  /\ UNCHANGED <<source, table>>

Finish(r) == AllWritten(r) /\ Stop(r)

(* A statement fails and `?' ends the run, the pairs to come with it, or   *)
(* the request is dropped.                                                 *)
Abort(r) == Active(r) /\ ~AllWritten(r) /\ Stop(r)

-----------------------------------------------------------------------------

(* The fetchers add transactions, and never remove one. *)
AddTxn ==
  /\ \/ \E t \in SfTxns \ transactions :
          transactions' = transactions \cup {t} /\ UNCHANGED lf_transactions
     \/ \E t \in LfTxns \ lf_transactions :
          lf_transactions' = lf_transactions \cup {t} /\ UNCHANGED transactions
  /\ UNCHANGED <<score, linked, table, pc, todo, read, wrote, history>>

Run(r) ==
  \/ Link(r) \/ ReadPairs(r) \/ (\E p \in Pairs : Clear(r, p)) \/ ReadSf(r) \/ ReadLf(r)
  \/ Match(r) \/ LeaveLf(r) \/ LeaveSf(r) \/ EndPair(r) \/ Finish(r)

Next == (\E r \in Runners : Begin(r) \/ Run(r) \/ Abort(r)) \/ AddTxn

Spec == Init /\ [][Next]_vars

-----------------------------------------------------------------------------
(* Properties *)

(* A run that has written all it had to, with no other run beside it.      *)
Completed(r) == AllWritten(r) /\ alone[r]

SfRow(t) == t \in SfOf(matched) \/ sfinOnly[t] > 0
LfRow(t) == t \in LfOf(matched) \/ lfOnly[t] > 0

(* A SimpleFIN transaction has matches or a row alone, a LunchFlow one one *)
(* match or a row alone, if any.                                           *)
SfOnce(t) == sfinOnly[t] <= IF t \in SfOf(matched) THEN 0 ELSE 1
LfOnce(t) ==
  /\ \A m, n \in matched : m[2] = t /\ n[2] = t => m = n
  /\ lfOnly[t] <= IF t \in LfOf(matched) THEN 0 ELSE 1

(* Accounts with no more than one partner.                                 *)
SfSole(a) == \A p, q \in linked : p[1] = a /\ q[1] = a => p = q
LfSole(b) == \A p, q \in linked : p[2] = b /\ q[2] = b => p = q

(* The DELETE for another account's pair takes no row of the transaction.  *)
SfSpared(t) == \A p \in linked : p[1] = SfOwner[t] => LfSole(p[2])
LfSpared(t) == \A p \in linked : p[2] = LfOwner[t] => SfSole(p[1])

SfCovered(t) == SfOnce(t) /\ (SfSpared(t) => SfRow(t))
LfCovered(t) == LfOnce(t) /\ (LfSpared(t) => LfRow(t))

(* Each transaction it read has its rows once, if any; and it has one but  *)
(* where two accounts share a partner (lib.rs:591): the later of their     *)
(* pairs deletes the matches of the first.  The shared account's own       *)
(* transactions and those of all other accounts are not affected.          *)
EachCovered ==
  \A r \in Runners : Completed(r) =>
    (\A t \in lfDone[r] : LfCovered(t)) /\ (\A t \in sfDone[r] : SfCovered(t))

(* No match is missed, and none is with a less similar transaction of the  *)
(* account, for accounts that are each other's only partners.              *)
BestMatches ==
  \A r \in Runners : Completed(r) =>
    \A l \in lfDone[r], s \in sfDone[r] :
      /\ <<SfOwner[s], LfOwner[l]>> \in linked
      /\ SfSole(SfOwner[s]) /\ LfSole(LfOwner[l])
      /\ score[<<s, l>>] >= Threshold
      => \E m \in matched : m[2] = l /\ score[m] >= score[<<s, l>>]

(* After any run, a transaction of a matched account is matched with       *)
(* transactions of the account's partners alone, whatever the accounts     *)
(* were matched with before.                                               *)
NoStrangers ==
  \A r \in Runners : Completed(r) =>
    \A m \in matched :
      SfOwner[m[1]] \in SfOf(linked) \/ LfOwner[m[2]] \in LfOf(linked)
        => <<SfOwner[m[1]], LfOwner[m[2]]>> \in linked

(* Runs that overlap may write a transaction twice, but lose none: when a  *)
(* run has written a pair and no other has emptied either account since it *)
(* did, every transaction it read has a row.                               *)
NoTxnLost ==
  \A r \in Runners :
    PairWritten(r) /\ emptiedSf[pair[r][1]] = r /\ emptiedLf[pair[r][2]] = r =>
      (\A t \in sf[r] : SfRow(t)) /\ (\A t \in lf[r] : LfRow(t))

(* A LunchFlow transaction does not stay unreconciled (and out of its      *)
(* account's list) whatever runs overlap, if runs are not stopped forever  *)
(* and, again and again, one of them finds the account matched: two that   *)
(* keep reading the pairs after the other's DELETE never do.               *)
EventuallyReconciled ==
  <>[][\A r \in Runners : ~Abort(r)]_vars =>
    \A t \in LfTxns :
      []<>(\E r \in Runners : LfOwner[t] \in LfOf(queue[r]))
        => (t \in lf_transactions ~> LfRow(t))
=============================================================================
