-------------------------- MODULE AccountReconciler --------------------------
(***************************************************************************)
(* Account matching: reconcile_accounts of src/src/reconciler/lib.rs, with *)
(* the rules API of src/src/fdx/routes.rs beside it.                       *)
(*                                                                         *)
(* reconcile_accounts runs at startup, after every LunchFlow poll and for  *)
(* every POST to the API, with nothing to keep two of these runs apart and *)
(* no SQL transaction around their statements.  A run is one of `Runners'  *)
(* and takes a step per statement; it may stop at any of them, because the *)
(* statement failed, the request was dropped, or the process died.         *)
(*                                                                         *)
(* A score stands for the similarity of two accounts; a change of scores   *)
(* stands for transactions that arrive.  A table row is a pair of matched  *)
(* accounts, or one of a number of rows for an account alone: the UNIQUE   *)
(* constraint of reconciled_accounts does not see rows with a NULL.        *)
(***************************************************************************)
EXTENDS Integers, FiniteSets

CONSTANTS
  Runners,
  SfAccounts, LfAccounts,  \* LunchFlow ids are numbers, read in their order
  None,
  Scores,                  \* the scorings transactions may give the accounts
  Threshold,               \* MATCH_THRESHOLD
  MaxRules,                \* bound on the rules ever created
  MaxRescores              \* bound on the changes of scores

ASSUME AccountAssumption ==
  /\ LfAccounts \subseteq Int
  /\ IsFiniteSet(LfAccounts) /\ IsFiniteSet(SfAccounts)
  /\ None \notin SfAccounts /\ None \notin LfAccounts /\ None \notin Runners
ASSUME ScoreAssumption ==
  /\ Threshold \in Nat \ {0}
  /\ Scores \subseteq [SfAccounts \X LfAccounts -> Nat]
  /\ Scores # {}
ASSUME BoundAssumption == MaxRules \in Nat /\ MaxRescores \in Nat

VARIABLES
  accounts, lf_accounts,       \* the ids in the two account tables
  rules, created,              \* user_account_reconciliation; ids given so far
  score, rescored,             \* the scoring; changes so far
  matched, sfinOnly, lfOnly,   \* reconciled_accounts: pairs, and rows per account alone
  pc,                          \* per run, the statement it is at
  seen, sf, lf,                \* per run, the rules and the accounts it has read
  mine, keptSf, keptLf,        \* per run, what it has written of each kind
  alone, steady,               \* history, per run: no other run, no new scores, so far
  cleared                      \* history: the run that last emptied the table

source == <<accounts, lf_accounts, rules, created, score, rescored>>
table  == <<matched, sfinOnly, lfOnly, cleared>>
read   == <<seen, sf, lf>>
wrote  == <<mine, keptSf, keptLf>>
vars   == <<source, table, pc, read, wrote, alone, steady>>

Pairs == SfAccounts \X LfAccounts
Requests == [id : 1 .. MaxRules, sf : SfAccounts \cup {None}, lf : LfAccounts \cup {None},
             action : {"match", "exclude"}]
(* What the CHECKs of user_account_reconciliation let in. *)
Rules == {x \in Requests : /\ x.sf # None \/ x.lf # None
                           /\ x.action = "match" => x.sf # None /\ x.lf # None}

TypeOK ==
  /\ accounts \subseteq SfAccounts /\ lf_accounts \subseteq LfAccounts
  /\ rules \subseteq Rules /\ created \in 0 .. MaxRules
  /\ score \in Scores /\ rescored \in 0 .. MaxRescores
  /\ matched \subseteq Pairs
  /\ sfinOnly \in [SfAccounts -> Nat] /\ lfOnly \in [LfAccounts -> Nat]
  /\ pc \in [Runners -> {"idle", "clear", "readSf", "readLf", "write"}]
  /\ seen \in [Runners -> SUBSET Rules]
  /\ sf \in [Runners -> SUBSET SfAccounts] /\ lf \in [Runners -> SUBSET LfAccounts]
  /\ mine \in [Runners -> SUBSET Pairs]
  /\ keptSf \in [Runners -> SUBSET SfAccounts] /\ keptLf \in [Runners -> SUBSET LfAccounts]
  /\ alone \in [Runners -> BOOLEAN] /\ steady \in [Runners -> BOOLEAN]
  /\ cleared \in Runners \cup {None}

Init ==
  /\ accounts = {} /\ lf_accounts = {}
  /\ rules = {} /\ created = 0
  /\ score \in Scores /\ rescored = 0
  /\ matched = {}
  /\ sfinOnly = [s \in SfAccounts |-> 0] /\ lfOnly = [l \in LfAccounts |-> 0]
  /\ pc = [r \in Runners |-> "idle"]
  /\ seen = [r \in Runners |-> {}]
  /\ sf = [r \in Runners |-> {}] /\ lf = [r \in Runners |-> {}]
  /\ mine = [r \in Runners |-> {}]
  /\ keptSf = [r \in Runners |-> {}] /\ keptLf = [r \in Runners |-> {}]
  /\ alone = [r \in Runners |-> FALSE] /\ steady = [r \in Runners |-> FALSE]
  /\ cleared = None

-----------------------------------------------------------------------------
(* What the rules say *)

(* forced_matches is a map: of two rules for one SimpleFIN account, the    *)
(* one with the greater id stays.                                          *)
Forced(R) ==
  LET matches == {x \in R : x.action = "match"}
  IN  {<<x.sf, x.lf>> : x \in {y \in matches : \A z \in matches : z.sf = y.sf => z.id <= y.id}}

Excludes(R) == {x \in R : x.action = "exclude"}
KeepSf(R)   == {x.sf : x \in {y \in Excludes(R) : y.lf = None}}
KeepLf(R)   == {x.lf : x \in {y \in Excludes(R) : y.sf = None}}
KeepApart(R) == {<<x.sf, x.lf>> : x \in Excludes(R)}

SfOf(P) == {p[1] : p \in P}
LfOf(P) == {p[2] : p \in P}

-----------------------------------------------------------------------------
(* A run *)

Active(r) == pc[r] # "idle"
Goto(r, label) == pc' = [pc EXCEPT ![r] = label]

(* A run knows the rules it has read and has written nothing; R of an idle *)
(* one is {}.                                                              *)
Knows(r, R) ==
  /\ seen' = [seen EXCEPT ![r] = R]
  /\ sf' = [sf EXCEPT ![r] = {}] /\ lf' = [lf EXCEPT ![r] = {}]
  /\ mine' = [mine EXCEPT ![r] = {}]
  /\ keptSf' = [keptSf EXCEPT ![r] = {}] /\ keptLf' = [keptLf EXCEPT ![r] = {}]

Begin(r) ==
  /\ pc[r] = "idle"
  /\ Goto(r, "clear")
  /\ Knows(r, rules)
  /\ alone' = [q \in Runners |-> q = r /\ \A o \in Runners \ {r} : ~Active(o)]
  /\ steady' = [steady EXCEPT ![r] = TRUE]
  /\ UNCHANGED <<source, table>>

Empty(r, rest) ==
  /\ pc[r] = "clear"
  /\ Goto(r, "readSf")
  /\ matched' = rest
  /\ sfinOnly' = [s \in SfAccounts |-> 0]
  /\ lfOnly' = [l \in LfAccounts |-> 0]
  /\ cleared' = r
  /\ UNCHANGED <<source, read, wrote, alone, steady>>

ClearAlone(r) == Empty(r, matched)  \* mutant: rows of matched accounts stay
Clear(r) == Empty(r, {})

ReadSf(r) ==
  /\ pc[r] = "readSf"
  /\ Goto(r, "readLf")
  /\ sf' = [sf EXCEPT ![r] = accounts]
  /\ UNCHANGED <<source, table, seen, lf, wrote, alone, steady>>

ReadLf(r) ==
  /\ pc[r] = "readLf"
  /\ Goto(r, "write")
  /\ lf' = [lf EXCEPT ![r] = lf_accounts]
  /\ UNCHANGED <<source, table, seen, sf, wrote, alone, steady>>

(* upsert_reconciled_account of a pair, of a SimpleFIN or a LunchFlow      *)
(* account alone.                                                          *)
WriteMatch(r, p) ==
  /\ matched' = matched \cup {p}
  /\ mine' = [mine EXCEPT ![r] = @ \cup {p}]
  /\ UNCHANGED <<sfinOnly, lfOnly, cleared, keptSf, keptLf>>

WriteSfOnly(r, s) ==
  /\ sfinOnly' = [sfinOnly EXCEPT ![s] = @ + 1]
  /\ keptSf' = [keptSf EXCEPT ![r] = @ \cup {s}]
  /\ UNCHANGED <<matched, lfOnly, cleared, mine, keptLf>>

WriteLfOnly(r, l) ==
  /\ lfOnly' = [lfOnly EXCEPT ![l] = @ + 1]
  /\ keptLf' = [keptLf EXCEPT ![r] = @ \cup {l}]
  /\ UNCHANGED <<matched, sfinOnly, cleared, mine, keptSf>>

(* The forced matches whose accounts exist, in no particular order.        *)
ForcedAnyway(r) == Forced(seen[r])  \* mutant: written whether the accounts exist or not
ForcedIfClose(r) ==  \* mutant: written only if the scores agree
  {p \in Forced(seen[r]) : p[1] \in sf[r] /\ p[2] \in lf[r] /\ score[p] >= Threshold}
ForcedHere(r) == {p \in Forced(seen[r]) : p[1] \in sf[r] /\ p[2] \in lf[r]}

ApplyRule(r) ==
  /\ pc[r] = "write"
  /\ \E p \in ForcedHere(r) \ mine[r] : WriteMatch(r, p)
  /\ UNCHANGED <<source, pc, read, alone, steady>>

(* The next LunchFlow account the loop does not skip.                      *)
ToMatch(r) == lf[r] \ (LfOf(mine[r]) \cup keptLf[r])
NextLf(r, l) ==
  /\ pc[r] = "write"
  /\ ForcedHere(r) \subseteq mine[r]
  /\ l \in ToMatch(r) /\ \A k \in ToMatch(r) : l <= k

AnyCandidate(r, l) == sf[r] \ (SfOf(mine[r]) \cup KeepSf(seen[r]))  \* mutant: no excluded pairs
Candidates(r, l) ==
  {s \in sf[r] \ (SfOf(mine[r]) \cup KeepSf(seen[r])) : <<s, l>> \notin KeepApart(seen[r])}

(* Accounts of equal score are taken in the order of an unordered SELECT.  *)
CloseAbove(r, l) == {s \in Candidates(r, l) : score[<<s, l>>] > Threshold}  \* mutant: > for >=
Close(r, l) == {s \in Candidates(r, l) : score[<<s, l>>] >= Threshold}
Best(r, l) == {s \in Close(r, l) : \A t \in Close(r, l) : score[<<t, l>>] <= score[<<s, l>>]}

AutoMatch(r) ==
  /\ \E l \in LfAccounts :
       /\ NextLf(r, l)
       /\ l \notin KeepLf(seen[r])
       /\ \E s \in Best(r, l) : WriteMatch(r, <<s, l>>)
  /\ UNCHANGED <<source, pc, read, alone, steady>>

LeaveLf(r) ==
  /\ \E l \in LfAccounts :
       /\ NextLf(r, l)
       /\ l \in KeepLf(seen[r]) \/ Close(r, l) = {}
       /\ WriteLfOnly(r, l)
  /\ UNCHANGED <<source, pc, read, alone, steady>>

AllMatched(r) == ForcedHere(r) \subseteq mine[r] /\ ToMatch(r) = {}
SkipExcluded(r) ==  \* mutant: an account to be kept alone gets no row
  sf[r] \ (SfOf(mine[r]) \cup keptSf[r] \cup KeepSf(seen[r]))
ToKeep(r) == sf[r] \ (SfOf(mine[r]) \cup keptSf[r])

LeaveSf(r) ==
  /\ pc[r] = "write"
  /\ AllMatched(r)
  /\ \E s \in ToKeep(r) : WriteSfOnly(r, s)
  /\ UNCHANGED <<source, pc, read, alone, steady>>

Written(r) == pc[r] = "write" /\ AllMatched(r) /\ ToKeep(r) = {}

Stop(r) ==
  /\ Goto(r, "idle")
  /\ Knows(r, {})
  /\ alone' = [alone EXCEPT ![r] = FALSE]
  /\ steady' = [steady EXCEPT ![r] = FALSE]
  /\ UNCHANGED <<source, table>>

(* Phase 2, the transactions of each pair, is left out (see Reconciler): a *)
(* run is over once phase 1 is.                                            *)
Finish(r) == Written(r) /\ Stop(r)

(* A statement fails and `?' ends the run, or the request is dropped.      *)
Abort(r) == Active(r) /\ ~Written(r) /\ Stop(r)

-----------------------------------------------------------------------------
(* Beside the runs *)

(* The fetchers add accounts, and never remove one. *)
AddAccount ==
  /\ \/ \E s \in SfAccounts \ accounts : accounts' = accounts \cup {s} /\ UNCHANGED lf_accounts
     \/ \E l \in LfAccounts \ lf_accounts : lf_accounts' = lf_accounts \cup {l} /\ UNCHANGED accounts
  /\ UNCHANGED <<rules, created, score, rescored, table, pc, read, wrote, alone, steady>>

(* create_reconciliation_rule: the two checks, then UNIQUE of the table.   *)
Unchecked(x) == x.sf # None \/ x.lf # None  \* mutant: a match may name one account
Creatable(x) ==
  /\ x.sf # None \/ x.lf # None
  /\ x.action = "match" => x.sf # None /\ x.lf # None
  /\ x.sf # None /\ x.lf # None => \A y \in rules : y.sf # x.sf \/ y.lf # x.lf

CreateRule ==
  /\ created < MaxRules
  /\ created' = created + 1
  /\ \E x \in Requests : x.id = created + 1 /\ Creatable(x) /\ rules' = rules \cup {x}
  /\ UNCHANGED <<accounts, lf_accounts, score, rescored, table, pc, read, wrote, alone, steady>>

DeleteRule ==
  /\ \E x \in rules : rules' = rules \ {x}
  /\ UNCHANGED <<accounts, lf_accounts, created, score, rescored,
                 table, pc, read, wrote, alone, steady>>

Rescore ==
  /\ rescored < MaxRescores
  /\ rescored' = rescored + 1
  /\ score' \in Scores
  /\ steady' = [r \in Runners |-> FALSE]
  /\ UNCHANGED <<accounts, lf_accounts, rules, created, table, pc, read, wrote, alone>>

Run(r) ==
  \/ Clear(r) \/ ReadSf(r) \/ ReadLf(r)
  \/ ApplyRule(r) \/ AutoMatch(r) \/ LeaveLf(r) \/ LeaveSf(r) \/ Finish(r)

Next ==
  \/ \E r \in Runners : Begin(r) \/ Run(r) \/ Abort(r)
  \/ AddAccount \/ CreateRule \/ DeleteRule \/ Rescore

Spec == Init /\ [][Next]_vars

-----------------------------------------------------------------------------
(* Properties *)

(* A run that has written all it had to, with no other run beside it.      *)
Completed(r) == Written(r) /\ alone[r]

(* What the rules it has read force, of the accounts it has read. *)
Claims(r) == Forced(seen[r]) \cap (sf[r] \X lf[r])

(* Of `ids', those in `pairs' have no row alone and the others have one.   *)
Covers(ids, pairs, rows) ==
  /\ pairs \subseteq ids
  /\ \A a \in DOMAIN rows : rows[a] = IF a \in ids \ pairs THEN 1 ELSE 0

(* The table then has every account it read exactly once, and no other,    *)
(* whatever earlier runs left behind, except a LunchFlow account that      *)
(* several rules claim.                                                    *)
EachOnce ==
  \A r \in Runners : Completed(r) =>
    /\ Covers(sf[r], SfOf(matched), sfinOnly)
    /\ Covers(lf[r], LfOf(matched), lfOnly)
    /\ \A p, q \in matched :
         p # q => p[1] # q[1] /\ (p[2] # q[2] \/ {p, q} \subseteq Claims(r))

(* And it obeys the rules it read (0005_user_reconciliation.sql:4-8): what *)
(* is forced is matched, what is kept apart is not, and an account that is *)
(* to be kept alone is matched only where it is forced.                    *)
RulesObeyed ==
  \A r \in Runners : Completed(r) =>
    LET free == matched \ Claims(r)
    IN  /\ Claims(r) \subseteq matched
        /\ free \cap KeepApart(seen[r]) = {}
        /\ SfOf(free) \cap KeepSf(seen[r]) = {}
        /\ LfOf(free) \cap KeepLf(seen[r]) = {}

(* If the scores did not change meanwhile, no two accounts that the rules  *)
(* allow together are left alone with a score above the threshold.         *)
NoMissedMatch ==
  \A r \in Runners : Completed(r) /\ steady[r] =>
    \A s \in sf[r], l \in lf[r] :
      /\ sfinOnly[s] > 0 /\ lfOnly[l] > 0
      /\ s \notin KeepSf(seen[r]) /\ l \notin KeepLf(seen[r])
      /\ <<s, l>> \notin KeepApart(seen[r])
      => score[<<s, l>>] < Threshold

(* Every row is of accounts that exist, at every moment and for every run: *)
(* the foreign keys never refuse a statement.                              *)
ForeignKeys ==
  /\ matched \subseteq accounts \X lf_accounts
  /\ \A s \in SfAccounts \ accounts : sfinOnly[s] = 0
  /\ \A l \in LfAccounts \ lf_accounts : lfOnly[l] = 0

(* Runs that overlap may write an account twice, but lose none: when a run *)
(* has written all and no other has emptied the table since it did, every  *)
(* account it read has a row and every match it was told to force is one.  *)
NobodyLost ==
  \A r \in Runners : Written(r) /\ cleared = r =>
    /\ \A s \in sf[r] : s \in SfOf(matched) \/ sfinOnly[s] > 0
    /\ \A l \in lf[r] : l \in LfOf(matched) \/ lfOnly[l] > 0
    /\ Claims(r) \subseteq matched

(* A match rule takes effect, whatever runs overlap, if runs are not       *)
(* stopped forever: the poll after it, if no other, matches its accounts,  *)
(* unless the rule is deleted or a newer one replaces it.                  *)
RulesTakeEffect ==
  <>[][\A r \in Runners : ~Abort(r)]_vars =>
    \A p \in Pairs :
      (p \in Forced(rules) /\ p[1] \in accounts /\ p[2] \in lf_accounts)
        ~> (p \in matched \/ p \notin Forced(rules))
=============================================================================
