------------------------------ MODULE Reconciler ------------------------------
(***************************************************************************)
(* reconciler::run of src/src/reconciler/lib.rs, whole: account matching   *)
(* (AccountReconciler), then the transactions of each pair the table holds *)
(* when that is done (TxnReconciler).  Runs overlap in either half: one    *)
(* may read the pairs that another has just emptied, or is still matching. *)
(*                                                                         *)
(* TxnReconciler by itself lets account matching come to any of `Links';   *)
(* T is TxnReconciler over the rows that account matching does write.      *)
(***************************************************************************)
EXTENDS AccountReconciler

CONSTANTS SfTxns, LfTxns, SfOwner, LfOwner, TxnScores, TxnThreshold

ASSUME HalvesAssumption ==
  /\ SfOwner \in [SfTxns -> SfAccounts] /\ LfOwner \in [LfTxns -> LfAccounts]
  /\ TxnThreshold \in Nat \ {0}
  /\ TxnScores \subseteq [SfTxns \X LfTxns -> Nat]
  /\ None \notin Pairs

VARIABLES
  transactions, lf_transactions, txnScore,
  txnMatched, txnSfinOnly, txnLfOnly,  \* reconciled_transactions
  step,                                \* per run, the statement of the second half it is at
  queue, pair, txnSf, txnLf, txnMine, txnKeptSf, txnKeptLf,
  txnAlone, sfDone, lfDone, emptiedSf, emptiedLf

txnSource == <<transactions, lf_transactions, txnScore>>
txnRun    == <<txnMatched, txnSfinOnly, txnLfOnly, queue, pair, txnSf, txnLf, txnMine,
               txnKeptSf, txnKeptLf, sfDone, lfDone, emptiedSf, emptiedLf>>
txnVars   == <<txnSource, txnRun, txnAlone>>
rvars     == <<vars, txnVars, step>>

(* From its DELETE until it reads the pairs a run is, for the second half, *)
(* one that is matching them.                                              *)
Matching(r) == pc[r] \in {"readSf", "readLf", "write"}

T == INSTANCE TxnReconciler WITH
  Links <- SUBSET Pairs, linked <- matched,
  pc <- [r \in Runners |-> IF Matching(r) THEN "link" ELSE step[r]],
  links <- [r \in Runners |-> IF Matching(r) THEN mine[r] ELSE {}],
  Scores <- TxnScores, Threshold <- TxnThreshold, score <- txnScore,
  matched <- txnMatched, sfinOnly <- txnSfinOnly, lfOnly <- txnLfOnly,
  sf <- txnSf, lf <- txnLf, mine <- txnMine, keptSf <- txnKeptSf, keptLf <- txnKeptLf,
  alone <- txnAlone

RInit ==
  /\ Init
  /\ step = [r \in Runners |-> "idle"]
  /\ T!Init

-----------------------------------------------------------------------------
(* A run *)

Start(r) ==
  /\ step[r] = "idle"
  /\ Begin(r)
  /\ UNCHANGED <<txnVars, step>>

EmptyPairs(r) ==
  /\ Clear(r)
  /\ txnAlone' = [q \in Runners |-> q = r /\ \A o \in Runners \ {r} : ~T!Active(o)]
  /\ UNCHANGED <<txnSource, txnRun, step>>

MatchAccounts(r) ==
  /\ ReadSf(r) \/ ReadLf(r) \/ ApplyRule(r) \/ AutoMatch(r) \/ LeaveLf(r) \/ LeaveSf(r)
  /\ UNCHANGED <<txnVars, step>>

(* The first half is over; the second begins with the pairs as they are.   *)
ReadMatched(r) ==
  /\ Finish(r)
  /\ step' = [step EXCEPT ![r] = "next"]
  /\ T!ReadPairs(r)

MatchTxns(r) ==
  /\ UNCHANGED vars
  /\ \E label \in {"idle", "next", "readSf", "readLf", "write"} : step' = [step EXCEPT ![r] = label]
  /\ T!Run(r)

(* A statement of either half fails and `?' ends the run, or the request   *)
(* is dropped.                                                             *)
Break(r) ==
  \/ /\ Active(r) /\ Stop(r) /\ UNCHANGED step
     /\ IF Matching(r) THEN T!Abort(r) ELSE UNCHANGED txnVars
  \/ /\ UNCHANGED vars
     /\ step' = [step EXCEPT ![r] = "idle"]
     /\ T!Abort(r)

-----------------------------------------------------------------------------
(* Beside the runs, the fetchers, which store an account before its        *)
(* transactions, and the rules API.                                        *)
Beside ==
  \/ /\ AddAccount \/ CreateRule \/ DeleteRule \/ Rescore
     /\ UNCHANGED <<txnVars, step>>
  \/ /\ UNCHANGED <<vars, step>>
     /\ T!AddTxn
     /\ \A t \in transactions' : SfOwner[t] \in accounts
     /\ \A t \in lf_transactions' : LfOwner[t] \in lf_accounts

GoOn(r) == EmptyPairs(r) \/ MatchAccounts(r) \/ ReadMatched(r) \/ MatchTxns(r)

RNext == (\E r \in Runners : Start(r) \/ GoOn(r) \/ Break(r)) \/ Beside

RSpec == RInit /\ [][RNext]_rvars

(* A run that is not stopped goes on, and there is always another, since   *)
(* the LunchFlow loop always polls again (FetcherLoop, PollsAgain).        *)
FairSpec ==
  RSpec /\ (\A r \in Runners : WF_rvars(GoOn(r))) /\ WF_rvars(\E r \in Runners : Start(r))

-----------------------------------------------------------------------------
(* Properties.  NobodyLost and RulesTakeEffect of AccountReconciler are    *)
(* checked here too, beside the second half of the runs.                   *)

(* What account matching does to the pairs, statement by statement, is     *)
(* what TxnReconciler takes it to do: what is proved of its Spec holds of  *)
(* whole runs (lib.rs:575-596).                                            *)
HalvesMeet == T!Spec

(* Overlapping runs lose no transaction, also while they are in different  *)
(* halves (see TxnReconciler).                                             *)
NoTxnLost == T!NoTxnLost

(* A LunchFlow transaction does not stay unreconciled (see TxnReconciler), *)
(* whatever rules come and go and whichever runs empty the pairs.          *)
EventuallyReconciled == T!EventuallyReconciled
=============================================================================
