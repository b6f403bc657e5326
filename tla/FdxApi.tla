------------------------------- MODULE FdxApi --------------------------------
(***************************************************************************)
(* The accounts of the API: list_accounts and get_account of               *)
(* src/src/fdx/routes.rs, with the cache of SimpleFIN accounts, the name   *)
(* preferences and restarts, beside runs of the account reconciler         *)
(* (AccountReconciler).                                                    *)
(*                                                                         *)
(* A list is put together from the cache, read-locked for as long as it    *)
(* takes, and three queries; get_account sends one, so its answer is an    *)
(* operator on the state.  Both providers are configured.  Of an account   *)
(* the answers hold its id, its links and whose name it bears; balances    *)
(* and currencies are left out.                                            *)
(***************************************************************************)
EXTENDS AccountReconciler

VARIABLES
  cache,                       \* CacheState.accounts
  polled,                      \* last_fetched or lf_last_fetched is set
  prefers,                     \* the accounts to be shown with their LunchFlow name
  lister,                      \* the query a list is at
  listed, listedLf, listedPairs, \* its SIMPLEFIN- and LUNCHFLOW- accounts, the pairs read
  recs,                        \* its REC- accounts
  calm,                        \* history: none failed, and nothing they read has changed
  authors                      \* history: the runs that wrote since the table was last emptied

list  == <<lister, listed, listedLf, listedPairs, recs>>
shown == <<cache, polled, prefers>>
avars == <<vars, shown, list, calm, authors>>

Rec(s, l, name) == [id |-> s, lf |-> l, name |-> name]
RecAccounts == [id : SfAccounts, lf : LfAccounts \cup {None}, name : {"simplefin", "lunchflow"}]

ApiTypeOK ==
  /\ cache \subseteq accounts /\ prefers \subseteq SfAccounts /\ polled \in BOOLEAN
  /\ lister \in {"idle", "lf", "pairs", "prefs", "answer"}
  /\ listed \subseteq SfAccounts /\ listedLf \subseteq lf_accounts
  /\ listedPairs \subseteq Pairs /\ recs \subseteq RecAccounts
  /\ calm \in BOOLEAN
  /\ authors \subseteq Runners

NoList ==
  /\ lister = "idle" /\ listed = {} /\ listedLf = {} /\ listedPairs = {} /\ recs = {}

ApiInit ==
  /\ Init
  /\ cache = {} /\ polled = FALSE /\ prefers = {}
  /\ NoList /\ calm = FALSE /\ authors = {}

-----------------------------------------------------------------------------
(* Answers of one query or none *)

(* check_ready *)
Ready == polled \/ cache # {}

(* The status of a SIMPLEFIN- or a REC- account: of itself, of its         *)
(* transactions or its holdings; of a LUNCHFLOW- account.                  *)
StatusSf(s) == IF ~Ready THEN 503 ELSE IF s \in cache THEN 200 ELSE 404
StatusLf(l) == IF l \in lf_accounts THEN 200 ELSE 404

(* get_account of a REC- account in the cache.  LIMIT 1 without an order:  *)
(* one of these.                                                           *)
PartnersOf(s) == LfOf({p \in matched : p[1] = s})
OwnName(s) == {Rec(s, l, "simplefin") : l \in PartnersOf(s)}  \* mutant: without the join of names
MatchedAs(s) ==
  {Rec(s, l, IF s \in prefers /\ l \in lf_accounts THEN "lunchflow" ELSE "simplefin") :
     l \in PartnersOf(s)}
Get(s) == IF PartnersOf(s) = {} THEN {Rec(s, None, "simplefin")} ELSE MatchedAs(s)

-----------------------------------------------------------------------------
(* list_accounts *)

ListBegin ==
  /\ lister = "idle" /\ Ready
  /\ lister' = "lf"
  /\ listed' = cache
  /\ calm' = TRUE
  /\ UNCHANGED <<vars, shown, listedLf, listedPairs, recs, authors>>

(* A query that fails counts as one that finds nothing.                    *)
ListLf ==
  /\ lister = "lf"
  /\ lister' = "pairs"
  /\ \/ listedLf' = lf_accounts /\ UNCHANGED calm
     \/ listedLf' = {} /\ calm' = FALSE
  /\ UNCHANGED <<vars, shown, listed, listedPairs, recs, authors>>

ListPairs ==
  /\ lister = "pairs"
  /\ lister' = "prefs"
  /\ \/ listedPairs' = matched /\ UNCHANGED calm
     \/ listedPairs' = {} /\ calm' = FALSE
  /\ UNCHANGED <<vars, shown, listed, listedLf, recs, authors>>

RecsFor(preferring) ==
  {Rec(p[1], p[2], IF p[1] \in preferring /\ p[2] \in listedLf THEN "lunchflow" ELSE "simplefin") :
     p \in {q \in listedPairs : q[1] \in cache}}

ListPrefs ==
  /\ lister = "prefs"
  /\ lister' = "answer"
  /\ \/ recs' = RecsFor(prefers) /\ UNCHANGED calm
     \/ recs' = RecsFor({}) /\ calm' = FALSE
  /\ listedPairs' = {}
  /\ UNCHANGED <<vars, shown, listed, listedLf, authors>>

(* The list is sent, or given up at any query.                             *)
ListEnd ==
  /\ lister # "idle"
  /\ lister' = "idle" /\ listed' = {} /\ listedLf' = {} /\ listedPairs' = {} /\ recs' = {}
  /\ calm' = FALSE
  /\ UNCHANGED <<vars, shown, authors>>

-----------------------------------------------------------------------------
(* Beside it *)

(* Accounts loaded at startup, and the answer to each request of the       *)
(* SimpleFIN fetcher, whose accounts have been written before.  The lock   *)
(* is held by a list.                                                      *)
ReplaceAnytime ==  \* mutant: the list lets go of the lock before its queries
  /\ \E C \in SUBSET accounts : cache' = C
  /\ calm' = FALSE
  /\ UNCHANGED <<vars, polled, prefers, list, authors>>
ReplaceFirst ==  \* mutant: the cache is replaced before the accounts are written
  /\ lister = "idle"
  /\ \E C \in SUBSET SfAccounts : cache' = C
  /\ UNCHANGED <<vars, polled, prefers, list, calm, authors>>
ReplaceCache ==
  /\ lister = "idle"
  /\ \E C \in SUBSET accounts : cache' = C
  /\ UNCHANGED <<vars, polled, prefers, list, calm, authors>>

(* A provider's poll is over, or that of an earlier process is restored.   *)
SetPolled ==
  /\ lister = "idle"
  /\ polled' = TRUE
  /\ UNCHANGED <<vars, cache, prefers, list, calm, authors>>

(* Nothing but the tables outlives the process; its runs and its list have *)
(* been stopped where they were.                                           *)
Restart ==
  /\ \A r \in Runners : ~Active(r)
  /\ lister = "idle"
  /\ cache' = {} /\ polled' = FALSE
  /\ UNCHANGED <<vars, prefers, list, calm, authors>>

(* set_name_preference, for an account that may not exist.                 *)
SetPreference ==
  /\ \E s \in SfAccounts : prefers' \in {prefers \cup {s}, prefers \ {s}}
  /\ calm' = FALSE
  /\ UNCHANGED <<vars, cache, polled, list, authors>>

Write(r) == ApplyRule(r) \/ AutoMatch(r) \/ LeaveLf(r) \/ LeaveSf(r)

Reconcile(r) ==
  /\ \/ Clear(r) /\ authors' = {} /\ calm' = FALSE
     \/ Write(r) /\ authors' = authors \cup {r} /\ calm' = FALSE
     \/ (Begin(r) \/ ReadSf(r) \/ ReadLf(r) \/ Finish(r) \/ Abort(r)) /\ UNCHANGED <<calm, authors>>
  /\ UNCHANGED <<shown, list>>

Tables ==
  /\ AddAccount \/ CreateRule \/ DeleteRule \/ Rescore
  /\ calm' = (calm /\ UNCHANGED lf_accounts)
  /\ UNCHANGED <<shown, list, authors>>

ApiNext ==
  \/ ListBegin \/ ListLf \/ ListPairs \/ ListPrefs \/ ListEnd
  \/ ReplaceCache \/ SetPolled \/ Restart \/ SetPreference
  \/ \E r \in Runners : Reconcile(r)
  \/ Tables

ApiSpec == ApiInit /\ [][ApiNext]_avars

-----------------------------------------------------------------------------
(* Properties *)

(* Every account a list names is there for the other handlers when the     *)
(* list is sent, and so are those its REC- accounts link to, whatever runs *)
(* and fetches did between its queries.                                    *)
LinksResolve ==
  lister = "answer" =>
    /\ \A s \in listed : StatusSf(s) = 200
    /\ \A l \in listedLf : StatusLf(l) = 200
    /\ \A e \in recs : e.id \in listed /\ StatusLf(e.lf) = 200

(* If no query failed and nothing changed meanwhile, a list has for each   *)
(* SimpleFIN account what get_account may say of its REC- account, which   *)
(* without a match is one with no links that the list leaves out.          *)
ListAgreesWithGet ==
  lister = "answer" /\ calm =>
    \A s \in SfAccounts :
      {e \in recs : e.id = s} = IF s \in cache THEN Get(s) \ {Rec(s, None, "simplefin")} ELSE {}

(* The pairs a list may read, also in the middle of a run, give no id      *)
(* twice: unless two runs have written to the table.                       *)
IdsUnique ==
  (\E r \in Runners : authors \subseteq {r}) =>
    \A p, q \in matched : p[1] = q[1] => p = q
=============================================================================
