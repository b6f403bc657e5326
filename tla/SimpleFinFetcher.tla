-------------------------- MODULE SimpleFinFetcher --------------------------
(***************************************************************************)
(* src/src/simplefin/fetcher.rs: the task that claims the access URL and   *)
(* then runs the polling loop with SimpleFIN's do_fetch.  FetcherLoop's    *)
(* contract of do_fetch is replaced by the code: the range is cut into     *)
(* windows, each window is one request, and its answer is written account  *)
(* by account before the cache is replaced.                                *)
(*                                                                         *)
(* The bridge is external: it accepts a setup token once, for a URL that   *)
(* from_access_url may not be able to parse, and answers with the accounts *)
(* connected to it, all of them unless `PartialAnswers'.                   *)
(***************************************************************************)
EXTENDS FetcherLoop, FiniteSets

CONSTANTS
  Accounts,
  Home,            \* the account of the transaction watched; always connected
  MaxWindow,       \* MAX_WINDOW_SECS
  PartialAnswers,  \* may an answer carry `errors' in place of accounts?
  MaxChanges       \* bound on the changes to what is connected

ASSUME AccountAssumption ==
  /\ Home \in Accounts
  /\ None \notin Accounts
  /\ MaxWindow \in Nat \ {0}
  /\ PartialAnswers \in BOOLEAN
  /\ MaxChanges \in Nat
ASSUME SimpleFinAssumption == HasNextStart

VARIABLES
  task,       \* what run() is doing; "off" while the process is not running
  consumed,   \* has the bridge accepted the setup token?
  access_url, \* is the row access_url in config?
  parses,     \* can the bridge's URL be parsed?
  upstream,   \* the accounts connected to the bridge
  changes,
  cursor,     \* start of the next window of the range
  step,       \* "ask" for a window, or "write" the answer to one
  answer,     \* the accounts of that answer
  todo,       \* those not yet written
  current,    \* the account whose transactions are being written, or None
  carried,    \* does the answer carry the transaction?
  accounts,   \* the ids in the accounts table
  cached      \* the ids in CacheState.accounts

link   == <<task, consumed, access_url>>
bridge == <<parses, upstream, changes>>
window == <<cursor, step, answer, todo, current, carried>>
sfvars == <<vars, link, bridge, window, accounts, cached>>

SfTypeOK ==
  /\ TypeOK
  /\ task \in {"off", "resolve", "claim", "save", "loop", "dead"}
  /\ consumed \in BOOLEAN /\ access_url \in BOOLEAN
  /\ parses \in BOOLEAN
  /\ upstream \subseteq Accounts /\ Home \in upstream
  /\ changes \in 0 .. MaxChanges
  /\ cursor \in Int
  /\ step \in {"ask", "write"}
  /\ answer \subseteq Accounts /\ todo \subseteq answer
  /\ current = None \/ current \in answer
  /\ carried \in BOOLEAN
  /\ accounts \subseteq Accounts
  /\ cached \subseteq Accounts

(* The locals of fetch_range and fetch_window are gone. *)
NoWindow ==
  /\ cursor' = 0 /\ step' = "ask"
  /\ answer' = {} /\ todo' = {} /\ current' = None /\ carried' = FALSE

SfInit ==
  /\ Init
  /\ task = "off" /\ consumed = FALSE /\ access_url = FALSE
  /\ parses \in BOOLEAN
  /\ upstream \in {s \in SUBSET Accounts : Home \in s}
  /\ changes = 0
  /\ cursor = 0 /\ step = "ask"
  /\ answer = {} /\ todo = {} /\ current = None /\ carried = FALSE
  /\ accounts = {} /\ cached = {}

-----------------------------------------------------------------------------
(* run and resolve_access_url *)

(* main: the setup token stays in the environment, so every start of the   *)
(* process spawns the task.                                                *)
Boot ==
  /\ task = "off"
  /\ task' = "resolve"
  /\ UNCHANGED <<vars, consumed, access_url, bridge, window, accounts, cached>>

(* SimpleFINClient::from_access_url. *)
Connect == IF parses THEN "loop" ELSE "dead"

Lookup(found) ==
  /\ task = "resolve"
  /\ \/ task' = IF found THEN Connect ELSE "claim"
     \/ "read" \in Faults /\ task' = "dead"
  /\ UNCHANGED <<vars, consumed, access_url, bridge, window, accounts, cached>>

AlwaysClaim == Lookup(FALSE)  \* mutant: the token is preferred to the saved URL

ReadUrl == Lookup(access_url)

(* The bridge accepts a token once, and its answer may be lost.            *)
Claim ==
  /\ task = "claim"
  /\ \/ ~consumed /\ consumed' = TRUE /\ task' \in {"save", "dead"}
     \/ UNCHANGED consumed /\ task' = "dead"
  /\ UNCHANGED <<vars, access_url, bridge, window, accounts, cached>>

Save(unsaved) ==
  /\ task = "save"
  /\ \/ access_url' = TRUE /\ task' = Connect
     \/ "write" \in Faults /\ task' = unsaved /\ UNCHANGED access_url
  /\ UNCHANGED <<vars, consumed, bridge, window, accounts, cached>>

SaveOrWarn == Save("loop")  \* mutant: a failed write is only logged, as in run_loop

SaveUrl == Save("dead")

(* run_loop begins with on_startup, which loads the accounts table.        *)
SfStart ==
  /\ task = "loop"
  /\ Start
  /\ \/ cached' = accounts
     \/ "read" \in Faults /\ UNCHANGED cached
  /\ UNCHANGED <<link, bridge, window, accounts>>

-----------------------------------------------------------------------------
(* do_fetch: fetch_range and fetch_window *)

SfBeginCycle ==
  /\ BeginCycle
  /\ cursor' = from_ts
  /\ UNCHANGED <<link, bridge, step, answer, todo, current, carried, accounts, cached>>

(* batch_windows: the window that starts at the cursor.                    *)
WindowEnd == IF cursor + MaxWindow < now THEN cursor + MaxWindow ELSE now

Request(cache) ==
  /\ pc = "fetching" /\ step = "ask" /\ cursor < now
  /\ answer' \in {s \in SUBSET upstream : PartialAnswers \/ s = upstream}
  /\ todo' = answer'
  /\ carried' = (/\ Home \in answer'
                 /\ cursor <= txn.posted /\ txn.posted < WindowEnd
                 /\ txn.visible <= clock)
  /\ step' = "write"
  /\ cached' = cache
  /\ UNCHANGED <<vars, link, bridge, cursor, current, accounts>>

AskAndCache == Request(answer')  \* mutant: the cache is replaced before the writes

Ask == Request(cached)

UpsertAccount ==
  /\ step = "write" /\ current = None
  /\ \E a \in todo :
       /\ accounts' = accounts \cup {a}
       /\ todo' = todo \ {a}
       /\ current' = a
  /\ UNCHANGED <<vars, link, bridge, cursor, step, answer, carried, cached>>

UpsertTransactions ==
  /\ step = "write" /\ current # None
  /\ stored' = (stored \/ (current = Home /\ carried))
  /\ current' = None
  /\ UNCHANGED <<pc, clock, memory, config, txn, history, link, bridge,
                 cursor, step, answer, todo, carried, accounts, cached>>

(* The cache is replaced by the answer once all of it is written.          *)
CloseAt(end) ==
  /\ step = "write" /\ current = None /\ todo = {}
  /\ cached' = answer
  /\ cursor' = end
  /\ step' = "ask" /\ answer' = {} /\ carried' = FALSE
  /\ UNCHANGED <<vars, link, bridge, todo, current, accounts>>

CloseInclusive == CloseAt(WindowEnd + 1)  \* mutant: as if window ends were inclusive

CloseWindow == CloseAt(WindowEnd)

(* All windows are done; there may have been none.                         *)
SfFetchOk ==
  /\ step = "ask" /\ cursor >= now
  /\ Succeed
  /\ NoWindow
  /\ UNCHANGED <<link, bridge, accounts, cached>>

(* A request fails, or a write of an answer: the windows that remain are   *)
(* given up, and what was written stays.                                   *)
SfFetchErr ==
  /\ step = "ask" => cursor < now
  /\ step = "write" => "write" \in Faults /\ (current # None \/ todo # {})
  /\ FetchErr
  /\ NoWindow
  /\ UNCHANGED <<link, bridge, accounts, cached>>

-----------------------------------------------------------------------------

SfLoopStep ==
  \/ /\ LoadLastFetched \/ LoadFromTs \/ WaitRemainder
        \/ PersistLastFetched \/ PersistNextStart \/ PostFetch
     /\ UNCHANGED <<link, bridge, window, accounts, cached>>
  \/ SfBeginCycle

SfTick == Tick /\ UNCHANGED <<link, bridge, window, accounts, cached>>

(* Someone connects or disconnects an account.                             *)
Reconnect ==
  /\ changes < MaxChanges
  /\ changes' = changes + 1
  /\ \E a \in Accounts \ {Home} :
       upstream' = IF a \in upstream THEN upstream \ {a} ELSE upstream \cup {a}
  /\ UNCHANGED <<vars, link, parses, window, accounts, cached>>

SfCrash ==
  /\ task # "off"
  /\ task' = "off"
  /\ IF pc = "down" THEN UNCHANGED vars ELSE Crash
  /\ NoWindow
  /\ cached' = {}
  /\ UNCHANGED <<consumed, access_url, bridge, accounts>>

Resolve == ReadUrl \/ Claim \/ SaveUrl \/ SfStart
Write   == UpsertAccount \/ UpsertTransactions \/ CloseWindow

SfNext ==
  \/ Boot \/ Resolve \/ SfLoopStep
  \/ Ask \/ Write \/ SfFetchOk \/ SfFetchErr
  \/ SfTick \/ Reconnect \/ SfCrash

SfSpec == SfInit /\ [][SfNext]_sfvars

(* The executor runs the task's own steps, and time passes.  Nothing is    *)
(* assumed of the bridge.                                                  *)
SfFairSpec ==
  SfSpec /\ WF_sfvars(Resolve) /\ WF_sfvars(SfLoopStep) /\ WF_sfvars(SfTick)

-----------------------------------------------------------------------------
(* Properties *)

(* The windows keep the contract of do_fetch, so all that holds of the     *)
(* polling loop holds of SimpleFIN's.                                      *)
ImplementsLoop == Spec

(* state.accounts (fetcher.rs:126-132, load_accounts) never names an       *)
(* account the database does not have: list_accounts looks each of them up.*)
CacheBacked == cached \subseteq accounts

(* A saved access URL, if it can be parsed, leads to a poll at every start *)
(* of the process, or the process is stopped first.                        *)
LinkedPolls ==
  (task # "off" /\ access_url /\ parses)
    ~> (pc = "fetching" \/ task = "off" \/ (pc = "asleep" /\ wakeAt > MaxClock))

(* resolve_access_url persists the URL before it is used: a loop that runs *)
(* can be restarted, although its token is spent.                          *)
LoopsOnceSaved == pc # "down" => access_url /\ task = "loop"

(* 0001_init.sql:1, "so a setup token is only consumed once".              *)
TokenConsumedOnce == task = "claim" => ~consumed
=============================================================================
