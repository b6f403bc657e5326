---------------------------- MODULE FetcherLoop ----------------------------
(***************************************************************************)
(* run_loop of src/src/fetcher_loop.rs: the polling loop both fetchers     *)
(* share, over one process that may crash and be restarted at any await.   *)
(*                                                                         *)
(* do_fetch is modelled here by its contract only: it covers the half-open *)
(* range [from_ts, now) at least, and one arbitrary transaction, `txn',    *)
(* shows what that means for the data.  The transaction is posted at one time and     *)
(* shown by the provider from a later one; nothing distinguishes it from   *)
(* any other, so what holds of it holds of all.  SimpleFinFetcher and      *)
(* LunchFlowFetcher replace the contract by the code of the providers.     *)
(*                                                                         *)
(* Times are integers.  `Overlap' stands for the 86 400 s of the code,     *)
(* `DaysBack' for start_date_days_back * 86 400, `Interval' for            *)
(* fetch_interval_secs.  The wall clock never steps back.                  *)
(***************************************************************************)
EXTENDS Integers

CONSTANTS
  None,          \* an absent Option
  HasNextStart,  \* does next_start_db_key() name a key?
  Overlap,
  Interval,
  DaysBack,
  Lateness,      \* longest delay between posting a transaction and showing it
  Faults,        \* which of the database calls "read" and "write" may fail
  MaxClock       \* bound on the clock

ASSUME NoneAssumption == None \notin Int
ASSUME ModeAssumption == HasNextStart \in BOOLEAN /\ Faults \subseteq {"read", "write"}
ASSUME TimeAssumption ==
  /\ Overlap \in Nat
  /\ Interval \in Nat
  /\ DaysBack \in Nat
  /\ Lateness \in 0 .. Overlap
  /\ MaxClock \in Nat

VARIABLES
  pc,            \* where the task is: "down" while the process is not running
  clock,         \* now_unix()
  last_fetched,  \* the local of run_loop, read once at startup
  from_ts,
  now,
  wakeAt,        \* when the current sleep ends
  state,         \* the provider's two fields of CacheState
  config,        \* the provider's two rows of the config table
  txn,           \* the transaction watched
  stored,        \* is it in the database?
  lastOk,        \* history: `now' of the last successful do_fetch
  since,         \* history: start of the last window that left a gap to the one before
  unread         \* history: rows the startup did not find though they are there;
                 \*   a success makes up for them

memory  == <<last_fetched, from_ts, now, wakeAt, state>>
history == <<lastOk, since, unread>>
vars    == <<pc, clock, memory, config, txn, stored, history>>

Stamp == Int \cup {None}
Undecided == {"down", "loadLast", "loadFrom"}
Label == Undecided \cup
         {"wait", "asleep", "fetching", "persistLast", "persistNext", "post"}

TypeOK ==
  /\ pc \in Label
  /\ clock \in Nat
  /\ last_fetched \in Stamp
  /\ from_ts \in Stamp
  /\ from_ts = None <=> pc \in Undecided
  /\ now \in Nat
  /\ wakeAt \in Nat
  /\ state \in [last_fetched : Stamp, fetch_error : BOOLEAN]
  /\ config \in [last_fetched : Stamp, next_start : Stamp]
  /\ txn \in [posted : Nat, visible : Nat]
  /\ stored \in BOOLEAN
  /\ lastOk \in Stamp
  /\ since \in Stamp
  /\ unread \subseteq {"last_fetched", "next_start"}

Init ==
  /\ pc = "down"
  /\ clock = 0
  /\ last_fetched = None
  /\ from_ts = None
  /\ now = 0
  /\ wakeAt = 0
  /\ state = [last_fetched |-> None, fetch_error |-> FALSE]
  /\ config = [last_fetched |-> None, next_start |-> None]
  /\ txn \in {t \in [posted : 0 .. MaxClock, visible : 0 .. MaxClock] :
                t.visible \in t.posted .. t.posted + Lateness}
  /\ stored = FALSE
  /\ lastOk = None
  /\ since = None
  /\ unread = {}

-----------------------------------------------------------------------------
(* Startup *)

Start ==
  /\ pc = "down"
  /\ pc' = "loadLast"
  /\ UNCHANGED <<clock, memory, config, txn, stored, history>>

(* get_config(..).await.ok().flatten(): an error reads as an absent row. *)
GetConfig(key) ==
  {config[key]} \cup (IF "read" \in Faults THEN {None} ELSE {})

LoadLastFetched ==
  /\ pc = "loadLast"
  /\ \E ts \in GetConfig("last_fetched") :
       /\ last_fetched' = ts
       /\ state' = IF ts = None THEN state ELSE [state EXCEPT !.last_fetched = ts]
       /\ unread' = IF ts = config.last_fetched THEN {} ELSE {"last_fetched"}
  /\ pc' = "loadFrom"
  /\ UNCHANGED <<clock, from_ts, now, wakeAt, config, txn, stored, lastOk, since>>

NoOverlap(ts) == ts  \* mutant: the windows only touch

(* Where the next window starts after a success at `ts'. *)
NextFrom(ts) == ts - Overlap

(* What the startup code finds to resume from; None if it finds nothing. *)
ResumeMarks ==
  IF HasNextStart
  THEN GetConfig("next_start")
  ELSE {IF last_fetched = None THEN None ELSE NextFrom(last_fetched)}

FirstFrom == clock - DaysBack

(* A window that starts there may reach back over the last one all the     *)
(* same.                                                                   *)
ReachesBack == lastOk # None /\ FirstFrom <= NextFrom(lastOk)

LoadFromTs ==
  /\ pc = "loadFrom"
  /\ \E mark \in ResumeMarks :
       /\ from_ts' = IF mark = None THEN FirstFrom ELSE mark
       /\ since' = IF mark = None /\ ~ReachesBack THEN FirstFrom ELSE since
       /\ unread' = IF HasNextStart /\ mark # config.next_start
                    THEN unread \cup {"next_start"} ELSE unread
  /\ pc' = "wait"
  /\ UNCHANGED <<clock, last_fetched, now, wakeAt, state, config, txn, stored, lastOk>>

NoWait == 0  \* mutant: a restart polls at once

(* What is left of the interval that began at the persisted poll. *)
Remainder ==
  IF last_fetched = None
  THEN 0
  ELSE LET elapsed == IF clock < last_fetched THEN 0 ELSE clock - last_fetched
       IN  IF elapsed < Interval THEN Interval - elapsed ELSE 0

WaitRemainder ==
  /\ pc = "wait"
  /\ wakeAt' = clock + Remainder
  /\ pc' = "asleep"
  /\ UNCHANGED <<clock, last_fetched, from_ts, now, state, config, txn, stored, history>>

-----------------------------------------------------------------------------
(* One cycle *)

ExactWake ==  \* mutant: the wake-up is missed unless it is on the second
  /\ pc = "asleep"
  /\ clock = wakeAt
  /\ now' = clock
  /\ pc' = "fetching"
  /\ UNCHANGED <<clock, last_fetched, from_ts, wakeAt, state, config, txn, stored, history>>

BeginCycle ==
  /\ pc = "asleep"
  /\ clock >= wakeAt
  /\ now' = clock
  /\ pc' = "fetching"
  /\ UNCHANGED <<clock, last_fetched, from_ts, wakeAt, state, config, txn, stored, history>>

InWindow == from_ts <= txn.posted /\ txn.posted < now

(* While do_fetch runs, it writes what the provider shows: LunchFlow's     *)
(* window is in days, and reaches over both ends of the range.             *)
FetchStore ==
  /\ pc = "fetching"
  /\ txn.visible <= clock
  /\ stored' = TRUE
  /\ UNCHANGED <<pc, clock, memory, config, txn, history>>

(* do_fetch may return Ok only after all that was visible at `now' is in. *)
Fetched == InWindow /\ txn.visible <= now => stored

Succeed ==
  /\ pc = "fetching"
  /\ state' = [last_fetched |-> now, fetch_error |-> FALSE]
  /\ from_ts' = NextFrom(now)
  /\ lastOk' = now
  /\ unread' = {}
  /\ pc' = "persistLast"
  /\ UNCHANGED <<clock, last_fetched, now, wakeAt, config, txn, stored, since>>

FetchOk == Succeed /\ Fetched

Sleep ==
  /\ wakeAt' = clock + Interval
  /\ pc' = "asleep"

Fail(from, seen) ==
  /\ pc = "fetching"
  /\ from_ts' = from
  /\ state' = [last_fetched |-> seen, fetch_error |-> TRUE]
  /\ Sleep
  /\ UNCHANGED <<clock, last_fetched, now, config, txn, stored, history>>

FailAndAdvance == Fail(NextFrom(now), state.last_fetched)  \* mutant
FailAndForget  == Fail(None, state.last_fetched)           \* mutant
FailAsPolled   == Fail(from_ts, now)                       \* mutant

(* from_ts is left alone, so the same window is tried again. *)
FetchErr == Fail(from_ts, state.last_fetched)

(* set_config: a failure is logged and otherwise ignored. *)
SetConfig(key, ts) ==
  \/ config' = [config EXCEPT ![key] = ts]
  \/ "write" \in Faults /\ UNCHANGED config

PersistLastFetched ==
  /\ pc = "persistLast"
  /\ SetConfig("last_fetched", now)
  /\ pc' = IF HasNextStart THEN "persistNext" ELSE "post"
  /\ UNCHANGED <<clock, memory, txn, stored, history>>

PersistNext(ts) ==
  /\ pc = "persistNext"
  /\ SetConfig("next_start", ts)
  /\ pc' = "post"
  /\ UNCHANGED <<clock, memory, txn, stored, history>>

PersistNow == PersistNext(now)  \* mutant: saves the end of the window

PersistNextStart == PersistNext(from_ts)

(* post_fetch_success touches nothing of the loop; then the loop sleeps. *)
PostFetch ==
  /\ pc = "post"
  /\ Sleep
  /\ UNCHANGED <<clock, last_fetched, from_ts, now, state, config, txn, stored, history>>

-----------------------------------------------------------------------------
(* The environment *)

(* The process dies at an await: what was in memory is gone. *)
Crash ==
  /\ pc # "down"
  /\ pc' = "down"
  /\ last_fetched' = None
  /\ from_ts' = None
  /\ now' = 0
  /\ wakeAt' = 0
  /\ state' = [last_fetched |-> None, fetch_error |-> FALSE]
  /\ unread' = {}
  /\ UNCHANGED <<clock, config, txn, stored, lastOk, since>>

Tick ==
  /\ clock < MaxClock
  /\ clock' = clock + 1
  /\ UNCHANGED <<pc, memory, config, txn, stored, history>>

LoopStep ==
  \/ LoadLastFetched \/ LoadFromTs \/ WaitRemainder
  \/ BeginCycle
  \/ PersistLastFetched \/ PersistNextStart \/ PostFetch

FetchReturns == FetchOk \/ FetchErr

Next == Start \/ LoopStep \/ FetchStore \/ FetchReturns \/ Crash \/ Tick

Spec == Init /\ [][Next]_vars

(* The executor runs the loop's own steps, and time passes.  Nothing is    *)
(* assumed of a fetch: the provider's client may never return.             *)
FairSpec == Spec /\ WF_vars(LoopStep) /\ WF_vars(Tick)

-----------------------------------------------------------------------------
(* Properties *)

ResumeKey == IF HasNextStart THEN "next_start" ELSE "last_fetched"
ResumeMark == IF HasNextStart THEN config.next_start ELSE config.last_fetched

(* README.md:314, "from 24 hours before the last successful poll": once a  *)
(* process has saved where to resume, no window starts later than that,    *)
(* through crashes, failed fetches, failed writes and any time down.  A    *)
(* process that fails to read it errs until its first success, no longer.  *)
ResumeSafe ==
  ResumeMark # None /\ from_ts # None /\ ResumeKey \notin unread
    => lastOk # None /\ from_ts <= lastOk - Overlap

(* fetcher_loop.rs:154, "late-arriving transactions are not missed": what  *)
(* the provider showed when the last successful cycle began is in the      *)
(* database, if posted no earlier than the last window that began where    *)
(* nothing was to resume from and that did not reach back over the one     *)
(* before it.                                                              *)
NotMissed ==
  /\ lastOk # None
  /\ since # None
  /\ since <= txn.posted
  /\ txn.posted < lastOk
  /\ txn.visible <= lastOk
  => stored

(* GET /health, after startup, is never behind the poll on record, though  *)
(* it may show none until the next success if the record was not read; it  *)
(* is never ahead of the last poll that succeeded; and with no error       *)
(* shown, what a sleeping loop reports is no older than its last attempt.  *)
HealthHonest ==
  /\ pc \notin {"down", "loadLast"} /\ config.last_fetched # None
       => \/ state.last_fetched # None /\ state.last_fetched >= config.last_fetched
          \/ state.last_fetched = None /\ "last_fetched" \in unread
  /\ state.last_fetched # None => lastOk # None /\ state.last_fetched <= lastOk
  /\ pc = "asleep" /\ now > 0 /\ ~state.fetch_error => state.last_fetched = now

(* README.md:57: a restart does not poll again until the interval since    *)
(* the poll on record is over; if that is not read, it polls at once, but  *)
(* only the once, whether or not that poll succeeds.                       *)
RateLimited ==
  [][BeginCycle => \/ config.last_fetched = None \/ clock - config.last_fetched >= Interval
                   \/ "last_fetched" \in unread /\ now = 0]_vars

(* A live loop always polls again, whatever its fetches and writes did.    *)
PollsAgain ==
  pc # "down" ~> (pc \in {"down", "fetching"} \/ (pc = "asleep" /\ wakeAt > MaxClock))

(* The loop keeps the promise of incremental polling.                      *)
Promise == INSTANCE Coverage WITH start <- from_ts, hi <- lastOk, marked <- ResumeMark # None,
                                  overlooked <- ResumeKey \in unread
KeepsPromise == Promise!Spec
=============================================================================
