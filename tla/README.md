# ledger-hub in TLA+

ledger-hub polls two providers of financial data, SimpleFIN and LunchFlow,
stores what they show in SQLite, matches the accounts and transactions of one
with those of the other, and serves the result over an FDX API. This directory
holds its TLA+ specifications, the TLC runs that check them on small instances,
and proofs of the main results for every instance.

To check a run: `tlc -config <run>.cfg <module>` (the table of runs names both).
To check the proofs of a module: `tlapm <module>_proofs.tla`.

## 1. The system's parts

| part (`src/src/`) | state | operations | what is hard | what makes it correct |
|---|---|---|---|---|
| polling loop, `fetcher_loop.rs` | locals `from_ts`, `last_fetched`; rows `last_fetched` and `next_start` of `config`; two fields of `CacheState` per provider | startup, wait, cycle, two writes, sleep | crash between any two awaits; writes that fail and are only logged; retries of the same window | windows overlap whatever happens; `/health` is honest; restarts respect the interval; the loop polls again |
| SimpleFIN fetcher, `simplefin/` | row `access_url`; tables `accounts`, `transactions`, `holdings`; `CacheState.accounts` | claim of the setup token, windows of 90 days, request, writes, replacement of the cache | token accepted once; a cycle of several windows that fails in a later one | the windows cover the range; the cache names no account the database lacks |
| LunchFlow fetcher, `lunchflow/` | tables `lf_accounts`, `lf_transactions`, `lf_holdings` | list, then per account balance, transactions, holdings; reconciler afterwards | accounts whose status changes; requests whose failure does not fail the cycle; pending rows without an id | as above, in whole days; all that is stored is put to the reconciler |
| account reconciler, `reconciler/lib.rs` | `reconciled_accounts` | empty the table, read, forced matches, scored matches, rows alone | runs overlap (startup, poll, API) with no SQL transaction; rules come and go | each account once, the rules obeyed, no match missed, nobody lost |
| transaction reconciler, `reconciler/lib.rs` | `reconciled_transactions` | per pair of accounts: delete, read, match, rows alone | as above; pairs of accounts move from run to run | each transaction has its row, the best match, no stranger's |
| similarity scoring, `reconciler/lib.rs` | none | names, amounts and dates to a score | thresholds, windows of days, greedy choice, amounts in floating point | no transaction used twice, the greedy choice costs nothing; what too few transactions decide |
| rules API, `fdx/routes.rs`, `reconciler/db.rs` | `user_account_reconciliation` | create, delete, list, run now | a run in between; UNIQUE over NULLs | rules are well formed and take effect |
| unified view, `reconciler/db.rs` | none (three queries) | list of a matched account's transactions | a run of the reconciler between the queries; a range in seconds for one side and in days for the other | no SimpleFIN transaction missing whatever runs do, each transaction once without a run in between; no gap between two ranges |
| FDX routes and mapping, `fdx/` | none; reads cache and tables | accounts, transactions, holdings, health | cache and tables of different moments; queries whose failure is taken for an empty table | what is listed can be asked for, and the two answers agree; no id twice |
| name preferences | `user_account_name_preference` | upsert, read | an account that is matched anew | the preferred name is shown |
| startup, shared state, schema | `main.rs`, `state.rs`, `migrations/` | spawn of the tasks, locks, constraints | order of startup | |
| web UI, `static/index.html` | the page's own lists | link, unlink, delete a rule, reload | answers out of order | |

They interact through the database and through `CacheState` behind one lock.
The two fetchers are tasks that share nothing but the schema; each owns its two
rows of `config` and its fields of the state. The LunchFlow task runs the
reconciler after each successful cycle, `main` runs it once at startup, and
`POST /api/reconciliation/run` runs it on request. The run at startup is over
before the tasks and the server start; nothing keeps the others apart. The reconciler reads what both fetchers write and what the rules API
writes. The routes read the cache, the fetchers' tables and the reconciler's.

## 2. The modules

```
Coverage                 what incremental polling promises
   ^ implemented by
FetcherLoop              run_loop, do_fetch by its contract
   ^ extended by, and implemented by
SimpleFinFetcher         HasNextStart      the code of SimpleFIN's task
LunchFlowFetcher         ~HasNextStart     the code of LunchFlow's task

AccountReconciler        first half of reconciler::run, with the rules
   ^ extended by
FdxApi                   the accounts of the API, beside runs of it

TxnReconciler            second half; the first comes to one of `Links'
   ^ extended by
UnifiedView              the transactions of a REC- account, beside runs of it

AccountReconciler, TxnReconciler
   ^ extended by, and implemented by
Reconciler               reconciler::run, whole

Similarity               amounts, days, the score of two transactions
   ^ extended by
AccountScore             the score of two accounts, turn by turn
```

`Coverage`, `FetcherLoop`, the fetchers, the two halves of the reconciler,
`UnifiedView` and `AccountScore` have a `_proofs` module; what is proved of
`FdxApi` and `Reconciler` is in `AccountReconciler_proofs`, whose lemmas they need. The MC modules give the constants a `.cfg` cannot write;
`MCUnifiedView` takes the scores of transactions from `Similarity`.

### FetcherLoop (`fetcher_loop.rs`)

`pc` is the await `run_loop` is at. `LoadLastFetched`, `LoadFromTs` and
`WaitRemainder` are the startup, `BeginCycle` to `PostFetch` a cycle;
`from_ts`, `now`, `last_fetched` are the locals of those names, `state` the
provider's fields of `CacheState`, `config` its rows of the table. `Crash` may
happen at any of them and loses all but `config` and the data. `Faults` says
whether reads and writes of `config` may fail: a failed read looks like an
absent row (`.ok().flatten()`), a failed write is logged and changes nothing.
What a failed read does is in the properties, not in a premise: `unread` names
the rows this process did not find though they are there, from its startup to
its first success, and the properties say what changes while there are any.

`do_fetch` is its contract: while it runs, what the provider shows may be
stored; it may fail, or never return; if it succeeds, all that was visible when
the cycle began and is posted in `[from_ts, now)` is stored. One arbitrary
transaction, `txn`, posted at any time and visible up to `Lateness` later,
stands for them all. `lastOk`, `since` and `unread` are history. `since` is the
start of the last window that left a gap to the one before: a first poll's, or
one opened by a process that found nothing to resume from and whose
`start_date_days_back` did not reach back over the last window (`ReachesBack`).

`Coverage` has none of the loop: windows are opened afresh or over the last
one, closed when all in them is stored, marked, lost. `KeepsPromise` is the
refinement, with `start <- from_ts`, `hi <- lastOk`, `marked` for "the row a
later process resumes from is there" and `overlooked` for "it is in `unread`".

### SimpleFinFetcher (`simplefin/fetcher.rs`, part of `simplefin/db.rs`)

`task` is where `run` is: it resolves the access URL from the table, or claims
it from the bridge and saves it, and then enters the loop. A cycle is `Ask`
(one request for one window of `batch_windows`), `UpsertAccount` and
`UpsertTransactions` for each account of the answer, and `CloseWindow`, which
replaces the cache; `SfFetchErr` may end it at any of them. The bridge is
external: it accepts the token once, its answer to the claim may be lost, its
URL may be one that `from_access_url` cannot parse (`parses`; the task then ends,
at every start, `Connect`), and accounts are connected and disconnected
(`Reconnect`). `PartialAnswers` allows
answers whose `errors` stand for an account's data.

### LunchFlowFetcher (`lunchflow/fetcher.rs`, part of `lunchflow/db.rs`)

`List` asks for the accounts, `UpsertAccount` visits one, and for an active
one `AskTransactions`, `UpsertTransactions` and `Holdings` follow. `Gaps`
allows the request for transactions to fail, which does not fail the cycle;
`Dormancy` lets the account of the transaction watched stop being active. The
window is cut to days. A transaction is shown as pending, without an id, before
it is `visible`; pending ones of an account and date share a row
(`pendingRow`). `LfPostFetch` and `LfStart` run the reconciler (`Reconcile`);
`offered` is whether the transaction was there when it last ran, `logged` whether
its last run failed, which the code only logs.

### AccountReconciler (`reconciler/lib.rs:147-351`, the rules API)

Any number of runs, each at one of its statements: read the rules (`Begin`),
`Clear`, `ReadSf`, `ReadLf`, then one INSERT per step: `ApplyRule`,
`AutoMatch`, `LeaveLf`, `LeaveSf`. A run may end at any of them (`Abort`: a
statement failed or the request was dropped). Beside them accounts are added,
rules created (with the handler's two checks and the table's UNIQUE, which does
not apply to NULLs) and deleted, and the scores change as transactions arrive
(`Rescore`). `sfinOnly` and `lfOnly` count rows, since the table's UNIQUE does
not keep two of one account apart. `alone`, `steady` and `cleared` are history.

### TxnReconciler (`reconciler/lib.rs:423-596`)

A run is the first half, as far as it touches the pairs: `Begin`, the DELETE of
all, and `Link`, an INSERT of one, until they are one of `Links`. Then come
`ReadPairs`, which reads what is in the table at that moment, and for each pair `Clear`, `ReadSf`, `ReadLf`, then one INSERT per
step: `Match`, `LeaveLf`, `LeaveSf`; `EndPair` goes on to the next pair. New
transactions may come at any time, and runs may stop anywhere. `sfDone` and
`lfDone` are all the transactions a run has read; `emptiedSf` and `emptiedLf`
name the run that last deleted an account's rows.

### Reconciler (`reconciler/lib.rs:575-596`)

The two halves as the code composes them, over one table of pairs: `Start`,
`EmptyPairs`, `MatchAccounts` are the actions of `AccountReconciler`, `ReadMatched`
its end and the beginning of the second half, `MatchTxns` the actions of
`TxnReconciler`, and `Break` stops a run in either. A run is at a statement of the
first half (`pc`) or of the second (`step`). `T` is `TxnReconciler` seen from here:
its `linked` are the pairs `AccountReconciler` has written, and a run that is
`Matching` accounts is one of its runs at `link`. `HalvesMeet` is the refinement:
what the first half does to the pairs is `Begin`, `Link`, `ReadPairs` or an `Abort`
of the second, whatever rules and other runs do, so `TxnReconciler`, which lets the
first half come to any of `Links`, leaves out nothing that whole runs do.

### FdxApi (`fdx/routes.rs`)

One `list_accounts` at a time, at one of its queries: `ListBegin` takes the read
lock and the accounts of the cache, `ListLf`, `ListPairs` and `ListPrefs` send
the three queries, each of which may fail and then counts as empty, and the list
is sent, or given up, by `ListEnd`. `get_account` and the checks of the
transaction and holdings handlers send one query that matters, so they are
operators on the state (`Get`, `StatusSf`, `StatusLf`). Beside the list, which
keeps the lock, so that `ReplaceCache` and `SetPolled` wait for it, there are
runs of the reconciler (all the actions of `AccountReconciler`), rules,
preferences and, between lists, restarts. `ReplaceCache` may set the cache to
any accounts that the table has: `CacheBacked` of `SimpleFinFetcher` is what
justifies that. `calm` and `authors` are history.

### UnifiedView (`reconciler/db.rs:56-211`)

`FindPartner` is the arrival of a request and its first query (`LIMIT 1` without
an order: any of the partners), `ReadSfin` the second, and `Answer` the third,
whose result is `Last`. `joined` are the matches listed, `single` counts the
entries of a SimpleFIN transaction alone. The LEFT JOIN lists a transaction
without a row as unreconciled, so it is counted as one alone; a LunchFlow one
without a row is not listed. `SfinList` and `LfList` are the lists of the other
two kinds of account. `settled`, `coveredSf`, `coveredLf`, `known` and `calm`
are history.

### Similarity and AccountScore (`reconciler/lib.rs:64-145, 376-421`)

`Score` is `score_transactions` in hundredths, a LunchFlow date the first second
of its day. The code compares amounts in floating point, where amounts that are
a cent apart differ by a little more or less than 0.01; which ones do is left to
two constants, for `< 0.01` (accounts) and `<= 0.01` (transactions).
`AccountScore` is `score_accounts_by_transactions`: the two lists its queries
return are chosen at the start, each turn of a SimpleFIN transaction is a step
(`Take` or `Pass`), and `Close` is what `reconcile_accounts` makes of the result
and of the similarity of the names.

### Abstractions

- One statement of SQLite is one step; SQLite itself is correct and durable.
- Times are small integers, in the order of the code's; a day is `Day` of them.
  The clock does not step back.
- In the reconcilers a score is a value of a function, which for accounts may
  change at any time; `Similarity` and `AccountScore` say what gives it, and
  `txns_solo` takes the scores of transactions from there. The
  similarity of names is a number. SimpleFIN transactions whose amount is not a number, which the reconciler skips, are
  not in `transactions`. Scoring one LunchFlow account against all candidates is
  one step.
- Balances and holdings are left out, and of a name all but whose it is: nothing
  the properties tell apart depends on them. So is the order of lists.
- Both providers are configured in `FdxApi` and `UnifiedView`. Malformed requests
  answer 400 and change nothing.
- Every bound has a name: `MaxClock`, `MaxChanges`, `MaxRules`, `MaxRescores`.

## 3. The runs

| run | module | states | shows |
|---|---|---|---|
| `loop_simplefin` | FetcherLoop | 964 000 | `ResumeSafe`, `NotMissed`, `HealthHonest`, `RateLimited`, `PollsAgain`, `KeepsPromise` |
| `simplefin` | SimpleFinFetcher | 738 000 | `ImplementsLoop`, `CacheBacked`, `LoopsOnceSaved`, `LinkedPolls` |
| `simplefin_token` | SimpleFinFetcher | violation | `TokenConsumedOnce` does not hold |
| `lunchflow` | LunchFlowFetcher | 2 455 000 | `ImplementsLoop`, `RowsHaveAccounts`, `AllOffered` |
| `lunchflow_dormant` | LunchFlowFetcher | violation | `NeverPassedOver` does not hold if an account is inactive for a while |
| `lunchflow_pending` | LunchFlowFetcher | violation | `NoDuplicates` does not hold |
| `accounts_solo` | MCAccountReconciler | 2 207 000 | `EachOnce`, `RulesObeyed`, `NoMissedMatch`, `ForeignKeys` |
| `txns_solo` | MCUnifiedView | 1 979 000 | `EachCovered`, `BestMatches`, `NoStrangers`, and of the list `NoSfinMissing`, `ListedOnce`, `PagesMeet` |
| `runs_overlap` | MCReconciler | 250 000 | `NobodyLost`, `NoTxnLost`, `HalvesMeet`, `RulesTakeEffect`, `EventuallyReconciled` with two runs at once |
| `api` | MCFdxApi | 599 000 | `LinksResolve`, `ListAgreesWithGet`, `IdsUnique` with two runs at once |
| `scoring` | MCAccountScore | 486 000 | `GreedyIsMaximum` |
| `scoring_few` | MCAccountScore | violation | `FewFallBack` does not hold |

The passing runs but `runs_overlap` also check the type invariants of
their modules (`txns_solo` those of `TxnReconciler` and `UnifiedView`).

**Bounds.** `loop_simplefin` has a clock of 5 with an interval and an overlap of
2: room for a first poll, a failed or a successful second, a crash and a third,
and for a transaction that is late by the whole overlap; reads and writes of
`config` may fail, and three days back are more than the overlap and less than
the clock, so that a window that is opened afresh may or may not reach back over
the last. The fetchers have a
clock of 3 with an interval of 1, two accounts and one change of what is
connected: windows of 2 make a range of several windows, a day of 2 instants
puts a window's end inside a day. `accounts_solo` has two accounts of each
provider, two rules and two scorings: two rules are what it takes for one to
replace another, for two to claim one account, or to force and exclude at once;
earlier runs that were stopped, any number of times, give every table a run can
meet. `runs_overlap` has two runs and one account of each provider, with one
transaction; the accounts are matched only while there is a rule, of which one may
be created and deleted. That is what it takes for one run to empty the pairs that
another is to read, for both to be at any two statements of either half, and for
the pairs to change from one run to the next; more accounts only put more
statements between. `txns_solo` has two accounts of each
provider, the first with two transactions, and four sets of pairs, so that pairs
exchange partners, end and begin, and two accounts share one. Its requests are one without a range
and one whose range begins and ends inside a day; `PagesMeet` cuts both at every
second, the ones transactions are posted at included; one LunchFlow transaction is
pending. `api` has one SimpleFIN account that either of two LunchFlow accounts
would do for, and two runs: what it takes for one REC- account to have two
partners. `scoring` has all lists of up to three SimpleFIN and two LunchFlow
transactions over three days of two instants and three amounts a cent apart, a
window of one day and a minimum of two transactions; the code's window of 5 days
and lists of 20 only make more of the same. Every loop of the code goes round at least twice.
Deadlock is checked in every run but `scoring`, where a score is done when every
transaction has had its turn. What the bounds leave open the proofs close:
all the safety properties of the passing runs are theorems.

**Fairness.** `FairSpec` of the loop is weak fairness of the loop's own steps and
of time: the executor polls a task that is ready, and timers fire. Nothing is
assumed of a fetch, for the clients have no timeout here, nor of `Start`:
`PollsAgain` promises that the next fetch begins, unless the process dies.
`SfFairSpec` adds the steps that resolve the URL, again without the bridge. For
the reconcilers a run that is not stopped goes on, and there is always another
run to begin, which is what `PollsAgain` shows of the LunchFlow loop provided
its fetches return and succeed now and then. `RulesTakeEffect` and
`EventuallyReconciled` hold if runs are not stopped forever: that premise is in
the properties. `EventuallyReconciled` needs another, which is there too: that
again and again some run, when it reads the pairs, finds the account matched. The
fairness of the runs does not give it. Two of them may take turns for ever, each
sending its DELETE between the last INSERT and the SELECT of the other; both then
match no transactions, though an account is matched after each. The code
has nothing against that but how unlikely it is.

**What the violations show.** Each quotes a statement of the repository which
the code does not keep:

- `simplefin_token`: `migrations/0001_init.sql:1` says the setup token is only
  consumed once; the claim and the write of the URL are two steps, and a process
  that stops in between presents the spent token again at every start.
- `lunchflow_dormant`: `fetcher_loop.rs:154` says the overlap keeps late
  transactions from being missed; a cycle that passes an account over counts as
  a success, so the window moves on without it. (SimpleFIN's does the same with
  an answer that has `errors` in place of an account, `simplefin/fetcher.rs:89`.)
- `lunchflow_pending`: `README.md:340` says overlapping windows never create
  duplicates; a pending transaction and the same one settled are two rows.
- `scoring_few`: `reconciler/lib.rs:28` says that below `MIN_TRANSACTIONS` the
  caller falls back to the similarity of names alone, and `README.md:329` that
  accounts pair by names and currency; with a single transaction on either side
  two accounts are not matched, whatever their names. (The comment at
  `reconciler/lib.rs:118` has it as the code does.)

**Noted on the way**, without a run of their own:

- `reconciler/lib.rs:179-180` says rows alone cannot coexist with a match of the
  same account. While two runs overlap they can, and so can two matches of it
  (the premise of `IdsUnique`), until the next run that is alone (`EachOnce`).
- `README.md:138-142` describes the prefixes; `list_accounts` lists every
  SIMPLEFIN- and LUNCHFLOW- account also when it is part of a REC- one. A REC-
  account without a match answers 200, without links, though no list has it;
  a LUNCHFLOW- account answers also before the first poll, when the others are
  not ready.
- `README.md:332` says unmatched transactions appear in the list of their `REC-`
  account. A run that reads the pairs just after the DELETE of another writes no
  row of any transaction, and so may all runs (see the premise of
  `EventuallyReconciled` above).
- A run of the reconciler that fails after a poll is only logged
  (`lunchflow/fetcher.rs:136`): `/health` shows the poll as a success, and what it
  stored waits for the next run (the premise `~logged` of `AllOffered`).
- `reconciler/lib.rs:7` says days within two, the code allows five. Two pending
  transactions match whatever their dates (`MatchRule`).
- The REC- id of a matched transaction is that of its row, which every run
  writes anew: it changes from run to run.
- The rows of an account that is matched no longer stay as they are until it is
  matched again, and its list shows them (`ListedOnce` speaks of accounts with a
  partner).

Two limits of what holds, both from two match rules that claim one LunchFlow
account (`lib.rs:591`). `EachOnce` makes an exception for it. Of the pairs of
the two SimpleFIN accounts the later one's DELETE removes the matches of the
first, so the first account's matched transactions end every run without a row.
The properties say how far that reaches: `EachCovered` that nothing is there
twice, and that only transactions of an account whose partner is shared lack a
row (`SfSpared`, `LfSpared`); `BestMatches`, and the part of `ListedOnce` that
says a list is complete, speak of two accounts that have no other partners,
whatever others share. `NoStrangers` needs no such premise.

## 4. The theorems

All are proved for any values of the constants that satisfy the `ASSUME`s of
their module: any number of accounts, transactions, rules and runs, any
interval, overlap and lateness no greater than the overlap.

| module | theorems | beyond the `ASSUME`s |
|---|---|---|
| Coverage_proofs | `NothingMissed` | `Overlapping` (FetcherLoop's assumptions) |
| FetcherLoop_proofs | `TypeCorrect`, `LateArrivals` (`NotMissed`), `ResumesSafely`, `HealthIsHonest`, `RestartsAreRateLimited`, `LoopKeepsPromise` | |
| SimpleFinFetcher_proofs | `SimpleFinTypeCorrect`, `CacheIsBacked`, `LoopRunsOnceSaved`, `SimpleFinKeepsPace` (the loop's `ResumeSafe`, `HealthHonest`, `RateLimited`) | |
| | `SimpleFinImplementsLoop`, `SimpleFinMissesNothing` | `FullAnswers` |
| | `SimpleFinCyclesAreFinite` | `FiniteAnswers`: an answer lists finitely many accounts |
| LunchFlowFetcher_proofs | `LunchFlowTypeCorrect`, `TransactionsHaveAccounts`, `EverythingIsOffered`, `LunchFlowKeepsPace` | |
| | `LunchFlowImplementsLoop`, `LunchFlowMissesNothing` | `FullAnswers`: no gaps, the account stays active |
| | `LunchFlowCyclesAreFinite` | `FiniteListing`: as above |
| AccountReconciler_proofs | `TypeCorrect`, `EachAccountOnce`, `RulesAreObeyed`, `NoMatchIsMissed`, `OverlapLosesNobody`, `RowsHaveAccounts`, `RunsAreFinite`, `RunsGoOn`; of FdxApi `ApiKeepsRuns`, `ApiTypeCorrect`, `LinksAlwaysResolve`, `ListsAgree`, `IdsStayUnique`; of Reconciler `WholeRunsMatchAccounts`, `TheHalvesMeet` (`HalvesMeet`), `WholeRunsLoseNoTxn` (`NoTxnLost`) | |
| TxnReconciler_proofs | `TypeCorrect`, `EachTxnCovered`, `MatchesAreBest`, `NoStrangerStays`, `OverlapLosesNobody` | |
| | `RunsAreFinite`, `RunsGoOn` | `FiniteTables`: finitely many accounts and transactions |
| UnifiedView_proofs | `ViewKeepsRuns`, `ViewTypeCorrect`, `NoSfinIsMissing`, `ListIsUnion` (`ListedOnce`), `NoGapBetweenPages` (`PagesMeet`) | |
| AccountScore_proofs | `MatchRule`, `ScoreTypeCorrect`, `GreedyFindsMost` (`GreedyIsMaximum`) | |

`FullAnswers` is needed: a window moves past what an answer left out, and
`lunchflow_dormant` is a counterexample. The other three premises say that answers
and tables are finite, as they are in any program.

**The loop.** `Core` is the types, what each label means for the locals
(`AtLabel`), and that times are in order (`Times`: a poll on record is not in the
future). `IInv` adds `NotMissed`, which is not inductive alone, because a window
that starts too late breaks it only when it closes, and `Chained`: a window in
hand starts where the last gap does, or no later than the last success minus the
overlap. `IInv2` is what does not depend on what `do_fetch` stores: a process
knows what is on record, or that row is in `unread` (`Restored`); it is proved of
`LooseNext`, in which a fetch may succeed whatever is stored. `IInv` and `IInv2`
together give the step of the refinement.

**The fetchers.** Each proves that its steps are steps of `FetcherLoop` or
stutters. All but the return of `do_fetch` are so by the form of the actions and
the types (`SfCore`, `LfCore`, which assume nothing of the answers), so a fetcher
always implements `LooseSpec`, and `IInv2` holds of it: that is `KeepsPace`. For
the return, `SfInv` and `LfInv` say where the transaction is while a cycle runs,
if answers are full: behind the cursor and stored, in an answer being written,
or ahead (`Behind`, `Within` for SimpleFIN, `Ahead` for LunchFlow, where it is in
an account still to visit, in the request or in the answer). Truncation to days
keeps the order of instants (`DayOrder`), so a window in days contains the one in
seconds. The other theorems of the loop then hold of the fetchers.

**The reconcilers.** The properties speak of the table when a run is done, while
a run knows only what it has itself written. The invariants therefore have three
layers: what a run has decided, from what it has read (`Own`, `Paired`, `Kept`,
`Far`; `Own`, `Choices`); that this is in the table as long as no other run
empties it (`Holds`), which gives `NobodyLost` and `NoTxnLost`; and that the table is nothing
else while the run is alone (`Alone`). For transactions the last has two parts,
the pair the run is at (`Here`) and the pairs it has left (`Read`, `Done`), since
the DELETE of each pair must spare the rows of those before it. `Known`, that no
row joins an account already dealt with to a stranger, gives the pair of accounts
whose row a DELETE reaches; if it is not the pair the DELETE is for, the two share
an account, which is what `SfSole`, `LfSole`, `SfSpared` and `LfSpared` exclude. A
transaction of an account that has several pairs is read several times, and is
covered again once the last of them is written; `Seen` says it is still there.

**The API.** `ApiInv` says where what a list has collected stands to the tables
it came from: its SimpleFIN accounts are those of the cache, which the lock
keeps, its LunchFlow accounts and the pairs read name accounts that exist
(`Linked`, which rests on `RowsHaveAccounts`), and if nothing disturbed it they
are the tables as they are (`Fresh`). `IdsUnique` needs another layer,
`Authored`: all matches in the table were written by one of `authors` since it
was last emptied, and what one run writes it has `Own`, one match for each
account.

**The list.** `UvInv` has, beside the types, that all that is listed is `Backed`
by transactions that exist, that after a run without another beside it the rows
are those the reconciler's invariant describes (`Settled`: every covered
transaction is `SfCovered` or `LfCovered`, no match crosses partners), and that the part read is
the one a query would still return as long as it is `calm` (`Listed`).
`NoSfinMissing` follows from the LEFT JOIN alone, whatever is in the rows.
`PagesMeet` is arithmetic: truncation to days keeps order, and the day of a second
is the day of the next or the one before it.

**The scores.** `ScoreTypeOK` is about injectivity: `matched` is the number of
LunchFlow transactions taken, and no more than the number of turns, hence no
more than the shorter list. `GreedyIsMaximum` compares the turns with all
pairings there are. The invariant `Paired` keeps the pairs of the turns so far
beside the run (`Chosen`): no compatible pair of those turns can be added, and, if
no amounts are a cent apart, any pairing has one at least as large that begins
like them. When a turn takes a transaction that the pairing gives to a later one,
the two swap partners (`TakeExtends`). That they can is the geometry of the lists:
they are in order of time, so the pair that takes the place of two crossing ones
is no farther apart than the farther of them (`NoFarther`, `Uncross`), and equal amounts are
transitive. Amounts within a cent are not; what is left then is that nothing can
be added, which makes a pairing half as large as any (`PairedIsMaximum`).

**Ends.** The prover knows neither fairness nor `ENABLED`, but what liveness rests on
beside them is about steps, and proved. `RunsAreFinite` measures what a run has
before it in order of weight: for accounts the stages and, in the last, the rows to
force, match and keep; for transactions the pairs and, within one, the rows. Every
statement lowers the measure (a row written is no longer to be written,
`RowWritten`), and no step of anyone else but the start of the next run raises it, since a
run works on what it has read. `RunsGoOn` says that a run has a next statement as
long as it is not over. Its `AutoMatch` takes a *best* candidate, and one exists
since finitely many scores have a greatest (`Greatest`, from the well-foundedness of
the naturals). A fetch cycle is measured by the part of the range ahead of the
cursor (SimpleFIN) or the accounts not yet visited (LunchFlow), then by the
requests and writes at hand; that batches are longer than zero seconds is what
makes the first one fall. So no run and no cycle goes on for ever by itself; that
its next statement is sent is what weak fairness adds.

**Compositions.** `ApiKeepsRuns` and `ViewKeepsRuns`: `FdxApi` and `UnifiedView` implement
the specifications of the reconcilers they put requests beside, so everything
proved of those holds with the requests too. `WholeRunsMatchAccounts` and
`TheHalvesMeet` do the same for `Reconciler`, which implements both halves: a
statement of the second stutters in the first, and of the first only the DELETE and
a new pair are steps of the second (`EmptyPairsMaps`, `NewPairMaps`). A run is in
one half at a time (`Halves`) and has matched no pair when it begins
(`Own` of `AccountReconciler`), or it could not map to a run that is at `link` with
no links. `HalvesAssumption` are the constants of `TxnReconciler` as `Reconciler`
gives them, so its theorems hold of whole runs: `WholeRunsLoseNoTxn` is one.

**Only model-checked.** Liveness: `PollsAgain`, `LinkedPolls`, `RulesTakeEffect`,
`EventuallyReconciled`, which need fairness and `ENABLED`. Every other property of a
passing run is a theorem.

## 5. Not modelled, and why

Configuration and error texts have no state. The client libraries of the
providers are outside the repository. The tests and the build have no behaviour
of their own. The similarity of two names, an edit distance that a library computes, is a
number: only its range matters to what is done with it. The mapping of transactions
and holdings to FDX is one record in, one record out, and covered by the tests
beside it. Balances and holdings are rows that one query writes and one reads.
Not modelled so far, and planned below: the web UI's use of the rules API.

## 6. The plan

The order is that of the data: what is fetched, what is matched, what is shown.

1. *Done.* `Coverage`, `FetcherLoop`, the two fetchers, the two reconcilers, and
   their proofs.
2. *Done.* `UnifiedView` over `TxnReconciler`, `FdxApi` over
   `AccountReconciler`, `Similarity` and `AccountScore`, and their proofs.
3. *Done.* Accounts that two match rules share (`lib.rs:591`); reads of `config`
   that fail; `GreedyIsMaximum` for lists of any length.
4. `RulesUi`: the protocol of `static/index.html` with the rules API (link, unlink,
   delete, reload) with answers out of order.
5. *Done.* Accounts and transactions reconciled in one composed run, `Reconciler`.
6. Installations with one provider.
