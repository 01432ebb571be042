# A TLA+ verification of scylla-cluster-sync-cxx

The repository moves a live Cassandra or ScyllaDB cluster (the *source*) to
another one (the *target*). Three services do it: the **dual-writer** is a CQL
proxy that mirrors writes to the target, the **sstable-loader** copies the rows
that were there before, and the **dual-reader** compares the two clusters. This
directory models their concurrent cores and the terminal dashboard, checks them
with TLC, and proves with TLAPS, for every value of the constants, each safety
property that a run checks.

Paths below are relative to the repository.

## 1. The system and its components

| Component | State | Operations | Interacts with |
|---|---|---|---|
| `DualWriter` (`services/dual-writer/src/writer.cpp`) | `failed_writes_` (mutex), six atomic counters, retry thread | `write`, `enqueue_failed_write`, `retry_failed_writes_loop`, `get_stats`, destructor | both clusters through `svckit::ScyllaConnection::execute`, the filter, the proxy, the HTTP API |
| CQL proxy (`cql_server.cpp`) | one coroutine per client with `prepared_stmts`; one thread for all of them | frames `QUERY`, `PREPARE`, `EXECUTE`, `BATCH`, others forwarded | clients, the source (raw frames), `DualWriter::write` |
| Filter (`filter.cpp`) | two rule sets under a shared mutex | `is_enabled`, `should_skip_table`, `reload_config` | asked by `write` and by the retry thread, rebuilt by a reload thread |
| Status API (`api.cpp`) | none | `/status`, `/health`, `/metrics` | reads the writer's counters from HTTP threads |
| `SSTableLoader` (`services/sstable-loader/src/loader.cpp`) | two atomic flags, eight counters, the loop variables | `start_migration`, `migrate_single_table`, `stop`, `pause`, `resume`, `stop_migration`, a thread per range | HTTP threads set the flags; range threads read the source |
| `TokenRangeCalculator` (`token_range.cpp`) | loop variables | `calculate_ranges`, `build_range_query` | called by `migrate_table` |
| Index manager (`index_manager.cpp`) | list of indexes, a strategy | drop, rebuild, verify, for all indexes or one keyspace | the target cluster; the loader does not call it |
| `DualReader` (`services/dual-reader/src/reader.cpp`) | discrepancy map (mutex), strategy | validation loop, `validate_table`, `validate_table_for_domain`, reconciliation, clear | both clusters, its filter, HTTP threads |
| Whitelist filter (`services/dual-reader/src/filter.cpp`) | two whitelists, four atomic counters | `decide` | asked by both validation calls, counters read by `/filter/stats` |
| `main` of the three services | io_context, jthreads, shared objects | start-up, signal handler, joins, destructors | owns everything above |
| `svckit` | driver session, metrics registry | `connect`, `execute`, `ping`, counters | all services |
| `tui-dash` (`services/tui-dash/src`) | `DashboardState` (mutex), the demo generator's index, the client's `connected_` | polling thread, demo tick, keys, end of `main` | `GET /status` of the sstable-loader |
| `doctore-dash` | display state | display | mock data |

What is hard about it:

* **Two threads and a queue.** `write()` and the retry thread share
  `failed_writes_`. The retry thread copies the queue, works on the copy with
  the lock released for as long as the target takes, and applies the outcome
  later; `write()` keeps adding entries meanwhile.
* **Unreliable clusters.** `execute()` throws on every error, timeouts
  included: a statement that "failed" may have been applied.
* **One thread for all clients.** Coroutines interleave at socket waits, and
  `write()` blocks them all.
* **Readers without locks.** `/status` loads counters one by one.
* **Check-then-act on flags.** The loader reads two flags between batches while
  HTTP threads change them.
* **Reload by clearing.** The filter's sets are empty for a moment.
* **Threads that must be joined.** `main` joins threads in the order in which
  its locals are destroyed, and one of them blocks in a server that is never
  stopped. The signal handler shares its thread with the work it should end.
* **Partial failure.** A table of a validation cycle, a range of a batch, an
  index of a rebuild may fail while the others go on.
* **A display under a lock that is held over the network.** The dashboard's
  thread keeps `state_mutex` while it waits for the loader, keys change the same
  state between two polls, and a reset leaves the generator's own state behind.
* **Boundaries.** Attempts start at 1, the last batch is short, the division of
  the ring has a remainder, token bounds are inclusive.

What makes the components correct: a statement the source accepted reaches the
target, is given up after its attempts, or is lost at shutdown, and nothing else
(`ShadowWrite`); a client is told OK only for what the source has; decisions of
the filter follow the full rules and are about the table a statement writes to;
each token range is read or counted as skipped exactly once, each token is asked
for exactly once per table, and stops and pauses take effect within one batch;
the dashboard shows a reachable loader as it is and can always be left; the target is read for comparison only
where both whitelists say so, and every cycle handles every table; a rebuild of
indexes that returns left none out; no session is closed under a thread.
`PROJECT.json` lists the hazards at their lines, with the properties aimed at each.

## 2. Modules

| Module | Models | Notes |
|---|---|---|
| `DualWriter` | `writer.cpp`, `execute()` | the core, written for proofs |
| `ShadowWrite` | what the dual-writer promises per statement | abstract specification |
| `DualWriterRefinement` | the refinement mapping | `INSTANCE ShadowWrite` |
| `StatsSnapshot` | `get_stats()` beside the writer | extends `DualWriter` |
| `CqlProxy` | `cql_server.cpp` around `write()` | extends `DualWriter` |
| `WriterServiceProofs` | theorems about the five modules above | section 5 |
| `FilterGovernor`, `FilterGovernorProofs` | `extract_table_target`, `filter.cpp` and the reload thread | |
| `SSTableLoader` | `loader.cpp`, its HTTP controls | |
| `Migration`, `MigrationProofs` | `migrate_table` with the ranges of its calculator | extends `SSTableLoader`, instantiates `TokenRange` |
| `TokenRange`, `TokenRangeProofs` | `token_range.cpp` | |
| `DualReader`, `DualReaderProofs` | `reader.cpp`, `decide()`, `/filter/stats` | |
| `IndexManager`, `IndexManagerProofs` | `index_manager.cpp` | |
| `Dashboard`, `DashboardProofs` | `tui-dash` | |
| `ServiceLifecycle`, `ServiceLifecycleProofs` | `main.cpp` of the three services | |
| `MC...` | instances for TLC | constants only |

Each module also holds the mutants named in `PROJECT.json`: variants of an
action with a plausible bug, each of which breaks the property it is listed for.
Behind its properties a module states the inductive invariant of its proofs.

### DualWriter

`pc`, `cur` and `result` are the program counter, argument and result of the one
`write()` that can be in progress: the `io_context` of `main.cpp` is run by one
thread and `write()` contains no suspension point. `retry_pc`, `snapshot`,
`to_remove` and `to_update` are the retry thread's. `failed_writes[w]` is the
`attempts` field of w's entry, 0 where there is none; ids are drawn at random
and taken to be unique, so the statement is the key. `source` and `target` hold
the last statement applied to each row. `accepted`, `acked`, `abandoned`,
`submitted` and `sent` are history variables.

One action is one access to shared state: the entry of `write()`, the filter
gate, the two executions, the insertion under the lock, the return with its
counter; for the retry thread the stop check, the copy under the lock, one
action per entry and outcome, and the apply under the lock. The stop request and
the copy are separate steps, so that a cycle can begin after the destructor asked
for the end. `Outcomes` lets an execution succeed, fail without effect, or fail
after it was applied; a statement with bind markers always fails, because
`execute()` creates its statement with no parameters.

The filter's answer is the constant `Blacklisted`. This is exact for the code:
`reload_config` rebuilds the sets from the constructor's copy (see
`FilterGovernor`), so the answer never changes. The branch of the retry thread
for a table that "is now blacklisted" is in the model and never taken.

### StatsSnapshot

Runs `get_stats()` as one load per step beside the writer. The loads are
`memory_order_relaxed`; the model has them in program order, which is what x86-64
executes. On a weaker machine `OutcomesNotMissing` (and `AnswerHasReasons` of
`DualReader`) is not guaranteed. `StatsSpec` keeps the writer's fairness, so one
run checks the snapshot and the writer's liveness.

### CqlProxy

A frame is the statement it carries and how it is sent. A coroutine holds the
thread inside `write()`; `forwarding` is the wait for the source's raw answer,
during which others run. `prepared` is the per-connection map and `known` the
server's: a statement prepared on one connection can be executed on another,
where the proxy does not recognise it as a write. After a failed source write
the frame is forwarded to the source. Reads are forwarded likewise and change
nothing, so they are not modelled. `ProxyFairSpec` adds the fairness under which
every request is answered.

### FilterGovernor

`is_enabled()` and `should_skip_table()` take the shared lock separately;
`should_skip_table` looks up the name and then tries the patterns; the reload
clears and inserts rule by rule under the exclusive lock. Names are pairs of
keyspace and table, patterns pairs with `Star`.

Callers ask about statements. A statement is its words and the table it really
writes to; `ExtractTableTarget` is the search of `extract_table_target`: the
token after the first `INTO` anywhere in the text, or else the first `UPDATE`,
or else the first `FROM`, inside a longer word too. `Misleading` says, without
reference to that search, which statements contain a keyword in some other word
that it can meet first. `TableOf` is the table the server takes a name for: a name
without a keyspace gets the session's, and upper and lower case are the same.
`Excluded` says what the rules file asks for of a table; `Alias` holds of a
statement whose name is not the name of its table. `DecisionsMatchRules` says that
for all other statements the decision is the one the rules ask for. Keywords are
found in upper and lower case, as in the code, and a word holds at most one.

### SSTableLoader

`driver` is the coroutine that runs a migration. It never suspends, so it is one
thread. Its steps are the reads and writes of the flags, in the order of the
code: the check, the reset, the unconditional store of `is_running_`, the check
per table, the check per batch, the pause gate, the start of a batch and its
join. A range thread reads its range, retries pages (paginated path) or fails.
`worker` says where each thread is: the increments of `failed_rows_` and
`skipped_ranges_` in `process_range_sync` and that of the thread's handler are
steps of their own, between which other threads count and `get_stats()` reads.
The default path counts a failed range twice, as the code does. Row transfer is
commented out in the source, so no row counter but `failed_rows_` moves.

`pagination` is the configuration flag, chosen in `Init`. `read`, `given_up`,
`broken`, `afterStop` and `afterPause` are history variables.
In this module alone the number of ranges is any of a set. `migrate_single_table` and `stop_migration` have
no caller in the repository; they are public operations of the class and are
modelled.

### Migration

`SSTableLoader` composed with `TokenRange`. Between `BeginTable` and
`RangesCalculated` the calculator of the table runs, step by step, on the
driver's thread, for one or three nodes depending on whether `system.peers` could
be read; flags may change meanwhile. A range thread's number is the position of
its range in the vector `token_ranges`, which lives until `migrate_table` returns.
`EveryTokenOnce` relates the calculation to what the threads were handed. The
run `sstable_loader` checks this module, with all properties of `SSTableLoader`.

### DualReader

Two threads validate: `loop` is the coroutine on the io_context, `caller` any
thread that uses the public `validate_table_for_domain` (no endpoint does). A
validation is a decision of the filter, the read of the source, the read of the
target and the store of the result; a domain-scoped one is preceded by a
decision with the domain, and the decision of `validate_table` that follows does
not see the domain. A refusal takes two increments, as in the code. `Found` is
what the comparison finds: the code compares nothing, so it is empty.
`Shutdown` is possible only while the loop waits for its timer.

### IndexManager

`parallelism` 1 is `StandardIndexStrategy`, more is `ParallelIndexStrategy`, as
`create_index_manager` chooses. A batch is a set of threads that end in any
order, each with success or failure; the sequential rebuild and the
verification end at the first failure, a drop never does. The verification
executes a query and looks at no row, so it does not depend on `exists`.

### Dashboard

`updater` is the background thread: it sleeps, takes `state_mutex` and either
ticks the demo or polls the loader. A poll holds the mutex from the request to
the answer (`LockFree`), which may be none, an HTTP error, no JSON, or the JSON
of another service. `Fetched` overwrites the display and logs the transitions
from what was displayed. The loader and the network are the environment: its
status is any, and it can come and go. `Press` is a
key at any moment, in the middle of a poll too; its handler then waits for the
mutex, and the FTXUI thread with it. `TogglePause`, `Reset` and `Quit` are the
handlers; in live mode they change the display and never the loader. The rendering
takes the mutex as well and changes nothing. `demo` is
chosen in `Init`. The log is kept as the kinds of the entries
about transitions; entries about failed rows and the demo's chatter are left out. `tui-dash` as it
stands does not compile (`main.cpp` calls members of classes it only declares
forward); the model takes the definitions of `mock.cpp` and `api.cpp` for them.

### ServiceLifecycle

One module for the three `main` functions, which share their shape: `service`
says which. Configuration, filter and sessions come first, each of which may
fail; then the threads; then the io_context, where the coroutine and the signal
handler exclude each other; then the destructors in reverse order. `svr.listen`
either fails at once or never returns.

### TokenRange

`calculate_ranges` step by step over a ring of any size. `RingAssumption` asks
for at most as many ranges as tokens, which 128-bit arithmetic over the 64-bit
ring satisfies for every 32-bit `num_ranges_per_core`: at most 3 * 8 * 2^32
ranges for 2^64 tokens. With 0 ranges per core the division traps.

## 3. Runs

| Run | Instance | States | Result |
|---|---|---|---|
| `dual_writer` | 4 statements, 2 rows, 1 blacklisted, `max_retries` 2 | 298,000 | holds |
| `dual_writer_live` | 2 statements on one row, `max_retries` 3, 1 status request, fairness | 207,000 | holds |
| `cql_proxy` | 2 clients; a plain, a prepared and a batch statement, `max_retries` 1, fairness | 443,000 | holds |
| `cql_proxy_bound` | 1 client, a prepared statement with bind markers | | violated: confirmed, never on the target |
| `filter_governor` | 2 callers, 8 statements, 1 exact rule, 1 pattern, 4 calls | 31,000 | holds, no deadlock |
| `filter_hot_reload` | same, fairness, 1 call | | violated: an edit never takes effect |
| `sstable_loader` | `Migration`: 3 tables, 1 blacklisted, 8 tokens in 1 or 3 ranges, batches of 2, 1 page retry, 2 migrations, fairness | 288,000 | holds, no deadlock |
| `token_range` | 32 tokens, 2 to 30 ranges | 144 | holds |
| `dual_reader` | 2 tables, 1 whitelisted and listed twice, 2 domains, 1 whitelisted, 2 cycles, 1 domain-scoped call, 1 request, fairness | 90,000 | holds |
| `index_manager` | 3 indexes in 2 keyspaces, parallelism 1 or 2, 2 calls, fairness | 5,400 | holds |
| `dashboard` | live: 2 changes of the loader or the network; demo: 2 tables of 2 or 3 ticks; 3 keys, log of 3 entries, fairness | 138,000 | holds |
| `service_shutdown` | the three services, fairness | 227 | violated: after a signal the writer's retry thread is never stopped |

**What they show.** `dual_writer`: `NoSilentLoss` (nothing owed disappears in the
window between copy and apply), `NeverResent`, `AttemptBound`,
`AbandonedOnlyWhenExhausted`, `Ledger` (the counters of `/status` balance at
every point), `DivergenceOnlyThroughFailure` (the clusters can differ only on
rows with a statement that failed somewhere or was blacklisted), `CycleInv` (the
thread's copies agree with the queue) and the refinement of `ShadowWrite`.
Convergence itself does not hold and is not claimed: a retry of an old statement
can follow a newer one on the same row, and entries are taken in hash order.
`dual_writer_live`: the fair version of `ShadowWrite` is implemented, so queued
statements get settled; the join returns; and a status answer misses the
outcome of at most one write (`OutcomesNotMissing`). `cql_proxy`:
`ConfirmedOnSource`, `NoDoubleSourceWrite`, `NoOtherGap` (a confirmed
statement that is neither on the target, nor queued, given up or blacklisted, is
a batch, was prepared on another connection, or was saved on the source by the
fallback; there is no fourth way to miss the target), and `RequestsAnswered` (each coroutine gets the thread back from the `write()` of the
others). `filter_governor`: `DecisionsMatchRules` (a statement is kept from
the target exactly if the rules file excludes the table it writes; the only
exceptions are a keyword in another word of the statement and a table written
under another name than the rules use). `sstable_loader`: `RangesOnce`, `BatchesDoNotOverlap`, `EveryTokenOnce`,
`ControlIsPrompt` (a stop or a pause lets at most one more batch begin),
`StatsAddUp` (completed and skipped tables add up, and `skipped_ranges_` is the
number of failed ranges with pagination and twice that number without, plus one
for each thread between its two increments), `StopEnds`, `MigrationEnds`, with and without pagination. `token_range`: `NoOverlap`,
`FullCoverage`, `RangesInRing`. `dual_reader`: `TargetReadsWhitelisted` (the AND
gate holds although the second decision does not see the domain),
`CycleComplete` and `CycleEnds` (a failing table costs neither the others nor the
loop), `AnswerHasReasons` (the order of the increments and of the loads match).
`index_manager`: `RebuildAccounted`, `DropListTruthful`, `CallReturns`.
`dashboard`: `PausedIsLogged`, `DemoTables`, `CatchesUp`, `DemoEnds`, `QuitEnds`
(from the pressed key: it gets the mutex that the polls hold, and the program
ends).

**Violations.** Each of the three is a disagreement between the code and a
comment or document, quoted in `PROJECT.json` under `findings`.

**Observations without a run of their own:**

* `token_range.hpp:18` calls a range half-open; the code and the queries use
  inclusive ends, consistently.
* `writer.cpp:443` calls `get_stats()` an atomic snapshot; the loads are separate,
  and an answer can hold more outcomes than writes.
* The shadow write is not fire-and-forget. The repository's `README.md:83-97`,
  `117-135` and the diagram at `1310-1317`, and `writer.cpp:12` and `254`, say that
  the client is answered after the source write. `write_dual_async` executes the
  statement on the target, waits for it and then returns, on the only thread of
  the io_context: the client is answered after the shadow write, and a slow target
  delays every client. `DualWriter` models what the code does.
* A statement prepared on one connection and executed on another goes to the
  source only (`cql_server.cpp:355`), and so does every batch; the client is told
  OK. `NoOtherGap` names both.
* `config/filter-rules.yaml:23` excludes a table "in all keyspaces"; names are
  compared as they are written (`filter.cpp:78`). `INSERT INTO migrations`, which
  the server completes with the session's keyspace (`database.cpp:131`), and
  `INSERT INTO ks.LOG`, which it folds to lower case, pass the blacklist.
  `DecisionsMatchRules` names such statements as an exception (`Alias`); without
  it TLC finds the violation.
* A range that fails without pagination is counted twice, at `loader.cpp:620` and
  `383`; `skipped_corrupted_ranges` is documented as a number of ranges
  (`README.md:824`, `loader.hpp:41`). It reaches callers of
  `get_stats()` only; `GET /status` (`api.cpp:64-89`) does not show it. `failed_rows_`
  grows by one per failed range, whatever the number of its rows.
* `index_manager.cpp:97` and `196` list dropped indexes by their bare names; the
  model takes them as unique across keyspaces.
* `extract_table_target` (`cql_server.cpp:157`) finds `UPDATE` in `updated_at`: for
  `DELETE FROM ks.log WHERE updated_at < ...` the filter is asked about `d_at`, and
  a statement on a blacklisted table is mirrored.
* `validate_table` (`reader.cpp:101`) reads both clusters, compares nothing and
  reports 100% consistency; `services/dual-reader/src/filter.cpp:14` says "DUAL
  READ + compare + log discrepancies to JSONL".
* A `/stop` between the check of `is_running_` and its store (`loader.cpp:192`) is
  answered "success" and has no effect.
* A configured `max_concurrent_loaders` of 0 (`loader.cpp:363`) repeats the first
  batch for ever, and `num_ranges_per_core` 0 (`token_range.cpp:66`) divides by
  zero; the assumptions on the constants exclude both, the code does not.
* The dashboard's space key is labelled "Pause/Resume" and does not reach the
  loader; the next poll takes the display back. After `r` a demo stays still.
* The loader never counts a migrated row, so the dashboard never logs "Migration
  completed" in live mode.
* `verify_indexes` (`index_manager.cpp:145`) returns true for an index that does
  not exist; `README.md:726` says "Verify all indexes exist".
* In `index_manager.cpp:186` the mutex of a batch is destroyed before the threads
  that use it are joined. `std::mutex` has a trivial destructor in this build,
  so the outcome is the modelled one.
* The loader's signal handler (`main.cpp:151`) cannot run while a migration runs,
  because the coroutine never suspends; a paused migration blocks it for good.
* Endpoints documented at the head of the dual-reader's `api.cpp` and in the
  repository's `README.md:724` are not registered.

**Bounds.** Statements: a retry cycle has to meet an entry of each kind (settled,
failed again, added meanwhile) and an overtaking statement on the same row, which
takes three statements; the fourth is the blacklisted one. `max_retries` 2 lets
an entry be retried once and then abandoned, 3 twice; for 0 and 1 the bound on the
attempts is a matter of the theorems. Two clients are enough for
a statement prepared on one and executed on the other; there `max_retries` 1
still takes a statement through the queue. The statements have a keyword in
a column, in a value and in none, before and after the table, for each verb, and
name their table with its keyspace, without it and in another case.
Three ranges in batches of two give a full batch and a short one and leave a
remainder of eight tokens; two migrations test the resets. Two changes of the
loader and three keys let it be paused, vanish and be reset in between; the log
is short enough to lose entries. Two tables of which one
is refused, and a domain of each kind, take every branch of `decide()`; the
other is listed twice, because nothing keeps a configuration from it, and may
then fail and succeed in one cycle; the second cycle tests the resets of the
loop. Three indexes with two threads give a
full batch and a short one, and two calls a drop followed by a rebuild.
`MaxRuns`, `MaxCycles`, `MaxCalls` and `MaxRequests` bound calls from outside. Symmetry is not used: the
runs are small enough without it.

`CHECK_DEADLOCK FALSE` is set where the system may stop: after the destructor,
after `calculate_ranges`, after the exit of a process, and where the statements,
calls or requests from outside are used up (`CqlProxy`, `StatsSnapshot`,
`DualReader`, `IndexManager`), and after the dashboard was left.

## 4. Fairness

Weak fairness of the two threads of the writer: `execute()` returns because the
driver has a request timeout, the retry delay is finite, and locks are held
briefly. Weak fairness of `Destroy`: a destructor goes on after its join. No
fairness of clients, of stop requests, or of any particular outcome: the target
may fail for ever, and the queue still drains because attempts are counted.
In the proxy `write()` proceeds, and a coroutine that can go on is strongly fair:
the thread is taken from it again and again by the `write()` of others, but the
io_context runs ready handlers in order. That the source answers a forwarded
frame or breaks the connection is an assumption on the cluster:
`forward_and_proxy` has no timeout. In the dashboard the background thread runs
(the HTTP client has timeouts of half a second) and `main` ends after the join.
A key's handler is strongly fair: `state_mutex` is taken from it by poll after
poll, but it is free during the sleep between two of them, 100 ms unless
`--refresh-ms` says otherwise, in which a thread that waits for it is woken. With
`--refresh-ms 0` that would not be assured, because `std::mutex` is not fair. The
keys pressed and the loader are not fair. `CatchesUp` assumes that the loader can be
reached from some point on, `DemoEnds` that the demo is not left paused.
In the loader the driver and the range threads are fair, the HTTP calls are not;
`MigrationEnds` assumes that the migration is eventually not paused any more.
In the reader the loop is fair (its timer fires, a read ends in the driver's
timeout), callers and requests are not; in the index manager the statements of a
call end. In `ServiceLifecycle` every thread runs, and the signal handler is
strongly fair because the io_context serves its queue in order; the end of a
migration is not assumed, since it may be left paused. The violation of
`RetryThreadStops` needs none of the missing fairness: the listening server is
what `main` waits for.
The reload thread and lock holders of the filter are fair, which is what makes
the violation of `HotReload` one of the code and not of the scheduler.

## 5. Proofs

TLAPS checks all theorems; nothing is assumed beyond the named assumptions on the
constants, which TLC evaluates on every run:

| Assumption | Says | Why the code justifies it |
|---|---|---|
| `ConstantsAssumption` (`DualWriter`) | statements are finite in number, each has a row, `max_retries` is a natural number | a history is finite; the configuration field is unsigned |
| `HowAssumption` (`CqlProxy`) | each statement comes as `QUERY`, `EXECUTE` or `BATCH` | the frames on which the proxy calls `write()` |
| `NamesAssumption` (`FilterGovernor`) | the table a statement writes has a keyspace, and rules are pairs of keyspace and table | the server resolves a name to a table of a keyspace; a rule is a text `keyspace.table` or `*.table` |
| `StatementsAssumption` (`FilterGovernor`) | each statement has its own clause and at most one keyword in a word | grammar of CQL; see the module |
| `LoaderAssumption`, `MigrationAssumption` | at least one table, range and loader; the topology estimate fits the ring | 0 loaders or ranges are the defects named in section 3 |
| `RingAssumption` (`TokenRange`) | at most as many ranges as tokens | see `TokenRange` in section 2 |
| `ReaderAssumption` | the configured tables are a sequence, with repetitions or not | `config_.tables` is a vector |
| `IndexAssumption` | no index is listed twice, at least one thread, and `Selected` returns a sequence of indexes | the last clause holds of every `SelectSeq`; its proof is an induction over data |
| `DashboardAssumption` | at most `NumTables * RowsPerTable` rows, less than the total, are moved by the ticks of all tables | 8 tables of at most 200 ticks of at most 2500 rows are 4 million of 112 million |

An invariant is seldom inductive as it stands. Each module states the
strengthening, `IInv`, in named parts; each was checked by TLC before it was proved. The
proofs have one lemma per part and one step per action.

**WriterServiceProofs: the writer.** `TypeCorrect`, then `Invariance: Spec =>
[]IInv`, one lemma per action. `NoSilentLoss` is not inductive: that the apply
step does not lose an entry depends on what the thread's copies say about the
queue. `IInv` adds `FreshInv` (statements not yet submitted left no trace, so an
insertion cannot collide with a copy), `WriteInv` (what `write()` has done at
each point), `CycleInv` (an entry still to process is unchanged since the copy;
an update is exactly one attempt more; the settled entries still in the map are
exactly those to remove) and `AttemptInv` (recorded attempts are sends). From it
follow `NothingLost`, `CycleConsistent`, `SendsBounded`, `AbandonExhausted` and
the action property `AckedNeverResent`.

`LedgerKept` counts: every step moves the counters and the cardinalities of the
sets behind them together (`Joins`, `Leaves` on adding and removing one element
of a finite set). `Finished` is about finished writes, `Balance` about shadow
writes that failed; the difference in the middle of a cycle is what the thread
has settled in its copies and not yet applied. `RowsAgree` needs `RowInv`: the
rows of clean statements agree except for the row of the write in progress,
between its two clusters.

**WriterServiceProofs: the promise.** `Refinement: Spec =>
ImplementsShadowWrite`. The mapping reads a statement's phase off the history
variables. The answers of the source, the shadow writes, the retries, the
abandonment and the destruction map to the abstract steps, all other steps to
stuttering; `IInv` supplies that a retried entry is owed and that its attempts
are its tries.

**WriterServiceProofs: the proxy.** `ProxyInvariance` adds to `IInv` that at
most one coroutine is inside `write()`, and with the writer's statement
(`ThreadInv`), that the result agrees with the source (`ResultInv`), which way a
statement has gone (`RequestInv`), and why a statement that reached the source
past the writer did so (`GapInv`): `ConfirmationTrue`, `SourceWrittenOnce`,
`GapsKnown`. A step of the proxy is a step of the writer, leaves it alone, or
is a raw frame that changes a row of the source, of which the writer's invariant
and its phases do not speak: `NothingLostBehindProxy`, and `ProxyRefinement:
ProxySpec => ImplementsShadowWrite`.

**WriterServiceProofs: the status.** `OutcomesAnswered`: counters only grow, so
what the loads took so far is at most what the counters not loaded yet make up
for (`SnapInv`).

**FilterGovernorProofs.** `DecisionsRight`. `LockInv` says who holds the lock at
each place of the callers and of the reload, so that the rules are whole
whenever a caller reads them; `QuestionInv` carries the extracted name and the
missed lookup through the separate steps. `LookupReadsRules` then says that the
lookup of a table's own name gives what the rules ask for of the table. The part about
`extract_table_target` is about every statement: if no other word has a keyword
that precedes the statement's own in the search, the word found is the table.

**TokenRangeProofs.** `Tiling: Spec => []IInv` with the invariant that the ranges
emitted so far tile the ring up to `Frontier`; then `Disjoint`, `Complete` and
`InRing`. The arithmetic rests on three small lemmas on division and products.

**MigrationProofs.** `LoaderInvariance` for the driver: the threads of a batch
are alive only in the join and within its bounds (`BatchInv`), a batch past the
checks has seen no stop or pause before them (`PromptInv`), the table in hand is
in no counter yet (`TotalsInv`), and only a thread of the default path is at the
two increments of `process_range_sync` (`PathInv`), so that the threads which have
counted their range once and not yet twice are known (`HalfCounted`). `MigrationImplementsDriver:
MigrationSpec => Spec` is a refinement: the calculator's steps stutter, and the
range count it hands over is one of `RangeCounts`; with it `TypeCorrect`,
`BatchesJoined`, `HandledOnce`, `Prompt` and `Totals` hold of the composition.
`VectorHeld` says that the driver holds the finished vector while it makes
batches. `TokensOnce` then combines `RangesOnce` with the tiling: the lemmas of
`TokenRangeProofs` are used through an instance of that module.

**DualReaderProofs.** `TargetGuarded` needs to know which checks each place of a
call lies behind (`CallInv`), the domain check of the outer call included.
`CyclesComplete`: `CycleInv` says that the tables begun are a prefix of the
list and those ended have an outcome; both outcomes only where the list names
the table twice. `ReasonsAnswered`: reasons are counted before refusals and
loaded after them (`ReasonInv`).

**IndexManagerProofs.** `BatchInv` says that the indexes begun are those up to
the end of the batch and that each without a running thread has its outcome.
The lemma `BatchMembers` is about the arithmetic of batches: each takes exactly
the positions that no batch had before, the short last one included. Then
`RebuildsTrue` and `DropsTrue`.

**DashboardProofs.** `PauseLogged` rests on lemmas about logs: entries without a
resumption, or ending in a pause, may be added and the oldest may be dropped.
`DemoAgrees` needs `RowsInv`: the rows moved so far are bounded by the finished
tables and the quotient of the current one's progress by the smallest
increment, so the rows never end the demo before its last table does.

**ServiceLifecycleProofs.** `Lifecycle: Spec => []IInv` with `Progress`, which
says for each place of `main` what has been started and not yet joined; without
it neither result is inductive. `SessionsOutlive`: whatever the order of
signals, failures and joins, a thread that executes statements has both
sessions. `DestructorNeedsDeadApi`: `~DualWriter` runs only in a process whose
HTTP server could not listen, the safety side of the violation of
`RetryThreadStops`. This module has no constants and no assumptions.

**Only model-checked:** liveness (`StopCompletes`, `RequestsAnswered`, `StopEnds`,
`MigrationEnds`, `CycleEnds`, `CallReturns`, `CatchesUp`, `DemoEnds`, `QuitEnds`, the
fair refinement), which is out of the prover's reach, and the three violations.

## 6. What is not modelled

* Code without a caller: `write_dual_sync` and `write_target_only` (the write mode
  is fixed), `check_tenant_id` of the filters, `reload_config` of the loader's and
  the reader's filter, `insert_row_with_retry` and `filter_json_row` of the loader.
* Reconciliation strategies, the `Validator`, `reconcile_discrepancy` and
  `clear_discrepancies`: the comparison that would create a discrepancy is not
  written, nothing constructs a `Validator`, and `discrepancies_` is always empty.
  A model would have to invent what the validation finds.
* Texts: configuration fields, metrics, frame encoding.
* Of `tui-dash` the scrolling, the rendering and numbers that are only displayed;
  `doctore-dash`, which displays mock data in a browser.

## 7. Plan

Done: all modules of section 2; every invariant and every action property of the
runs, and the refinements of safety, are proved.

Next:

1. The writer's `Ledger` behind the proxy, where it needs no more than the steps
   of the writer.
2. Weaker assumptions, in the first place on indexes that are listed twice,
   where a thread would have to be told from its index.
