---------------------------- MODULE SSTableLoader ----------------------------
(***************************************************************************)
(* SSTableLoader of services/sstable-loader: a driver coroutine migrates   *)
(* the configured tables one by one, each in batches of token ranges that  *)
(* are read by a thread per range; HTTP threads pause, resume and stop it  *)
(* through two atomic flags that the driver looks at between batches.      *)
(*                                                                         *)
(* The driver never suspends (migrate_table and calculate_ranges do not    *)
(* wait on the io_context), so it is one thread.  A table is its position  *)
(* in config_.loader.tables.                                               *)
(***************************************************************************)
EXTENDS Integers, FiniteSets

CONSTANTS
  NumTables,       \* number of configured tables
  Blacklisted,     \* tables the filter skips
  RangeCounts,     \* how many token ranges calculate_ranges may return
  MaxConcurrent,   \* config_.loader.max_concurrent_loaders
  PageRetries,     \* config_.loader.page_retry_attempts
  MaxRuns          \* bound on the migrations started

Tables == 1..NumTables

ASSUME LoaderAssumption ==
  /\ NumTables \in Nat \ {0} /\ Blacklisted \subseteq Tables
  /\ RangeCounts \subseteq Nat \ {0} /\ RangeCounts # {}
  /\ MaxConcurrent \in Nat \ {0}
  /\ PageRetries \in Nat /\ MaxRuns \in Nat

VARIABLES
  pagination,   \* config_.loader.enable_pagination
  driver,       \* where start_migration or migrate_single_table is
  mode,         \* which of the two was called last: "all" or "single"
  todo,         \* tables not yet looked at
  table,        \* table being migrated
  ranges,       \* number of its token ranges
  batch_start,  \* first range of the current batch
  worker,       \* threads of the batch: fetches tried by each, and where it is
  is_running, is_paused,            \* the two flags
  tables_completed, tables_skipped, tables_total,
  failed_rows, skipped_ranges,      \* counters of get_stats()
  runs,         \* migrations started
  read,         \* history: ranges of the table that were read
  given_up,     \* history: ranges of the table whose read failed for good
  broken,       \* history: such ranges since skipped_ranges was reset
  afterStop,    \* history: batches begun since the last stop
  afterPause    \* history: batches begun since the last pause

flags == <<is_running, is_paused>>
counters == <<tables_completed, tables_skipped, tables_total, failed_rows, skipped_ranges>>
place == <<mode, todo, table, ranges, batch_start>>
handled == <<read, given_up>>
promptness == <<afterStop, afterPause>>
vars == <<pagination, driver, place, worker, flags, counters, runs, handled, broken, promptness>>

Active == DOMAIN worker
Fetching == [attempts |-> 0, at |-> "fetch"]
NoWorkers == [r \in {} |-> Fetching]

(* The filter's should_skip_table; its rules do not change while it runs. *)
ShouldSkip(t) == t \in Blacklisted

First(S) == CHOOSE t \in S : \A u \in S : t <= u

Init ==
  /\ pagination \in BOOLEAN
  /\ driver = "idle" /\ mode = "all"
  /\ todo = {} /\ table = 0 /\ ranges = 0 /\ batch_start = 0
  /\ worker = NoWorkers
  /\ is_running = FALSE /\ is_paused = FALSE
  /\ tables_completed = 0 /\ tables_skipped = 0 /\ tables_total = 0
  /\ failed_rows = 0 /\ skipped_ranges = 0
  /\ runs = 0 /\ read = {} /\ given_up = {} /\ broken = 0 /\ afterStop = 0 /\ afterPause = 0

-----------------------------------------------------------------------------
(* The driver *)

(* Mutant of StartMigration: the table counters are not reset. *)
StartMigrationKeepsCounts(selected) ==
  /\ driver = "idle" /\ ~is_running /\ runs < MaxRuns
  /\ runs' = runs + 1
  /\ driver' = "starting" /\ mode' = "all" /\ todo' = selected
  /\ failed_rows' = 0 /\ skipped_ranges' = 0 /\ broken' = 0
  /\ UNCHANGED <<table, ranges, batch_start, worker, flags, tables_completed, tables_skipped,
                 tables_total, handled, promptness>>

(* start_migration: refused while is_running_; resets the counters.  The
   keyspace filter selects the tables. *)
StartMigration(selected) ==
  /\ driver = "idle" /\ ~is_running /\ runs < MaxRuns
  /\ runs' = runs + 1
  /\ driver' = "starting" /\ mode' = "all" /\ todo' = selected
  /\ tables_completed' = 0 /\ tables_skipped' = 0
  /\ failed_rows' = 0 /\ skipped_ranges' = 0 /\ broken' = 0
  /\ UNCHANGED <<table, ranges, batch_start, worker, flags, tables_total, handled, promptness>>

(* migrate_single_table: resets the row counters only, and has one table. *)
MigrateSingleTable(t) ==
  /\ driver = "idle" /\ ~is_running /\ runs < MaxRuns
  /\ runs' = runs + 1
  /\ driver' = "starting" /\ mode' = "single" /\ todo' = {t}
  /\ failed_rows' = 0 /\ tables_total' = 1
  /\ UNCHANGED <<table, ranges, batch_start, worker, flags, tables_completed, tables_skipped,
                 skipped_ranges, handled, broken, promptness>>

(* is_running_ is set after the check, whatever came in between. *)
SetRunning ==
  /\ driver = "starting"
  /\ is_running' = TRUE
  /\ tables_total' = Cardinality(todo)
  /\ afterStop' = 0 /\ afterPause' = 0
  /\ driver' = "tables"
  /\ UNCHANGED <<place, worker, is_paused, tables_completed, tables_skipped, failed_rows,
                 skipped_ranges, runs, handled, broken>>

(* The table loop: stop, skip a blacklisted table, or go into migrate_table.
   migrate_single_table has neither check. *)
TablesDone ==
  /\ driver = "tables"
  /\ todo = {} \/ (mode = "all" /\ ~is_running)
  /\ driver' = "finishing"
  /\ UNCHANGED <<place, worker, flags, counters, runs, handled, broken, promptness>>

SkipTable ==
  /\ driver = "tables" /\ mode = "all" /\ is_running /\ todo # {}
  /\ ShouldSkip(First(todo))
  /\ todo' = todo \ {First(todo)}
  /\ tables_skipped' = tables_skipped + 1
  /\ UNCHANGED <<driver, mode, table, ranges, batch_start, worker, flags, tables_completed,
                 tables_total, failed_rows, skipped_ranges, runs, handled, broken, promptness>>

(* Into migrate_table, where the partition keys are looked up, in vain ... *)
BeginTable ==
  /\ driver = "tables" /\ todo # {}
  /\ mode = "all" => is_running /\ ~ShouldSkip(First(todo))
  /\ table' = First(todo) /\ todo' = todo \ {First(todo)}
  /\ read' = {} /\ given_up' = {}
  /\ driver' = "calculate"
  /\ UNCHANGED <<mode, ranges, batch_start, worker, flags, counters, runs, broken, promptness>>

(* ... and the ranges calculated; how many depends on whether system.peers
   could be queried.  The flags are not looked at. *)
RangesCalculated(n) ==
  /\ driver = "calculate"
  /\ ranges' = n /\ batch_start' = 0
  /\ driver' = "batch"
  /\ UNCHANGED <<mode, todo, table, worker, flags, counters, runs, handled, broken, promptness>>

(* Mutant of MoreBatches: the stop flag is not looked at. *)
MoreBatchesDeaf == batch_start < ranges

(* The batch loop's head: all batches done, or stopped, or go to the gate.
   Either way the table then counts as completed. *)
MoreBatches == batch_start < ranges /\ is_running

EndTable ==
  /\ driver = "batch" /\ ~MoreBatches
  /\ tables_completed' = tables_completed + 1
  /\ driver' = "tables"
  /\ UNCHANGED <<place, worker, flags, tables_skipped, tables_total, failed_rows,
                 skipped_ranges, runs, handled, broken, promptness>>

NextBatch ==
  /\ driver = "batch" /\ MoreBatches
  /\ driver' = "gate"
  /\ UNCHANGED <<place, worker, flags, counters, runs, handled, broken, promptness>>

(* Mutant of PauseGate: a stop does not end the waiting. *)
PauseGateNeedsRunning ==
  /\ driver = "gate"
  /\ ~is_paused /\ is_running
  /\ driver' = "spawn"
  /\ UNCHANGED <<place, worker, flags, counters, runs, handled, broken, promptness>>

(* The pause gate: a stop ends the waiting, not the batch. *)
PauseGate ==
  /\ driver = "gate"
  /\ ~is_paused \/ ~is_running
  /\ driver' = "spawn"
  /\ UNCHANGED <<place, worker, flags, counters, runs, handled, broken, promptness>>

(* Mutant of BatchEnd: the last batch is not cut to the number of ranges. *)
BatchEndUncut == batch_start + MaxConcurrent

BatchEnd == IF batch_start + MaxConcurrent < ranges THEN batch_start + MaxConcurrent ELSE ranges
Batch == batch_start .. BatchEnd - 1

Spawn ==
  /\ driver = "spawn"
  /\ worker' = [r \in Batch |-> Fetching]
  /\ afterStop' = IF is_running THEN 0 ELSE afterStop + 1
  /\ afterPause' = IF is_paused THEN afterPause + 1 ELSE 0
  /\ driver' = "join"
  /\ UNCHANGED <<place, flags, counters, runs, handled, broken>>

(* Mutants of Join: the threads are detached, or the next batch begins one
   range too far. *)
JoinDetached ==
  /\ driver = "join"
  /\ batch_start' = batch_start + MaxConcurrent
  /\ driver' = "batch"
  /\ UNCHANGED <<mode, todo, table, ranges, worker, flags, counters, runs, handled, broken, promptness>>

JoinSkipsOne ==
  /\ driver = "join" /\ Active = {}
  /\ batch_start' = batch_start + MaxConcurrent + 1
  /\ driver' = "batch"
  /\ UNCHANGED <<mode, todo, table, ranges, worker, flags, counters, runs, handled, broken, promptness>>

(* The jthreads are joined at the end of the iteration. *)
Join ==
  /\ driver = "join" /\ Active = {}
  /\ batch_start' = batch_start + MaxConcurrent
  /\ driver' = "batch"
  /\ UNCHANGED <<mode, todo, table, ranges, worker, flags, counters, runs, handled, broken, promptness>>

Finish ==
  /\ driver = "finishing"
  /\ is_running' = FALSE
  /\ driver' = "idle"
  /\ UNCHANGED <<place, worker, is_paused, counters, runs, handled, broken, promptness>>

-----------------------------------------------------------------------------
(* A thread of the batch: process_range_sync inside the thread's handler.  The
   counters are atomics of their own, and each increment is a step. *)

At(r, p) == r \in Active /\ worker[r].at = p
MoveTo(r, p) == worker' = [worker EXCEPT ![r].at = p]
Without(r) == [s \in Active \ {r} |-> worker[s]]

RangeRead(r) ==
  /\ At(r, "fetch")
  /\ worker' = Without(r)
  /\ read' = read \union {r}
  /\ UNCHANGED <<driver, place, flags, counters, runs, given_up, broken, promptness>>

(* A failed page fetch is tried again ... *)
PageRetry(r) ==
  /\ At(r, "fetch")
  /\ pagination /\ worker[r].attempts < PageRetries
  /\ worker' = [worker EXCEPT ![r].attempts = @ + 1]
  /\ UNCHANGED <<driver, place, flags, counters, runs, handled, broken, promptness>>

(* ... and in the end thrown.  The unpaged path catches a failure itself ... *)
FetchFailed(r) ==
  /\ At(r, "fetch")
  /\ pagination => worker[r].attempts = PageRetries
  /\ MoveTo(r, IF pagination THEN "thrown" ELSE "count_row")
  /\ UNCHANGED <<driver, place, flags, counters, runs, handled, broken, promptness>>

(* ... counts a row, whatever the number of rows in the range ... *)
CountFailedRow(r) ==
  /\ At(r, "count_row")
  /\ failed_rows' = failed_rows + 1
  /\ MoveTo(r, "count_range")
  /\ UNCHANGED <<driver, place, flags, tables_completed, tables_skipped, tables_total,
                 skipped_ranges, runs, handled, broken, promptness>>

(* ... and the range, and throws it on. *)
CountSkippedRange(r) ==
  /\ At(r, "count_range")
  /\ skipped_ranges' = skipped_ranges + 1
  /\ MoveTo(r, "thrown")
  /\ UNCHANGED <<driver, place, flags, tables_completed, tables_skipped, tables_total,
                 failed_rows, runs, handled, broken, promptness>>

(* The thread's handler counts the range and the thread ends. *)
HandleError(r) ==
  /\ At(r, "thrown")
  /\ skipped_ranges' = skipped_ranges + 1
  /\ worker' = Without(r)
  /\ broken' = broken + 1 /\ given_up' = given_up \union {r}
  /\ UNCHANGED <<driver, place, flags, tables_completed, tables_skipped, tables_total,
                 failed_rows, runs, read, promptness>>

-----------------------------------------------------------------------------
(* HTTP threads and the signal handler *)

Pause ==
  /\ ~is_paused
  /\ is_paused' = TRUE /\ afterPause' = 0
  /\ UNCHANGED <<driver, place, worker, is_running, counters, runs, handled, broken, afterStop>>

Resume ==
  /\ is_paused
  /\ is_paused' = FALSE /\ afterPause' = 0
  /\ UNCHANGED <<driver, place, worker, is_running, counters, runs, handled, broken, afterStop>>

(* POST /stop: it leaves is_paused_ alone. *)
Stop ==
  /\ is_running
  /\ is_running' = FALSE /\ afterStop' = 0
  /\ UNCHANGED <<driver, place, worker, is_paused, counters, runs, handled, broken, afterPause>>

(* stop_migration: refused when nothing runs, and it also resumes. *)
StopMigration ==
  /\ is_running
  /\ is_running' = FALSE /\ is_paused' = FALSE /\ afterStop' = 0 /\ afterPause' = 0
  /\ UNCHANGED <<driver, place, worker, counters, runs, handled, broken>>

-----------------------------------------------------------------------------
(* The steps of the loops over tables and batches. *)
LoopStep == \/ SetRunning \/ TablesDone \/ SkipTable \/ BeginTable
            \/ NextBatch \/ PauseGate \/ Spawn \/ Join \/ Finish

DriverStep == /\ UNCHANGED pagination
              /\ LoopStep \/ EndTable \/ \E n \in RangeCounts : RangesCalculated(n)

RangeStep(r) == \/ RangeRead(r) \/ PageRetry(r) \/ FetchFailed(r)
                \/ CountFailedRow(r) \/ CountSkippedRange(r) \/ HandleError(r)

WorkerStep == UNCHANGED pagination /\ \E r \in Active : RangeStep(r)

Control == UNCHANGED pagination /\ (Pause \/ Resume \/ Stop \/ StopMigration)

Start == /\ UNCHANGED pagination
         /\ \/ \E selected \in SUBSET Tables : StartMigration(selected)
            \/ \E t \in Tables : MigrateSingleTable(t)

Next == Start \/ DriverStep \/ WorkerStep \/ Control

Spec == Init /\ [][Next]_vars

(* The driver and the range threads run; a fetch ends in the driver's request
   timeout at the latest.  Nobody has to resume, pause or stop. *)
FairSpec == Spec /\ WF_vars(DriverStep) /\ WF_vars(WorkerStep)

-----------------------------------------------------------------------------
FlagsOK == pagination \in BOOLEAN /\ is_running \in BOOLEAN /\ is_paused \in BOOLEAN

Worker == [attempts : 0..PageRetries, at : {"fetch", "count_row", "count_range", "thrown"}]

TypeOK ==
  /\ FlagsOK
  /\ driver \in {"idle", "starting", "tables", "calculate", "batch", "gate", "spawn", "join", "finishing"}
  /\ mode \in {"all", "single"}
  /\ todo \subseteq Tables /\ table \in Tables \union {0}
  /\ ranges \in RangeCounts \union {0} /\ batch_start \in Nat
  /\ \A r \in Active : r \in 0..ranges - 1 /\ worker[r] \in Worker
  /\ tables_completed \in Nat /\ tables_skipped \in Nat /\ tables_total \in Nat
  /\ failed_rows \in Nat /\ skipped_ranges \in Nat /\ broken \in Nat
  /\ runs \in Nat /\ afterStop \in Nat /\ afterPause \in Nat
  /\ read \subseteq 0..ranges - 1 /\ given_up \subseteq 0..ranges - 1

(* At most max_concurrent_loaders ranges are read at a time, and none while
   the driver is elsewhere: a batch is joined before the next one, the next
   table or the end of the migration. *)
BatchesDoNotOverlap ==
  /\ Cardinality(Active) <= MaxConcurrent
  /\ Active # {} => driver = "join" /\ Active \subseteq Batch

(* Every token range of the table is handled exactly once, in batch order:
   those of the joined batches were read or given up, never both, and nothing
   beyond the current batch was touched.  With all batches joined the whole
   table is accounted for, unless a stop cut it short. *)
Reached == IF driver = "join" THEN BatchEnd
           ELSE IF batch_start < ranges THEN batch_start ELSE ranges

RangesOnce ==
  driver \in {"batch", "gate", "spawn", "join"} =>
    /\ read \union given_up \union Active = 0 .. Reached - 1
    /\ read \intersect given_up = {} /\ Active \intersect (read \union given_up) = {}

(* A stop lets at most the batch begin that had passed the loop's check, even
   when it comes during a pause or while ranges are calculated; a pause
   likewise. *)
ControlIsPrompt == afterStop <= 1 /\ (is_running => afterPause <= 1)

(* Ranges of the default path that were counted by process_range_sync and not
   yet by the handler of their thread. *)
HalfCounted == {r \in Active : ~pagination /\ worker[r].at = "thrown"}

(* The counters of get_stats() at every moment, between the increments of the
   threads too.  start_migration never counts more tables than it selected.
   skipped_ranges, documented as a number of ranges, has one for each range
   that failed in the paginated path; in the default path it has two, and one
   more while a thread is between the two places that count. *)
StatsAddUp ==
  /\ mode = "all" /\ driver # "starting" =>
       tables_completed + tables_skipped + Cardinality(todo) <= tables_total
  /\ skipped_ranges = (IF pagination THEN 1 ELSE 2) * broken + Cardinality(HalfCounted)

(* A stopped migration comes to its end, paused or not. *)
StopEnds == driver \in {"tables", "calculate", "batch", "gate", "spawn", "join"} /\ ~is_running
              ~> driver = "idle"

(* A migration ends unless it is left paused. *)
MigrationEnds == <>[]~is_paused => (driver = "starting" ~> driver = "idle")

-----------------------------------------------------------------------------
(* Inductive invariant.  A batch is open only between gate and join, its
   threads are alive only in join, and a table begins with nothing handled. *)
BatchInv ==
  /\ driver \in {"gate", "spawn", "join"} => batch_start < ranges
  /\ Active # {} => driver = "join" /\ Active \subseteq Batch
  /\ driver = "calculate" => read = {} /\ given_up = {}

(* A batch that has passed the loop's head met no stop before it, and one that
   has passed the gate no pause. *)
PromptInv ==
  /\ ControlIsPrompt
  /\ driver \in {"gate", "spawn"} /\ ~is_running => afterStop = 0
  /\ driver = "spawn" /\ is_running /\ is_paused => afterPause = 0

(* The table in migrate_table is neither in todo nor in a counter yet. *)
TableInHand == IF driver \in {"calculate", "batch", "gate", "spawn", "join"} THEN 1 ELSE 0

TotalsInv ==
  /\ mode = "all" /\ driver = "starting" => tables_completed = 0 /\ tables_skipped = 0
  /\ mode = "all" /\ driver # "starting" =>
       tables_completed + tables_skipped + Cardinality(todo) + TableInHand <= tables_total
  /\ skipped_ranges = (IF pagination THEN 1 ELSE 2) * broken + Cardinality(HalfCounted)

(* Only the default path counts in process_range_sync. *)
PathInv == \A r \in Active : worker[r].at \in {"count_row", "count_range"} => ~pagination

IInv == TypeOK /\ BatchInv /\ RangesOnce /\ PromptInv /\ PathInv /\ TotalsInv
=============================================================================
