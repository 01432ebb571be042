------------------------------ MODULE Dashboard ------------------------------
(***************************************************************************)
(* tui-dash, the terminal dashboard of the sstable-loader: a background    *)
(* thread refreshes the displayed state, from GET /status of the loader or *)
(* from the generator of the demo, and the FTXUI thread handles keys.      *)
(* Both work under state_mutex, which the background thread also holds     *)
(* while it waits for the loader's answer.                                 *)
(*                                                                         *)
(* A key of the live display changes the display only: the loader is not   *)
(* told, and the next answer overwrites it.                                *)
(***************************************************************************)
EXTENDS Integers, Sequences, SequencesExt

CONSTANTS
  NumTables,      \* tables of the demo, 8
  Full,           \* the progress of a finished table, 100.0
  MinIncrement, MaxIncrement,   \* what one tick adds to it, 0.5 to 2.0
  MinRows, MaxRows,             \* rows one tick adds, 500 to 2500
  TotalRows,      \* rows of all tables of the demo, about 112 million
  LogLimit,       \* entries kept by add_log, 100
  MaxChanges,     \* bound on the changes of the loader and of its reachability
  MaxKeys         \* bound on the keys pressed

Increments == MinIncrement .. MaxIncrement
RowsPerTick == MinRows .. MaxRows

(* The rows that the ticks of one table add up to at most. *)
RowsPerTable == ((Full + MinIncrement - 1) \div MinIncrement) * MaxRows

(* The demo's figures: its tables are done before its rows are. *)
ASSUME DashboardAssumption ==
  /\ NumTables \in Nat \ {0} /\ Full \in Nat \ {0} /\ LogLimit \in Nat \ {0}
  /\ MinIncrement \in Nat \ {0} /\ MaxIncrement \in Nat
  /\ MinRows \in Nat \ {0} /\ MaxRows \in Nat /\ TotalRows \in Nat
  /\ NumTables * RowsPerTable < TotalRows
  /\ MaxChanges \in Nat /\ MaxKeys \in Nat

VARIABLES
  demo,          \* args.demo
  shown,         \* DashboardState: the flags, whether rows were migrated
  tables, tables_completed, migrated_rows,   \* DashboardState, as the demo fills it
  log,           \* activity_log, the kind of each entry
  started, current_table_idx,   \* MockDataGenerator
  connected,     \* ApiClient::connected_
  api_connected, \* what the header shows as LIVE
  updater,       \* the background thread
  reply,         \* the answer it is about to apply
  ui,            \* the FTXUI thread, main: in its loop, at a key, or past the loop
  quit,          \* the flag
  keys,          \* keys pressed so far
  loader, up,    \* the sstable-loader: its status, and whether it answers
  changes        \* its changes so far

display == <<shown, tables, tables_completed, migrated_rows, log>>
generator == <<started, current_table_idx>>
client == <<connected, api_connected, reply>>
server == <<loader, up, changes>>
vars == <<demo, display, generator, client, updater, ui, quit, keys, server>>

Status == [is_running : BOOLEAN, is_paused : BOOLEAN, rows : BOOLEAN]
NoStatus == [is_running |-> FALSE, is_paused |-> FALSE, rows |-> FALSE]

(* The kinds of entries of the log.  Entries about failed rows and the chatter
   of the demo, which no transition depends on, are left out. *)
Entries == {"started", "reset", "init", "table", "connected", "completed", "paused",
            "resumed", "lost", "parse"}

(* add_log, once per entry: the oldest entry goes when there are too many. *)
AddLog(old, entries) ==
  LET all == old \o entries IN SubSeq(all, Len(all) - Min({Len(all), LogLimit}) + 1, Len(all))

When(condition, entry) == IF condition THEN <<entry>> ELSE << >>

Init ==
  /\ demo \in BOOLEAN
  /\ shown = NoStatus /\ tables = << >> /\ tables_completed = 0 /\ migrated_rows = 0
  /\ log = <<"started">>
  /\ started = FALSE /\ current_table_idx = 0
  /\ connected = FALSE /\ api_connected = FALSE /\ reply = NoStatus
  /\ updater = "head" /\ ui = "loop" /\ quit = FALSE /\ keys = 0
  /\ loader = NoStatus /\ up \in BOOLEAN /\ changes = 0

(* state_mutex is free: the background thread holds it during a poll. *)
LockFree == updater \notin {"fetching", "answered"}

-----------------------------------------------------------------------------
(* The background thread *)

(* The head of its loop. *)
UpdaterExit ==
  /\ updater = "head" /\ quit
  /\ updater' = "done"
  /\ UNCHANGED <<demo, display, generator, client, ui, quit, keys, server>>

UpdaterSleep ==
  /\ updater = "head" /\ ~quit
  /\ updater' = "sleep"
  /\ UNCHANGED <<demo, display, generator, client, ui, quit, keys, server>>

(* MockDataGenerator::initialize, at the first tick. *)
DemoStart ==
  /\ updater = "sleep" /\ demo /\ ~started
  /\ started' = TRUE
  /\ shown' = [shown EXCEPT !.is_running = TRUE, !.is_paused = FALSE]
  /\ tables' = tables \o [i \in 1..NumTables |->
                 [status |-> IF i = 1 THEN "RUNNING" ELSE "PENDING", progress |-> 0]]
  /\ log' = AddLog(log, <<"init", "init", "init", "init", "table">>)
  /\ updater' = "head"
  /\ UNCHANGED <<demo, tables_completed, migrated_rows, current_table_idx, client, ui, quit,
                 keys, server>>

(* A tick while paused or not running only moves the clock. *)
DemoIdle ==
  /\ updater = "sleep" /\ demo /\ started
  /\ shown.is_paused \/ ~shown.is_running
  /\ updater' = "head"
  /\ UNCHANGED <<demo, display, generator, client, ui, quit, keys, server>>

InTable == current_table_idx < Len(tables)

(* Mutant of Finishes: the last increment has to fit exactly. *)
FinishesExactly(inc) == InTable /\ tables[current_table_idx + 1].progress + inc = Full

(* The tick finishes the current table. *)
Finishes(inc) == InTable /\ tables[current_table_idx + 1].progress + inc >= Full

Advance(inc) ==
  LET i == current_table_idx + 1
  IN  [j \in DOMAIN tables |->
         IF j = i THEN IF Finishes(inc) THEN [status |-> "DONE", progress |-> Full]
                       ELSE [tables[j] EXCEPT !.progress = @ + inc]
         ELSE IF j = i + 1 /\ Finishes(inc) THEN [tables[j] EXCEPT !.status = "RUNNING"]
         ELSE tables[j]]

(* MockDataGenerator::update: rows, the current table, completion. *)
DemoTick(inc, rows) ==
  /\ updater = "sleep" /\ demo /\ started
  /\ shown.is_running /\ ~shown.is_paused
  /\ LET idx == IF Finishes(inc) THEN current_table_idx + 1 ELSE current_table_idx
         moved == Min({migrated_rows + rows, TotalRows})
         complete == moved >= TotalRows \/ idx >= Len(tables)
     IN /\ tables' = Advance(inc)
        /\ current_table_idx' = idx
        /\ tables_completed' = tables_completed + (idx - current_table_idx)
        /\ migrated_rows' = IF complete THEN TotalRows ELSE moved
        /\ shown' = [shown EXCEPT !.is_running = ~complete, !.rows = TRUE]
        /\ log' = AddLog(log, When(Finishes(inc), "table")
                              \o When(Finishes(inc) /\ idx < Len(tables), "table")
                              \o When(complete, "completed"))
  /\ updater' = "head"
  /\ UNCHANGED <<demo, started, client, ui, quit, keys, server>>

(* ApiClient::fetch_status: the lock is taken and the request sent ... *)
PollBegin ==
  /\ updater = "sleep" /\ ~demo
  /\ updater' = "fetching"
  /\ UNCHANGED <<demo, display, generator, client, ui, quit, keys, server>>

(* ... the loader answers with the status it has at that moment ... *)
Answer ==
  /\ updater = "fetching" /\ up
  /\ reply' = loader
  /\ updater' = "answered"
  /\ UNCHANGED <<demo, display, generator, connected, api_connected, ui, quit, keys, server>>

(* Mutant of Fetched: the transitions are computed from the new status. *)
FetchedLate(s) ==
  /\ shown' = s
  /\ log' = AddLog(log, When(~shown.is_running /\ s.is_running, "connected")
                        \o When(~s.is_paused /\ s.is_paused, "paused")
                        \o When(s.is_paused /\ ~s.is_paused /\ s.is_running, "resumed"))

(* update_state: the display takes the status over, and transitions from what
   was displayed before are logged. *)
Fetched(s) ==
  /\ shown' = s
  /\ log' = AddLog(log, When(~shown.is_running /\ s.is_running, "connected")
                        \o When(shown.is_running /\ ~s.is_running /\ s.rows, "completed")
                        \o When(~shown.is_paused /\ s.is_paused, "paused")
                        \o When(shown.is_paused /\ ~s.is_paused /\ s.is_running, "resumed"))

PollApply ==
  /\ updater = "answered"
  /\ Fetched(reply)
  /\ connected' = TRUE /\ api_connected' = TRUE
  /\ reply' = NoStatus /\ updater' = "head"
  /\ UNCHANGED <<demo, tables, tables_completed, migrated_rows, generator, ui, quit, keys, server>>

(* Mutants of PollFails: the thread gives up for good, or tries again with the
   lock held. *)
PollFailsForGood(how) ==
  /\ updater = "fetching" /\ ~up
  /\ connected' = FALSE /\ api_connected' = FALSE
  /\ updater' = "done"
  /\ UNCHANGED <<demo, display, generator, reply, ui, quit, keys, server>>

PollFailsHoldingLock(how) ==
  /\ updater = "fetching" /\ ~up
  /\ connected' = FALSE
  /\ UNCHANGED <<demo, display, generator, reply, api_connected, updater, ui, quit, keys, server>>

(* No answer within the timeouts, logged when it is news; an HTTP error, not
   logged; a body that is not JSON; or JSON of another service, which counts
   as connected. *)
PollFails(how) ==
  /\ updater = "fetching" /\ ~up
  /\ log' = AddLog(log, When(how = "none" /\ connected, "lost") \o When(how = "garbage", "parse"))
  /\ connected' = (how = "foreign") /\ api_connected' = (how = "foreign")
  /\ updater' = "head"
  /\ UNCHANGED <<demo, shown, tables, tables_completed, migrated_rows, generator, reply, ui,
                 quit, keys, server>>

-----------------------------------------------------------------------------
(* The FTXUI thread: keys *)

Keys == {"space", "reset", "quit"}

(* A key is pressed, in the middle of a poll too: its handler asks for
   state_mutex, and the thread takes no other key before it has it. *)
Press(key) ==
  /\ ui = "loop" /\ (key = "quit" \/ keys < MaxKeys)
  /\ ui' = key /\ keys' = keys + 1
  /\ UNCHANGED <<demo, display, generator, client, updater, quit, server>>

(* The handler got the lock; it keeps it to its end. *)
Handles(key) == ui = key /\ LockFree

(* Space: ignored unless running. *)
TogglePause ==
  /\ Handles("space")
  /\ \/ /\ shown.is_running
        /\ shown' = [shown EXCEPT !.is_paused = ~@]
        /\ log' = AddLog(log, <<IF shown.is_paused THEN "resumed" ELSE "paused">>)
     \/ ~shown.is_running /\ UNCHANGED <<shown, log>>
  /\ ui' = "loop"
  /\ UNCHANGED <<demo, tables, tables_completed, migrated_rows, generator, client, updater,
                 quit, keys, server>>

(* Mutant of Reset: the generator starts again and keeps its table index. *)
ResetRestartsDemo ==
  /\ Handles("reset")
  /\ shown' = NoStatus /\ tables' = << >> /\ tables_completed' = 0 /\ migrated_rows' = 0
  /\ log' = <<"reset">>
  /\ started' = FALSE /\ ui' = "loop"
  /\ UNCHANGED <<demo, current_table_idx, client, updater, quit, keys, server>>

(* R: a fresh DashboardState; the generator and the client keep theirs. *)
Reset ==
  /\ Handles("reset")
  /\ shown' = NoStatus /\ tables' = << >> /\ tables_completed' = 0 /\ migrated_rows' = 0
  /\ log' = <<"reset">> /\ ui' = "loop"
  /\ UNCHANGED <<demo, generator, client, updater, quit, keys, server>>

(* Q or Escape: the flag is set and the screen's loop ends. *)
Quit ==
  /\ Handles("quit")
  /\ quit' = TRUE /\ ui' = "joining"
  /\ UNCHANGED <<demo, display, generator, client, updater, keys, server>>

(* The end of main: the jthread is joined first, then the state, the mutex and
   the client it uses are destroyed. *)
Destroy ==
  /\ ui = "joining" /\ updater = "done"
  /\ ui' = "destroyed"
  /\ UNCHANGED <<demo, display, generator, client, updater, quit, keys, server>>

-----------------------------------------------------------------------------
(* The loader: its status changes, and it can or cannot be reached. *)
LoaderChanges ==
  /\ ~demo /\ changes < MaxChanges
  /\ changes' = changes + 1
  /\ \/ loader' \in Status /\ UNCHANGED up
     \/ up' = ~up /\ UNCHANGED loader
  /\ UNCHANGED <<demo, display, generator, client, updater, ui, quit, keys>>

UpdaterStep ==
  \/ UpdaterExit \/ UpdaterSleep \/ DemoStart \/ DemoIdle
  \/ \E i \in Increments, r \in RowsPerTick : DemoTick(i, r)
  \/ PollBegin \/ Answer \/ PollApply
  \/ \E how \in {"none", "error", "garbage", "foreign"} : PollFails(how)

KeyStep == TogglePause \/ Reset \/ Quit

Next == UpdaterStep \/ (\E key \in Keys : Press(key)) \/ KeyStep \/ Destroy \/ LoaderChanges

Spec == Init /\ [][Next]_vars

(* The background thread runs: its sleep ends, and a request ends in the
   client's timeouts at the latest.  So does the end of main.  A handler that
   waits for state_mutex gets it if the mutex is free again and again: it is,
   for the whole sleep between two polls.  Keys and the loader are free. *)
FairSpec == Spec /\ WF_vars(UpdaterStep) /\ SF_vars(KeyStep) /\ WF_vars(Destroy)

-----------------------------------------------------------------------------
(* Every "resumed" of the log was followed by a "paused". *)
EndsPaused(entries) ==
  \A i \in DOMAIN entries :
    entries[i] = "resumed" => \E j \in DOMAIN entries : j > i /\ entries[j] = "paused"

(* A display that says PAUSED never has a log that ends in "resumed", whoever
   paused, in whatever order keys, polls and lost connections follow.  (The
   converse does not hold: a stop while paused leaves "paused" as the last
   word.) *)
PausedIsLogged == shown.is_paused => EndsPaused(log)

(* The demo's table list is the generator's progress, whatever is pressed: the
   tables before the index are done, the one at it runs, the display says
   running exactly until the last one is done, and the rows do not end the
   demo before. *)
DemoTables ==
  tables # << >> =>
    /\ Len(tables) = NumTables /\ tables_completed = current_table_idx
    /\ shown.is_running <=> current_table_idx < NumTables
    /\ \A i \in 1..NumTables :
         tables[i].status = IF i <= current_table_idx THEN "DONE"
                            ELSE IF i = current_table_idx + 1 THEN "RUNNING" ELSE "PENDING"

(* A loader that can be reached for good is, in the end, displayed as it is:
   what keys changed locally and what failed polls left behind goes away. *)
CatchesUp ==
  ~demo /\ <>[]up => <>[](quit \/ (shown = loader /\ api_connected))

(* A started demo that is not left paused comes to its end, unless it is
   reset, after which it stays still, or the program is left. *)
DemoEnds ==
  <>[]~shown.is_paused =>
    (tables # << >> ~> (tables = << >> \/ quit \/ current_table_idx = NumTables))

(* Leaving the program works from the moment Q is pressed, in the middle of a
   poll too: the key's handler gets the mutex that the polls hold, the
   background thread ends, and what it uses is destroyed after it. *)
QuitEnds == ui = "quit" ~> ui = "destroyed"

-----------------------------------------------------------------------------
(* Inductive invariant *)

TableStates == {"PENDING", "RUNNING", "DONE"}
TableRecords == [status : TableStates, progress : 0 .. Full]

TypeOK ==
  /\ shown \in Status /\ reply \in Status /\ loader \in Status
  /\ tables \in Seq(TableRecords)
  /\ tables_completed \in Nat /\ migrated_rows \in Nat /\ current_table_idx \in Nat
  /\ log \in Seq(Entries)

(* The demo fills the table list once, and only a demo does. *)
DemoOnly ==
  /\ tables # << >> => demo
  /\ demo => updater \notin {"fetching", "answered"}
  /\ demo /\ ~started => /\ tables = << >> /\ tables_completed = 0
                         /\ migrated_rows = 0 /\ current_table_idx = 0
  /\ demo /\ tables = << >> => ~shown.is_running

(* A tick adds MinIncrement to the current table at least and MaxRows to the
   rows at most; the tables after it have not begun. *)
RowsInv ==
  tables # << >> /\ current_table_idx < NumTables =>
    /\ tables[current_table_idx + 1].progress < Full
    /\ migrated_rows <= current_table_idx * RowsPerTable
                        + (tables[current_table_idx + 1].progress \div MinIncrement) * MaxRows
    /\ \A i \in 1 .. NumTables : i > current_table_idx + 1 => tables[i].progress = 0

IInv == TypeOK /\ DemoOnly /\ RowsInv /\ DemoTables /\ PausedIsLogged
=============================================================================
