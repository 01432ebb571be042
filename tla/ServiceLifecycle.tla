-------------------------- MODULE ServiceLifecycle --------------------------
(***************************************************************************)
(* main() of the three services: start-up, the io_context that the main    *)
(* thread runs, the std::jthreads beside it, and the end after SIGINT or   *)
(* SIGTERM.  The signal handler is a handler of the io_context like any    *)
(* other: it waits until the coroutine of the service suspends.            *)
(***************************************************************************)
EXTENDS Integers

Services == {"dual-writer", "dual-reader", "sstable-loader"}

VARIABLES
  service,    \* which of the three programs runs
  main,       \* the main thread
  filter,     \* the filter governor: with its rules, with none, or not built
  sessions,   \* clusters with an open session
  signal,     \* a signal was delivered
  coroutine,  \* the coroutine spawned on the io_context
  api,        \* the HTTP thread
  reload,     \* the dual-writer's hot-reload thread
  reload_stop,\* its stop token
  retry       \* the DualWriter's retry thread

threads == <<api, reload, reload_stop, retry>>
vars == <<service, main, filter, sessions, signal, coroutine, threads>>

Clusters == {"source", "target"}

Init ==
  /\ service \in Services
  /\ main = "config" /\ signal = FALSE
  /\ filter = "none" /\ sessions = {}
  /\ coroutine = "none"
  /\ api = "none" /\ reload = "none" /\ reload_stop = FALSE /\ retry = "none"

-----------------------------------------------------------------------------
(* Start-up: configuration, filter rules and both sessions come before the
   first thread. *)

LoadConfig ==
  /\ main = "config"
  /\ main' = "filter"
  /\ UNCHANGED <<service, filter, sessions, signal, coroutine, threads>>

(* What the rules file gives: the loader goes on with an empty filter if it is
   told to skip the rules or cannot read them. *)
FilterRead == IF service = "sstable-loader" THEN {"rules", "empty"} ELSE {"rules"}

(* The reader's rules are part of its configuration. *)
LoadFilter ==
  /\ main = "filter"
  /\ filter' \in FilterRead
  /\ main' = "connect"
  /\ UNCHANGED <<service, sessions, signal, coroutine, threads>>

Connect(c) ==
  /\ main = "connect" /\ c \notin sessions
  /\ c = "target" => "source" \in sessions
  /\ sessions' = sessions \union {c}
  /\ UNCHANGED <<service, main, filter, signal, coroutine, threads>>

(* A missing or malformed file, or a cluster that cannot be reached, is an
   exception: main returns 1 and the session it may have is closed. *)
StartupFails ==
  /\ \/ main = "config"
     \/ main = "filter" /\ service = "dual-writer"
     \/ main = "connect" /\ sessions # Clusters
  /\ main' = "exited" /\ sessions' = {}
  /\ UNCHANGED <<service, filter, signal, coroutine, threads>>

(* The writer starts its retry thread, main the others, and the coroutine is
   posted to the io_context; the loader has one only with --auto-start. *)
Startup ==
  /\ main = "connect" /\ sessions = Clusters
  /\ main' = "run"
  /\ api' = "starting"
  /\ reload' = IF service = "dual-writer" THEN "sleeping" ELSE "none"
  /\ retry' = IF service = "dual-writer" THEN "running" ELSE "none"
  /\ coroutine' \in IF service = "sstable-loader" THEN {"none", "ready"} ELSE {"ready"}
  /\ UNCHANGED <<service, filter, sessions, signal, reload_stop>>

SignalArrives ==
  /\ main \in {"run", "returning", "join reload", "join api"} /\ ~signal
  /\ signal' = TRUE
  /\ UNCHANGED <<service, main, filter, sessions, coroutine, threads>>

-----------------------------------------------------------------------------
(* The io_context: one handler at a time, on the main thread *)

(* The coroutine runs: serving a client, a validation cycle, a migration. *)
CoroutineRuns ==
  /\ main = "run" /\ coroutine \in {"ready", "suspended"}
  /\ coroutine' = "busy"
  /\ UNCHANGED <<service, main, filter, sessions, signal, threads>>

(* It waits for a socket or its timer; the migration never waits. *)
CoroutineSuspends ==
  /\ main = "run" /\ coroutine = "busy" /\ service # "sstable-loader"
  /\ coroutine' = "suspended"
  /\ UNCHANGED <<service, main, filter, sessions, signal, threads>>

(* The migration is over, or an exception ends the coroutine (the proxy's port
   is taken): it was spawned detached, so nobody is told. *)
CoroutineEnds ==
  /\ main = "run" /\ coroutine = "busy" /\ service # "dual-reader"
  /\ coroutine' = "ended"
  /\ UNCHANGED <<service, main, filter, sessions, signal, threads>>

(* ioc.stop(), and run() returns.  The loader's stop() comes too late for a
   migration: none is in progress when the handler runs. *)
HandleSignal ==
  /\ main = "run" /\ signal /\ coroutine # "busy"
  /\ main' = "returning"
  /\ UNCHANGED <<service, filter, sessions, signal, coroutine, threads>>

-----------------------------------------------------------------------------
(* The other threads *)

(* svr.listen() blocks until somebody calls svr.stop(), which nobody does; it
   returns at once if the port is taken. *)
ApiListens ==
  /\ api = "starting"
  /\ api' \in {"listening", "ended"}
  /\ UNCHANGED <<service, main, filter, sessions, signal, coroutine, reload, reload_stop, retry>>

(* The hot-reload thread wakes every minute and looks at its token before and
   after the sleep. *)
ReloadWakes ==
  /\ reload = "sleeping"
  /\ reload' = IF reload_stop THEN "ended" ELSE "reloading"
  /\ UNCHANGED <<service, main, filter, sessions, signal, coroutine, api, reload_stop, retry>>

ReloadDone ==
  /\ reload = "reloading"
  /\ reload' = IF reload_stop THEN "ended" ELSE "sleeping"
  /\ UNCHANGED <<service, main, filter, sessions, signal, coroutine, api, reload_stop, retry>>

-----------------------------------------------------------------------------
(* main returns 0: its locals are destroyed in reverse order.  A jthread's
   destructor requests a stop and joins. *)

(* The io_context goes first, with the coroutines it holds. *)
StopReload ==
  /\ main = "returning"
  /\ coroutine' = "ended"
  /\ reload_stop' = TRUE /\ main' = "join reload"
  /\ UNCHANGED <<service, filter, sessions, signal, api, reload, retry>>

JoinReload ==
  /\ main = "join reload" /\ reload \in {"none", "ended"}
  /\ main' = "join api"
  /\ UNCHANGED <<service, filter, sessions, signal, coroutine, threads>>

JoinApi ==
  /\ main = "join api" /\ api = "ended"
  /\ main' = "destroy"
  /\ UNCHANGED <<service, filter, sessions, signal, coroutine, threads>>

(* After the last join the service's object goes: ~DualWriter stops and joins
   the retry thread. *)
DestroyService ==
  /\ main = "destroy"
  /\ retry' = IF retry = "running" THEN "stopped" ELSE retry
  /\ main' = "close"
  /\ UNCHANGED <<service, filter, sessions, signal, coroutine, api, reload, reload_stop>>

(* ~ScyllaConnection closes the session, the target's first. *)
Close(c) ==
  /\ main = "close" /\ c \in sessions
  /\ c = "source" => "target" \notin sessions
  /\ sessions' = sessions \ {c}
  /\ main' = IF sessions' = {} THEN "exited" ELSE "close"
  /\ UNCHANGED <<service, filter, signal, coroutine, threads>>

-----------------------------------------------------------------------------
MainStep == \/ LoadConfig \/ LoadFilter \/ StartupFails \/ Startup
            \/ CoroutineRuns \/ CoroutineSuspends
            \/ StopReload \/ JoinReload \/ JoinApi \/ DestroyService
            \/ \E c \in Clusters : Connect(c) \/ Close(c)
ReloadStep == ReloadWakes \/ ReloadDone

Next == MainStep \/ CoroutineEnds \/ HandleSignal \/ SignalArrives \/ ApiListens \/ ReloadStep

Spec == Init /\ [][Next]_vars

(* Every thread runs; a delivered signal is handled although other handlers
   keep becoming ready, for the io_context's queue is first come, first served.
   A migration need not end: it may be left paused. *)
FairSpec ==
  Spec /\ WF_vars(MainStep) /\ SF_vars(HandleSignal) /\ WF_vars(ApiListens) /\ WF_vars(ReloadStep)

-----------------------------------------------------------------------------
TypeOK ==
  /\ service \in Services
  /\ main \in {"config", "filter", "connect", "run", "returning", "join reload", "join api",
               "destroy", "close", "exited"}
  /\ filter \in {"none", "rules", "empty"} /\ sessions \subseteq Clusters
  /\ coroutine \in {"none", "ready", "busy", "suspended", "ended"}
  /\ api \in {"none", "starting", "listening", "ended"}
  /\ reload \in {"none", "sleeping", "reloading", "ended"}
  /\ retry \in {"none", "running", "stopped"}
  /\ signal \in BOOLEAN /\ reload_stop \in BOOLEAN

(* The destructors of the service's objects run only in a process whose HTTP
   server never came up: ~DualWriter, which stops the retry thread, waits for
   two joins, of which that of the HTTP thread returns only then. *)
DestroyedOnlyWithoutApi == retry = "stopped" => reload = "ended" /\ api = "ended"

(* Destruction order of main's locals: while a thread or a coroutine that
   executes statements exists, both sessions are open and the filter is built,
   from the first thread started to the last one joined. *)
SessionsOutliveThreads ==
  (\/ retry = "running" \/ api \in {"starting", "listening"}
   \/ coroutine \in {"ready", "busy", "suspended"})
  => sessions = Clusters /\ filter # "none"

(* writer.hpp:19, "Dtor: defined — signals retry thread to stop": after a
   signal the dual-writer's retry thread comes to its end. *)
RetryThreadStops == signal /\ retry = "running" ~> retry = "stopped"
=============================================================================
