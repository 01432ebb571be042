------------------------------ MODULE DualWriter ------------------------------
(***************************************************************************)
(* The DualWriter class of services/dual-writer: write() mirrors every     *)
(* accepted statement from the source cluster to the target cluster, and   *)
(* a background thread retries the shadow writes that failed.              *)
(*                                                                         *)
(* Two threads share failed_writes_ and the counters.  The io_context of   *)
(* main.cpp runs on ONE thread and write() never suspends, so at most one  *)
(* write() is in progress: `pc', `cur' and `result' are its program        *)
(* counter, argument and WriteResult.  The retry thread is `retry_pc' with *)
(* its three local containers.  Every step below is one access to state    *)
(* the other thread (or a cluster) can see.                                *)
(*                                                                         *)
(* A statement is a member of Writes; the id that generate_id() draws for  *)
(* a queued statement is taken to be fresh, so the statement itself is     *)
(* the key of failed_writes_.                                              *)
(***************************************************************************)
EXTENDS Integers, FiniteSets

CONSTANTS
  Writes,        \* the statements clients submit, each submitted once
  Rows,          \* the rows they write
  RowOf,         \* RowOf[w] is the row that w writes
  Executable,    \* statements that carry no bind marker: see Outcomes
  Blacklisted,   \* statements whose table the enabled filter skips
  MaxRetries,    \* config_.writer.max_retries
  NoWrite        \* no statement

ASSUME ConstantsAssumption ==
  /\ IsFiniteSet(Writes)
  /\ RowOf \in [Writes -> Rows]
  /\ Executable \subseteq Writes
  /\ Blacklisted \subseteq Writes
  /\ MaxRetries \in Nat
  /\ NoWrite \notin Writes

VARIABLES
  pc,             \* where write() is, "idle" when none is in progress
  cur,            \* its statement
  result,         \* its WriteResult
  stats,          \* stats_: the six atomic counters
  failed_writes,  \* failed_writes_: attempts of each entry, 0 where there is none
  retry_pc,       \* where retry_failed_writes_loop is
  snapshot,       \* its snapshot: the entries still to process in this cycle
  to_remove,      \* its to_remove
  to_update,      \* its to_update, 0 where there is none
  life,           \* how far ~DualWriter has come
  source,         \* row contents of the source cluster: the last statement applied
  target,         \* row contents of the target cluster
  submitted,      \* history: statements handed to write()
  accepted,       \* history: statements the source cluster acknowledged
  acked,          \* history: statements the target cluster acknowledged
  abandoned,      \* history: statements the retry thread gave up
  sent            \* history: how often each statement was sent to the target

ioVars      == <<pc, cur, result>>
retryVars   == <<retry_pc, snapshot, to_remove, to_update>>
clusterVars == <<source, target>>
history     == <<submitted, accepted, acked, abandoned, sent>>
vars == <<ioVars, stats, failed_writes, retryVars, life, clusterVars, history>>

-----------------------------------------------------------------------------
(* WriteResult: what source_ok and target_ok say. *)
Result == {"none", "source_failed", "source_only", "shadow_failed", "both"}
SourceOk == result \in {"source_only", "shadow_failed", "both"}
FullySuccessful == result = "both"

(* The counters of WriterStats. *)
Counter == {"total", "successful", "failed", "retried", "filtered", "abandoned"}
Count(c) == stats' = [stats EXCEPT ![c] = @ + 1]

None == [w \in Writes |-> 0]
Pending == {w \in Writes : failed_writes[w] > 0}
Remaining == {w \in Writes : snapshot[w] > 0}

(***************************************************************************)
(* ScyllaConnection::execute throws on every error of the driver, request  *)
(* timeouts included, so a statement that failed may have been applied.    *)
(* It is sent with no bound values: a server rejects one that has bind     *)
(* markers.  The driver stamps each execution with a client-side           *)
(* timestamp, so applying a timed-out execution late has the effect of     *)
(* applying it when it was sent.                                           *)
(***************************************************************************)
Outcomes(w) == IF w \in Executable THEN {"ok", "lost", "in_doubt"} ELSE {"lost"}
Apply(rows, w, o) == IF o = "lost" THEN rows ELSE [rows EXCEPT ![RowOf[w]] = w]

Init ==
  /\ pc = "idle" /\ cur = NoWrite /\ result = "none"
  /\ stats = [c \in Counter |-> 0]
  /\ failed_writes = None
  /\ retry_pc = "sleep" /\ snapshot = None /\ to_remove = {} /\ to_update = None
  /\ life = "up"
  /\ source = [r \in Rows |-> NoWrite]
  /\ target = [r \in Rows |-> NoWrite]
  /\ submitted = {} /\ accepted = {} /\ acked = {} /\ abandoned = {}
  /\ sent = None

-----------------------------------------------------------------------------
(* write(), on the io_context thread *)

(* Entry of write(): the statement is counted. *)
WriteBegin(w) ==
  /\ pc = "idle" /\ life = "up"
  /\ w \notin submitted
  /\ pc' = "gate" /\ cur' = w /\ result' = "none"
  /\ submitted' = submitted \union {w}
  /\ Count("total")
  /\ UNCHANGED <<failed_writes, retryVars, life, clusterVars,
                 accepted, acked, abandoned, sent>>

(* The filter gate chooses write_source_only or write_dual_async. *)
FilterGate ==
  /\ pc = "gate"
  /\ \/ cur \in Blacklisted /\ Count("filtered") /\ pc' = "source_only"
     \/ cur \notin Blacklisted /\ pc' = "source" /\ UNCHANGED stats
  /\ UNCHANGED <<cur, result, failed_writes, retryVars, life, clusterVars, history>>

(* The synchronous write to the source; its failure ends the write. *)
SourceExecute(o) ==
  /\ pc \in {"source_only", "source"}
  /\ o \in Outcomes(cur)
  /\ source' = Apply(source, cur, o)
  /\ \/ /\ o # "ok"
        /\ result' = "source_failed" /\ pc' = "return"
        /\ UNCHANGED accepted
     \/ /\ o = "ok"
        /\ accepted' = accepted \union {cur}
        /\ result' = IF pc = "source_only" THEN "source_only" ELSE "none"
        /\ pc' = IF pc = "source_only" THEN "return" ELSE "target"
  /\ UNCHANGED <<cur, stats, failed_writes, retryVars, life, target,
                 submitted, acked, abandoned, sent>>

(* Mutant of TargetExecute: the exception is taken for a success. *)
TargetExecuteUnchecked(o) ==
  /\ pc = "target"
  /\ o \in Outcomes(cur)
  /\ target' = Apply(target, cur, o)
  /\ sent' = [sent EXCEPT ![cur] = @ + 1]
  /\ acked' = acked \union {cur} /\ result' = "both" /\ pc' = "return"
  /\ UNCHANGED <<cur, stats, failed_writes, retryVars, life, source,
                 submitted, accepted, abandoned>>

(* The shadow write to the target. *)
TargetExecute(o) ==
  /\ pc = "target"
  /\ o \in Outcomes(cur)
  /\ target' = Apply(target, cur, o)
  /\ sent' = [sent EXCEPT ![cur] = @ + 1]
  /\ \/ o = "ok" /\ acked' = acked \union {cur} /\ result' = "both" /\ pc' = "return"
     \/ o # "ok" /\ result' = "shadow_failed" /\ pc' = "enqueue" /\ UNCHANGED acked
  /\ UNCHANGED <<cur, stats, failed_writes, retryVars, life, source,
                 submitted, accepted, abandoned>>

(* enqueue_failed_write: one attempt has been made. *)
EnqueueFailedWrite ==
  /\ pc = "enqueue"
  /\ failed_writes' = [failed_writes EXCEPT ![cur] = 1]
  /\ pc' = "return"
  /\ UNCHANGED <<cur, result, stats, retryVars, life, clusterVars, history>>

(* write() counts the outcome and returns its result. *)
WriteReturn ==
  /\ pc = "return"
  /\ Count(IF SourceOk THEN "successful" ELSE "failed")
  /\ pc' = "idle" /\ cur' = NoWrite
  /\ UNCHANGED <<result, failed_writes, retryVars, life, clusterVars, history>>

-----------------------------------------------------------------------------
(* retry_failed_writes_loop, on the retry thread *)

(* The retry delay is over and no stop was requested so far. *)
RetryWake ==
  /\ retry_pc = "sleep" /\ life = "up"
  /\ retry_pc' = "awake"
  /\ UNCHANGED <<ioVars, stats, failed_writes, snapshot, to_remove, to_update,
                 life, clusterVars, history>>

(* An empty queue: back to sleep. *)
RetryEmpty ==
  /\ retry_pc = "awake" /\ Pending = {}
  /\ retry_pc' = "sleep"
  /\ UNCHANGED <<ioVars, stats, failed_writes, snapshot, to_remove, to_update,
                 life, clusterVars, history>>

(* Mutant of RetrySnapshot: a single entry is not worth a cycle. *)
RetrySnapshotOfMany ==
  /\ retry_pc = "awake"
  /\ Cardinality(Pending) > 1
  /\ snapshot' = failed_writes
  /\ to_remove' = {} /\ to_update' = None
  /\ retry_pc' = "cycle"
  /\ UNCHANGED <<ioVars, stats, failed_writes, life, clusterVars, history>>

(* The queue is copied under its lock. *)
RetrySnapshot ==
  /\ retry_pc = "awake"
  /\ Pending # {}
  /\ snapshot' = failed_writes
  /\ to_remove' = {} /\ to_update' = None
  /\ retry_pc' = "cycle"
  /\ UNCHANGED <<ioVars, stats, failed_writes, life, clusterVars, history>>

(* Entries are taken in the unspecified order of an unordered_map. *)
Take(w) ==
  /\ retry_pc = "cycle"
  /\ w \in Remaining
  /\ snapshot' = [snapshot EXCEPT ![w] = 0]

(* Mutants of RetryDrop: one attempt too early, or not counted. *)
RetryDropEarly(w) ==
  /\ Take(w)
  /\ snapshot[w] + 1 >= MaxRetries
  /\ Count("abandoned") /\ abandoned' = abandoned \union {w}
  /\ to_remove' = to_remove \union {w}
  /\ UNCHANGED <<ioVars, failed_writes, retry_pc, to_update, life, clusterVars,
                 submitted, accepted, acked, sent>>

RetryDropUncounted(w) ==
  /\ Take(w)
  /\ snapshot[w] >= MaxRetries
  /\ abandoned' = abandoned \union {w}
  /\ to_remove' = to_remove \union {w}
  /\ UNCHANGED <<ioVars, stats, failed_writes, retry_pc, to_update, life, clusterVars,
                 submitted, accepted, acked, sent>>

(* Checks 1 and 2: too many attempts (counted), or blacklisted by now. *)
RetryDrop(w) ==
  /\ Take(w)
  /\ snapshot[w] >= MaxRetries \/ w \in Blacklisted
  /\ IF snapshot[w] >= MaxRetries
     THEN Count("abandoned") /\ abandoned' = abandoned \union {w}
     ELSE UNCHANGED <<stats, abandoned>>
  /\ to_remove' = to_remove \union {w}
  /\ UNCHANGED <<ioVars, failed_writes, retry_pc, to_update, life, clusterVars,
                 submitted, accepted, acked, sent>>

(* Mutants of RetryExecute: the bound is off by one, a success leaves the
   entry in the queue, or a success takes back a failure that write() never
   counted (stats_.failed_writes is about the source), below zero. *)
RetryExecuteOffByOne(w, o) ==
  /\ Take(w)
  /\ snapshot[w] <= MaxRetries
  /\ o \in Outcomes(w)
  /\ target' = Apply(target, w, o)
  /\ sent' = [sent EXCEPT ![w] = @ + 1]
  /\ \/ o = "ok" /\ Count("retried") /\ acked' = acked \union {w}
        /\ to_remove' = to_remove \union {w} /\ UNCHANGED to_update
     \/ o # "ok" /\ to_update' = [to_update EXCEPT ![w] = snapshot[w] + 1]
        /\ UNCHANGED <<stats, acked, to_remove>>
  /\ UNCHANGED <<ioVars, failed_writes, retry_pc, life, source,
                 submitted, accepted, abandoned>>

RetryExecuteKeepsEntry(w, o) ==
  /\ Take(w)
  /\ snapshot[w] < MaxRetries
  /\ o \in Outcomes(w)
  /\ target' = Apply(target, w, o)
  /\ sent' = [sent EXCEPT ![w] = @ + 1]
  /\ \/ o = "ok" /\ acked' = acked \union {w} /\ UNCHANGED to_update
     \/ o # "ok" /\ to_update' = [to_update EXCEPT ![w] = snapshot[w] + 1] /\ UNCHANGED acked
  /\ UNCHANGED <<ioVars, stats, failed_writes, retry_pc, to_remove, life, source,
                 submitted, accepted, abandoned>>

RetryExecuteUncountsFailure(w, o) ==
  /\ Take(w)
  /\ snapshot[w] < MaxRetries /\ w \notin Blacklisted
  /\ o \in Outcomes(w)
  /\ target' = Apply(target, w, o)
  /\ sent' = [sent EXCEPT ![w] = @ + 1]
  /\ \/ /\ o = "ok"
        /\ stats' = [stats EXCEPT !["retried"] = @ + 1, !["failed"] = @ - 1]
        /\ acked' = acked \union {w}
        /\ to_remove' = to_remove \union {w}
        /\ UNCHANGED to_update
     \/ /\ o # "ok"
        /\ to_update' = [to_update EXCEPT ![w] = snapshot[w] + 1]
        /\ UNCHANGED <<stats, acked, to_remove>>
  /\ UNCHANGED <<ioVars, failed_writes, retry_pc, life, source,
                 submitted, accepted, abandoned>>

(* Check 3: send it to the target again. *)
RetryExecute(w, o) ==
  /\ Take(w)
  /\ snapshot[w] < MaxRetries /\ w \notin Blacklisted
  /\ o \in Outcomes(w)
  /\ target' = Apply(target, w, o)
  /\ sent' = [sent EXCEPT ![w] = @ + 1]
  /\ \/ /\ o = "ok"
        /\ Count("retried")
        /\ acked' = acked \union {w}
        /\ to_remove' = to_remove \union {w}
        /\ UNCHANGED to_update
     \/ /\ o # "ok"
        /\ to_update' = [to_update EXCEPT ![w] = snapshot[w] + 1]
        /\ UNCHANGED <<stats, acked, to_remove>>
  /\ UNCHANGED <<ioVars, failed_writes, retry_pc, life, source,
                 submitted, accepted, abandoned>>

(* Mutants of Applied: the queue is rebuilt from the cycle's own list, which
   forgets what write() added meanwhile; or nothing is erased. *)
AppliedFromCycle == to_update
AppliedWithoutErase == [w \in Writes |-> IF to_update[w] > 0 THEN to_update[w] ELSE failed_writes[w]]

(* failed_writes_ after erasing to_remove, then storing to_update. *)
Applied == [w \in Writes |-> IF to_update[w] > 0 THEN to_update[w]
                             ELSE IF w \in to_remove THEN 0
                             ELSE failed_writes[w]]

(* The cycle's end: both lists are applied under one lock. *)
RetryApply ==
  /\ retry_pc = "cycle"
  /\ Remaining = {}
  /\ failed_writes' = Applied
  /\ to_remove' = {} /\ to_update' = None
  /\ retry_pc' = "sleep"
  /\ UNCHANGED <<ioVars, stats, snapshot, life, clusterVars, history>>

-----------------------------------------------------------------------------
(* ~DualWriter runs when no caller holds the object.  It requests the stop
   and joins the retry thread, which looks at the request while it sleeps
   only; then the members are destroyed, failed_writes_ among them. *)
RequestStop ==
  /\ life = "up" /\ pc = "idle"
  /\ life' = "stopping"
  /\ UNCHANGED <<ioVars, stats, failed_writes, retryVars, clusterVars, history>>

(* Mutant of RetryExit: the thread waits for an empty queue. *)
RetryExitWhenEmpty ==
  /\ retry_pc = "sleep" /\ life = "stopping" /\ Pending = {}
  /\ retry_pc' = "stopped"
  /\ UNCHANGED <<ioVars, stats, failed_writes, snapshot, to_remove, to_update,
                 life, clusterVars, history>>

RetryExit ==
  /\ retry_pc = "sleep" /\ life = "stopping"
  /\ retry_pc' = "stopped"
  /\ UNCHANGED <<ioVars, stats, failed_writes, snapshot, to_remove, to_update,
                 life, clusterVars, history>>

Destroy ==
  /\ life = "stopping" /\ retry_pc = "stopped"
  /\ life' = "destroyed"
  /\ failed_writes' = None
  /\ UNCHANGED <<ioVars, stats, retryVars, clusterVars, history>>

-----------------------------------------------------------------------------
Outcome == {"ok", "lost", "in_doubt"}

WriteStep == \/ FilterGate
             \/ \E o \in Outcome : SourceExecute(o) \/ TargetExecute(o)
             \/ EnqueueFailedWrite
             \/ WriteReturn

RetryStep == \/ RetryWake \/ RetryEmpty \/ RetrySnapshot
             \/ \E w \in Writes : RetryDrop(w) \/ \E o \in Outcome : RetryExecute(w, o)
             \/ RetryApply
             \/ RetryExit

Next == \/ \E w \in Writes : WriteBegin(w)
        \/ WriteStep
        \/ RetryStep
        \/ RequestStop
        \/ Destroy

Spec == Init /\ [][Next]_vars

(* Both threads keep running: execute() returns (the driver has a request
   timeout), the retry delay is finite, and a destructor whose join returned
   goes on.  Clients owe nothing, nor does anyone have to stop the writer. *)
Fairness == WF_vars(WriteStep) /\ WF_vars(RetryStep) /\ WF_vars(Destroy)
FairSpec == Spec /\ Fairness

-----------------------------------------------------------------------------
(* Properties *)

TypeOK ==
  /\ pc \in {"idle", "gate", "source_only", "source", "target", "enqueue", "return"}
  /\ cur \in Writes \union {NoWrite}
  /\ (cur = NoWrite) <=> (pc = "idle")
  /\ result \in Result
  /\ stats \in [Counter -> Nat]
  /\ failed_writes \in [Writes -> Nat]
  /\ retry_pc \in {"sleep", "awake", "cycle", "stopped"}
  /\ snapshot \in [Writes -> Nat]
  /\ to_remove \subseteq Writes
  /\ to_update \in [Writes -> Nat]
  /\ life \in {"up", "stopping", "destroyed"}
  /\ source \in [Rows -> Writes \union {NoWrite}]
  /\ target \in [Rows -> Writes \union {NoWrite}]
  /\ submitted \subseteq Writes /\ accepted \subseteq Writes
  /\ acked \subseteq Writes /\ abandoned \subseteq Writes
  /\ sent \in [Writes -> Nat]

(* A statement the source accepted and the filter does not exempt: the
   target must get it. *)
Owed == accepted \ Blacklisted

(* Nothing owed is lost while the writer lives: it is acknowledged by the
   target, given up after its attempts, in the queue, or still in write().
   The hazard is the window between the snapshot and the apply of a retry
   cycle, in which write() keeps adding entries. *)
NoSilentLoss ==
  life # "destroyed" =>
    \A w \in Owed : \/ w \in acked \union abandoned \union Pending
                    \/ w = cur /\ pc \in {"target", "enqueue"}

(* A statement the target acknowledged is never sent to it again, even when
   its entry stays in failed_writes_ until the cycle's end: counters and
   list appends are not idempotent. *)
NeverResent ==
  [][\A w \in Writes : sent'[w] > sent[w] => w \notin acked]_vars

(* max_retries bounds the sends of one statement, the first included; the
   shadow write itself is always tried. *)
AttemptBound ==
  \A w \in Writes : sent[w] <= IF MaxRetries > 1 THEN MaxRetries ELSE 1

(* A statement is given up only when its allowance is used up. *)
AbandonedOnlyWhenExhausted ==
  \A w \in abandoned : w \notin acked /\ sent[w] >= MaxRetries

(* Statements the target acknowledged at once, and those whose shadow write
   failed at least once. *)
Clean(w) == w \in acked /\ sent[w] = 1
ShadowFailed == {w \in Writes : sent[w] > 0 /\ ~Clean(w)}

(* What write() counts: each call once at its entry and once at its return. *)
Finished == stats["total"] = stats["successful"] + stats["failed"] + (IF pc = "idle" THEN 0 ELSE 1)

(* What becomes of failed shadow writes: entries a running cycle has dealt
   with are counted, and still pending until it is applied. *)
Balance == stats["retried"] + stats["abandoned"] + Cardinality(Pending)
             = Cardinality(ShadowFailed) + Cardinality(to_remove) - (IF pc = "enqueue" THEN 1 ELSE 0)

(* The counters of /status and /metrics account for every statement: each
   finished write is successful or failed, and every shadow write that
   failed is retried, abandoned or pending. *)
Ledger == life # "destroyed" => Finished /\ Balance

(* The two clusters disagree on a row only if one of its statements was
   blacklisted, failed on the source, or needed the retry queue: the direct
   path alone never reorders two statements of a row. *)
DivergenceOnlyThroughFailure ==
  pc = "idle" => \A r \in Rows :
    (\A w \in submitted : RowOf[w] = r => Clean(w)) => target[r] = source[r]

(* The destructor's join returns. *)
StopCompletes == life = "stopping" ~> life = "destroyed"

-----------------------------------------------------------------------------
(* The inductive invariant behind the theorems of WriterServiceProofs. *)

(* A statement that was never handed to write() has left no trace. *)
FreshInv ==
  \A w \in Writes \ submitted :
    /\ w \notin accepted \union acked \union abandoned
    /\ sent[w] = 0 /\ failed_writes[w] = 0

(* What write() has done to its statement at each point. *)
WriteInv ==
  pc # "idle" =>
    /\ cur \in submitted /\ life = "up"
    /\ pc \in {"gate", "source", "source_only"} => cur \notin accepted
    /\ pc \in {"target", "enqueue"} => cur \in Owed
    /\ pc = "source" => cur \notin Blacklisted
    /\ pc = "source_only" => cur \in Blacklisted
    /\ pc # "return" => /\ cur \notin acked \union abandoned
                        /\ failed_writes[cur] = 0
    /\ pc \in {"gate", "source", "source_only", "target"} => sent[cur] = 0
    /\ pc = "enqueue" => sent[cur] = 1

(* The retry thread's copies agree with failed_writes_ although write() adds
   entries during the whole cycle: an entry still to process is unchanged
   since the snapshot, one to be updated has made exactly one more attempt,
   and the settled entries still in the map are exactly those to remove. *)
CycleInv ==
  /\ retry_pc # "cycle" => snapshot = None /\ to_remove = {} /\ to_update = None
  /\ life = "destroyed" => retry_pc = "stopped"
  /\ \A w \in Writes :
       /\ snapshot[w] > 0 => /\ failed_writes[w] = snapshot[w]
                             /\ w \notin to_remove /\ to_update[w] = 0
       /\ to_update[w] > 0 => /\ failed_writes[w] > 0
                              /\ to_update[w] = failed_writes[w] + 1
       /\ failed_writes[w] > 0 /\ w \in acked \union abandoned => w \in to_remove
       /\ w \in to_remove => /\ failed_writes[w] > 0 /\ to_update[w] = 0
                             /\ w \in acked \union abandoned

(* The attempts recorded in the queue are the sends that were made. *)
AttemptInv ==
  \A w \in Writes :
    /\ failed_writes[w] > 0 => w \in Owed /\ sent[w] > 0
    /\ failed_writes[w] > 0 /\ w \notin to_remove =>
         sent[w] = IF to_update[w] > 0 THEN to_update[w] ELSE failed_writes[w]

(* The rows of the two clusters while a write is in progress: those of clean
   statements agree, but for the row of the current one between its write to
   the source and the acknowledgement of the target. *)
RowInv ==
  \A r \in Rows : (\A w \in submitted \ {cur} : RowOf[w] = r => Clean(w)) =>
    IF cur # NoWrite /\ RowOf[cur] = r
    THEN /\ pc \in {"gate", "source", "source_only"} => target[r] = source[r]
         /\ pc = "target" => source[r] = cur
         /\ pc = "return" /\ Clean(cur) => target[r] = source[r]
    ELSE target[r] = source[r]

Safety == NoSilentLoss /\ AttemptBound /\ AbandonedOnlyWhenExhausted
IInv == TypeOK /\ FreshInv /\ WriteInv /\ CycleInv /\ AttemptInv /\ Safety

=============================================================================
