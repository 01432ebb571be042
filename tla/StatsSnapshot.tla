--------------------------- MODULE StatsSnapshot ---------------------------
(***************************************************************************)
(* GET /status and GET /metrics of the dual-writer: an HTTP thread runs    *)
(* get_stats(), which loads the six atomic counters one after the other    *)
(* and the size of the queue last, while write() and the retry thread go   *)
(* on.                                                                     *)
(***************************************************************************)
EXTENDS DualWriter, Sequences

CONSTANT MaxRequests   \* bound on the requests served

VARIABLES
  loaded,    \* how many fields of the snapshot the request has loaded
  snap,      \* the WriterStatsSnapshot being filled
  requests   \* requests begun

apiVars == <<loaded, snap, requests>>
statsVars == <<vars, apiVars>>

(* Mutant of LoadOrder: the total is loaded last. *)
LoadOrderTotalLast ==
  <<"successful", "failed", "retried", "filtered", "abandoned", "pending", "total">>

(* The order of the loads in get_stats().  They are relaxed; an x86-64 build
   executes them in this order. *)
LoadOrder == <<"total", "successful", "failed", "retried", "filtered", "abandoned", "pending">>
Fields == Len(LoadOrder)

StatsInit ==
  /\ Init
  /\ loaded = Fields /\ requests = 0
  /\ snap = [f \in Counter \union {"pending"} |-> 0]

(* A request arrives. *)
StatusRequest ==
  /\ loaded = Fields /\ requests < MaxRequests
  /\ life = "up"
  /\ loaded' = 0 /\ requests' = requests + 1
  /\ UNCHANGED <<vars, snap>>

(* One load: of a counter, or of the queue's size under its mutex. *)
Load ==
  /\ loaded < Fields
  /\ loaded' = loaded + 1
  /\ LET f == LoadOrder[loaded + 1]
     IN snap' = [snap EXCEPT ![f] = IF f = "pending" THEN Cardinality(Pending) ELSE stats[f]]
  /\ UNCHANGED <<vars, requests>>

(* The writer beside it.  The HTTP thread shares the ownership of the writer, so
   the destructor does not begin during a request. *)
WriterBeside ==
  /\ Next
  /\ life = "up" /\ life' # "up" => loaded = Fields
  /\ UNCHANGED apiVars

StatsNext == StatusRequest \/ Load \/ WriterBeside

(* The writer's threads run as in FairSpec; no request has to be finished. *)
StatsSpec == StatsInit /\ [][StatsNext]_statsVars /\ Fairness

-----------------------------------------------------------------------------
Answered == loaded = Fields /\ requests > 0

(* Because the total is loaded first, an answer misses at most the write in
   progress: every other write it counts in total has its outcome counted. *)
OutcomesNotMissing == Answered => snap["successful"] + snap["failed"] + 1 >= snap["total"]

-----------------------------------------------------------------------------
(* Inductive invariant.  Every counter only grows, so what was loaded is at
   most what the counters not loaded yet make up for. *)
SnapTypeOK == loaded \in 0 .. Fields /\ snap \in [Counter \union {"pending"} -> Nat]

SnapInv ==
  /\ loaded = 1 => snap["total"] <= stats["successful"] + stats["failed"] + 1
  /\ loaded = 2 => snap["total"] <= snap["successful"] + stats["failed"] + 1
  /\ loaded > 2 => snap["total"] <= snap["successful"] + snap["failed"] + 1

StatsInv == IInv /\ Finished /\ SnapTypeOK /\ SnapInv
=============================================================================
