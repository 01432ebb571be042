----------------------------- MODULE DualReader -----------------------------
(***************************************************************************)
(* DualReader of services/dual-reader: the validation loop reads the       *)
(* configured tables from both clusters, the whitelist filter decides      *)
(* which of them, and HTTP threads read the filter's counters meanwhile.   *)
(*                                                                         *)
(* Two threads validate: "loop", the coroutine on the io_context, and      *)
(* "caller", one that uses the public validate_table_for_domain.  Neither  *)
(* suspends inside a validation, so a step is one access to shared state.  *)
(***************************************************************************)
EXTENDS Integers, Sequences, SequencesExt

CONSTANTS
  Tables,          \* config_.reader.tables, in order
  CompareTables,   \* compare_tables_, the table whitelist; empty: all tables
  Domains,         \* the domain ids callers ask about
  CompareDomains,  \* compare_domains_, the domain whitelist; empty: all
  NoDomain,        \* the empty domain_id
  MaxCycles, MaxCalls, MaxRequests   \* bounds on cycles, calls, HTTP requests

(* The tables and both whitelists come from the service's YAML file. *)
TableNames == Range(Tables)
NoTable == "no_table"   \* before the first validation of a thread

ASSUME ReaderAssumption ==
  /\ Tables \in Seq(TableNames) /\ CompareDomains \subseteq Domains
  /\ NoDomain \notin Domains
  /\ MaxCycles \in Nat /\ MaxCalls \in Nat /\ MaxRequests \in Nat

VARIABLES
  enabled,        \* config_.enabled of the filter
  pc, table, domain,     \* per thread: place, and the arguments of the call
  todo,           \* loop: tables of this cycle not yet begun
  results,        \* loop: tables with a result in this cycle
  failed,         \* loop: tables whose validation threw in this cycle
  dual_reads, source_only_reads, tables_filtered, domains_filtered,  \* FilterStats
  discrepancies,  \* discrepancies_: tables with an entry
  report,         \* the last ValidationResult of a table
  request,        \* GET /filter/stats: counters still to load
  answer,         \* and what was loaded
  cycles, calls, requests,   \* how often each was begun
  targetReads     \* history: table and domain of the reads of the target

stats == <<dual_reads, source_only_reads, tables_filtered, domains_filtered>>
cycle == <<todo, results, failed, cycles>>
http == <<request, answer, requests>>
thread == <<pc, table, domain>>
vars == <<enabled, thread, cycle, stats, discrepancies, report, http, calls, targetReads>>

Threads == {"loop", "caller"}

(* Mutant of LoadOrder: the reasons are loaded before the total. *)
LoadOrderReasonsFirst == <<"dual", "tables", "domains", "source_only">>

(* The order in which GET /filter/stats loads the counters. *)
LoadOrder == <<"dual", "source_only", "tables", "domains">>
Counter == [dual |-> dual_reads, source_only |-> source_only_reads,
            tables |-> tables_filtered, domains |-> domains_filtered]

Init ==
  /\ enabled \in BOOLEAN
  /\ pc = [p \in Threads |-> "idle"]
  /\ table = [p \in Threads |-> NoTable] /\ domain = [p \in Threads |-> NoDomain]
  /\ todo = << >> /\ results = {} /\ failed = {} /\ cycles = 0
  /\ dual_reads = 0 /\ source_only_reads = 0 /\ tables_filtered = 0 /\ domains_filtered = 0
  /\ discrepancies = {} /\ report = [t \in TableNames |-> "none"]
  /\ request = << >> /\ answer = [c \in Range(LoadOrder) |-> 0] /\ requests = 0
  /\ calls = 0 /\ targetReads = {}

-----------------------------------------------------------------------------
(* The loop: continuous_validation_loop and validate_all_tables *)

StartCycle ==
  /\ pc["loop"] = "idle" /\ cycles < MaxCycles
  /\ cycles' = cycles + 1
  /\ todo' = Tables /\ results' = {} /\ failed' = {}
  /\ pc' = [pc EXCEPT !["loop"] = "next"]
  /\ UNCHANGED <<enabled, table, domain, stats, discrepancies, report, http, calls, targetReads>>

NextTable ==
  /\ pc["loop"] = "next" /\ todo # << >>
  /\ table' = [table EXCEPT !["loop"] = Head(todo)] /\ todo' = Tail(todo)
  /\ pc' = [pc EXCEPT !["loop"] = "table_gate"]
  /\ UNCHANGED <<enabled, domain, results, failed, cycles, stats, discrepancies,
                 report, http, calls, targetReads>>

(* The summary is logged and the timer started. *)
EndCycle ==
  /\ pc["loop"] = "next" /\ todo = << >>
  /\ pc' = [pc EXCEPT !["loop"] = "idle"]
  /\ UNCHANGED <<enabled, table, domain, cycle, stats, discrepancies, report,
                 http, calls, targetReads>>

(* The signal handler stops the io_context: it can run only while the loop
   waits for its timer, and the loop is then never resumed. *)
Shutdown ==
  /\ pc["loop"] = "idle"
  /\ pc' = [pc EXCEPT !["loop"] = "stopped"]
  /\ UNCHANGED <<enabled, table, domain, cycle, stats, discrepancies, report,
                 http, calls, targetReads>>

(* validate_table_for_domain: a decision with the domain first, then
   validate_table with a decision of its own, without the domain. *)
ValidateForDomain(t, d) ==
  /\ pc["caller"] = "idle" /\ calls < MaxCalls
  /\ calls' = calls + 1
  /\ table' = [table EXCEPT !["caller"] = t] /\ domain' = [domain EXCEPT !["caller"] = d]
  /\ pc' = [pc EXCEPT !["caller"] = "domain_gate"]
  /\ UNCHANGED <<enabled, cycle, stats, discrepancies, report, http, targetReads>>

-----------------------------------------------------------------------------
(* DualReaderFilterGovernor::decide *)

TableAllowed(t) == CompareTables = {} \/ t \in CompareTables

DomainAllowed(d) == d = NoDomain \/ CompareDomains = {} \/ d \in CompareDomains

(* Mutant of GateDomain: the domain is not handed to decide(). *)
GateDomainDropped(p) == NoDomain

(* The domain is looked at only at the gate of validate_table_for_domain. *)
GateDomain(p) == IF pc[p] = "domain_gate" THEN domain[p] ELSE NoDomain

AtGate(p) == pc[p] \in {"table_gate", "domain_gate"}

Pass(p) ==
  /\ AtGate(p)
  /\ ~enabled \/ (TableAllowed(table[p]) /\ DomainAllowed(GateDomain(p)))
  /\ dual_reads' = dual_reads + 1
  /\ pc' = [pc EXCEPT ![p] = IF @ = "domain_gate" THEN "table_gate" ELSE "source"]
  /\ UNCHANGED <<enabled, table, domain, cycle, source_only_reads, tables_filtered,
                 domains_filtered, discrepancies, report, http, calls, targetReads>>

(* A refusal counts its reason and then, in a second increment, itself. *)
RefuseTable(p) ==
  /\ AtGate(p) /\ enabled /\ ~TableAllowed(table[p])
  /\ tables_filtered' = tables_filtered + 1
  /\ pc' = [pc EXCEPT ![p] = "refused"]
  /\ UNCHANGED <<enabled, table, domain, cycle, dual_reads, source_only_reads,
                 domains_filtered, discrepancies, report, http, calls, targetReads>>

RefuseDomain(p) ==
  /\ AtGate(p) /\ enabled /\ TableAllowed(table[p]) /\ ~DomainAllowed(GateDomain(p))
  /\ domains_filtered' = domains_filtered + 1
  /\ pc' = [pc EXCEPT ![p] = "refused"]
  /\ UNCHANGED <<enabled, table, domain, cycle, dual_reads, source_only_reads,
                 tables_filtered, discrepancies, report, http, calls, targetReads>>

CountSourceOnly(p) ==
  /\ pc[p] = "refused"
  /\ source_only_reads' = source_only_reads + 1
  /\ pc' = [pc EXCEPT ![p] = "skipped"]
  /\ UNCHANGED <<enabled, table, domain, cycle, dual_reads, tables_filtered,
                 domains_filtered, discrepancies, report, http, calls, targetReads>>

-----------------------------------------------------------------------------
(* validate_table *)

Back(p) == IF p = "loop" THEN "next" ELSE "idle"

(* The result goes back to the loop, which keeps it, or to the caller. *)
Return(p, r) ==
  /\ report' = [report EXCEPT ![table[p]] = r]
  /\ results' = IF p = "loop" THEN results \union {table[p]} ELSE results
  /\ pc' = [pc EXCEPT ![p] = Back(p)]
  /\ UNCHANGED <<enabled, table, domain, todo, failed, cycles, stats, http,
                 calls, targetReads>>

(* A table that is not compared: nothing is read, 100% is reported. *)
SourceOnly(p) ==
  /\ pc[p] = "skipped"
  /\ Return(p, "source_only")
  /\ UNCHANGED discrepancies

(* The two reads: each may throw. *)
ReadSource(p) ==
  /\ pc[p] = "source"
  /\ pc' = [pc EXCEPT ![p] = "target"]
  /\ UNCHANGED <<enabled, table, domain, cycle, stats, discrepancies, report,
                 http, calls, targetReads>>

ReadTarget(p) ==
  /\ pc[p] = "target"
  /\ targetReads' = targetReads \union {<<table[p], domain[p]>>}
  /\ pc' = [pc EXCEPT ![p] = "store"]
  /\ UNCHANGED <<enabled, table, domain, cycle, stats, discrepancies, report, http, calls>>

(* Mutant of ReadFails: the exception leaves the loop over the tables. *)
ReadFailsCycle(p) ==
  /\ pc[p] \in {"source", "target"}
  /\ failed' = IF p = "loop" THEN failed \union {table[p]} ELSE failed
  /\ todo' = IF p = "loop" THEN << >> ELSE todo
  /\ pc' = [pc EXCEPT ![p] = Back(p)]
  /\ UNCHANGED <<enabled, table, domain, results, cycles, stats, discrepancies,
                 report, http, calls, targetReads>>

(* Mutant of ReadFails: the loop tries the table until it succeeds. *)
ReadFailsRetry(p) ==
  /\ pc[p] \in {"source", "target"}
  /\ pc' = [pc EXCEPT ![p] = "source"]
  /\ UNCHANGED <<enabled, table, domain, cycle, stats, discrepancies, report,
                 http, calls, targetReads>>

(* validate_table throws the SyncError on; validate_all_tables catches it for
   the one table and goes on to the next. *)
ReadFails(p) ==
  /\ pc[p] \in {"source", "target"}
  /\ failed' = IF p = "loop" THEN failed \union {table[p]} ELSE failed
  /\ pc' = [pc EXCEPT ![p] = Back(p)]
  /\ UNCHANGED <<enabled, table, domain, todo, results, cycles, stats, discrepancies,
                 report, http, calls, targetReads>>

(* What the comparison of the two result sets finds: the code reads both and
   compares nothing. *)
Found(t) == {}

Store(p) ==
  /\ pc[p] = "store"
  /\ discrepancies' = discrepancies \union Found(table[p])
  /\ Return(p, IF Found(table[p]) = {} THEN "consistent" ELSE "inconsistent")

-----------------------------------------------------------------------------
(* GET /filter/stats: four loads, one after the other; nothing is loaded with
   the filter off. *)
FilterStatsRequest ==
  /\ request = << >> /\ requests < MaxRequests /\ enabled
  /\ requests' = requests + 1
  /\ request' = LoadOrder
  /\ UNCHANGED <<enabled, thread, cycle, stats, discrepancies, report, answer,
                 calls, targetReads>>

LoadCounter ==
  /\ request # << >>
  /\ answer' = [answer EXCEPT ![Head(request)] = Counter[Head(request)]]
  /\ request' = Tail(request)
  /\ UNCHANGED <<enabled, thread, cycle, stats, discrepancies, report, requests,
                 calls, targetReads>>

-----------------------------------------------------------------------------
Validate(p) == \/ Pass(p) \/ RefuseTable(p) \/ RefuseDomain(p) \/ CountSourceOnly(p)
               \/ SourceOnly(p) \/ ReadSource(p) \/ ReadTarget(p) \/ ReadFails(p) \/ Store(p)

LoopStep == StartCycle \/ NextTable \/ EndCycle \/ Validate("loop")

Next == \/ LoopStep \/ Shutdown \/ Validate("caller")
        \/ \E t \in TableNames, d \in Domains : ValidateForDomain(t, d)
        \/ FilterStatsRequest \/ LoadCounter

Spec == Init /\ [][Next]_vars

(* The io_context thread runs: its timer fires and a read ends in the driver's
   request timeout at the latest.  Nothing is assumed of callers, of requests
   or of the outcome of a read. *)
FairSpec == Spec /\ WF_vars(LoopStep)

-----------------------------------------------------------------------------
SwitchOK == enabled \in BOOLEAN

TypeOK ==
  /\ SwitchOK
  /\ pc \in [Threads -> {"idle", "next", "table_gate", "domain_gate", "refused", "skipped",
                          "source", "target", "store", "stopped"}]
  /\ table \in [Threads -> TableNames \union {NoTable}] /\ domain \in [Threads -> Domains \union {NoDomain}]
  /\ todo \in Seq(TableNames) /\ cycles \in Nat
  /\ dual_reads \in Nat /\ source_only_reads \in Nat
  /\ tables_filtered \in Nat /\ domains_filtered \in Nat
  /\ discrepancies \subseteq TableNames
  /\ report \in [TableNames -> {"none", "source_only", "consistent", "inconsistent"}]
  /\ answer \in [Range(LoadOrder) -> Nat]

(* AND gate of decide(): with the filter on, the target is read only for a
   table and, where the caller named one, a domain that both whitelists admit,
   although the second decision of a domain-scoped validation does not see the
   domain. *)
TargetReadsWhitelisted ==
  enabled => \A r \in targetReads :
    /\ CompareTables # {} => r[1] \in CompareTables
    /\ CompareDomains # {} => r[2] \in CompareDomains \union {NoDomain}

(* validate_all_tables: a cluster that fails for one table does not keep the
   others from being validated, and a signal does not cut a cycle short: when
   the loop waits, every configured table was validated or failed, and both
   only if it is configured twice. *)
Twice(t) == \E i, j \in DOMAIN Tables : i # j /\ Tables[i] = t /\ Tables[j] = t

CycleComplete ==
  pc["loop"] \in {"idle", "stopped"} /\ cycles > 0 =>
    results \union failed = TableNames /\ \A t \in results \intersect failed : Twice(t)

(* GET /filter/stats: although the counters are loaded one by one while
   decisions are made, an answer never has more source-only reads than reasons
   for them. *)
AnswerHasReasons ==
  request = << >> => answer["source_only"] <= answer["tables"] + answer["domains"]

(* continuous_validation_loop: every cycle comes to its end, whatever the
   clusters do. *)
CycleEnds == pc["loop"] = "next" ~> pc["loop"] \in {"idle", "stopped"}

-----------------------------------------------------------------------------
(* Inductive invariant.  A validation works on a configured table; it comes to
   the second gate and to the reads only past the checks before them. *)
CallInv ==
  /\ pc["loop"] # "domain_gate" /\ domain["loop"] = NoDomain /\ pc["caller"] \notin {"next", "stopped"}
  /\ \A p \in Threads :
       /\ pc[p] \notin {"idle", "next", "stopped"} => table[p] \in TableNames
       /\ pc[p] \in {"table_gate", "source", "target"} /\ enabled => DomainAllowed(domain[p])
       /\ pc[p] \in {"source", "target"} /\ enabled => TableAllowed(table[p])

(* The cycle's tables are begun in their order: todo is what is left of them,
   and what came before it, the current table apart, has its outcome. *)
Begun == Len(Tables) - Len(todo)
Ended == IF pc["loop"] \in {"idle", "next", "stopped"} THEN Begun ELSE Begun - 1

CycleInv ==
  /\ pc["loop"] \notin {"idle", "stopped"} => cycles > 0
  /\ pc["loop"] \in {"idle", "stopped"} => todo = << >>
  /\ cycles > 0 =>
       /\ Ended >= 0 /\ \A i \in 1 .. Len(todo) : todo[i] = Tables[Begun + i]
       /\ pc["loop"] \notin {"idle", "next", "stopped"} => table["loop"] = Tables[Begun]
       /\ results \union failed = {Tables[i] : i \in 1 .. Ended}
       /\ \A t \in results \intersect failed : Twice(t)

(* A refusal has counted its reason before it counts itself, and each load of
   a request takes the counters as they are after the loads before it. *)
Refused(p) == IF pc[p] = "refused" THEN 1 ELSE 0

ReasonInv ==
  /\ source_only_reads + Refused("loop") + Refused("caller") = tables_filtered + domains_filtered
  /\ request \in {LoadOrder, Tail(LoadOrder), <<"tables", "domains">>, <<"domains">>, << >>}
  /\ request = <<"tables", "domains">> => answer["source_only"] <= tables_filtered + domains_filtered
  /\ request = <<"domains">> => answer["source_only"] <= answer["tables"] + domains_filtered

IInv == TypeOK /\ CallInv /\ TargetReadsWhitelisted /\ CycleInv /\ ReasonInv /\ AnswerHasReasons
=============================================================================
