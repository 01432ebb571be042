--------------------------- MODULE DualReaderProofs ---------------------------
(***************************************************************************)
(* For any tables, whitelists and domains, and any number of cycles, calls *)
(* and requests: the target is read for whitelisted tables and domains     *)
(* only, a cycle leaves no table out, and the filter's counters are        *)
(* answered with a reason for every source-only read.                      *)
(***************************************************************************)
EXTENDS DualReader, TLAPS

(* The answer has a field for each counter. *)
LEMMA Counters == Range(LoadOrder) = {"dual", "source_only", "tables", "domains"}
<1>1. DOMAIN LoadOrder = 1..4
  BY DEF LoadOrder
<1>2. LoadOrder[1] = "dual" /\ LoadOrder[2] = "source_only"
      /\ LoadOrder[3] = "tables" /\ LoadOrder[4] = "domains"
  BY DEF LoadOrder
<1> QED
  BY <1>1, <1>2 DEF Range

(* A configured table is a member of the sequence. *)
LEMMA Configured ==
  /\ Tables \in Seq(TableNames) /\ Len(Tables) \in Nat
  /\ TableNames = {Tables[i] : i \in 1 .. Len(Tables)}
<1>1. Tables \in Seq(TableNames)
  BY ReaderAssumption
<1> QED
  BY <1>1 DEF TableNames, Range

-----------------------------------------------------------------------------
(* Types *)

(* The service starts well typed. *)
LEMMA TypeInit == Init => TypeOK
<1>1. Init => SwitchOK
  BY DEF Init, SwitchOK
<1> QED
  BY <1>1, Counters DEF Init, TypeOK, Threads

(* The filter's switch is read from the configuration once. *)
LEMMA EnabledFixed ==
  ASSUME SwitchOK, [Next]_vars
  PROVE  enabled' = enabled /\ SwitchOK'
  BY DEF SwitchOK, Next, vars, LoopStep, StartCycle, NextTable, EndCycle, Shutdown, ValidateForDomain, Validate,
         Pass, RefuseTable, RefuseDomain, CountSourceOnly, SourceOnly, Return, ReadSource, ReadTarget,
         ReadFails, Store, FilterStatsRequest, LoadCounter

(* A validating thread keeps the types: one case per step. *)
LEMMA ValidateTypes ==
  ASSUME TypeOK, CallInv, NEW p \in Threads, Validate(p), SwitchOK'
  PROVE  TypeOK'
<1> USE DEF TypeOK, cycle, stats, http
<1>1. CASE Pass(p)
  BY <1>1 DEF Pass
<1>2. CASE RefuseTable(p)
  BY <1>2 DEF RefuseTable
<1>3. CASE RefuseDomain(p)
  BY <1>3 DEF RefuseDomain
<1>4. CASE CountSourceOnly(p)
  BY <1>4 DEF CountSourceOnly
<1>5. CASE SourceOnly(p)
  BY <1>5 DEF SourceOnly, Return, Back, CallInv
<1>6. CASE ReadSource(p)
  BY <1>6 DEF ReadSource
<1>7. CASE ReadTarget(p)
  BY <1>7 DEF ReadTarget
<1>8. CASE ReadFails(p)
  BY <1>8 DEF ReadFails, Back
<1>9. CASE Store(p)
  BY <1>9 DEF Store, Return, Back, Found, CallInv
<1> QED
  BY <1>1, <1>2, <1>3, <1>4, <1>5, <1>6, <1>7, <1>8, <1>9 DEF Validate

(* Every step keeps the types. *)
LEMMA TypeStep ==
  ASSUME TypeOK, CallInv, [Next]_vars
  PROVE  TypeOK'
<1> USE DEF cycle, stats, http, thread, Threads
<1>0. SwitchOK'
  BY EnabledFixed DEF TypeOK
<1>1. CASE StartCycle
  BY <1>0, <1>1, Configured DEF StartCycle, TypeOK
<1>2. CASE NextTable
  <2>1. Head(todo) \in TableNames /\ Tail(todo) \in Seq(TableNames)
    BY <1>2 DEF NextTable, TypeOK
  <2> QED
    BY <1>0, <1>2, <2>1 DEF NextTable, TypeOK
<1>3. CASE EndCycle \/ Shutdown
  BY <1>0, <1>3 DEF EndCycle, Shutdown, TypeOK
<1>4. ASSUME NEW p \in Threads, Validate(p)
      PROVE  TypeOK'
  BY <1>0, <1>4, ValidateTypes
<1>5. ASSUME NEW t \in TableNames, NEW d \in Domains, ValidateForDomain(t, d)
      PROVE  TypeOK'
  BY <1>0, <1>5, Configured DEF ValidateForDomain, TypeOK
<1>6. CASE FilterStatsRequest
  BY <1>0, <1>6 DEF FilterStatsRequest, TypeOK
<1>7. CASE LoadCounter
  <2>1. \A c \in Range(LoadOrder) : Counter[c] \in Nat
    BY Counters DEF Counter, TypeOK
  <2>2. answer' \in [Range(LoadOrder) -> Nat]
    BY <1>7, <2>1 DEF LoadCounter, TypeOK
  <2> QED
    BY <1>0, <1>7, <2>2 DEF LoadCounter, TypeOK
<1>8. CASE UNCHANGED vars
  BY <1>0, <1>8 DEF vars, TypeOK
<1> QED
  BY <1>1, <1>2, <1>3, <1>4, <1>5, <1>6, <1>7, <1>8 DEF Next, LoopStep

-----------------------------------------------------------------------------
(* The gates *)

(* A validating thread reaches the reads through the gates only. *)
LEMMA ValidateCalls ==
  ASSUME TypeOK, CallInv, NEW p \in Threads, Validate(p), enabled' = enabled
  PROVE  CallInv'
<1> USE DEF CallInv, Threads, TypeOK
<1>1. CASE Pass(p)
  BY <1>1 DEF Pass, AtGate, GateDomain, DomainAllowed, TableAllowed
<1>2. CASE RefuseTable(p)
  BY <1>2 DEF RefuseTable, AtGate, DomainAllowed, TableAllowed
<1>3. CASE RefuseDomain(p)
  BY <1>3 DEF RefuseDomain, AtGate, DomainAllowed, TableAllowed
<1>4. CASE CountSourceOnly(p)
  BY <1>4 DEF CountSourceOnly, DomainAllowed, TableAllowed
<1>5. CASE SourceOnly(p)
  BY <1>5 DEF SourceOnly, Return, Back, DomainAllowed, TableAllowed
<1>6. CASE ReadSource(p)
  BY <1>6 DEF ReadSource, DomainAllowed, TableAllowed
<1>7. CASE ReadTarget(p)
  BY <1>7 DEF ReadTarget, DomainAllowed, TableAllowed
<1>8. CASE ReadFails(p)
  BY <1>8 DEF ReadFails, Back, DomainAllowed, TableAllowed
<1>9. CASE Store(p)
  BY <1>9 DEF Store, Return, Back, DomainAllowed, TableAllowed
<1> QED
  BY <1>1, <1>2, <1>3, <1>4, <1>5, <1>6, <1>7, <1>8, <1>9 DEF Validate

(* Every step keeps the record of the gates a thread has passed. *)
LEMMA CallStep ==
  ASSUME TypeOK, CallInv, [Next]_vars, enabled' = enabled
  PROVE  CallInv'
<1> USE DEF CallInv, Threads, TypeOK, DomainAllowed, TableAllowed, cycle, stats, http, thread
<1>1. CASE StartCycle
  BY <1>1 DEF StartCycle
<1>2. CASE NextTable
  <2>1. Head(todo) \in TableNames
    BY <1>2 DEF NextTable
  <2> QED
    BY <1>2, <2>1 DEF NextTable
<1>3. CASE EndCycle
  BY <1>3 DEF EndCycle
<1>4. CASE Shutdown
  BY <1>4 DEF Shutdown
<1>5. ASSUME NEW p \in Threads, Validate(p)
      PROVE  CallInv'
  BY <1>5, ValidateCalls
<1>6. ASSUME NEW t \in TableNames, NEW d \in Domains, ValidateForDomain(t, d)
      PROVE  CallInv'
  BY <1>6 DEF ValidateForDomain
<1>7. CASE FilterStatsRequest
  BY <1>7 DEF FilterStatsRequest
<1>8. CASE LoadCounter
  BY <1>8 DEF LoadCounter
<1>9. CASE UNCHANGED vars
  BY <1>9 DEF vars
<1> QED
  BY <1>1, <1>2, <1>3, <1>4, <1>5, <1>6, <1>7, <1>8, <1>9 DEF Next, LoopStep

(* Only ReadTarget adds to the reads of the target, and it is past both gates. *)
LEMMA TargetStep ==
  ASSUME TypeOK, CallInv, TargetReadsWhitelisted, [Next]_vars, enabled' = enabled
  PROVE  TargetReadsWhitelisted'
<1>1. ASSUME NEW p \in Threads, ReadTarget(p)
      PROVE  TargetReadsWhitelisted'
  BY <1>1 DEF ReadTarget, CallInv, TargetReadsWhitelisted, DomainAllowed, TableAllowed
<1>2. CASE targetReads' = targetReads
  BY <1>2 DEF TargetReadsWhitelisted
<1>3. targetReads' = targetReads \/ \E p \in Threads : ReadTarget(p)
  BY DEF Next, vars, LoopStep, StartCycle, NextTable, EndCycle, Shutdown, ValidateForDomain, Validate,
         Pass, RefuseTable, RefuseDomain, CountSourceOnly, SourceOnly, Return, ReadSource,
         ReadFails, Store, FilterStatsRequest, LoadCounter, Threads
<1> QED
  BY <1>1, <1>2, <1>3

-----------------------------------------------------------------------------
(* The counters *)

(* A decision counts its reason and, when it is done, itself. *)
LEMMA ValidateReasons ==
  ASSUME TypeOK, CallInv, ReasonInv, NEW p \in Threads, Validate(p)
  PROVE  /\ source_only_reads' + Refused("loop")' + Refused("caller")'
              = tables_filtered' + domains_filtered'
         /\ tables_filtered' >= tables_filtered /\ domains_filtered' >= domains_filtered
<1> USE DEF ReasonInv, Refused, Threads, TypeOK, stats
<1>1. CASE Pass(p)
  BY <1>1 DEF Pass, AtGate
<1>2. CASE RefuseTable(p)
  BY <1>2 DEF RefuseTable, AtGate
<1>3. CASE RefuseDomain(p)
  BY <1>3 DEF RefuseDomain, AtGate
<1>4. CASE CountSourceOnly(p)
  BY <1>4 DEF CountSourceOnly
<1>5. CASE SourceOnly(p)
  BY <1>5 DEF SourceOnly, Return, Back
<1>6. CASE ReadSource(p)
  BY <1>6 DEF ReadSource
<1>7. CASE ReadTarget(p)
  BY <1>7 DEF ReadTarget
<1>8. CASE ReadFails(p)
  BY <1>8 DEF ReadFails, Back
<1>9. CASE Store(p)
  BY <1>9 DEF Store, Return, Back
<1> QED
  BY <1>1, <1>2, <1>3, <1>4, <1>5, <1>6, <1>7, <1>8, <1>9 DEF Validate

(* A validating thread does not touch a request for the counters. *)
LEMMA ValidateLeavesHttp ==
  ASSUME NEW p, Validate(p)
  PROVE  request' = request /\ answer' = answer
  BY DEF Validate, Pass, RefuseTable, RefuseDomain, CountSourceOnly, SourceOnly, Return, ReadSource,
         ReadTarget, ReadFails, Store, http

(* A request loads the counters in the order of LoadOrder. *)
LEMMA Loads ==
  ASSUME TypeOK, ReasonInv, AnswerHasReasons, LoadCounter
  PROVE  ReasonInv' /\ AnswerHasReasons'
<1> USE DEF TypeOK
<1>0. /\ source_only_reads' = source_only_reads /\ tables_filtered' = tables_filtered
      /\ domains_filtered' = domains_filtered /\ pc' = pc
  BY DEF LoadCounter, stats, thread
<1>1. source_only_reads <= tables_filtered + domains_filtered
  BY DEF ReasonInv, Refused
<1>2. CASE request = LoadOrder
  <2>1. Head(request) = "dual" /\ Tail(request) = Tail(LoadOrder) /\ Tail(request) # << >>
        /\ Tail(request) # <<"tables", "domains">> /\ Tail(request) # <<"domains">>
    BY <1>2 DEF LoadOrder
  <2> QED
    BY <1>0, <2>1 DEF LoadCounter, ReasonInv, Refused, AnswerHasReasons
<1>3. CASE request = Tail(LoadOrder)
  <2>1. Head(request) = "source_only" /\ Tail(request) = <<"tables", "domains">>
        /\ Tail(request) # << >> /\ Tail(request) # <<"domains">>
    BY <1>3 DEF LoadOrder
  <2>2. answer'["source_only"] = source_only_reads
    BY <2>1, Counters DEF LoadCounter, Counter
  <2> QED
    BY <1>0, <1>1, <2>1, <2>2 DEF LoadCounter, ReasonInv, Refused, AnswerHasReasons
<1>4. CASE request = <<"tables", "domains">>
  <2>1. Head(request) = "tables" /\ Tail(request) = <<"domains">>
        /\ Tail(request) # << >> /\ Tail(request) # <<"tables", "domains">>
    BY <1>4
  <2>2. answer'["tables"] = tables_filtered /\ answer'["source_only"] = answer["source_only"]
    BY <2>1, Counters DEF LoadCounter, Counter
  <2> QED
    BY <1>0, <1>4, <2>1, <2>2 DEF LoadCounter, ReasonInv, Refused, AnswerHasReasons
<1>5. CASE request = <<"domains">>
  <2>1. Head(request) = "domains" /\ Tail(request) = << >>
        /\ Tail(request) # <<"domains">> /\ Tail(request) # <<"tables", "domains">>
    BY <1>5
  <2>2. answer'["domains"] = domains_filtered /\ answer'["tables"] = answer["tables"]
        /\ answer'["source_only"] = answer["source_only"]
    BY <2>1, Counters DEF LoadCounter, Counter
  <2> QED
    BY <1>0, <1>5, <2>1, <2>2 DEF LoadCounter, ReasonInv, Refused, AnswerHasReasons
<1> QED
  BY <1>2, <1>3, <1>4, <1>5 DEF LoadCounter, ReasonInv

(* Every step keeps the reasons ahead of the refusals, and the answer with them. *)
LEMMA ReasonStep ==
  ASSUME TypeOK, CallInv, ReasonInv, AnswerHasReasons, [Next]_vars
  PROVE  ReasonInv' /\ AnswerHasReasons'
<1> USE DEF TypeOK
<1>1. CASE LoadCounter
  BY <1>1, Loads
<1>2. ASSUME NEW p \in Threads, Validate(p)
      PROVE  ReasonInv' /\ AnswerHasReasons'
  <2>1. answer["source_only"] \in Nat /\ answer["tables"] \in Nat
    BY Counters
  <2>2. tables_filtered' \in Nat /\ domains_filtered' \in Nat
    BY <1>2, ValidateTypes, TypeStep DEF Next, LoopStep, Threads
  <2> QED
    BY <1>2, <2>1, <2>2, ValidateReasons, ValidateLeavesHttp DEF ReasonInv, AnswerHasReasons
<1>3. CASE FilterStatsRequest
  <2>1. LoadOrder # << >> /\ LoadOrder # <<"tables", "domains">> /\ LoadOrder # <<"domains">>
    BY DEF LoadOrder
  <2> QED
    BY <1>3, <2>1 DEF FilterStatsRequest, ReasonInv, AnswerHasReasons, Refused, stats, thread
<1>4. ASSUME /\ UNCHANGED <<stats, request, answer>>
             /\ Refused("loop")' = Refused("loop") /\ Refused("caller")' = Refused("caller")
      PROVE  ReasonInv' /\ AnswerHasReasons'
  BY <1>4 DEF ReasonInv, AnswerHasReasons, stats
<1>5. CASE StartCycle \/ NextTable \/ EndCycle \/ Shutdown
  BY <1>4, <1>5 DEF StartCycle, NextTable, EndCycle, Shutdown, Refused, http, cycle, Threads
<1>6. ASSUME NEW t \in TableNames, NEW d \in Domains, ValidateForDomain(t, d)
      PROVE  ReasonInv' /\ AnswerHasReasons'
  BY <1>4, <1>6 DEF ValidateForDomain, Refused, http, Threads
<1>7. CASE UNCHANGED vars
  BY <1>4, <1>7 DEF vars, Refused, http, thread
<1> QED
  BY <1>1, <1>2, <1>3, <1>5, <1>6, <1>7 DEF Next, LoopStep, Threads

-----------------------------------------------------------------------------
(* The cycle *)

(* What the loop's next table is, and that it leaves the order as it was. *)
LEMMA BeginTable ==
  ASSUME TypeOK, CycleInv, NextTable
  PROVE  /\ cycles > 0 /\ Begun \in 0 .. Len(Tables) - 1 /\ Begun' = Begun + 1 /\ Ended' = Begun
         /\ table'["loop"] = Tables[Begun']
         /\ \A i \in 1 .. Len(todo') : todo'[i] = Tables[Begun' + i]
<1> USE Configured DEF TypeOK
<1>1. cycles > 0 /\ Ended = Begun /\ Begun >= 0 /\ todo # << >>
      /\ \A i \in 1 .. Len(todo) : todo[i] = Tables[Begun + i]
  BY DEF NextTable, CycleInv, Ended
<1>2. todo' = Tail(todo) /\ Len(todo) \in Nat \ {0} /\ Len(todo') = Len(todo) - 1
      /\ Head(todo) = todo[1] /\ \A i \in 1 .. Len(todo') : todo'[i] = todo[i + 1]
  BY <1>1 DEF NextTable
<1>3. Begun' = Begun + 1 /\ Begun \in 0 .. Len(Tables) - 1
  BY <1>1, <1>2 DEF Begun
<1>4. Ended' = Begun
  BY <1>3 DEF NextTable, Ended, Threads
<1>5. table'["loop"] = todo[1]
  BY <1>2 DEF NextTable, Threads
<1>6. todo[1] = Tables[Begun + 1]
  BY <1>1, <1>2
<1>7. ASSUME NEW i \in 1 .. Len(todo')
      PROVE  todo'[i] = Tables[Begun' + i]
  <2>0. todo'[i] = todo[i + 1]
    BY <1>2
  <2>1. todo'[i] = todo[i + 1] /\ i + 1 \in 1 .. Len(todo)
    <3> DEFINE n == Len(todo')
               m == Len(todo)
    <3>1. m \in Nat \ {0} /\ n = m - 1 /\ i \in 1 .. n
      BY <1>2
    <3> HIDE DEF n, m
    <3>2. i + 1 \in 1 .. m
      BY <3>1
    <3> QED
      BY <2>0, <3>2 DEF m
  <2>2. todo[i + 1] = Tables[Begun + (i + 1)]
    BY <1>1, <2>1
  <2>3. Begun + (i + 1) = Begun' + i
    BY <1>3
  <2> QED
    BY <2>1, <2>2, <2>3
<1> QED
  BY <1>1, <1>3, <1>4, <1>5, <1>6, <1>7

(* The outcome of the loop's table joins the outcomes of those before it. *)
LEMMA EndTable ==
  ASSUME TypeOK, CycleInv, pc["loop"] \notin {"idle", "next", "stopped"},
         pc' = [pc EXCEPT !["loop"] = "next"], UNCHANGED <<todo, cycles, table>>,
         \/ results' = results \union {table["loop"]} /\ failed' = failed
         \/ results' = results /\ failed' = failed \union {table["loop"]}
  PROVE  CycleInv'
<1> USE Configured DEF TypeOK
<1> DEFINE k == Begun
<1>0. k \in Int /\ k <= Len(Tables) /\ Ended = k - 1
  BY DEF Ended, Begun
<1>1. cycles > 0 /\ Ended = k - 1 /\ k \in Nat \ {0} /\ k <= Len(Tables)
      /\ table["loop"] = Tables[k]
  <2>1. cycles > 0 /\ Ended >= 0 /\ table["loop"] = Tables[k]
    BY DEF CycleInv
  <2> QED
    BY <1>0, <2>1
<1>2. pc'["loop"] = "next" /\ Begun' = k /\ Ended' = k
  BY DEF Threads, Begun, Ended
<1>3. results' \union failed' = {Tables[i] : i \in 1 .. k}
  <2>1. results' \union failed' = (results \union failed) \union {Tables[k]}
    BY <1>1
  <2>2. results \union failed = {Tables[i] : i \in 1 .. k - 1}
    BY <1>1 DEF CycleInv
  <2>3. {Tables[i] : i \in 1 .. k} = {Tables[i] : i \in 1 .. k - 1} \union {Tables[k]}
    <3> HIDE DEF k
    <3> QED
      BY <1>1
  <2> QED
    BY <2>1, <2>2, <2>3
<1>4. ASSUME NEW t \in results' \intersect failed'
      PROVE  Twice(t)
  <2>1. CASE t \in results \intersect failed
    BY <1>1, <2>1 DEF CycleInv
  <2>2. CASE t = Tables[k] /\ t \in results \union failed
    <3>1. PICK i \in 1 .. k - 1 : t = Tables[i]
      BY <1>1, <2>2 DEF CycleInv
    <3>2. i \in DOMAIN Tables /\ k \in DOMAIN Tables /\ i # k
      BY <1>1
    <3> QED
      BY <2>2, <3>1, <3>2 DEF Twice
  <2> QED
    BY <1>1, <1>4, <2>1, <2>2
<1>5. \A i \in 1 .. Len(todo') : todo'[i] = Tables[Begun' + i]
  BY <1>1, <1>2 DEF CycleInv
<1> QED
  BY <1>1, <1>2, <1>3, <1>4, <1>5 DEF CycleInv, Twice

(* Within a table, and whatever the caller does, the cycle stands still. *)
LEMMA SameTable ==
  ASSUME CycleInv, UNCHANGED <<todo, results, failed, cycles>>, table'["loop"] = table["loop"],
         \/ pc'["loop"] = pc["loop"]
         \/ /\ pc["loop"] \notin {"idle", "next", "stopped"}
            /\ pc'["loop"] \notin {"idle", "next", "stopped"}
  PROVE  CycleInv'
<1>1. Begun' = Begun /\ Ended' = Ended
  BY DEF Begun, Ended
<1>2. /\ pc'["loop"] \in {"idle", "stopped"} <=> pc["loop"] \in {"idle", "stopped"}
      /\ pc'["loop"] \in {"idle", "next", "stopped"} <=> pc["loop"] \in {"idle", "next", "stopped"}
  OBVIOUS
<1> QED
  BY <1>1, <1>2 DEF CycleInv, Twice

(* The loop's own validation: within the table, or its end. *)
LEMMA LoopValidates ==
  ASSUME TypeOK, CycleInv, CallInv, Validate("loop")
  PROVE  CycleInv'
<1> USE DEF TypeOK, Threads, cycle
<1>1. CASE Pass("loop")
  BY <1>1, SameTable DEF Pass, AtGate
<1>2. CASE RefuseTable("loop")
  BY <1>2, SameTable DEF RefuseTable, AtGate
<1>3. CASE RefuseDomain("loop")
  BY <1>3, SameTable DEF RefuseDomain, AtGate
<1>4. CASE CountSourceOnly("loop")
  BY <1>4, SameTable DEF CountSourceOnly
<1>5. CASE SourceOnly("loop")
  BY <1>5, EndTable DEF SourceOnly, Return, Back
<1>6. CASE ReadSource("loop")
  BY <1>6, SameTable DEF ReadSource
<1>7. CASE ReadTarget("loop")
  BY <1>7, SameTable DEF ReadTarget
<1>8. CASE ReadFails("loop")
  BY <1>8, EndTable DEF ReadFails, Back
<1>9. CASE Store("loop")
  BY <1>9, EndTable DEF Store, Return, Back
<1> QED
  BY <1>1, <1>2, <1>3, <1>4, <1>5, <1>6, <1>7, <1>8, <1>9 DEF Validate

(* A caller's validation has no part in the cycle. *)
LEMMA CallerValidates ==
  ASSUME TypeOK, CycleInv, Validate("caller")
  PROVE  CycleInv'
<1>1. UNCHANGED <<todo, results, failed, cycles>> /\ table'["loop"] = table["loop"]
      /\ pc'["loop"] = pc["loop"]
  BY DEF TypeOK, Threads, cycle, Validate, Pass, RefuseTable, RefuseDomain, CountSourceOnly, SourceOnly, Return,
         ReadSource, ReadTarget, ReadFails, Store
<1> QED
  BY <1>1, SameTable

(* Every step keeps the cycle's outcomes those of the tables it has behind it. *)
LEMMA CycleStep ==
  ASSUME TypeOK, CallInv, CycleInv, [Next]_vars
  PROVE  CycleInv'
<1> USE Configured DEF TypeOK, Threads
<1>1. CASE StartCycle
  <2>1. /\ pc'["loop"] = "next" /\ todo' = Tables /\ results' = {} /\ failed' = {} /\ cycles' > 0
    BY <1>1 DEF StartCycle
  <2>2. Begun' = 0 /\ Ended' = 0
    BY <2>1 DEF Begun, Ended
  <2>3. {Tables[i] : i \in 1 .. Ended'} = {}
    BY <2>2
  <2>4. \A i \in 1 .. Len(todo') : todo'[i] = Tables[Begun' + i]
    BY <2>1, <2>2
  <2> QED
    BY <2>1, <2>2, <2>3, <2>4 DEF CycleInv
<1>2. CASE NextTable
  <2>1. pc["loop"] = "next" /\ pc'["loop"] = "table_gate" /\ UNCHANGED <<results, failed, cycles>>
    BY <1>2 DEF NextTable
  <2>2. Ended = Begun /\ Ended' = Ended /\ Ended' >= 0
    BY <1>2, <2>1, BeginTable DEF Ended
  <2>3. results' \union failed' = {Tables[i] : i \in 1 .. Ended'}
        /\ \A t \in results' \intersect failed' : Twice(t)
    BY <1>2, <2>1, <2>2, BeginTable DEF CycleInv
  <2> QED
    BY <1>2, <2>1, <2>2, <2>3, BeginTable DEF CycleInv, Twice
<1>3. CASE EndCycle
  <2>1. pc["loop"] = "next" /\ pc'["loop"] = "idle" /\ todo = << >> /\ UNCHANGED <<todo, results, failed, cycles>>
    BY <1>3 DEF EndCycle, cycle
  <2>2. Begun' = Begun /\ Ended' = Ended
    BY <2>1 DEF Begun, Ended
  <2> QED
    BY <2>1, <2>2 DEF CycleInv, Twice
<1>4. CASE Shutdown
  <2>1. pc["loop"] = "idle" /\ pc'["loop"] = "stopped" /\ UNCHANGED <<todo, results, failed, cycles>>
    BY <1>4 DEF Shutdown, cycle
  <2>2. Begun' = Begun /\ Ended' = Ended
    BY <2>1 DEF Begun, Ended
  <2> QED
    BY <2>1, <2>2 DEF CycleInv, Twice
<1>5. CASE Validate("loop")
  BY <1>5, LoopValidates
<1>6. CASE Validate("caller")
  BY <1>6, CallerValidates
<1>7. ASSUME NEW t \in TableNames, NEW d \in Domains, ValidateForDomain(t, d)
      PROVE  CycleInv'
  BY <1>7, SameTable DEF ValidateForDomain, cycle
<1>8. CASE FilterStatsRequest \/ LoadCounter \/ UNCHANGED vars
  BY <1>8, SameTable DEF FilterStatsRequest, LoadCounter, vars, cycle, thread
<1> QED
  BY <1>1, <1>2, <1>3, <1>4, <1>5, <1>6, <1>7, <1>8 DEF Next, LoopStep

-----------------------------------------------------------------------------
(* The service *)

(* The inductive invariant: what each thread has behind it, how far the cycle
   has come, and which counters a request has still to load. *)
THEOREM Invariance == Spec => []IInv
<1>1. Init => IInv
  <2> SUFFICES ASSUME Init PROVE IInv
    OBVIOUS
  <2>1. TypeOK
    BY TypeInit
  <2>2. CallInv /\ TargetReadsWhitelisted
    BY DEF Init, CallInv, TargetReadsWhitelisted, Threads, DomainAllowed, TableAllowed
  <2>3. CycleInv
    BY DEF Init, CycleInv, Threads
  <2>4. ReasonInv /\ AnswerHasReasons
    BY Counters DEF Init, ReasonInv, Refused, AnswerHasReasons, Threads, LoadOrder
  <2> QED
    BY <2>1, <2>2, <2>3, <2>4 DEF IInv
<1>2. IInv /\ [Next]_vars => IInv'
  <2> SUFFICES ASSUME IInv, [Next]_vars PROVE IInv'
    OBVIOUS
  <2>1. enabled' = enabled
    BY EnabledFixed DEF IInv, TypeOK
  <2> QED
    BY <2>1, TypeStep, CallStep, TargetStep, CycleStep, ReasonStep DEF IInv
<1> QED
  BY <1>1, <1>2, PTL DEF Spec

(* decide() and its two call sites: with the filter on, the target is read
   for whitelisted tables and domains only, whoever validates. *)
THEOREM TargetGuarded == Spec => []TargetReadsWhitelisted
<1>1. IInv => TargetReadsWhitelisted
  BY DEF IInv
<1> QED
  BY <1>1, Invariance, PTL

(* validate_all_tables: when the loop waits, each configured table has an
   outcome, whichever reads threw. *)
THEOREM CyclesComplete == Spec => []CycleComplete
<1>1. IInv => CycleComplete
  <2> SUFFICES ASSUME IInv, pc["loop"] \in {"idle", "stopped"}, cycles > 0
               PROVE  results \union failed = TableNames /\ \A t \in results \intersect failed : Twice(t)
    BY DEF CycleComplete
  <2>1. Ended = Len(Tables)
    BY Configured DEF IInv, CycleInv, Ended, Begun
  <2> QED
    BY <2>1, Configured DEF IInv, CycleInv
<1> QED
  BY <1>1, Invariance, PTL

(* GET /filter/stats: every answer has a reason for each source-only read it
   reports, although decisions are made between its loads. *)
THEOREM ReasonsAnswered == Spec => []AnswerHasReasons
<1>1. IInv => AnswerHasReasons
  BY DEF IInv
<1> QED
  BY <1>1, Invariance, PTL
=============================================================================
