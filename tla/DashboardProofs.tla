--------------------------- MODULE DashboardProofs ---------------------------
(***************************************************************************)
(* For any number of tables, any figures of the demo whose rows outlast    *)
(* its tables, any log and any sequence of keys, polls and lost            *)
(* connections: the display of tui-dash agrees with its own log and with   *)
(* the generator.                                                          *)
(***************************************************************************)
EXTENDS Dashboard, TLAPS

(* std::min of two numbers. *)
LEMMA MinOfTwo ==
  ASSUME NEW a \in Int, NEW b \in Int
  PROVE  Min({a, b}) = IF a <= b THEN a ELSE b
<1>1. CASE a <= b
  BY <1>1 DEF Min
<1>2. CASE b < a
  BY <1>2 DEF Min
<1> QED
  BY <1>1, <1>2

-----------------------------------------------------------------------------
(* The log *)

(* Entries none of which says "resumed"; entries the last of which, of those
   about pausing, says "paused". *)
Quiet(entries) == \A i \in DOMAIN entries : entries[i] # "resumed"
Pauses(entries) == EndsPaused(entries) /\ \E i \in DOMAIN entries : entries[i] = "paused"

(* A list of one element. *)
LEMMA Single ==
  ASSUME NEW S, NEW x \in S
  PROVE  <<x>> \in Seq(S) /\ DOMAIN <<x>> = {1} /\ <<x>>[1] = x
  OBVIOUS

(* The entry of a condition. *)
LEMMA WhenType ==
  ASSUME NEW c, NEW e \in Entries
  PROVE  When(c, e) \in Seq(Entries)
<1>1. CASE c
  BY <1>1, Single DEF When
<1>2. CASE ~c
  BY <1>2 DEF When
<1> QED
  BY <1>1, <1>2

(* An entry that does not say "resumed", and none. *)
LEMMA WhenQuiet ==
  ASSUME NEW c, NEW e \in Entries, e # "resumed" \/ ~c
  PROVE  Quiet(When(c, e))
<1>1. CASE c
  BY <1>1 DEF When, Quiet
<1>2. CASE ~c
  BY <1>2 DEF When, Quiet
<1> QED
  BY <1>1, <1>2

(* Positions of two lists of entries put together. *)
LEMMA Joined ==
  ASSUME NEW a \in Seq(Entries), NEW b \in Seq(Entries)
  PROVE  /\ a \o b \in Seq(Entries) /\ Len(a \o b) = Len(a) + Len(b)
         /\ Len(a) \in Nat /\ Len(b) \in Nat
         /\ DOMAIN (a \o b) = 1 .. Len(a) + Len(b)
         /\ DOMAIN a = 1 .. Len(a) /\ DOMAIN b = 1 .. Len(b)
         /\ \A i \in 1 .. Len(a) : (a \o b)[i] = a[i]
         /\ \A i \in 1 .. Len(b) : (a \o b)[Len(a) + i] = b[i]
         /\ \A i \in 1 .. Len(a) + Len(b) : i \in 1 .. Len(a) \/ i - Len(a) \in 1 .. Len(b)
  OBVIOUS

(* Quiet entries stay quiet together. *)
LEMMA QuietJoined ==
  ASSUME NEW a \in Seq(Entries), NEW b \in Seq(Entries), Quiet(a), Quiet(b)
  PROVE  Quiet(a \o b)
  BY Joined DEF Quiet

(* Quiet entries do not change what a log ends in. *)
LEMMA QuietAfter ==
  ASSUME NEW a \in Seq(Entries), NEW b \in Seq(Entries), EndsPaused(a), Quiet(b)
  PROVE  EndsPaused(a \o b)
<1> SUFFICES ASSUME NEW i \in DOMAIN (a \o b), (a \o b)[i] = "resumed"
             PROVE  \E j \in DOMAIN (a \o b) : j > i /\ (a \o b)[j] = "paused"
  BY DEF EndsPaused
<1>1. i \in 1 .. Len(a) /\ a[i] = "resumed"
  <2>1. i - Len(a) \in 1 .. Len(b) => (a \o b)[i] = b[i - Len(a)]
    <3>1. i - Len(a) \in 1 .. Len(b) => (a \o b)[Len(a) + (i - Len(a))] = b[i - Len(a)]
      BY Joined
    <3>2. Len(a) + (i - Len(a)) = i
      BY Joined
    <3> QED
      BY <3>1, <3>2
  <2> QED
    BY <2>1, Joined DEF Quiet
<1>2. PICK j \in DOMAIN a : j > i /\ a[j] = "paused"
  BY <1>1, Joined DEF EndsPaused
<1>3. j \in DOMAIN (a \o b) /\ (a \o b)[j] = "paused"
  BY <1>2, Joined
<1> QED
  BY <1>2, <1>3

(* Entries that pause settle what a log ends in, whatever it was. *)
LEMMA PausesAfter ==
  ASSUME NEW a \in Seq(Entries), NEW b \in Seq(Entries), Pauses(b)
  PROVE  Pauses(a \o b)
<1>1. PICK p \in DOMAIN b : b[p] = "paused"
  BY DEF Pauses
<1>2. Len(a) + p \in DOMAIN (a \o b) /\ (a \o b)[Len(a) + p] = "paused" /\ p \in Nat \ {0}
  BY <1>1, Joined
<1>3. ASSUME NEW i \in DOMAIN (a \o b), (a \o b)[i] = "resumed"
      PROVE  \E j \in DOMAIN (a \o b) : j > i /\ (a \o b)[j] = "paused"
  <2>1. CASE i \in 1 .. Len(a)
    <3>1. Len(a) + p > i
      BY <1>2, <2>1, Joined
    <3> QED
      BY <1>2, <3>1
  <2>2. CASE i - Len(a) \in 1 .. Len(b)
    <3>1. DEFINE k == i - Len(a)
    <3>2. k \in DOMAIN b /\ i = Len(a) + k /\ b[k] = (a \o b)[Len(a) + k]
      BY <2>2, Joined
    <3>3. b[k] = "resumed"
      BY <1>3, <3>2
    <3>4. PICK j \in DOMAIN b : j > k /\ b[j] = "paused"
      BY <3>2, <3>3 DEF Pauses, EndsPaused
    <3>5. Len(a) + j \in DOMAIN (a \o b) /\ Len(a) + j > i /\ (a \o b)[Len(a) + j] = "paused"
      BY <3>2, <3>4, Joined
    <3> QED
      BY <3>5
  <2> QED
    BY <2>1, <2>2, Joined
<1> QED
  BY <1>2, <1>3 DEF Pauses, EndsPaused

(* A quiet end leaves entries that pause so. *)
LEMMA PausesBefore ==
  ASSUME NEW a \in Seq(Entries), NEW b \in Seq(Entries), Pauses(a), Quiet(b)
  PROVE  Pauses(a \o b)
<1>1. PICK p \in DOMAIN a : a[p] = "paused"
  BY DEF Pauses
<1>2. p \in DOMAIN (a \o b) /\ (a \o b)[p] = "paused"
  BY <1>1, Joined
<1> QED
  BY <1>2, QuietAfter DEF Pauses

(* One entry "paused". *)
LEMMA PausedEntry == <<"paused">> \in Seq(Entries) /\ Pauses(<<"paused">>)
<1> DEFINE e == <<"paused">>
<1>1. e \in Seq(Entries) /\ 1 \in DOMAIN e /\ e[1] = "paused" /\ \A i \in DOMAIN e : e[i] = "paused"
  <2>1. "paused" \in Entries
    BY DEF Entries
  <2>2. e \in Seq(Entries) /\ DOMAIN e = {1} /\ e[1] = "paused"
    BY <2>1, Single
  <2> HIDE DEF e
  <2> QED
    BY <2>2
<1> HIDE DEF e
<1>2. Pauses(e)
  BY <1>1 DEF Pauses, EndsPaused
<1> QED
  BY <1>1, <1>2 DEF e

(* Losing the oldest entries does not change what a log ends in. *)
LEMMA Suffix ==
  ASSUME NEW a \in Seq(Entries), EndsPaused(a), NEW m \in 1 .. Len(a) + 1
  PROVE  /\ SubSeq(a, m, Len(a)) \in Seq(Entries)
         /\ EndsPaused(SubSeq(a, m, Len(a)))
<1> DEFINE s == SubSeq(a, m, Len(a))
           n == Len(a) - m + 1
<1>1. /\ s \in Seq(Entries) /\ DOMAIN s = 1 .. n /\ m \in Nat /\ Len(a) \in Nat
      /\ DOMAIN a = 1 .. Len(a)
      /\ \A i \in 1 .. n : s[i] = a[m + i - 1]
  OBVIOUS
<1> HIDE DEF s
<1>2. ASSUME NEW i \in 1 .. n, s[i] = "resumed"
      PROVE  \E j \in 1 .. n : j > i /\ s[j] = "paused"
  <2>1. m + i - 1 \in DOMAIN a /\ a[m + i - 1] = "resumed"
    BY <1>1, <1>2
  <2>2. PICK j \in DOMAIN a : j > m + i - 1 /\ a[j] = "paused"
    BY <2>1 DEF EndsPaused
  <2>3. j - m + 1 \in 1 .. n /\ j - m + 1 > i /\ m + (j - m + 1) - 1 = j
    BY <1>1, <2>2
  <2>4. s[j - m + 1] = "paused"
    BY <1>1, <2>2, <2>3
  <2> QED
    BY <2>3, <2>4
<1>3. EndsPaused(s)
  BY <1>1, <1>2 DEF EndsPaused
<1> QED
  BY <1>1, <1>3 DEF s

(* add_log keeps a log, and what it ends in. *)
LEMMA AddLogKeeps ==
  ASSUME NEW old \in Seq(Entries), NEW entries \in Seq(Entries)
  PROVE  /\ AddLog(old, entries) \in Seq(Entries)
         /\ EndsPaused(old \o entries) => EndsPaused(AddLog(old, entries))
<1> DEFINE all == old \o entries
           m == Len(all) - Min({Len(all), LogLimit}) + 1
<1>1. all \in Seq(Entries) /\ Len(all) \in Nat /\ LogLimit \in Nat
  BY Joined, DashboardAssumption
<1>2. m \in 1 .. Len(all) + 1
  <2>1. Min({Len(all), LogLimit}) = IF Len(all) <= LogLimit THEN Len(all) ELSE LogLimit
    BY <1>1, MinOfTwo
  <2> QED
    BY <1>1, <2>1
<1>3. AddLog(old, entries) = SubSeq(all, m, Len(all))
  BY DEF AddLog
<1> HIDE DEF all, m
<1>4. SubSeq(all, m, Len(all)) \in Seq(Entries)
  BY <1>1, <1>2
<1>5. EndsPaused(all) => EndsPaused(SubSeq(all, m, Len(all)))
  BY <1>1, <1>2, Suffix
<1> QED
  BY <1>3, <1>4, <1>5 DEF all

-----------------------------------------------------------------------------
(* The display *)

(* The flags of a status. *)
LEMMA StatusFields ==
  ASSUME NEW s \in Status
  PROVE  /\ s = [is_running |-> s.is_running, is_paused |-> s.is_paused, rows |-> s.rows]
         /\ s.is_running \in BOOLEAN /\ s.is_paused \in BOOLEAN /\ s.rows \in BOOLEAN
  BY Zenon DEF Status

(* The status of a fresh DashboardState. *)
LEMMA Fresh == NoStatus \in Status /\ ~NoStatus.is_paused /\ ~NoStatus.is_running
  BY Zenon DEF NoStatus, Status

(* Space changes is_paused and nothing else. *)
LEMMA Toggled ==
  ASSUME NEW s \in Status, NEW t, t = [s EXCEPT !.is_paused = ~@]
  PROVE  t \in Status /\ (t.is_paused <=> ~s.is_paused) /\ t.is_running = s.is_running
  BY StatusFields, Zenon DEF Status

(* A start or a tick of the demo sets flags. *)
LEMMA Flagged ==
  ASSUME NEW s \in Status, NEW running \in BOOLEAN, NEW t,
         \/ t = [s EXCEPT !.is_running = running, !.is_paused = FALSE]
         \/ t = [s EXCEPT !.is_running = running, !.rows = TRUE] /\ ~s.is_paused
  PROVE  t \in Status /\ ~t.is_paused /\ (t.is_running <=> running)
<1>1. CASE t = [s EXCEPT !.is_running = running, !.is_paused = FALSE]
  BY <1>1, StatusFields, Zenon DEF Status
<1>2. CASE t = [s EXCEPT !.is_running = running, !.rows = TRUE] /\ ~s.is_paused
  BY <1>2, StatusFields, Zenon DEF Status
<1> QED
  BY <1>1, <1>2

(* Adding quiet entries does not change what the log ends in ... *)
LEMMA AddQuiet ==
  ASSUME NEW old \in Seq(Entries), NEW entries \in Seq(Entries), Quiet(entries)
  PROVE  AddLog(old, entries) \in Seq(Entries) /\ (EndsPaused(old) => EndsPaused(AddLog(old, entries)))
  BY AddLogKeeps, QuietAfter

(* ... and adding entries that pause settles it. *)
LEMMA AddPause ==
  ASSUME NEW old \in Seq(Entries), NEW entries \in Seq(Entries), Pauses(entries)
  PROVE  AddLog(old, entries) \in Seq(Entries) /\ EndsPaused(AddLog(old, entries))
<1>1. EndsPaused(old \o entries)
  BY PausesAfter DEF Pauses
<1> QED
  BY <1>1, AddLogKeeps

(* What a poll adds: nothing about a resumption while the loader is paused,
   and the pause when it is news. *)
LEMMA FetchedEntries ==
  ASSUME NEW s \in Status, shown \in Status, log \in Seq(Entries), PausedIsLogged, Fetched(s)
  PROVE  log' \in Seq(Entries) /\ PausedIsLogged'
<1> DEFINE A == When(~shown.is_running /\ s.is_running, "connected")
           B == When(shown.is_running /\ ~s.is_running /\ s.rows, "completed")
           C == When(~shown.is_paused /\ s.is_paused, "paused")
           E == When(shown.is_paused /\ ~s.is_paused /\ s.is_running, "resumed")
           ABCE == ((A \o B) \o C) \o E
<1>1. shown' = s /\ log' = AddLog(log, ABCE)
  BY DEF Fetched
<1>2. /\ A \in Seq(Entries) /\ B \in Seq(Entries) /\ C \in Seq(Entries)
      /\ E \in Seq(Entries)
  BY WhenType DEF Entries
<1>3. Quiet(A) /\ Quiet(B) /\ Quiet(C)
  BY WhenQuiet DEF Entries
<1>4. s.is_paused => Quiet(E)
  BY WhenQuiet DEF Entries
<1>5. s.is_paused /\ ~shown.is_paused => Pauses(C)
  BY PausedEntry DEF When
<1> HIDE DEF A, B, C, E
<1>6. A \o B \in Seq(Entries) /\ (A \o B) \o C \in Seq(Entries) /\ ABCE \in Seq(Entries)
  BY <1>2
<1>7. log' \in Seq(Entries)
  BY <1>1, <1>6, AddLogKeeps
<1>8. CASE ~s.is_paused
  BY <1>1, <1>7, <1>8 DEF PausedIsLogged
<1>9. CASE s.is_paused /\ shown.is_paused
  <2>1. Quiet(A \o B)
    BY <1>2, <1>3, QuietJoined
  <2>2. Quiet((A \o B) \o C)
    BY <1>2, <1>3, <1>6, <2>1, QuietJoined
  <2>3. Quiet(ABCE)
    BY <1>2, <1>4, <1>6, <1>9, <2>2, QuietJoined
  <2>5. EndsPaused(log)
    BY <1>9 DEF PausedIsLogged
  <2> HIDE DEF ABCE
  <2>6. EndsPaused(AddLog(log, ABCE))
    BY <1>6, <2>3, <2>5, AddQuiet
  <2> QED
    BY <1>1, <1>7, <2>6 DEF PausedIsLogged, EndsPaused
<1>10. CASE s.is_paused /\ ~shown.is_paused
  <2>1. Pauses(C)
    BY <1>5, <1>10
  <2>2. Pauses((A \o B) \o C)
    BY <1>2, <1>6, <2>1, PausesAfter
  <2>3. Pauses(ABCE)
    BY <1>2, <1>4, <1>6, <1>10, <2>2, PausesBefore
  <2> HIDE DEF ABCE
  <2>5. EndsPaused(AddLog(log, ABCE))
    BY <1>6, <2>3, AddPause
  <2> QED
    BY <1>1, <1>7, <2>5 DEF PausedIsLogged, EndsPaused
<1> QED
  BY <1>8, <1>9, <1>10

(* A tick of the demo logs under a display that is not paused. *)
LEMMA TickEntries ==
  ASSUME log \in Seq(Entries), shown \in Status, NEW inc, NEW rows, DemoTick(inc, rows)
  PROVE  log' \in Seq(Entries) /\ shown' \in Status /\ ~shown'.is_paused
<1> DEFINE idx == IF Finishes(inc) THEN current_table_idx + 1 ELSE current_table_idx
           moved == Min({migrated_rows + rows, TotalRows})
           complete == moved >= TotalRows \/ idx >= Len(tables)
           A == When(Finishes(inc), "table")
           B == When(Finishes(inc) /\ idx < Len(tables), "table")
           C == When(complete, "completed")
<1>1. /\ log' = AddLog(log, (A \o B) \o C)
      /\ shown' = [shown EXCEPT !.is_running = ~complete, !.rows = TRUE] /\ ~shown.is_paused
  BY DEF DemoTick
<1>2. A \in Seq(Entries) /\ B \in Seq(Entries) /\ C \in Seq(Entries)
  BY WhenType DEF Entries
<1> HIDE DEF A, B, C, complete
<1>3. (A \o B) \o C \in Seq(Entries)
  BY <1>2
<1>4. log' \in Seq(Entries)
  BY <1>1, <1>3, AddLogKeeps
<1>5. (~complete) \in BOOLEAN
  BY Zenon
<1>6. shown' \in Status /\ ~shown'.is_paused
  BY <1>1, <1>5, Flagged, Zenon
<1> QED
  BY <1>4, <1>6

(* Every step keeps the status and the log well formed and in agreement. *)
LEMMA LogStep ==
  ASSUME TypeOK, PausedIsLogged, [Next]_vars
  PROVE  /\ shown' \in Status /\ reply' \in Status /\ loader' \in Status
         /\ log' \in Seq(Entries) /\ PausedIsLogged'
<1> DEFINE Goal == /\ shown' \in Status /\ reply' \in Status /\ loader' \in Status
                   /\ log' \in Seq(Entries) /\ PausedIsLogged'
<1>0. shown \in Status /\ reply \in Status /\ loader \in Status /\ log \in Seq(Entries)
  BY DEF TypeOK
<1>1. ASSUME UNCHANGED <<shown, log>>, reply' \in Status, loader' \in Status
      PROVE  Goal
  BY <1>0, <1>1 DEF PausedIsLogged
<1>2. CASE UpdaterExit \/ UpdaterSleep \/ DemoIdle \/ PollBegin \/ Quit \/ Destroy \/ UNCHANGED vars
  BY <1>0, <1>1, <1>2
     DEF UpdaterExit, UpdaterSleep, DemoIdle, PollBegin, Quit, Destroy, vars, display, client, server
<1>3. CASE DemoStart
  <2>1. /\ shown' = [shown EXCEPT !.is_running = TRUE, !.is_paused = FALSE]
        /\ log' = AddLog(log, <<"init", "init", "init", "init", "table">>)
        /\ UNCHANGED <<reply, loader>>
    BY <1>3 DEF DemoStart, client, server
  <2>2. shown' \in Status /\ ~shown'.is_paused
    BY <1>0, <2>1, Flagged, Zenon
  <2>3. <<"init", "init", "init", "init", "table">> \in Seq(Entries)
    BY DEF Entries
  <2>4. log' \in Seq(Entries)
    BY <1>0, <2>1, <2>3, AddLogKeeps
  <2> QED
    BY <1>0, <2>1, <2>2, <2>4 DEF PausedIsLogged
<1>4. ASSUME NEW i \in Increments, NEW r \in RowsPerTick, DemoTick(i, r)
      PROVE  Goal
  <2>1. shown' \in Status /\ ~shown'.is_paused /\ log' \in Seq(Entries)
    BY <1>0, <1>4, TickEntries
  <2>2. UNCHANGED <<reply, loader>>
    BY <1>4 DEF DemoTick, client, server
  <2> QED
    BY <1>0, <2>1, <2>2 DEF PausedIsLogged
<1>5. CASE Answer
  BY <1>0, <1>1, <1>5 DEF Answer, display, server
<1>6. CASE PollApply
  <2>1. shown' = reply /\ reply' = NoStatus /\ UNCHANGED loader /\ Fetched(reply)
    BY <1>6 DEF PollApply, Fetched, server
  <2>2. log' \in Seq(Entries) /\ PausedIsLogged'
    BY <1>0, <2>1, FetchedEntries
  <2> QED
    BY <1>0, <2>1, <2>2, Fresh
<1>7. ASSUME NEW how, PollFails(how)
      PROVE  Goal
  <2> DEFINE A == When(how = "none" /\ connected, "lost")
             B == When(how = "garbage", "parse")
  <2>1. log' = AddLog(log, A \o B) /\ UNCHANGED <<shown, reply, loader>>
    BY <1>7 DEF PollFails, server
  <2>2. A \in Seq(Entries) /\ B \in Seq(Entries) /\ Quiet(A) /\ Quiet(B)
    BY WhenType, WhenQuiet DEF Entries
  <2> HIDE DEF A, B
  <2>3. A \o B \in Seq(Entries) /\ Quiet(A \o B)
    BY <2>2, QuietJoined
  <2>4. log' \in Seq(Entries) /\ (EndsPaused(log) => EndsPaused(AddLog(log, A \o B)))
    BY <1>0, <2>1, <2>3, AddQuiet
  <2>5. EndsPaused(log) => EndsPaused(log)'
    BY <2>1, <2>4 DEF EndsPaused
  <2> QED
    BY <1>0, <2>1, <2>4, <2>5 DEF PausedIsLogged
<1>8. CASE TogglePause /\ shown.is_running
  <2>1. /\ shown' = [shown EXCEPT !.is_paused = ~@] /\ UNCHANGED <<reply, loader>>
        /\ log' = AddLog(log, <<IF shown.is_paused THEN "resumed" ELSE "paused">>)
    BY <1>8 DEF TogglePause, client, server
  <2>2. shown' \in Status /\ (shown'.is_paused <=> ~shown.is_paused)
    BY <1>0, <2>1, Toggled, Zenon
  <2>3. CASE shown.is_paused
    <3>1. log' = AddLog(log, <<"resumed">>) /\ <<"resumed">> \in Seq(Entries)
      BY <2>1, <2>3, Single DEF Entries
    <3>2. log' \in Seq(Entries)
      BY <1>0, <3>1, AddLogKeeps
    <3> QED
      BY <1>0, <2>1, <2>2, <2>3, <3>2 DEF PausedIsLogged
  <2>4. CASE ~shown.is_paused
    <3>1. log' = AddLog(log, <<"paused">>)
      BY <2>1, <2>4
    <3>2. log' \in Seq(Entries) /\ EndsPaused(AddLog(log, <<"paused">>))
      BY <1>0, <3>1, PausedEntry, AddPause
    <3>3. EndsPaused(log)'
      BY <3>1, <3>2 DEF EndsPaused
    <3> QED
      BY <1>0, <2>1, <2>2, <3>2, <3>3 DEF PausedIsLogged
  <2> QED
    BY <2>3, <2>4
<1>9. CASE Reset
  <2>1. shown' = NoStatus /\ log' = <<"reset">> /\ UNCHANGED <<reply, loader>>
    BY <1>9 DEF Reset, client, server
  <2>2. log' \in Seq(Entries)
    BY <2>1, Single DEF Entries
  <2> QED
    BY <1>0, <2>1, <2>2, Fresh DEF PausedIsLogged
<1>10. CASE LoaderChanges
  BY <1>0, <1>1, <1>10 DEF LoaderChanges, display, client
<1>11. CASE TogglePause /\ ~shown.is_running
  BY <1>0, <1>1, <1>11 DEF TogglePause, client, server
<1>12. ASSUME NEW key, Press(key)
       PROVE  Goal
  BY <1>0, <1>1, <1>12 DEF Press, display, client, server
<1> QED
  BY <1>2, <1>3, <1>4, <1>5, <1>6, <1>7, <1>8, <1>9, <1>10, <1>11, <1>12
     DEF Next, UpdaterStep, KeyStep

-----------------------------------------------------------------------------
(* The demo *)

(* A smallest increment more is one quotient more. *)
LEMMA QuotientGrows ==
  ASSUME NEW p \in Nat, NEW inc \in Nat, NEW m \in Nat \ {0}, inc >= m
  PROVE  /\ p \div m \in Nat /\ (p + inc) \div m \in Nat
         /\ (p + inc) \div m >= p \div m + 1
<1> DEFINE q == p \div m
           t == (p + inc) \div m
<1>1. q \in Nat /\ t \in Nat /\ m * q <= p /\ p + inc < m * (t + 1)
  OBVIOUS
<1> HIDE DEF q, t
<1>2. CASE t <= q
  <2>1. m * (t + 1) = m * t + m /\ m * t <= m * q /\ m * t \in Nat /\ m * q \in Nat
    BY <1>1, <1>2
  <2> QED
    BY <1>1, <2>1
<1> QED
  BY <1>1, <1>2 DEF q, t

(* A table that is not full has fewer ticks behind it than a table takes. *)
LEMMA TicksLeft ==
  ASSUME NEW p \in Nat, NEW f \in Nat, NEW m \in Nat \ {0}, p < f
  PROVE  (f + m - 1) \div m \in Nat /\ p \div m + 1 <= (f + m - 1) \div m
<1>1. f + m - 1 \in Nat /\ f - 1 \in Nat /\ f - 1 - p \in Nat
  OBVIOUS
<1> DEFINE q == p \div m
           t == (f + m - 1) \div m
<1>2. q \in Nat /\ t \in Nat /\ m * q <= p /\ f + m - 1 < m * (t + 1)
  BY <1>1
<1> HIDE DEF q, t
<1>3. CASE t <= q
  <2>1. m * (t + 1) = m * t + m /\ m * t <= m * q /\ m * t \in Nat /\ m * q \in Nat
    BY <1>2, <1>3
  <2> QED
    BY <1>2, <2>1
<1> QED
  BY <1>2, <1>3 DEF q, t

(* Rows after one more tick of the current table: the bound moves with the
   quotient, and stays within what the ticks of a table add up to. *)
LEMMA TickRows ==
  ASSUME NEW done \in Nat, done < NumTables, NEW p \in Nat, p < Full,
         NEW inc \in Increments, NEW rows \in RowsPerTick, NEW moved \in Nat,
         moved <= done * RowsPerTable + (p \div MinIncrement) * MaxRows
  PROVE  /\ moved + rows <= done * RowsPerTable + ((p + inc) \div MinIncrement) * MaxRows
         /\ moved + rows <= (done + 1) * RowsPerTable
         /\ moved + rows < TotalRows
<1> DEFINE m == MinIncrement
           q == p \div m
           t == (p + inc) \div m
           c == (Full + m - 1) \div m
           R == MaxRows
           P == RowsPerTable
<1>1. /\ m \in Nat \ {0} /\ R \in Nat /\ inc \in Nat /\ inc >= m /\ rows \in Nat /\ rows <= R
      /\ Full \in Nat /\ NumTables \in Nat /\ TotalRows \in Nat /\ NumTables * P < TotalRows
  BY DashboardAssumption DEF Increments, RowsPerTick
<1>2. q \in Nat /\ t \in Nat /\ t >= q + 1
  BY <1>1, QuotientGrows
<1>3. c \in Nat /\ q + 1 <= c
  BY <1>1, TicksLeft
<1>4. P = c * R
  BY DEF RowsPerTable
<1>5. moved <= done * P + q * R
  OBVIOUS
<1> HIDE DEF m, q, t, c, R, P
<1>6. (q + 1) * R = q * R + R /\ (q + 1) * R <= t * R /\ (q + 1) * R <= c * R
      /\ q * R \in Nat /\ t * R \in Nat /\ c * R \in Nat
  BY <1>1, <1>2, <1>3
<1>7. P \in Nat
  BY <1>4, <1>6
<1>8. done * P \in Nat /\ (done + 1) * P = done * P + P /\ (done + 1) * P <= NumTables * P
      /\ NumTables * P \in Nat
  BY <1>1, <1>7
<1>9. moved + rows <= done * P + t * R
  BY <1>1, <1>5, <1>6, <1>8
<1>10. moved + rows <= done * P + P
  BY <1>1, <1>4, <1>5, <1>6, <1>7, <1>8
<1>11. moved + rows < TotalRows
  BY <1>1, <1>7, <1>8, <1>10
<1> QED
  BY <1>8, <1>9, <1>10, <1>11 DEF m, q, t, c, R, P

(* What a tick does to the table list of a running demo. *)
LEMMA Advanced ==
  ASSUME tables \in Seq(TableRecords), Len(tables) = NumTables,
         current_table_idx \in Nat, current_table_idx < NumTables, NEW inc \in Increments
  PROVE  LET i == current_table_idx + 1
             p == tables[i].progress
             new == Advance(inc)
         IN  /\ Finishes(inc) <=> p + inc >= Full
             /\ new \in Seq(TableRecords) /\ Len(new) = NumTables
             /\ Finishes(inc) => new[i].status = "DONE"
             /\ ~Finishes(inc) => new[i].status = tables[i].status /\ new[i].progress = p + inc
             /\ \A j \in 1 .. NumTables : j # i =>
                  /\ new[j].progress = tables[j].progress
                  /\ new[j].status = IF j = i + 1 /\ Finishes(inc) THEN "RUNNING"
                                     ELSE tables[j].status
<1> DEFINE i == current_table_idx + 1
           p == tables[i].progress
           new == Advance(inc)
<1>1. /\ NumTables \in Nat /\ Full \in Nat /\ inc \in Nat
      /\ i \in 1 .. NumTables /\ DOMAIN tables = 1 .. NumTables
      /\ \A j \in 1 .. NumTables : tables[j] \in TableRecords
  BY DashboardAssumption DEF Increments
<1>2. \A j \in 1 .. NumTables :
         /\ tables[j].status \in TableStates /\ tables[j].progress \in 0 .. Full
         /\ tables[j] = [status |-> tables[j].status, progress |-> tables[j].progress]
  BY <1>1 DEF TableRecords
<1>3. Finishes(inc) <=> p + inc >= Full
  BY <1>1 DEF Finishes, InTable
<1> DEFINE At(j) == IF j = i THEN IF Finishes(inc) THEN [status |-> "DONE", progress |-> Full]
                                  ELSE [tables[j] EXCEPT !.progress = @ + inc]
                    ELSE IF j = i + 1 /\ Finishes(inc) THEN [tables[j] EXCEPT !.status = "RUNNING"]
                    ELSE tables[j]
<1>4. new = [j \in 1 .. NumTables |-> At(j)]
  BY <1>1 DEF Advance
<1>5. ASSUME NEW j \in 1 .. NumTables
      PROVE  /\ At(j) \in TableRecords
             /\ j = i /\ Finishes(inc) => At(j).status = "DONE"
             /\ j = i /\ ~Finishes(inc) => At(j).status = tables[j].status /\ At(j).progress = p + inc
             /\ j # i => /\ At(j).progress = tables[j].progress
                         /\ At(j).status = IF j = i + 1 /\ Finishes(inc) THEN "RUNNING"
                                           ELSE tables[j].status
  <2> HIDE DEF i
  <2>1. CASE j = i /\ Finishes(inc)
    BY <1>1, <1>2, <2>1 DEF TableRecords, TableStates
  <2>2. CASE j = i /\ ~Finishes(inc)
    <3>1. At(j) = [status |-> tables[j].status, progress |-> tables[j].progress + inc]
      BY <1>2, <2>2
    <3>2. tables[j].progress + inc \in 0 .. Full
      BY <1>1, <1>2, <1>3, <2>2
    <3> QED
      BY <1>2, <2>2, <3>1, <3>2 DEF TableRecords
  <2>3. CASE j # i /\ j = i + 1 /\ Finishes(inc)
    <3>1. At(j) = [status |-> "RUNNING", progress |-> tables[j].progress]
      BY <1>2, <2>3
    <3> QED
      BY <1>2, <2>3, <3>1 DEF TableRecords, TableStates
  <2>4. CASE j # i /\ ~(j = i + 1 /\ Finishes(inc))
    BY <1>1, <1>2, <2>4
  <2> QED
    BY <2>1, <2>2, <2>3, <2>4
<1> HIDE DEF At, new, i, p
<1>6. new \in Seq(TableRecords) /\ Len(new) = NumTables
  <2>1. new \in [1 .. NumTables -> TableRecords]
    BY <1>4, <1>5
  <2> QED
    BY <1>1, <2>1
<1>7. \A j \in 1 .. NumTables : new[j] = At(j)
  BY <1>4
<1>8. /\ Finishes(inc) <=> p + inc >= Full
      /\ new \in Seq(TableRecords) /\ Len(new) = NumTables
      /\ Finishes(inc) => new[i].status = "DONE"
      /\ ~Finishes(inc) => new[i].status = tables[i].status /\ new[i].progress = p + inc
      /\ \A j \in 1 .. NumTables : j # i =>
           /\ new[j].progress = tables[j].progress
           /\ new[j].status = IF j = i + 1 /\ Finishes(inc) THEN "RUNNING"
                              ELSE tables[j].status
  BY <1>1, <1>3, <1>5, <1>6, <1>7
<1> QED
  BY <1>8 DEF i, p, new

(* The parts of the invariant that are about the demo. *)
DemoInv ==
  /\ tables \in Seq(TableRecords)
  /\ tables_completed \in Nat /\ migrated_rows \in Nat /\ current_table_idx \in Nat
  /\ DemoOnly /\ RowsInv /\ DemoTables

(* A running demo is in one of its tables, which is not full. *)
LEMMA Running ==
  ASSUME IInv, demo, shown.is_running
  PROVE  /\ tables # << >> /\ Len(tables) = NumTables /\ current_table_idx < NumTables
         /\ tables_completed = current_table_idx
         /\ tables[current_table_idx + 1].progress \in Nat
         /\ tables[current_table_idx + 1].progress < Full
<1>1. tables # << >>
  BY DEF IInv, DemoOnly
<1>2. Len(tables) = NumTables /\ current_table_idx < NumTables /\ tables_completed = current_table_idx
  BY <1>1 DEF IInv, DemoTables
<1>3. current_table_idx + 1 \in 1 .. Len(tables) /\ tables \in Seq(TableRecords) /\ Full \in Nat
  BY <1>2, DashboardAssumption DEF IInv, TypeOK
<1>4. tables[current_table_idx + 1] \in TableRecords
  BY <1>3
<1>5. tables[current_table_idx + 1].progress \in Nat
  BY <1>3, <1>4 DEF TableRecords
<1> QED
  BY <1>1, <1>2, <1>5 DEF IInv, RowsInv

(* A tick moves the rows within their bound, the current table by its
   increment or to its end, and ends the demo with its last table. *)
LEMMA TickStep ==
  ASSUME IInv, NEW inc \in Increments, NEW rows \in RowsPerTick, DemoTick(inc, rows)
  PROVE  DemoInv'
<1> DEFINE old == current_table_idx
           idx == IF Finishes(inc) THEN current_table_idx + 1 ELSE current_table_idx
           moved == Min({migrated_rows + rows, TotalRows})
           complete == moved >= TotalRows \/ idx >= Len(tables)
           p == tables[old + 1].progress
<1>1. /\ demo /\ started /\ shown.is_running /\ updater' = "head" /\ UNCHANGED <<demo, started>>
      /\ tables' = Advance(inc) /\ current_table_idx' = idx
      /\ tables_completed' = tables_completed + (idx - old)
      /\ migrated_rows' = IF complete THEN TotalRows ELSE moved
      /\ shown' = [shown EXCEPT !.is_running = ~complete, !.rows = TRUE] /\ ~shown.is_paused
  BY DEF DemoTick
<1>2. /\ tables # << >> /\ Len(tables) = NumTables /\ old < NumTables /\ tables_completed = old
      /\ p \in Nat /\ p < Full
  BY <1>1, Running
<1>3. /\ old \in Nat /\ migrated_rows \in Nat /\ tables \in Seq(TableRecords) /\ shown \in Status
      /\ migrated_rows <= old * RowsPerTable + (p \div MinIncrement) * MaxRows
      /\ \A j \in 1 .. NumTables : j > old + 1 => tables[j].progress = 0
      /\ \A j \in 1 .. NumTables :
           tables[j].status = IF j <= old THEN "DONE" ELSE IF j = old + 1 THEN "RUNNING" ELSE "PENDING"
  BY <1>2 DEF IInv, TypeOK, RowsInv, DemoTables
<1>4. /\ rows \in Nat /\ TotalRows \in Nat /\ inc \in Nat /\ NumTables \in Nat /\ Full \in Nat
      /\ MinIncrement \in Nat \ {0} /\ MaxRows \in Nat
  BY DashboardAssumption DEF Increments, RowsPerTick
<1>5. /\ migrated_rows + rows <= old * RowsPerTable + ((p + inc) \div MinIncrement) * MaxRows
      /\ migrated_rows + rows <= (old + 1) * RowsPerTable
      /\ migrated_rows + rows < TotalRows
  BY <1>2, <1>3, TickRows
<1>6. moved = migrated_rows + rows
  BY <1>3, <1>4, <1>5, MinOfTwo
<1>7. complete <=> idx >= NumTables
  BY <1>2, <1>3, <1>4, <1>5, <1>6
<1>8. shown'.is_running <=> idx < NumTables
  <2>1. (~complete) \in BOOLEAN
    BY Zenon
  <2> HIDE DEF complete
  <2>2. shown'.is_running <=> ~complete
    BY <1>1, <1>3, <2>1, Flagged, Zenon
  <2>3. idx \in Nat
    BY <1>3
  <2> QED
    BY <1>4, <1>7, <2>2, <2>3
<1>9. /\ Finishes(inc) <=> p + inc >= Full
      /\ tables' \in Seq(TableRecords) /\ Len(tables') = NumTables
      /\ Finishes(inc) => tables'[old + 1].status = "DONE"
      /\ ~Finishes(inc) => /\ tables'[old + 1].status = tables[old + 1].status
                           /\ tables'[old + 1].progress = p + inc
      /\ \A j \in 1 .. NumTables : j # old + 1 =>
           /\ tables'[j].progress = tables[j].progress
           /\ tables'[j].status = IF j = (old + 1) + 1 /\ Finishes(inc) THEN "RUNNING"
                                  ELSE tables[j].status
  BY <1>1, <1>2, <1>3, Advanced
<1>10. /\ current_table_idx' = idx /\ tables_completed' = idx /\ idx \in Nat
       /\ migrated_rows' = IF idx >= NumTables THEN TotalRows ELSE migrated_rows + rows
  BY <1>1, <1>2, <1>3, <1>6, <1>7
<1>11. tables' # << >>
  BY <1>9, <1>2, <1>3
<1> HIDE DEF moved, complete
<1>12. DemoTables'
  <2>1. ASSUME NEW j \in 1 .. NumTables
        PROVE  tables'[j].status = IF j <= idx THEN "DONE"
                                   ELSE IF j = idx + 1 THEN "RUNNING" ELSE "PENDING"
    <3>1. CASE Finishes(inc)
      <4>1. idx = old + 1 /\ idx \in Nat
        BY <1>3, <3>1
      <4>2. CASE j = old + 1
        BY <1>3, <1>9, <3>1, <4>1, <4>2
      <4>3. CASE j = (old + 1) + 1
        BY <1>3, <1>4, <1>9, <3>1, <4>1, <4>3
      <4>4. CASE j # old + 1 /\ j # (old + 1) + 1
        <5>1. tables'[j].status = tables[j].status
          BY <1>9, <4>4
        <5> QED
          BY <1>3, <1>4, <4>1, <4>4, <5>1
      <4> QED
        BY <4>2, <4>3, <4>4
    <3>2. CASE ~Finishes(inc)
      BY <1>3, <1>4, <1>9, <3>2
    <3> QED
      BY <3>1, <3>2
  <2> QED
    BY <1>8, <1>9, <1>10, <2>1 DEF DemoTables
<1>13. RowsInv'
  <2>1. SUFFICES ASSUME idx < NumTables
                 PROVE  /\ tables'[idx + 1].progress < Full
                        /\ migrated_rows' <= idx * RowsPerTable
                               + (tables'[idx + 1].progress \div MinIncrement) * MaxRows
                        /\ \A j \in 1 .. NumTables : j > idx + 1 => tables'[j].progress = 0
    BY <1>10 DEF RowsInv
  <2>2. migrated_rows' = migrated_rows + rows
    BY <1>4, <1>10, <2>1
  <2>3. CASE Finishes(inc)
    <3>1. idx = old + 1 /\ old + 2 \in 1 .. NumTables /\ idx + 1 = old + 2
      BY <1>3, <1>4, <2>1, <2>3
    <3>2. tables'[old + 2].progress = 0
      BY <1>3, <1>9, <3>1
    <3>3. (0 \div MinIncrement) * MaxRows = 0
      <4>1. 0 \div MinIncrement = 0
        BY <1>4
      <4> QED
        BY <1>4, <4>1
    <3>4. (old + 1) * RowsPerTable \in Nat
      <4>1. RowsPerTable \in Nat
        BY <1>4, TicksLeft, <1>2 DEF RowsPerTable
      <4> QED
        BY <1>3, <4>1
    <3>5. migrated_rows' <= idx * RowsPerTable
                 + (tables'[idx + 1].progress \div MinIncrement) * MaxRows
      <4>1. (tables'[idx + 1].progress \div MinIncrement) * MaxRows = 0
        BY <3>1, <3>2, <3>3
      <4>2. idx * RowsPerTable = (old + 1) * RowsPerTable
        BY <3>1
      <4> HIDE DEF idx
      <4> QED
        BY <1>3, <1>4, <1>5, <2>2, <3>4, <4>1, <4>2
    <3>6. \A j \in 1 .. NumTables : j > idx + 1 => tables'[j].progress = 0
      BY <1>3, <1>4, <1>9, <3>1
    <3>7. tables'[idx + 1].progress < Full
      <4>1. 0 < Full
        BY <1>2, <1>4
      <4> QED
        BY <3>1, <3>2, <4>1
    <3> HIDE DEF idx
    <3> QED
      BY <3>5, <3>6, <3>7
  <2>4. CASE ~Finishes(inc)
    <3>1. idx = old /\ tables'[idx + 1].progress = p + inc
      BY <1>9, <2>4
    <3>2. p + inc < Full
      BY <1>2, <1>4, <1>9, <2>4
    <3>3. \A j \in 1 .. NumTables : j > idx + 1 => tables'[j].progress = 0
      BY <1>3, <1>4, <1>9, <3>1
    <3> QED
      BY <1>5, <2>2, <3>1, <3>2, <3>3
  <2> QED
    BY <2>3, <2>4
<1>14. DemoOnly'
  BY <1>1, <1>11 DEF DemoOnly
<1>15. migrated_rows' \in Nat
  BY <1>3, <1>4, <1>10
<1> QED
  BY <1>9, <1>10, <1>12, <1>13, <1>14, <1>15 DEF DemoInv

(* The first tick fills the table list. *)
LEMMA StartStep ==
  ASSUME IInv, DemoStart
  PROVE  DemoInv'
<1> DEFINE new == [i \in 1..NumTables |->
                     [status |-> IF i = 1 THEN "RUNNING" ELSE "PENDING", progress |-> 0]]
<1>1. /\ demo /\ ~started /\ started' = TRUE /\ updater' = "head" /\ UNCHANGED demo
      /\ tables' = tables \o new
      /\ shown' = [shown EXCEPT !.is_running = TRUE, !.is_paused = FALSE]
      /\ UNCHANGED <<tables_completed, migrated_rows, current_table_idx>>
  BY DEF DemoStart
<1>2. /\ tables = << >> /\ tables_completed = 0 /\ migrated_rows = 0 /\ current_table_idx = 0
      /\ shown \in Status
  BY <1>1 DEF IInv, DemoOnly, TypeOK
<1>3. NumTables \in Nat \ {0} /\ Full \in Nat \ {0} /\ MinIncrement \in Nat \ {0} /\ MaxRows \in Nat
  BY DashboardAssumption
<1>4. new \in Seq(TableRecords) /\ Len(new) = NumTables
  <2>1. new \in [1 .. NumTables -> TableRecords]
    BY <1>3 DEF TableRecords, TableStates
  <2> HIDE DEF new
  <2> QED
    BY <1>3, <2>1
<1>5. \A i \in 1 .. NumTables : /\ new[i].status = IF i = 1 THEN "RUNNING" ELSE "PENDING"
                                /\ new[i].progress = 0
  OBVIOUS
<1> HIDE DEF new
<1>6. tables' = new
  BY <1>1, <1>2, <1>4
<1>7. shown'.is_running
  BY <1>1, <1>2, Flagged, Zenon
<1>8. tables' # << >> /\ current_table_idx' = 0 /\ migrated_rows' = 0 /\ tables_completed' = 0
  BY <1>1, <1>2, <1>3, <1>4, <1>6
<1>9. DemoTables'
  <2>1. \A i \in 1 .. NumTables :
           tables'[i].status = IF i <= 0 THEN "DONE" ELSE IF i = 0 + 1 THEN "RUNNING" ELSE "PENDING"
    BY <1>3, <1>5, <1>6
  <2>2. Len(tables') = NumTables /\ 0 < NumTables
    BY <1>3, <1>4, <1>6
  <2> QED
    BY <1>7, <1>8, <2>1, <2>2 DEF DemoTables
<1>10. RowsInv'
  <2>1. tables'[0 + 1].progress = 0 /\ \A i \in 1 .. NumTables : tables'[i].progress = 0
    BY <1>3, <1>5, <1>6
  <2>2. (0 \div MinIncrement) * MaxRows = 0
    <3>1. 0 \div MinIncrement = 0
      BY <1>3
    <3> QED
      BY <1>3, <3>1
  <2>3. 0 * RowsPerTable = 0
    <3>1. RowsPerTable \in Nat
      BY <1>3, TicksLeft DEF RowsPerTable
    <3> QED
      BY <3>1
  <2>4. migrated_rows' <= 0 * RowsPerTable + (tables'[0 + 1].progress \div MinIncrement) * MaxRows
    BY <1>8, <2>1, <2>2, <2>3
  <2>5. tables'[0 + 1].progress < Full
    BY <1>3, <2>1
  <2> QED
    BY <1>8, <2>1, <2>4, <2>5 DEF RowsInv
<1>11. DemoOnly'
  BY <1>1, <1>8 DEF DemoOnly
<1> QED
  BY <1>4, <1>6, <1>8, <1>9, <1>10, <1>11 DEF DemoInv

(* Every step keeps the demo's display in agreement with the generator. *)
LEMMA DemoStep ==
  ASSUME IInv, [Next]_vars
  PROVE  DemoInv'
<1>0. DemoInv
  BY DEF IInv, TypeOK, DemoInv
<1>1. ASSUME UNCHANGED <<demo, started, tables, tables_completed, migrated_rows, current_table_idx>>,
             demo => shown'.is_running <=> shown.is_running,
             demo => updater' \notin {"fetching", "answered"}
      PROVE  DemoInv'
  <2>1. tables = << >> \/ (shown'.is_running <=> shown.is_running)
    BY <1>0, <1>1 DEF DemoInv, DemoOnly
  <2>2. DemoTables' /\ RowsInv'
    BY <1>0, <1>1, <2>1 DEF DemoInv, DemoTables, RowsInv
  <2>3. DemoOnly'
    BY <1>0, <1>1 DEF DemoInv, DemoOnly
  <2> QED
    BY <1>0, <1>1, <2>2, <2>3 DEF DemoInv
<1>2. CASE UpdaterExit \/ UpdaterSleep \/ DemoIdle
  BY <1>1, <1>2 DEF UpdaterExit, UpdaterSleep, DemoIdle, display, generator
<1>3. CASE Quit \/ Destroy \/ LoaderChanges \/ UNCHANGED vars
  BY <1>0, <1>1, <1>3 DEF Quit, Destroy, LoaderChanges, vars, display, generator, DemoInv, DemoOnly
<1>4. CASE PollBegin
  BY <1>1, <1>4 DEF PollBegin, display, generator
<1>5. CASE Answer
  <2>1. ~demo
    BY <1>0, <1>5 DEF Answer, DemoInv, DemoOnly
  <2> QED
    BY <1>1, <1>5, <2>1 DEF Answer, display, generator
<1>6. CASE PollApply
  <2>1. ~demo
    BY <1>0, <1>6 DEF PollApply, DemoInv, DemoOnly
  <2> QED
    BY <1>1, <1>6, <2>1 DEF PollApply, generator
<1>7. ASSUME NEW how, PollFails(how)
      PROVE  DemoInv'
  <2>1. ~demo
    BY <1>0, <1>7 DEF PollFails, DemoInv, DemoOnly
  <2> QED
    BY <1>1, <1>7, <2>1 DEF PollFails, generator
<1>8. CASE DemoStart
  BY <1>8, StartStep
<1>9. ASSUME NEW i \in Increments, NEW r \in RowsPerTick, DemoTick(i, r)
      PROVE  DemoInv'
  BY <1>9, TickStep
<1>10. CASE TogglePause /\ shown.is_running
  <2>1. shown' = [shown EXCEPT !.is_paused = ~@] /\ shown \in Status
    BY <1>10 DEF TogglePause, IInv, TypeOK
  <2>2. shown'.is_running <=> shown.is_running
    BY <2>1, Toggled, Zenon
  <2> QED
    BY <1>0, <1>1, <1>10, <2>2 DEF TogglePause, generator, DemoInv, DemoOnly
<1>11. CASE Reset
  <2>1. /\ shown' = NoStatus /\ tables' = << >> /\ tables_completed' = 0 /\ migrated_rows' = 0
        /\ UNCHANGED <<demo, started, current_table_idx, updater>>
    BY <1>11 DEF Reset, generator
  <2>2. ~shown'.is_running
    BY <2>1, Fresh
  <2>3. DemoOnly'
    BY <1>0, <2>1, <2>2 DEF DemoInv, DemoOnly
  <2>4. tables' \in Seq(TableRecords)
    BY <2>1
  <2> QED
    BY <1>0, <2>1, <2>3, <2>4 DEF DemoInv, DemoTables, RowsInv
<1>12. CASE TogglePause /\ ~shown.is_running
  BY <1>0, <1>1, <1>12 DEF TogglePause, generator, DemoInv, DemoOnly
<1>13. ASSUME NEW key, Press(key)
       PROVE  DemoInv'
  BY <1>0, <1>1, <1>13 DEF Press, display, generator, DemoInv, DemoOnly
<1> QED
  BY <1>2, <1>3, <1>4, <1>5, <1>6, <1>7, <1>8, <1>9, <1>10, <1>11, <1>12, <1>13
     DEF Next, UpdaterStep, KeyStep

-----------------------------------------------------------------------------
(* The dashboard *)

(* The invariant of the display, the log and the generator. *)
THEOREM Invariance == Spec => []IInv
<1>1. Init => IInv
  <2> SUFFICES ASSUME Init PROVE IInv
    OBVIOUS
  <2>1. shown = NoStatus /\ log = <<"started">> /\ tables = << >> /\ updater = "head"
    BY DEF Init
  <2>2. log \in Seq(Entries) /\ tables \in Seq(TableRecords)
    BY <2>1, Single DEF Entries
  <2>3. TypeOK
    BY <2>1, <2>2, Fresh DEF Init, TypeOK
  <2>4. DemoOnly
    BY <2>1, Fresh DEF Init, DemoOnly
  <2> QED
    BY <2>1, <2>3, <2>4, Fresh DEF IInv, RowsInv, DemoTables, PausedIsLogged
<1>2. IInv /\ [Next]_vars => IInv'
  <2> SUFFICES ASSUME IInv, [Next]_vars PROVE IInv'
    OBVIOUS
  <2>1. /\ shown' \in Status /\ reply' \in Status /\ loader' \in Status
        /\ log' \in Seq(Entries) /\ PausedIsLogged'
    BY LogStep DEF IInv
  <2>2. DemoInv'
    BY DemoStep
  <2> QED
    BY <2>1, <2>2 DEF IInv, TypeOK, DemoInv
<1> QED
  BY <1>1, <1>2, PTL DEF Spec

(* toggle_pause, update_state, add_log: a display that says PAUSED never has
   a log that ends in "resumed". *)
THEOREM PauseLogged == Spec => []PausedIsLogged
<1>1. IInv => PausedIsLogged
  BY DEF IInv
<1> QED
  BY <1>1, Invariance, PTL

(* MockDataGenerator: the table list is the generator's progress, and the
   display says running exactly until the last table is done. *)
THEOREM DemoAgrees == Spec => []DemoTables
<1>1. IInv => DemoTables
  BY DEF IInv
<1> QED
  BY <1>1, Invariance, PTL
=============================================================================
