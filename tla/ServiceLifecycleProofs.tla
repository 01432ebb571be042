----------------------- MODULE ServiceLifecycleProofs -----------------------
(* What holds of the start and the end of the three services in every execution. *)
EXTENDS ServiceLifecycle, TLAPS

Starting == main \in {"config", "filter", "connect"}

(* What main has started and not yet ended where it is: no thread before the
   sessions are there, both sessions and the filter from then on, and after
   each join nothing that was joined. *)
Progress ==
  /\ Starting => api = "none" /\ reload = "none" /\ retry = "none" /\ coroutine = "none"
  /\ main = "connect" => filter # "none"
  /\ main \in {"run", "returning", "join reload", "join api", "destroy"} =>
       sessions = Clusters /\ filter # "none"
  /\ main \in {"join reload", "join api", "destroy", "close", "exited"} =>
       coroutine \in {"none", "ended"}
  /\ main \in {"join api", "destroy", "close", "exited"} => reload \in {"none", "ended"}
  /\ main \in {"destroy", "close", "exited"} => api \in {"none", "ended"}
  /\ main \in {"destroy", "close"} => api = "ended"
  /\ main \in {"close", "exited"} => retry # "running"
  /\ retry # "none" => reload # "none"

IInv == TypeOK /\ Progress /\ DestroyedOnlyWithoutApi

(* The first state satisfies the invariant. *)
LEMMA InitIInv == Init => IInv
  BY DEF Init, IInv, TypeOK, Progress, Starting, DestroyedOnlyWithoutApi, Services, Clusters

(* Start-up preserves it: sessions and filter come before the first thread. *)
LEMMA StartIInv ==
  ASSUME IInv, LoadConfig \/ LoadFilter \/ StartupFails \/ Startup \/ \E c \in Clusters : Connect(c)
  PROVE  IInv'
<1> USE DEF IInv, TypeOK, Progress, Starting, DestroyedOnlyWithoutApi, threads
<1>1. CASE LoadConfig
  BY <1>1 DEF LoadConfig
<1>2. CASE LoadFilter
  BY <1>2 DEF LoadFilter, FilterRead
<1>3. CASE StartupFails
  BY <1>3 DEF StartupFails
<1>4. CASE Startup
  BY <1>4 DEF Startup
<1>5. CASE \E c \in Clusters : Connect(c)
  BY <1>5 DEF Connect
<1> QED
  BY <1>1, <1>2, <1>3, <1>4, <1>5

(* The event loop and the signal preserve it. *)
LEMMA LoopIInv ==
  ASSUME IInv, CoroutineRuns \/ CoroutineSuspends \/ CoroutineEnds \/ HandleSignal \/ SignalArrives
  PROVE  IInv'
<1> USE DEF IInv, TypeOK, Progress, Starting, DestroyedOnlyWithoutApi, threads
<1>1. CASE CoroutineRuns
  BY <1>1 DEF CoroutineRuns
<1>2. CASE CoroutineSuspends
  BY <1>2 DEF CoroutineSuspends
<1>3. CASE CoroutineEnds
  BY <1>3 DEF CoroutineEnds
<1>4. CASE HandleSignal
  BY <1>4 DEF HandleSignal
<1>5. CASE SignalArrives
  <2>1. signal' \in BOOLEAN /\ reload_stop' \in BOOLEAN
    BY <1>5, Zenon DEF SignalArrives
  <2>2. UNCHANGED <<service, main, filter, sessions, coroutine, api, reload, retry>>
    BY <1>5, Zenon DEF SignalArrives
  <2>3. TypeOK'
    BY <2>1, <2>2, Zenon
  <2>4. Progress' /\ DestroyedOnlyWithoutApi'
    BY <2>2, Zenon
  <2> QED
    BY <2>3, <2>4, Zenon
<1> QED
  BY <1>1, <1>2, <1>3, <1>4, <1>5

(* The threads beside main preserve it: none of them starts again. *)
LEMMA ThreadsIInv ==
  ASSUME IInv, ApiListens \/ ReloadStep
  PROVE  IInv'
<1> USE DEF IInv, TypeOK, Progress, Starting, DestroyedOnlyWithoutApi, threads
<1>1. CASE ApiListens
  BY <1>1 DEF ApiListens
<1>2. CASE ReloadWakes
  BY <1>2 DEF ReloadWakes
<1>3. CASE ReloadDone
  BY <1>3 DEF ReloadDone
<1> QED
  BY <1>1, <1>2, <1>3 DEF ReloadStep

(* The destruction of main's locals preserves it: the joins come before the
   service's object, the object before the sessions. *)
LEMMA EndIInv ==
  ASSUME IInv, StopReload \/ JoinReload \/ JoinApi \/ DestroyService \/ \E c \in Clusters : Close(c)
  PROVE  IInv'
<1> USE DEF IInv, TypeOK, Progress, Starting, DestroyedOnlyWithoutApi, threads
<1>1. CASE StopReload
  BY <1>1 DEF StopReload
<1>2. CASE JoinReload
  BY <1>2 DEF JoinReload
<1>3. CASE JoinApi
  BY <1>3 DEF JoinApi
<1>4. CASE DestroyService
  BY <1>4 DEF DestroyService
<1>5. CASE \E c \in Clusters : Close(c)
  BY <1>5 DEF Close
<1> QED
  BY <1>1, <1>2, <1>3, <1>4, <1>5

(* IInv is an invariant of the three services. *)
THEOREM Lifecycle == Spec => []IInv
<1>1. IInv /\ [Next]_vars => IInv'
  <2> SUFFICES ASSUME IInv, [Next]_vars PROVE IInv'
    OBVIOUS
  <2>1. CASE MainStep
    <3>1. CASE \E c \in Clusters : Connect(c) \/ Close(c)
      <4>1. (\E c \in Clusters : Connect(c)) \/ (\E c \in Clusters : Close(c))
        BY <3>1, Zenon
      <4> QED
        BY <4>1, StartIInv, EndIInv, Zenon
    <3> QED
      BY <2>1, <3>1, StartIInv, LoopIInv, EndIInv, Zenon DEF MainStep
  <2>2. CASE CoroutineEnds \/ HandleSignal \/ SignalArrives
    BY <2>2, LoopIInv
  <2>3. CASE ApiListens \/ ReloadStep
    BY <2>3, ThreadsIInv
  <2>4. CASE UNCHANGED vars
    <3>1. UNCHANGED <<service, main, filter, sessions, signal, coroutine, api, reload,
                      reload_stop, retry>>
      BY <2>4, Zenon DEF vars, threads
    <3>2. TypeOK'
      <4>1. signal' \in BOOLEAN /\ reload_stop' \in BOOLEAN
        BY <3>1, Zenon DEF IInv, TypeOK
      <4> QED
        BY <3>1, <4>1, Zenon DEF IInv, TypeOK
    <3>3. Progress'
      BY <3>1, Zenon DEF IInv, Progress, Starting
    <3>4. DestroyedOnlyWithoutApi'
      BY <3>1, Zenon DEF IInv, DestroyedOnlyWithoutApi
    <3> QED
      BY <3>2, <3>3, <3>4, Zenon DEF IInv
  <2> QED
    BY <2>1, <2>2, <2>3, <2>4, Zenon DEF Next
<1> QED
  BY InitIInv, <1>1, PTL DEF Spec

(* ~DualWriter runs only in a process whose HTTP server never listened. *)
THEOREM DestructorNeedsDeadApi == Spec => []DestroyedOnlyWithoutApi
<1>1. IInv => DestroyedOnlyWithoutApi
  BY DEF IInv
<1> QED
  BY Lifecycle, <1>1, PTL

(* No thread or coroutine of a service is left when a session is closed, and
   none is started before both sessions are open and the filter is built. *)
THEOREM SessionsOutlive == Spec => []SessionsOutliveThreads
<1>1. IInv => SessionsOutliveThreads
  BY DEF IInv, TypeOK, Progress, Starting, SessionsOutliveThreads
<1> QED
  BY Lifecycle, <1>1, PTL
=============================================================================
