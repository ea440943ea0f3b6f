------------------------ MODULE ExecutorThreadsProofs ------------------------
(***************************************************************************)
(* Proofs about ExecutorThreads: its safety properties, for any number of  *)
(* calls, methods and interfaces and any thread limits.                    *)
(***************************************************************************)
EXTENDS ExecutorThreads, FiniteSetTheorems, TLAPS

\* A process that has ended left no thread behind.
DownIsEmpty == ~ up => LiveCalls = {} /\ uncounted = {}

\* Once it quits, a process has only threads of its last iteration.
LateCallsInBatch == up /\ quit => LiveCalls \subseteq lastBatch

\* A call has an answer exactly when it is over, but for the counters.
RepliedIsOver == \A c \in AllCalls : reply[c] # "none" <=> phase[c] \in {"release", "done"}

\* The inductive invariant.
IInv ==
  /\ TypeOK
  /\ CounterAccuracy
  /\ ThreadLimitRespected
  /\ DownIsEmpty
  /\ LateCallsInBatch
  /\ RepliedIsOver

-----------------------------------------------------------------------------
(* Finite sets.                                                            *)

\* The sets of threads the counters stand for are finite.
LEMMA LiveFinite ==
  /\ IsFiniteSet(LiveCalls)
  /\ \A m : IsFiniteSet(LiveOfMethod(m))
  /\ \A i : IsFiniteSet(LiveOfInterface(i))
<1>1. \A S \in SUBSET Calls : IsFiniteSet(S)
  BY CallsAssumption, FS_Subset
<1>2. LiveCalls \in SUBSET Calls
  BY DEF LiveCalls
<1>3. \A m : LiveOfMethod(m) \in SUBSET Calls
  BY <1>2 DEF LiveOfMethod
<1>4. \A i : LiveOfInterface(i) \in SUBSET Calls
  BY <1>2 DEF LiveOfInterface
<1> QED
  BY <1>1, <1>2, <1>3, <1>4

\* What a call does to the threads of a method or an interface when it starts
\* or ends: the number of threads grows or shrinks by one.
LEMMA CountOneMore ==
  ASSUME NEW S, IsFiniteSet(S), NEW c, c \notin S
  PROVE  Cardinality(S \cup {c}) = Cardinality(S) + 1 /\ Cardinality(S) \in Nat
  BY FS_AddElement, FS_CardinalityType

\* See CountOneMore.
LEMMA CountOneLess ==
  ASSUME NEW S, IsFiniteSet(S), NEW c, c \in S
  PROVE  Cardinality(S \ {c}) = Cardinality(S) - 1 /\ Cardinality(S) \in Nat
  BY FS_RemoveElement, FS_CardinalityType

\* What a step of the call c does to the set of executor threads.
LEMMA LiveStep ==
  ASSUME TypeOK, NEW c \in Calls, NEW p \in Phases, phase' = [phase EXCEPT ![c] = p]
  PROVE  LiveCalls' = IF p \in ThreadPhases THEN LiveCalls \cup {c} ELSE LiveCalls \ {c}
  BY DEF TypeOK, LiveCalls, AllCalls

\* A step of a call of the manager interface does nothing to it.
LEMMA ManagerStep ==
  ASSUME TypeOK, NEW c \in ManagerCalls, NEW p, phase' = [phase EXCEPT ![c] = p]
  PROVE  LiveCalls' = LiveCalls
  BY CallsAssumption DEF TypeOK, LiveCalls, AllCalls

-----------------------------------------------------------------------------
(* The counters and the limits, by what a step does to the threads.        *)

\* A step that starts, counts and ends no thread.
LEMMA CountersKept ==
  ASSUME CounterAccuracy, ThreadLimitRespected,
         LiveCalls' = LiveCalls, UNCHANGED <<up, uncounted, counters>>
  PROVE  CounterAccuracy' /\ ThreadLimitRespected'
<1>1. /\ \A m : LiveOfMethod(m)' = LiveOfMethod(m)
      /\ \A i : LiveOfInterface(i)' = LiveOfInterface(i)
      /\ \A m : UncountedOfMethod(m)' = UncountedOfMethod(m)
      /\ \A i : UncountedOfInterface(i)' = UncountedOfInterface(i)
  BY DEF LiveOfMethod, LiveOfInterface, UncountedOfMethod, UncountedOfInterface
<1>2. CounterAccuracy'
  BY <1>1 DEF CounterAccuracy, counters
<1>3. ThreadLimitRespected'
  BY <1>1 DEF ThreadLimitRespected
<1> QED
  BY <1>2, <1>3

\* g_thread_new(): one thread more, not counted yet, and room for it.
LEMMA ThreadStarted ==
  ASSUME TypeOK, CounterAccuracy, ThreadLimitRespected, NEW c \in Calls, StartThread(c)
  PROVE  CounterAccuracy' /\ ThreadLimitRespected'
<1> DEFINE mc == MethodOf[c]
           ic == InterfaceOf[mc]
<1>1. /\ up /\ up' /\ uncounted = {} /\ uncounted' = {c} /\ c \notin LiveCalls
      /\ UNCHANGED counters
  BY DEF StartThread, Dispatchable, LiveCalls, ThreadPhases, process
<1>2. LiveCalls' = LiveCalls \cup {c}
  BY LiveStep DEF StartThread, Phases, ThreadPhases
<1>3. mc \in Methods /\ ic \in Interfaces
  BY CallsAssumption
<1>4. Cardinality(LiveCalls') = Cardinality(LiveCalls) + 1
  BY <1>1, <1>2, CountOneMore, LiveFinite
<1>5. ASSUME NEW m \in Methods
      PROVE  Cardinality(LiveOfMethod(m)')
               = Cardinality(LiveOfMethod(m)) + IF m = mc THEN 1 ELSE 0
  <2>1. CASE m = mc
    <3>1. LiveOfMethod(m)' = LiveOfMethod(m) \cup {c} /\ c \notin LiveOfMethod(m)
      BY <1>1, <1>2, <2>1 DEF LiveOfMethod
    <3> QED
      BY <2>1, <3>1, CountOneMore, LiveFinite
  <2>2. CASE m # mc
    <3>1. LiveOfMethod(m)' = LiveOfMethod(m)
      BY <1>2, <2>2 DEF LiveOfMethod
    <3> QED
      BY <2>2, <3>1, LiveFinite, FS_CardinalityType
  <2> QED
    BY <2>1, <2>2
<1>6. ASSUME NEW i \in Interfaces
      PROVE  Cardinality(LiveOfInterface(i)')
               = Cardinality(LiveOfInterface(i)) + IF i = ic THEN 1 ELSE 0
  <2>1. CASE i = ic
    <3>1. LiveOfInterface(i)' = LiveOfInterface(i) \cup {c} /\ c \notin LiveOfInterface(i)
      BY <1>1, <1>2, <2>1 DEF LiveOfInterface
    <3> QED
      BY <2>1, <3>1, CountOneMore, LiveFinite
  <2>2. CASE i # ic
    <3>1. LiveOfInterface(i)' = LiveOfInterface(i)
      BY <1>2, <2>2 DEF LiveOfInterface
    <3> QED
      BY <2>2, <3>1, LiveFinite, FS_CardinalityType
  <2> QED
    BY <2>1, <2>2
<1>8. /\ Cardinality({}) = 0
      /\ Cardinality({c}) = 1
  BY FS_EmptySet, FS_Singleton
<1>9. /\ Cardinality(LiveCalls) \in Nat
      /\ \A m \in Methods : Cardinality(LiveOfMethod(m)) \in Nat
      /\ \A i \in Interfaces : Cardinality(LiveOfInterface(i)) \in Nat
  BY LiveFinite, FS_CardinalityType
<1>10. /\ \A m \in Methods : Cardinality(UncountedOfMethod(m)) = 0
       /\ \A i \in Interfaces : Cardinality(UncountedOfInterface(i)) = 0
       /\ Cardinality(uncounted) = 0
  <2>1. /\ \A m \in Methods : UncountedOfMethod(m) = {}
        /\ \A i \in Interfaces : UncountedOfInterface(i) = {}
    BY <1>1 DEF UncountedOfMethod, UncountedOfInterface
  <2> QED
    BY <1>1, <1>8, <2>1
<1>11. /\ \A m \in Methods : Cardinality(UncountedOfMethod(m)') = IF m = mc THEN 1 ELSE 0
       /\ \A i \in Interfaces : Cardinality(UncountedOfInterface(i)') = IF i = ic THEN 1 ELSE 0
       /\ Cardinality(uncounted') = 1
  <2>1. /\ \A m \in Methods : UncountedOfMethod(m)' = IF m = mc THEN {c} ELSE {}
        /\ \A i \in Interfaces : UncountedOfInterface(i)' = IF i = ic THEN {c} ELSE {}
    BY <1>1 DEF UncountedOfMethod, UncountedOfInterface
  <2>2. ASSUME NEW m \in Methods
        PROVE  Cardinality(UncountedOfMethod(m)') = IF m = mc THEN 1 ELSE 0
    BY <1>8, <2>1
  <2>3. ASSUME NEW i \in Interfaces
        PROVE  Cardinality(UncountedOfInterface(i)') = IF i = ic THEN 1 ELSE 0
    BY <1>8, <2>1
  <2> QED
    BY <1>1, <1>8, <2>2, <2>3
<1>12. /\ \A m \in Methods : method_counter[m] = Cardinality(LiveOfMethod(m))
       /\ \A i \in Interfaces : interface_counter[i] = Cardinality(LiveOfInterface(i))
       /\ global_counter = Cardinality(LiveCalls)
  BY <1>1, <1>9, <1>10 DEF CounterAccuracy
<1>13. CounterAccuracy'
  <2>1. ASSUME NEW m \in Methods
        PROVE  method_counter'[m] = Cardinality(LiveOfMethod(m)')
                                    - Cardinality(UncountedOfMethod(m)')
    BY <1>1, <1>5, <1>9, <1>11, <1>12 DEF counters
  <2>2. ASSUME NEW i \in Interfaces
        PROVE  interface_counter'[i] = Cardinality(LiveOfInterface(i)')
                                       - Cardinality(UncountedOfInterface(i)')
    BY <1>1, <1>6, <1>9, <1>11, <1>12 DEF counters
  <2>3. global_counter' = Cardinality(LiveCalls') - Cardinality(uncounted')
    BY <1>1, <1>4, <1>9, <1>11, <1>12 DEF counters
  <2> QED
    BY <2>1, <2>2, <2>3 DEF CounterAccuracy
<1>14. ThreadLimitRespected'
  <2>1. method_counter[mc] < MethodLimit[mc] /\ interface_counter[ic] < InterfaceLimit[ic]
    BY <1>3, LimitsAssumption DEF StartThread, LimitReached, TypeOK
  <2>2. ASSUME NEW m \in Methods
        PROVE  Cardinality(LiveOfMethod(m)') <= MethodLimit[m]
    BY <1>5, <1>9, <1>12, <2>1, LimitsAssumption DEF ThreadLimitRespected
  <2>3. ASSUME NEW i \in Interfaces
        PROVE  Cardinality(LiveOfInterface(i)') <= InterfaceLimit[i]
    BY <1>6, <1>9, <1>12, <2>1, LimitsAssumption DEF ThreadLimitRespected
  <2> QED
    BY <2>2, <2>3 DEF ThreadLimitRespected
<1> QED
  BY <1>13, <1>14
\* The sets of calls handle_method_call() has not counted are finite.
LEMMA UncountedFinite ==
  ASSUME TypeOK
  PROVE  /\ IsFiniteSet(uncounted)
         /\ \A m : IsFiniteSet(UncountedOfMethod(m))
         /\ \A i : IsFiniteSet(UncountedOfInterface(i))
<1>1. \A S \in SUBSET Calls : IsFiniteSet(S)
  BY CallsAssumption, FS_Subset
<1>2. uncounted \in SUBSET Calls
  BY DEF TypeOK
<1>3. /\ \A m : UncountedOfMethod(m) \in SUBSET Calls
      /\ \A i : UncountedOfInterface(i) \in SUBSET Calls
  BY <1>2 DEF UncountedOfMethod, UncountedOfInterface
<1> QED
  BY <1>1, <1>2, <1>3

\* The main thread counts the thread it has started: the counters catch up.
LEMMA ThreadCounted ==
  ASSUME TypeOK, CounterAccuracy, ThreadLimitRespected, NEW c \in Calls, CountThread(c)
  PROVE  CounterAccuracy' /\ ThreadLimitRespected'
<1> DEFINE mc == MethodOf[c]
           ic == InterfaceOf[mc]
<1>1. up /\ up' /\ c \in uncounted /\ uncounted' = uncounted \ {c} /\ UNCHANGED phase
  BY DEF CountThread, process
<1>2. LiveCalls' = LiveCalls
  BY <1>1 DEF LiveCalls
<1>3. /\ \A m : LiveOfMethod(m)' = LiveOfMethod(m)
      /\ \A i : LiveOfInterface(i)' = LiveOfInterface(i)
  BY <1>2 DEF LiveOfMethod, LiveOfInterface
<1>4. /\ Cardinality(LiveCalls) \in Nat
      /\ \A m \in Methods : Cardinality(LiveOfMethod(m)) \in Nat
      /\ \A i \in Interfaces : Cardinality(LiveOfInterface(i)) \in Nat
  BY LiveFinite, FS_CardinalityType
<1>5. Cardinality(uncounted') = Cardinality(uncounted) - 1 /\ Cardinality(uncounted) \in Nat
  BY <1>1, CountOneLess, UncountedFinite
<1>6. ASSUME NEW m \in Methods
      PROVE  /\ Cardinality(UncountedOfMethod(m)')
                  = Cardinality(UncountedOfMethod(m)) - IF m = mc THEN 1 ELSE 0
             /\ Cardinality(UncountedOfMethod(m)) \in Nat
  <2>1. CASE m = mc
    <3>1. UncountedOfMethod(m)' = UncountedOfMethod(m) \ {c} /\ c \in UncountedOfMethod(m)
      BY <1>1, <2>1 DEF UncountedOfMethod
    <3> QED
      BY <2>1, <3>1, CountOneLess, UncountedFinite
  <2>2. CASE m # mc
    <3>1. UncountedOfMethod(m)' = UncountedOfMethod(m)
      BY <1>1, <2>2 DEF UncountedOfMethod
    <3> QED
      BY <2>2, <3>1, UncountedFinite, FS_CardinalityType
  <2> QED
    BY <2>1, <2>2
<1>7. ASSUME NEW i \in Interfaces
      PROVE  /\ Cardinality(UncountedOfInterface(i)')
                  = Cardinality(UncountedOfInterface(i)) - IF i = ic THEN 1 ELSE 0
             /\ Cardinality(UncountedOfInterface(i)) \in Nat
  <2>1. CASE i = ic
    <3>1. UncountedOfInterface(i)' = UncountedOfInterface(i) \ {c} /\ c \in UncountedOfInterface(i)
      BY <1>1, <2>1 DEF UncountedOfInterface
    <3> QED
      BY <2>1, <3>1, CountOneLess, UncountedFinite
  <2>2. CASE i # ic
    <3>1. UncountedOfInterface(i)' = UncountedOfInterface(i)
      BY <1>1, <2>2 DEF UncountedOfInterface
    <3> QED
      BY <2>2, <3>1, UncountedFinite, FS_CardinalityType
  <2> QED
    BY <2>1, <2>2
<1>8. /\ \A m \in Methods : method_counter'[m] = method_counter[m] + IF m = mc THEN 1 ELSE 0
      /\ \A i \in Interfaces : interface_counter'[i] = interface_counter[i] + IF i = ic THEN 1 ELSE 0
      /\ global_counter' = global_counter + 1
  BY CallsAssumption DEF CountThread, TypeOK
<1>9. CounterAccuracy'
  <2>1. ASSUME NEW m \in Methods
        PROVE  method_counter'[m] = Cardinality(LiveOfMethod(m)')
                                    - Cardinality(UncountedOfMethod(m)')
    BY <1>1, <1>3, <1>4, <1>6, <1>8 DEF CounterAccuracy
  <2>2. ASSUME NEW i \in Interfaces
        PROVE  interface_counter'[i] = Cardinality(LiveOfInterface(i)')
                                       - Cardinality(UncountedOfInterface(i)')
    BY <1>1, <1>3, <1>4, <1>7, <1>8 DEF CounterAccuracy
  <2>3. global_counter' = Cardinality(LiveCalls') - Cardinality(uncounted')
    BY <1>1, <1>2, <1>4, <1>5, <1>8 DEF CounterAccuracy
  <2> QED
    BY <2>1, <2>2, <2>3 DEF CounterAccuracy
<1>10. ThreadLimitRespected'
  BY <1>3 DEF ThreadLimitRespected
<1> QED
  BY <1>9, <1>10

\* A thread ends and discounts itself, whether or not it was counted before.
LEMMA ThreadReleased ==
  ASSUME TypeOK, CounterAccuracy, ThreadLimitRespected, NEW c \in Calls, Release(c)
  PROVE  CounterAccuracy' /\ ThreadLimitRespected'
<1> DEFINE mc == MethodOf[c]
           ic == InterfaceOf[mc]
<1>1. up /\ up' /\ c \in LiveCalls /\ UNCHANGED uncounted
  BY DEF Release, process, LiveCalls, ThreadPhases
<1>2. LiveCalls' = LiveCalls \ {c}
  BY LiveStep DEF Release, Phases, ThreadPhases
<1>3. /\ \A m : UncountedOfMethod(m)' = UncountedOfMethod(m)
      /\ \A i : UncountedOfInterface(i)' = UncountedOfInterface(i)
  BY <1>1 DEF UncountedOfMethod, UncountedOfInterface
<1>4. /\ Cardinality(uncounted) \in Nat
      /\ \A m \in Methods : Cardinality(UncountedOfMethod(m)) \in Nat
      /\ \A i \in Interfaces : Cardinality(UncountedOfInterface(i)) \in Nat
  BY UncountedFinite, FS_CardinalityType
<1>5. Cardinality(LiveCalls') = Cardinality(LiveCalls) - 1 /\ Cardinality(LiveCalls) \in Nat
  BY <1>1, <1>2, CountOneLess, LiveFinite
<1>6. ASSUME NEW m \in Methods
      PROVE  /\ Cardinality(LiveOfMethod(m)')
                  = Cardinality(LiveOfMethod(m)) - IF m = mc THEN 1 ELSE 0
             /\ Cardinality(LiveOfMethod(m)) \in Nat
  <2>1. CASE m = mc
    <3>1. LiveOfMethod(m)' = LiveOfMethod(m) \ {c} /\ c \in LiveOfMethod(m)
      BY <1>1, <1>2, <2>1 DEF LiveOfMethod
    <3> QED
      BY <2>1, <3>1, CountOneLess, LiveFinite
  <2>2. CASE m # mc
    <3>1. LiveOfMethod(m)' = LiveOfMethod(m)
      BY <1>2, <2>2 DEF LiveOfMethod
    <3> QED
      BY <2>2, <3>1, LiveFinite, FS_CardinalityType
  <2> QED
    BY <2>1, <2>2
<1>7. ASSUME NEW i \in Interfaces
      PROVE  /\ Cardinality(LiveOfInterface(i)')
                  = Cardinality(LiveOfInterface(i)) - IF i = ic THEN 1 ELSE 0
             /\ Cardinality(LiveOfInterface(i)) \in Nat
  <2>1. CASE i = ic
    <3>1. LiveOfInterface(i)' = LiveOfInterface(i) \ {c} /\ c \in LiveOfInterface(i)
      BY <1>1, <1>2, <2>1 DEF LiveOfInterface
    <3> QED
      BY <2>1, <3>1, CountOneLess, LiveFinite
  <2>2. CASE i # ic
    <3>1. LiveOfInterface(i)' = LiveOfInterface(i)
      BY <1>2, <2>2 DEF LiveOfInterface
    <3> QED
      BY <2>2, <3>1, LiveFinite, FS_CardinalityType
  <2> QED
    BY <2>1, <2>2
<1>8. /\ \A m \in Methods : method_counter'[m] = method_counter[m] - IF m = mc THEN 1 ELSE 0
      /\ \A i \in Interfaces : interface_counter'[i] = interface_counter[i] - IF i = ic THEN 1 ELSE 0
      /\ global_counter' = global_counter - 1
  BY CallsAssumption DEF Release, TypeOK
<1>9. CounterAccuracy'
  <2>1. ASSUME NEW m \in Methods
        PROVE  method_counter'[m] = Cardinality(LiveOfMethod(m)')
                                    - Cardinality(UncountedOfMethod(m)')
    BY <1>1, <1>3, <1>4, <1>6, <1>8 DEF CounterAccuracy
  <2>2. ASSUME NEW i \in Interfaces
        PROVE  interface_counter'[i] = Cardinality(LiveOfInterface(i)')
                                       - Cardinality(UncountedOfInterface(i)')
    BY <1>1, <1>3, <1>4, <1>7, <1>8 DEF CounterAccuracy
  <2>3. global_counter' = Cardinality(LiveCalls') - Cardinality(uncounted')
    BY <1>1, <1>4, <1>5, <1>8 DEF CounterAccuracy
  <2> QED
    BY <2>1, <2>2, <2>3 DEF CounterAccuracy
<1>10. ThreadLimitRespected'
  BY <1>6, <1>7, LimitsAssumption DEF ThreadLimitRespected
<1> QED
  BY <1>9, <1>10
-----------------------------------------------------------------------------
(* The inductive invariant.                                                *)

\* Between two dispatches of the main loop the counters are exact.
LEMMA ExactWhenCounted ==
  ASSUME TypeOK, CounterAccuracy, up, uncounted = {}
  PROVE  /\ \A m \in Methods : method_counter[m] = Cardinality(LiveOfMethod(m))
         /\ \A i \in Interfaces : interface_counter[i] = Cardinality(LiveOfInterface(i))
         /\ global_counter = Cardinality(LiveCalls)
<1>1. /\ \A m : UncountedOfMethod(m) = {}
      /\ \A i : UncountedOfInterface(i) = {}
  BY DEF UncountedOfMethod, UncountedOfInterface
<1>2. Cardinality({}) = 0
  BY FS_EmptySet
<1>3. /\ Cardinality(LiveCalls) \in Nat
      /\ \A m \in Methods : Cardinality(LiveOfMethod(m)) \in Nat
      /\ \A i \in Interfaces : Cardinality(LiveOfInterface(i)) \in Nat
  BY LiveFinite, FS_CardinalityType
<1>4. /\ \A m \in Methods : Cardinality(UncountedOfMethod(m)) = 0
      /\ \A i \in Interfaces : Cardinality(UncountedOfInterface(i)) = 0
      /\ Cardinality(uncounted) = 0
  BY <1>1, <1>2
<1> QED
  BY <1>3, <1>4 DEF CounterAccuracy

\* is_module_busy() is right when the main loop asks it.
LEMMA IdleHasNoThreads ==
  ASSUME TypeOK, CounterAccuracy, up, uncounted = {}, ~ ModulesAreBusy
  PROVE  LiveCalls = {}
<1>1. global_counter = Cardinality(LiveCalls) /\ ~ (global_counter > 0)
  BY ExactWhenCounted DEF ModulesAreBusy
<1>2. Cardinality(LiveCalls) \in Nat
  BY LiveFinite, FS_CardinalityType
<1>3. Cardinality(LiveCalls) = 0
  BY <1>1, <1>2
<1> QED
  BY <1>3, LiveFinite, FS_EmptySet

\* Type correctness is inductive by itself.
LEMMA TypeStep == TypeOK /\ [Next]_vars => TypeOK'
<1> SUFFICES ASSUME TypeOK, [Next]_vars PROVE TypeOK'
  OBVIOUS
<1> USE DEF TypeOK, process, monitor, counters
<1>1. ASSUME NEW c \in AllCalls, Send(c) \/ Deliver(c) PROVE TypeOK'
  BY <1>1 DEF Send, Deliver, Phases
<1>2. ASSUME NEW c \in Calls, RejectCall(c) PROVE TypeOK'
  BY <1>2 DEF RejectCall, Phases, Replies, AllCalls
<1>3. ASSUME NEW c \in Calls, StartThread(c) PROVE TypeOK'
  <2>1. uncounted' = {c} /\ Cardinality({c}) = 1
    BY <1>3, FS_Singleton DEF StartThread, Dispatchable
  <2> QED
    BY <1>3, <2>1 DEF StartThread, Phases, ThreadPhases, AllCalls
<1>4. ASSUME NEW c \in Calls, CountThread(c) PROVE TypeOK'
  <2>1. uncounted' \in SUBSET Calls /\ Cardinality(uncounted') <= 1
    BY <1>4, CountOneLess, UncountedFinite DEF CountThread
  <2>2. method_counter' \in [Methods -> Int] /\ interface_counter' \in [Interfaces -> Int]
    <3>1. MethodOf[c] \in Methods /\ InterfaceOf[MethodOf[c]] \in Interfaces
      BY CallsAssumption
    <3>2. method_counter' \in [Methods -> Int]
      BY <1>4, <3>1 DEF CountThread
    <3>3. interface_counter' \in [Interfaces -> Int]
      BY <1>4, <3>1 DEF CountThread
    <3> QED
      BY <3>2, <3>3
  <2> QED
    BY <1>4, <2>1, <2>2 DEF CountThread
<1>5. ASSUME NEW c \in Calls, Release(c) PROVE TypeOK'
  <2>1. method_counter' \in [Methods -> Int] /\ interface_counter' \in [Interfaces -> Int]
    <3>1. MethodOf[c] \in Methods /\ InterfaceOf[MethodOf[c]] \in Interfaces
      BY CallsAssumption
    <3>2. method_counter' \in [Methods -> Int]
      BY <1>5, <3>1 DEF Release
    <3>3. interface_counter' \in [Interfaces -> Int]
      BY <1>5, <3>1 DEF Release
    <3> QED
      BY <3>2, <3>3
  <2> QED
    BY <1>5, <2>1 DEF Release, Phases, AllCalls
<1>6. ASSUME NEW c \in Calls, Authorize(c) \/ ParseArgv(c) \/ Spawn(c) \/ ReturnValue(c)
      PROVE  TypeOK'
  BY <1>6 DEF Authorize, ParseArgv, Spawn, ReturnValue, Thread, Answer, Phases, ThreadPhases,
              Replies, AllCalls
<1>7. ASSUME NEW c \in ManagerCalls, ManagerCallStep(c) PROVE TypeOK'
  BY <1>7 DEF ManagerCallStep, StartHandler, HandlerReply, Thread, Answer, Phases, ThreadPhases,
              Replies, AllCalls
<1>8. CASE ChangeFlag
  BY <1>8 DEF ChangeFlag
<1>9. CASE BackendsChanged
  BY <1>9 DEF BackendsChanged
<1>10. CASE Exit
  <2>1. phase' \in [AllCalls -> Phases] /\ reply' \in [AllCalls -> Replies]
    BY <1>10 DEF Exit, Phases, Replies
  <2> QED
    BY <1>10, <2>1 DEF Exit
<1>11. CASE Restart
  <2>1. method_counter' \in [Methods -> Int]
    BY <1>11 DEF Restart
  <2>2. interface_counter' \in [Interfaces -> Int]
    BY <1>11 DEF Restart
  <2>3. /\ up' = TRUE /\ quit' = FALSE /\ lastBatch' = {} /\ backends_changed' = FALSE
        /\ global_counter' = 0
        /\ UNCHANGED <<uncounted, changes, phase, reply>>
    BY <1>11 DEF Restart
  <2>4. up' \in BOOLEAN /\ quit' \in BOOLEAN /\ backends_changed' \in BOOLEAN
    BY <2>3
  <2>5. /\ uncounted' \in SUBSET Calls /\ Cardinality(uncounted') <= 1
        /\ changes' \in Nat /\ phase' \in [AllCalls -> Phases] /\ reply' \in [AllCalls -> Replies]
        /\ lastBatch' \in SUBSET AllCalls /\ global_counter' \in Int
    BY <2>3
  <2> QED
    BY <2>1, <2>2, <2>4, <2>5
<1>12. CASE UNCHANGED vars
  BY <1>12 DEF vars
<1> QED
  BY <1>1, <1>2, <1>3, <1>4, <1>5, <1>6, <1>7, <1>8, <1>9, <1>10, <1>11, <1>12
     DEF Next, CallStep, ThreadStep
\* A step of a thread between two of its phases starts and ends no thread.
LEMMA ThreadMoves ==
  ASSUME TypeOK, NEW c \in Calls, NEW from \in ThreadPhases, NEW to \in ThreadPhases,
         Thread(c, from, to)
  PROVE  LiveCalls' = LiveCalls
<1>1. c \in LiveCalls
  BY DEF Thread, LiveCalls
<1>2. LiveCalls' = LiveCalls \cup {c}
  BY LiveStep DEF Thread, Phases
<1> QED
  BY <1>1, <1>2

\* No step but StartThread, CountThread, Release, Exit and Restart touches the
\* threads or the counters.
LEMMA QuietSteps ==
  ASSUME TypeOK, DownIsEmpty, LateCallsInBatch, CounterAccuracy, ThreadLimitRespected,
         LiveCalls' = LiveCalls, UNCHANGED <<process, uncounted, counters>>
  PROVE  CounterAccuracy' /\ ThreadLimitRespected' /\ DownIsEmpty' /\ LateCallsInBatch'
<1>1. CounterAccuracy' /\ ThreadLimitRespected'
  BY CountersKept DEF process
<1>2. DownIsEmpty' /\ LateCallsInBatch'
  BY DEF DownIsEmpty, LateCallsInBatch, process
<1> QED
  BY <1>1, <1>2

\* The inductive step.
LEMMA InvStep == IInv /\ [Next]_vars => IInv'
<1> SUFFICES ASSUME IInv, [Next]_vars PROVE IInv'
  OBVIOUS
<1> USE DEF IInv
<1>0. TypeOK'
  BY TypeStep
<1>1. ASSUME NEW c \in AllCalls, Send(c) \/ Deliver(c) PROVE IInv'
  <2>1. LiveCalls' = LiveCalls
    BY <1>1 DEF Send, Deliver, LiveCalls, ThreadPhases, TypeOK, AllCalls
  <2>2. RepliedIsOver'
    BY <1>1 DEF Send, Deliver, RepliedIsOver, TypeOK
  <2> QED
    BY <1>0, <1>1, <2>1, <2>2, QuietSteps DEF Send, Deliver
<1>2. ASSUME NEW c \in Calls, RejectCall(c) PROVE IInv'
  <2>1. LiveCalls' = LiveCalls
    BY <1>2 DEF RejectCall, Dispatchable, LiveCalls, ThreadPhases, TypeOK, AllCalls
  <2>2. RepliedIsOver'
    BY <1>2 DEF RejectCall, RepliedIsOver, TypeOK, AllCalls
  <2> QED
    BY <1>0, <1>2, <2>1, <2>2, QuietSteps DEF RejectCall
<1>3. ASSUME NEW c \in Calls, StartThread(c) PROVE IInv'
  <2>1. CounterAccuracy' /\ ThreadLimitRespected'
    BY <1>3, ThreadStarted
  <2>2. LiveCalls' = LiveCalls \cup {c}
    BY <1>3, LiveStep DEF StartThread, Phases, ThreadPhases
  <2>3. DownIsEmpty' /\ LateCallsInBatch'
    BY <1>3, <2>2 DEF StartThread, Dispatchable, DownIsEmpty, LateCallsInBatch, process
  <2>4. RepliedIsOver'
    BY <1>3 DEF StartThread, Dispatchable, RepliedIsOver, TypeOK, AllCalls
  <2> QED
    BY <1>0, <2>1, <2>3, <2>4
<1>4. ASSUME NEW c \in Calls, CountThread(c) PROVE IInv'
  <2>1. CounterAccuracy' /\ ThreadLimitRespected'
    BY <1>4, ThreadCounted
  <2>2. LiveCalls' = LiveCalls
    BY <1>4 DEF CountThread, LiveCalls
  <2>3. DownIsEmpty' /\ LateCallsInBatch' /\ RepliedIsOver'
    BY <1>4, <2>2 DEF CountThread, DownIsEmpty, LateCallsInBatch, RepliedIsOver, process
  <2> QED
    BY <1>0, <2>1, <2>3
<1>5. ASSUME NEW c \in Calls, Release(c) PROVE IInv'
  <2>1. CounterAccuracy' /\ ThreadLimitRespected'
    BY <1>5, ThreadReleased
  <2>2. LiveCalls' = LiveCalls \ {c}
    BY <1>5, LiveStep DEF Release, Phases, ThreadPhases
  <2>3. DownIsEmpty' /\ LateCallsInBatch'
    BY <1>5, <2>2 DEF Release, DownIsEmpty, LateCallsInBatch, process
  <2>4. RepliedIsOver'
    BY <1>5 DEF Release, RepliedIsOver, TypeOK, AllCalls
  <2> QED
    BY <1>0, <2>1, <2>3, <2>4
<1>6. ASSUME NEW c \in Calls, Authorize(c) \/ ParseArgv(c) \/ Spawn(c) \/ ReturnValue(c)
      PROVE  IInv'
  <2>1. PICK from \in ThreadPhases \ {"release"}, to \in ThreadPhases :
          /\ Thread(c, from, to)
          /\ \/ to # "release" /\ UNCHANGED reply
             \/ to = "release" /\ \E r \in Replies \ {"none"} : Answer(c, r)
    BY <1>6 DEF Authorize, ParseArgv, Spawn, ReturnValue, ThreadPhases, Replies
  <2>2. LiveCalls' = LiveCalls
    BY <2>1, ThreadMoves
  <2>3. RepliedIsOver'
    BY <2>1 DEF Thread, Answer, RepliedIsOver, TypeOK, AllCalls, ThreadPhases
  <2> QED
    BY <1>0, <2>1, <2>2, <2>3, QuietSteps DEF Thread
<1>7. ASSUME NEW c \in ManagerCalls, ManagerCallStep(c) PROVE IInv'
  <2>1. LiveCalls' = LiveCalls
    BY <1>7, ManagerStep DEF ManagerCallStep, StartHandler, HandlerReply, Thread
  <2>2. RepliedIsOver'
    BY <1>7 DEF ManagerCallStep, StartHandler, Dispatchable, HandlerReply, Thread, Answer,
                RepliedIsOver, TypeOK, AllCalls
  <2> QED
    BY <1>0, <1>7, <2>1, <2>2, QuietSteps DEF ManagerCallStep, StartHandler, HandlerReply, Thread
<1>8. CASE ChangeFlag
  <2>1. LiveCalls' = LiveCalls /\ RepliedIsOver'
    BY <1>8 DEF ChangeFlag, LiveCalls, RepliedIsOver
  <2> QED
    BY <1>0, <1>8, <2>1, QuietSteps DEF ChangeFlag
<1>9. CASE BackendsChanged
  <2>1. LiveCalls = {}
    BY <1>9, IdleHasNoThreads DEF BackendsChanged
  <2>2. LiveCalls' = LiveCalls /\ RepliedIsOver'
    BY <1>9 DEF BackendsChanged, LiveCalls, RepliedIsOver
  <2>3. CounterAccuracy' /\ ThreadLimitRespected'
    BY <1>9, <2>2, CountersKept DEF BackendsChanged
  <2>4. DownIsEmpty' /\ LateCallsInBatch'
    BY <1>9, <2>1, <2>2 DEF BackendsChanged, DownIsEmpty, LateCallsInBatch
  <2> QED
    BY <1>0, <2>2, <2>3, <2>4
<1>10. CASE Exit
  <2>1. LiveCalls' = {}
    BY <1>10 DEF Exit, LiveCalls, ThreadPhases, AllCalls
  <2>2. CounterAccuracy' /\ DownIsEmpty' /\ LateCallsInBatch'
    BY <1>10, <2>1 DEF Exit, CounterAccuracy, DownIsEmpty, LateCallsInBatch
  <2>3. ThreadLimitRespected'
    <3>1. /\ \A m : LiveOfMethod(m)' = {}
          /\ \A i : LiveOfInterface(i)' = {}
      BY <2>1 DEF LiveOfMethod, LiveOfInterface
    <3>2. Cardinality({}) = 0
      BY FS_EmptySet
    <3> QED
      BY <3>1, <3>2, LimitsAssumption DEF ThreadLimitRespected
  <2>4. RepliedIsOver'
    BY <1>10 DEF Exit, RepliedIsOver, TypeOK
  <2> QED
    BY <1>0, <2>2, <2>3, <2>4
<1>11. CASE Restart
  <2>1. LiveCalls = {} /\ LiveCalls' = {} /\ uncounted' = {}
    BY <1>11 DEF Restart, DownIsEmpty, LiveCalls
  <2>2. /\ \A m : LiveOfMethod(m)' = {} /\ UncountedOfMethod(m)' = {}
        /\ \A i : LiveOfInterface(i)' = {} /\ UncountedOfInterface(i)' = {}
    BY <2>1 DEF LiveOfMethod, LiveOfInterface, UncountedOfMethod, UncountedOfInterface
  <2>3. Cardinality({}) = 0
    BY FS_EmptySet
  <2>4. CounterAccuracy'
    <3>1. /\ \A m \in Methods : method_counter'[m] = 0
          /\ \A i \in Interfaces : interface_counter'[i] = 0
          /\ global_counter' = 0
      BY <1>11 DEF Restart
    <3>2. /\ \A m : Cardinality(LiveOfMethod(m)') = 0 /\ Cardinality(UncountedOfMethod(m)') = 0
          /\ \A i : Cardinality(LiveOfInterface(i)') = 0 /\ Cardinality(UncountedOfInterface(i)') = 0
          /\ Cardinality(LiveCalls') = 0 /\ Cardinality(uncounted') = 0
      BY <2>1, <2>2, <2>3
    <3> QED
      BY <3>1, <3>2 DEF CounterAccuracy
  <2>5. ThreadLimitRespected'
    BY <2>2, <2>3, LimitsAssumption DEF ThreadLimitRespected
  <2>6. DownIsEmpty' /\ LateCallsInBatch' /\ RepliedIsOver'
    BY <1>11 DEF Restart, DownIsEmpty, LateCallsInBatch, RepliedIsOver
  <2> QED
    BY <1>0, <2>4, <2>5, <2>6
<1>12. CASE UNCHANGED vars
  <2>1. LiveCalls' = LiveCalls /\ RepliedIsOver'
    BY <1>12 DEF vars, LiveCalls, RepliedIsOver
  <2> QED
    BY <1>0, <1>12, <2>1, QuietSteps DEF vars
<1> QED
  BY <1>1, <1>2, <1>3, <1>4, <1>5, <1>6, <1>7, <1>8, <1>9, <1>10, <1>11, <1>12
     DEF Next, CallStep, ThreadStep
\* The initial states.
LEMMA InvInit == Init => IInv
<1> SUFFICES ASSUME Init PROVE IInv
  OBVIOUS
<1>1. LiveCalls = {} /\ uncounted = {} /\ Cardinality({}) = 0
  BY FS_EmptySet DEF Init, LiveCalls, ThreadPhases, AllCalls
<1>2. /\ \A m : LiveOfMethod(m) = {} /\ UncountedOfMethod(m) = {}
      /\ \A i : LiveOfInterface(i) = {} /\ UncountedOfInterface(i) = {}
  BY <1>1 DEF LiveOfMethod, LiveOfInterface, UncountedOfMethod, UncountedOfInterface
<1>3. /\ \A m : Cardinality(LiveOfMethod(m)) = 0 /\ Cardinality(UncountedOfMethod(m)) = 0
      /\ \A i : Cardinality(LiveOfInterface(i)) = 0 /\ Cardinality(UncountedOfInterface(i)) = 0
      /\ Cardinality(LiveCalls) = 0 /\ Cardinality(uncounted) = 0
  BY <1>1, <1>2
<1>4. TypeOK
  <2>1. up \in BOOLEAN /\ quit \in BOOLEAN /\ backends_changed \in BOOLEAN
    BY DEF Init
  <2>2. lastBatch \in SUBSET AllCalls /\ uncounted \in SUBSET Calls /\ Cardinality(uncounted) <= 1
    BY <1>3 DEF Init
  <2>3. phase \in [AllCalls -> Phases] /\ reply \in [AllCalls -> Replies]
    BY DEF Init, Phases, Replies
  <2>4. method_counter \in [Methods -> Int]
    BY DEF Init
  <2>5. interface_counter \in [Interfaces -> Int]
    BY DEF Init
  <2>6. changes \in Nat /\ global_counter \in Int
    BY DEF Init
  <2> QED
    BY <2>1, <2>2, <2>3, <2>4, <2>5, <2>6 DEF TypeOK
<1>5. CounterAccuracy
  <2>1. /\ \A m \in Methods : method_counter[m] = 0
        /\ \A i \in Interfaces : interface_counter[i] = 0
        /\ global_counter = 0
    BY DEF Init
  <2> QED
    BY <1>3, <2>1 DEF CounterAccuracy
<1>6. ThreadLimitRespected
  BY <1>3, LimitsAssumption DEF ThreadLimitRespected
<1>7. DownIsEmpty /\ LateCallsInBatch /\ RepliedIsOver
  BY <1>1 DEF Init, DownIsEmpty, LateCallsInBatch, RepliedIsOver
<1> QED
  BY <1>4, <1>5, <1>6, <1>7 DEF IInv

\* The invariant holds in every reachable state.
THEOREM Invariance == Spec => []IInv
  BY InvInit, InvStep, PTL DEF Spec

-----------------------------------------------------------------------------
(* The safety properties.                                                  *)

\* Type correctness, and the main thread is in at most one handler at a time.
THEOREM TypeCorrect == Spec => []TypeOK
<1>1. IInv => TypeOK
  BY DEF IInv
<1> QED
  BY <1>1, Invariance, PTL

\* The thread counters of executor.c are exact but for the thread that
\* handle_method_call() is about to count.
THEOREM CountersAccurate == Spec => []CounterAccuracy
<1>1. IInv => CounterAccuracy
  BY DEF IInv
<1> QED
  BY <1>1, Invariance, PTL

\* No method and no interface ever has more threads than its thread_limit.
THEOREM LimitsRespected == Spec => []ThreadLimitRespected
<1>1. IInv => ThreadLimitRespected
  BY DEF IInv
<1> QED
  BY <1>1, Invariance, PTL

\* The timer of the backend monitor stops the main loop only when no executor
\* thread exists.
THEOREM QuitsOnlyWhenIdle == Spec => QuitOnlyWhenIdle
<1>1. IInv /\ [Next]_vars => [~ quit /\ quit' => LiveCalls = {}]_vars
  <2> SUFFICES ASSUME IInv, Next, ~ quit, quit' PROVE LiveCalls = {}
    OBVIOUS
  <2>1. BackendsChanged
    BY DEF Next, Send, Deliver, CallStep, RejectCall, StartThread, CountThread, ThreadStep,
           Authorize, ParseArgv, Spawn, ReturnValue, Release, Thread, ManagerCallStep,
           StartHandler, HandlerReply, ChangeFlag, Exit, Restart, process
  <2> QED
    BY <2>1, IdleHasNoThreads DEF BackendsChanged, IInv
<1> QED
  BY <1>1, Invariance, PTL DEF Spec, QuitOnlyWhenIdle

\* The process takes along only executor threads whose handlers ran after the
\* decision to stop, in the last iteration of the main loop.
THEOREM AcceptedSurvive == Spec => AcceptedCallsSurvive
<1> DEFINE P == \A c \in Calls :
             phase[c] \in ThreadPhases /\ reply[c] = "none" /\ reply'[c] = "lost" => c \in lastBatch
<1>1. IInv /\ [Next]_vars => [P]_vars
  <2> SUFFICES ASSUME IInv, Next, NEW c \in Calls,
                      phase[c] \in ThreadPhases, reply[c] = "none", reply'[c] = "lost"
               PROVE  c \in lastBatch
    OBVIOUS
  <2>1. Exit
    BY DEF Next, Send, Deliver, CallStep, RejectCall, StartThread, CountThread, ThreadStep,
           Authorize, ParseArgv, Spawn, ReturnValue, Release, Thread, Answer, ManagerCallStep,
           StartHandler, HandlerReply, ChangeFlag, BackendsChanged, Restart, IInv, TypeOK, AllCalls
  <2> QED
    BY <2>1 DEF Exit, IInv, LateCallsInBatch, LiveCalls
<1> QED
  BY <1>1, Invariance, PTL DEF Spec, AcceptedCallsSurvive

\* No call is answered twice, whichever of the exits of execute_command_line()
\* its thread takes.
AnsweredOnce == [][\A c \in AllCalls : reply[c] # "none" => reply'[c] = reply[c]]_vars

\* No call is answered twice.
THEOREM AnsweredAtMostOnce == Spec => AnsweredOnce
<1> DEFINE P == \A c \in AllCalls : reply[c] # "none" => reply'[c] = reply[c]
<1>1. IInv /\ [Next]_vars => [P]_vars
  <2> SUFFICES ASSUME IInv, Next, NEW c \in AllCalls, reply[c] # "none"
               PROVE  reply'[c] = reply[c]
    OBVIOUS
  <2>1. phase[c] \in {"release", "done"}
    BY DEF IInv, RepliedIsOver
  <2>2. ASSUME NEW d \in Calls, CallStep(d) PROVE reply'[c] = reply[c]
    BY <2>1, <2>2 DEF CallStep, RejectCall, Dispatchable, StartThread, CountThread, ThreadStep,
           Authorize, ParseArgv, Spawn, ReturnValue, Release, Thread, Answer, IInv, TypeOK
  <2>3. ASSUME NEW d \in ManagerCalls, ManagerCallStep(d) PROVE reply'[c] = reply[c]
    BY <2>1, <2>3 DEF ManagerCallStep, StartHandler, HandlerReply, Thread, Answer, IInv, TypeOK
  <2>4. CASE Exit
    BY <2>4 DEF Exit
  <2>5. CASE (\E d \in AllCalls : Send(d) \/ Deliver(d)) \/ ChangeFlag \/ BackendsChanged \/ Restart
    BY <2>5 DEF Send, Deliver, ChangeFlag, BackendsChanged, Restart
  <2> QED
    BY <2>2, <2>3, <2>4, <2>5 DEF Next
<1> QED
  BY <1>1, Invariance, PTL DEF Spec, AnsweredOnce

\* "Thread limit reached." is answered only when as many threads as the limit
\* allows exist, for the method or for its interface.
THEOREM RejectionsJustified == Spec => RejectionJustified
<1> DEFINE P == \A c \in Calls : reply[c] = "none" /\ reply'[c] = "busy" =>
             LET m == MethodOf[c]
                 i == InterfaceOf[m]
             IN  \/ Cardinality(LiveOfMethod(m)) >= MethodLimit[m]
                 \/ Cardinality(LiveOfInterface(i)) >= InterfaceLimit[i]
<1>1. IInv /\ [Next]_vars => [P]_vars
  <2> SUFFICES ASSUME IInv, Next, NEW c \in Calls, reply[c] = "none", reply'[c] = "busy"
               PROVE  \/ Cardinality(LiveOfMethod(MethodOf[c])) >= MethodLimit[MethodOf[c]]
                      \/ Cardinality(LiveOfInterface(InterfaceOf[MethodOf[c]]))
                           >= InterfaceLimit[InterfaceOf[MethodOf[c]]]
    OBVIOUS
  <2>1. RejectCall(c)
    BY DEF Next, Send, Deliver, CallStep, RejectCall, StartThread, CountThread, ThreadStep,
           Authorize, ParseArgv, Spawn, ReturnValue, Release, Thread, Answer, ManagerCallStep,
           StartHandler, HandlerReply, ChangeFlag, BackendsChanged, Exit, Restart, IInv, TypeOK,
           AllCalls
  <2>2. up /\ uncounted = {} /\ LimitReached(MethodOf[c])
    BY <2>1 DEF RejectCall, Dispatchable
  <2>3. MethodOf[c] \in Methods /\ InterfaceOf[MethodOf[c]] \in Interfaces
    BY CallsAssumption
  <2> QED
    BY <2>2, <2>3, ExactWhenCounted DEF LimitReached, IInv
<1> QED
  BY <1>1, Invariance, PTL DEF Spec, RejectionJustified

-----------------------------------------------------------------------------
(* The implementation of ExecutorService.                                  *)

\* What the abstract service sees.
state == [c \in AllCalls |-> StateOf(phase[c])]

\* The abstract step of a call that moves on.
LEMMA StateStep ==
  ASSUME TypeOK, NEW c \in AllCalls, NEW p, phase' = [phase EXCEPT ![c] = p]
  PROVE  state' = [state EXCEPT ![c] = StateOf(p)]
  BY DEF TypeOK, state

\* A call with a thread is being served, and it is the only kind that is.
LEMMA ServingIsLive ==
  ASSUME TypeOK
  PROVE  Service!Serving = LiveCalls
<1>1. \A p \in Phases : StateOf(p) = "served" <=> p \in ThreadPhases
  BY DEF StateOf, Phases, ThreadPhases
<1> QED
  BY <1>1 DEF Service!Serving, LiveCalls, TypeOK, AllCalls

\* The abstract service counts as the process does.
LEMMA SameCount == \A S : Service!Cardinality(S) = Cardinality(S)
  BY DEF Service!Cardinality, Cardinality

\* The counters tell whether the service is full when the main loop asks.
LEMMA FullWhenReached ==
  ASSUME TypeOK, CounterAccuracy, up, uncounted = {}, NEW m \in Methods
  PROVE  LimitReached(m) <=> Service!Full(m)
<1>1. InterfaceOf[m] \in Interfaces
  BY CallsAssumption
<1>2. /\ method_counter[m] = Cardinality(LiveOfMethod(m))
      /\ interface_counter[InterfaceOf[m]] = Cardinality(LiveOfInterface(InterfaceOf[m]))
  BY <1>1, ExactWhenCounted
<1>3. Service!Full(m) <=>
        \/ Cardinality(LiveOfMethod(m)) >= MethodLimit[m]
        \/ Cardinality(LiveOfInterface(InterfaceOf[m])) >= InterfaceLimit[InterfaceOf[m]]
  BY ServingIsLive, SameCount DEF Service!Full, LiveOfMethod, LiveOfInterface
<1> QED
  BY <1>2, <1>3 DEF LimitReached

LEMMA ServiceStart == Init => Service!ServiceInit
  BY DEF Init, Service!ServiceInit, Service!Callers, AllCalls, StateOf

\* A step of the call that changes nothing that a caller sees.
LEMMA ServiceSame ==
  ASSUME UNCHANGED <<up, quit, lastBatch, reply>>, state' = state
  PROVE  UNCHANGED Service!serviceVars
  BY DEF Service!serviceVars, state

\* Every step of the process is a step of the service, or none.
LEMMA ServiceStep == IInv /\ [Next]_vars => [Service!ServiceNext]_Service!serviceVars
<1> SUFFICES ASSUME IInv, [Next]_vars
             PROVE  Service!ServiceNext \/ UNCHANGED Service!serviceVars
  OBVIOUS
<1>0. /\ TypeOK /\ CounterAccuracy /\ RepliedIsOver /\ Service!Callers = AllCalls
      /\ state = [c \in AllCalls |-> StateOf(phase[c])]
  BY DEF IInv, Service!Callers, AllCalls, state
<1>1. ASSUME NEW c \in AllCalls, Send(c) PROVE Service!ServiceNext
  <2>1. state[c] = "idle" /\ state' = [state EXCEPT ![c] = "asked"]
    BY <1>0, <1>1, StateStep DEF Send, StateOf
  <2>2. Service!Ask(c)
    BY <1>1, <2>1 DEF Send, process, Service!Ask, state
  <2> QED
    BY <1>0, <2>2 DEF Service!ServiceNext
<1>2. ASSUME NEW c \in AllCalls, Deliver(c) PROVE UNCHANGED Service!serviceVars
  <2>1. state[c] = "asked" /\ state' = [state EXCEPT ![c] = "asked"]
    BY <1>0, <1>2, StateStep DEF Deliver, StateOf
  <2>2. state' = state
    BY <1>0, <2>1
  <2> QED
    BY <1>2, <2>2, ServiceSame DEF Deliver, process
<1>3. ASSUME NEW c \in AllCalls, Dispatchable(c) PROVE Service!Taken(c)
  <2>1. state[c] = "asked"
    BY <1>0, <1>3 DEF Dispatchable, StateOf
  <2> QED
    BY <1>3, <2>1 DEF Dispatchable, Service!Taken, state
<1>4. ASSUME NEW c \in Calls, RejectCall(c) PROVE Service!ServiceNext
  <2>1. c \in AllCalls /\ MethodOf[c] \in Methods
    BY CallsAssumption DEF AllCalls
  <2>2. Service!Taken(c) /\ Service!Full(MethodOf[c])
    BY <1>0, <1>3, <1>4, <2>1, FullWhenReached DEF RejectCall, Dispatchable
  <2>3. state' = [state EXCEPT ![c] = "over"]
    BY <1>0, <1>4, <2>1, StateStep DEF RejectCall, StateOf, ThreadPhases
  <2>4. Service!Refuse(c)
    BY <1>4, <2>2, <2>3 DEF RejectCall, process, Service!Refuse, state
  <2> QED
    BY <2>4 DEF Service!ServiceNext
<1>5. ASSUME NEW c \in AllCalls, Dispatchable(c), c \in Calls => ~ LimitReached(MethodOf[c]),
             phase' = [phase EXCEPT ![c] = "auth"], UNCHANGED <<process, reply>>
      PROVE  Service!ServiceNext
  <2>1. Service!Taken(c) /\ (c \in Calls => ~ Service!Full(MethodOf[c]))
    BY <1>0, <1>3, <1>5, CallsAssumption, FullWhenReached DEF Dispatchable
  <2>2. state' = [state EXCEPT ![c] = "served"]
    BY <1>0, <1>5, StateStep DEF StateOf, ThreadPhases
  <2>3. Service!Serve(c)
    BY <1>5, <2>1, <2>2 DEF process, Service!Serve, state
  <2> QED
    BY <1>0, <2>3 DEF Service!ServiceNext
<1>6. ASSUME NEW c \in Calls, StartThread(c) PROVE Service!ServiceNext
  BY <1>5, <1>6 DEF StartThread, AllCalls
<1>7. ASSUME NEW c \in Calls, CountThread(c) PROVE UNCHANGED Service!serviceVars
  BY <1>7, ServiceSame DEF CountThread, process, state
<1>8. ASSUME NEW c \in Calls, NEW from \in ThreadPhases, NEW to \in ThreadPhases \ {"release"},
             Thread(c, from, to), UNCHANGED reply
      PROVE  UNCHANGED Service!serviceVars
  <2>1. state' = state
    <3>1. c \in AllCalls BY DEF AllCalls
    <3>2. StateOf(from) = "served" /\ StateOf(to) = "served"
      BY DEF StateOf, ThreadPhases
    <3>3. state[c] = "served" /\ state' = [state EXCEPT ![c] = "served"]
      BY <1>0, <1>8, <3>1, <3>2, StateStep DEF Thread
    <3> QED
      BY <1>0, <3>1, <3>3
  <2> QED
    BY <1>8, <2>1, ServiceSame DEF Thread, process
<1>9. ASSUME NEW c \in Calls, NEW from \in ThreadPhases \ {"release"},
             Thread(c, from, "release"),
             NEW r \in {"denied", "failed", "value"}, Answer(c, r)
      PROVE  Service!ServiceNext
  <2>1. c \in AllCalls BY DEF AllCalls
  <2>2. StateOf(from) = "served" /\ StateOf("release") = "served"
    BY DEF StateOf, ThreadPhases
  <2>3. state[c] = "served" /\ state' = [state EXCEPT ![c] = "served"]
    BY <1>0, <1>9, <2>1, <2>2, StateStep DEF Thread
  <2>4. state' = state
    BY <1>0, <2>1, <2>3
  <2>5. reply[c] = "none"
    BY <1>0, <1>9, <2>1 DEF Thread, RepliedIsOver, ThreadPhases
  <2>6. Service!Reply(c)
    BY <1>9, <2>3, <2>4, <2>5 DEF Thread, Answer, process, Service!Reply, state
  <2> QED
    BY <1>0, <2>1, <2>6 DEF Service!ServiceNext
<1>10. ASSUME NEW c \in Calls, Release(c) PROVE Service!ServiceNext
  <2>1. c \in AllCalls BY DEF AllCalls
  <2>2. state[c] = "served" /\ reply[c] # "none"
    BY <1>0, <1>10, <2>1 DEF Release, RepliedIsOver, StateOf, ThreadPhases
  <2>3. state' = [state EXCEPT ![c] = "over"]
    BY <1>0, <1>10, <2>1, StateStep DEF Release, StateOf, ThreadPhases
  <2>4. Service!Leave(c)
    BY <1>10, <2>2, <2>3 DEF Release, process, Service!Leave, state
  <2> QED
    BY <2>4 DEF Service!ServiceNext
<1>11. ASSUME NEW c \in Calls, ThreadStep(c)
       PROVE  Service!ServiceNext \/ UNCHANGED Service!serviceVars
  <2>1. CASE Authorize(c) BY <1>8, <1>9, <2>1 DEF Authorize, ThreadPhases
  <2>2. CASE ParseArgv(c) BY <1>8, <1>9, <2>2 DEF ParseArgv, ThreadPhases
  <2>3. CASE Spawn(c) BY <1>8, <1>9, <2>3 DEF Spawn, ThreadPhases
  <2>4. CASE ReturnValue(c) BY <1>9, <2>4 DEF ReturnValue, ThreadPhases
  <2>5. CASE Release(c) BY <1>10, <2>5
  <2> QED BY <1>11, <2>1, <2>2, <2>3, <2>4, <2>5 DEF ThreadStep
<1>12. ASSUME NEW c \in ManagerCalls, StartHandler(c) PROVE Service!ServiceNext
  BY <1>5, <1>12, CallsAssumption DEF StartHandler, AllCalls
<1>13. ASSUME NEW c \in ManagerCalls, HandlerReply(c) PROVE Service!ServiceNext
  <2>1. c \in AllCalls /\ c \notin Calls BY CallsAssumption DEF AllCalls
  <2>2. state[c] = "served" /\ reply[c] = "none"
    BY <1>0, <1>13, <2>1 DEF HandlerReply, Thread, RepliedIsOver, StateOf, ThreadPhases
  <2>3. state' = [state EXCEPT ![c] = "over"]
    BY <1>0, <1>13, <2>1, StateStep DEF HandlerReply, Thread, StateOf, ThreadPhases
  <2>4. Service!Reply(c)
    BY <1>13, <2>1, <2>2, <2>3 DEF HandlerReply, Thread, Answer, process, Service!Reply, state
  <2> QED
    BY <1>0, <2>1, <2>4 DEF Service!ServiceNext
<1>14. CASE ChangeFlag
  BY <1>14, ServiceSame DEF ChangeFlag, process, state
<1>15. CASE BackendsChanged
  <2>1. Service!Serving = {}
    BY <1>0, <1>15, ServingIsLive, IdleHasNoThreads DEF BackendsChanged
  <2>2. {c \in AllCalls : phase[c] = "queued"} \subseteq {c \in AllCalls : state[c] = "asked"}
    BY <1>0 DEF StateOf
  <2>3. Service!Stop
    BY <1>0, <1>15, <2>1, <2>2 DEF BackendsChanged, Service!Stop, state
  <2> QED
    BY <2>3 DEF Service!ServiceNext
<1>16. CASE Exit
  <2> DEFINE read == {c \in AllCalls : phase[c] = "queued"}
             gone == read \cup {c \in AllCalls : state[c] = "served"}
  <2>1. ASSUME NEW c \in AllCalls
        PROVE  /\ state'[c] = IF c \in gone THEN "over" ELSE state[c]
               /\ reply'[c] = IF c \in gone /\ reply[c] = "none" THEN "lost" ELSE reply[c]
               /\ c \in read => state[c] = "asked"
    <3>1. phase[c] \in Phases BY <1>0 DEF TypeOK
    <3>2. state[c] = StateOf(phase[c]) /\ state'[c] = StateOf(phase'[c])
      BY <1>0 DEF state
    <3>3. /\ phase'[c] = IF phase[c] \in {"new", "sent"} THEN phase[c] ELSE "done"
          /\ reply'[c] = IF phase[c] \notin {"new", "sent"} /\ reply[c] = "none" THEN "lost"
                         ELSE reply[c]
      BY <1>16 DEF Exit
    <3>4. phase[c] = "done" => reply[c] # "none"
      BY <1>0 DEF RepliedIsOver
    <3>5. c \in gone <=> phase[c] \in {"queued"} \cup ThreadPhases
      BY <3>1, <3>2 DEF StateOf, Phases, ThreadPhases
    <3>6. phase[c] \notin {"new", "sent"} <=> c \in gone \/ phase[c] = "done"
      BY <3>1, <3>5 DEF Phases, ThreadPhases
    <3>7. c \in read => state[c] = "asked"
      BY <3>2 DEF StateOf
    <3> HIDE DEF gone, read
    <3>8. state'[c] = IF c \in gone THEN "over" ELSE state[c]
      BY <3>1, <3>2, <3>3, <3>5, <3>6 DEF StateOf, Phases, ThreadPhases
    <3> QED
      BY <3>3, <3>4, <3>6, <3>7, <3>8
  <2>2. read \in SUBSET {c \in AllCalls : state[c] = "asked"}
    BY <2>1
  <2> HIDE DEF read
  <2>3. /\ state' = [c \in AllCalls |-> IF c \in gone THEN "over" ELSE state[c]]
        /\ reply' = [c \in AllCalls |-> IF c \in gone /\ reply[c] = "none" THEN "lost"
                                        ELSE reply[c]]
    <3>1. state' = [c \in AllCalls |-> state'[c]] BY DEF state
    <3>2. reply' = [c \in AllCalls |-> reply'[c]] BY <1>16 DEF Exit
    <3> HIDE DEF gone
    <3> QED BY <2>1, <3>1, <3>2
  <2>4. Service!End
    BY <1>0, <1>16, <2>2, <2>3 DEF Exit, Service!End, state
  <2> QED
    BY <2>4 DEF Service!ServiceNext
<1>17. CASE Restart
  <2>1. Service!Begin
    BY <1>17 DEF Restart, Service!Begin, state
  <2> QED
    BY <2>1 DEF Service!ServiceNext
<1>18. CASE UNCHANGED vars
  BY <1>18, ServiceSame DEF vars, process, state
<1> QED
  BY <1>1, <1>2, <1>4, <1>6, <1>7, <1>11, <1>12, <1>13, <1>14, <1>15, <1>16, <1>17, <1>18
     DEF Next, CallStep, ManagerCallStep

\* The process implements the abstract service: whatever a caller sees of
\* threads, counters, timer and restarts is a service that admits exactly as
\* many calls as its limits allow and answers each of them once.
THEOREM ServiceImplemented == Spec => ServiceKept
  BY ServiceStart, ServiceStep, Invariance, PTL DEF Spec, ServiceKept, Service!ServiceSafety
=============================================================================
