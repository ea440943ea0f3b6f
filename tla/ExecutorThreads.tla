--------------------------- MODULE ExecutorThreads ---------------------------
(***************************************************************************)
(* The service process alterator-manager seen from its main loop: method   *)
(* calls come from the bus, calls of the executor module get a thread of   *)
(* their own if the thread limits allow it, calls of the manager's own     *)
(* interface get an uncounted thread, and the once-a-second timer ends the *)
(* process when a backend directory changed and no module is busy, after   *)
(* which systemd starts a new process.                                     *)
(*                                                                         *)
(* One action is one stretch of code between two points where another      *)
(* thread can be seen: a critical section of global_mutex, a reply, or a   *)
(* dispatch of the main loop. What a thread does while its command runs is *)
(* the subject of module ExecutorCall.                                     *)
(***************************************************************************)
EXTENDS Integers, FiniteSets

CONSTANTS
  Calls,           \* invocations of methods served by the executor
  ManagerCalls,    \* invocations of org.altlinux.alterator.manager methods
  Methods,         \* MethodInfo entries of methods_table
  Interfaces,      \* InterfaceInfo entries of methods_table
  MethodOf,        \* Calls -> Methods
  InterfaceOf,     \* Methods -> Interfaces
  MethodLimit,     \* MethodInfo.thread_limit
  InterfaceLimit,  \* InterfaceInfo.thread_limit
  MaxChanges       \* bound: changes of the backend directories

ASSUME CallsAssumption ==
  /\ IsFiniteSet(Calls)
  /\ Calls \cap ManagerCalls = {}
  /\ MethodOf \in [Calls -> Methods]
  /\ InterfaceOf \in [Methods -> Interfaces]

ASSUME LimitsAssumption ==
  /\ MethodLimit \in [Methods -> Nat \ {0}]
  /\ InterfaceLimit \in [Interfaces -> Nat \ {0}]
  /\ MaxChanges \in Nat

VARIABLES
  up,                \* the process runs
  uncounted,         \* the call whose thread the main thread has started and
                     \* not yet counted: a singleton, or {} in the main loop
  quit,              \* g_main_loop_quit was called
  lastBatch,         \* calls ready in the iteration that called quit
  backends_changed,  \* flag of the backend monitor
  changes,           \* directory changes so far
  phase,             \* position of each call
  reply,             \* what the caller got
  method_counter,    \* MethodInfo.thread_counter
  interface_counter, \* InterfaceInfo.thread_counter
  global_counter     \* global_thread_counter

counters == <<method_counter, interface_counter, global_counter>>
monitor == <<backends_changed, changes>>
process == <<up, quit, lastBatch>>
vars == <<process, uncounted, monitor, phase, reply, counters>>

AllCalls == Calls \cup ManagerCalls

\* Phases of a call. "sent": on the bus; "queued": read by the process, its
\* handler not dispatched yet; "release": answered, counters not yet lowered.
ThreadPhases == {"auth", "parse", "spawn", "run", "release"}
Phases == {"new", "sent", "queued", "done"} \cup ThreadPhases
Replies == {"none", "busy", "denied", "failed", "value", "lost"}

\* Executor threads that exist and are not yet discounted.
LiveCalls == {c \in Calls : phase[c] \in ThreadPhases}
LiveOfMethod(m) == {c \in LiveCalls : MethodOf[c] = m}
LiveOfInterface(i) == {c \in LiveCalls : InterfaceOf[MethodOf[c]] = i}
UncountedOfMethod(m) == {c \in uncounted : MethodOf[c] = m}
UncountedOfInterface(i) == {c \in uncounted : InterfaceOf[MethodOf[c]] = i}

Init ==
  /\ up = TRUE
  /\ uncounted = {}
  /\ quit = FALSE
  /\ lastBatch = {}
  /\ backends_changed = FALSE
  /\ changes = 0
  /\ phase = [c \in AllCalls |-> "new"]
  /\ reply = [c \in AllCalls |-> "none"]
  /\ method_counter = [m \in Methods |-> 0]
  /\ interface_counter = [i \in Interfaces |-> 0]
  /\ global_counter = 0

-----------------------------------------------------------------------------
(* Clients and the bus.                                                    *)

Send(c) ==
  /\ phase[c] = "new"
  /\ phase' = [phase EXCEPT ![c] = "sent"]
  /\ UNCHANGED <<process, uncounted, monitor, reply, counters>>

\* The GDBus worker of the process reads the message and queues its handler.
Deliver(c) ==
  /\ up
  /\ phase[c] = "sent"
  /\ phase' = [phase EXCEPT ![c] = "queued"]
  /\ UNCHANGED <<process, uncounted, monitor, reply, counters>>

-----------------------------------------------------------------------------
(* The main thread.                                                        *)

\* Mutant: every call is handled in a thread of its own.
DispatchableParallel(c) ==
  /\ up
  /\ phase[c] = "queued"
  /\ quit => c \in lastBatch

\* The main loop may dispatch the handler of c: it has not quit, or c was
\* already ready in the iteration in which it quits.
Dispatchable(c) ==
  /\ up
  /\ uncounted = {}
  /\ phase[c] = "queued"
  /\ quit => c \in lastBatch

\* Mutant: > for >=.
LimitExceeded(m) ==
  \/ interface_counter[InterfaceOf[m]] > InterfaceLimit[InterfaceOf[m]]
  \/ method_counter[m] > MethodLimit[m]

\* is_thread_limit_reached(), under global_mutex.
LimitReached(m) ==
  \/ interface_counter[InterfaceOf[m]] >= InterfaceLimit[InterfaceOf[m]]
  \/ method_counter[m] >= MethodLimit[m]

\* Mutant: the refused caller gets no answer.
RejectCallSilently(c) ==
  /\ Dispatchable(c)
  /\ LimitReached(MethodOf[c])
  /\ phase' = [phase EXCEPT ![c] = "done"]
  /\ UNCHANGED <<process, uncounted, monitor, reply, counters>>

\* handle_method_call() of the executor, the thread limit is reached.
RejectCall(c) ==
  /\ Dispatchable(c)
  /\ LimitReached(MethodOf[c])
  /\ phase' = [phase EXCEPT ![c] = "done"]
  /\ reply' = [reply EXCEPT ![c] = "busy"]
  /\ UNCHANGED <<process, uncounted, monitor, counters>>

\* handle_method_call() of the executor up to g_thread_new().
StartThread(c) ==
  /\ Dispatchable(c)
  /\ ~ LimitReached(MethodOf[c])
  /\ phase' = [phase EXCEPT ![c] = "auth"]
  /\ uncounted' = uncounted \cup {c}
  /\ UNCHANGED <<process, monitor, reply, counters>>

\* The rest of handle_method_call(): the new thread is counted, it may have
\* run for any time already.
CountThread(c) ==
  /\ up
  /\ c \in uncounted
  /\ uncounted' = uncounted \ {c}
  /\ interface_counter' = [interface_counter EXCEPT ![InterfaceOf[MethodOf[c]]] = @ + 1]
  /\ method_counter' = [method_counter EXCEPT ![MethodOf[c]] = @ + 1]
  /\ global_counter' = global_counter + 1
  /\ UNCHANGED <<process, monitor, phase, reply>>

\* handle_method_call() of the manager interface: an uncounted thread.
StartHandler(c) ==
  /\ Dispatchable(c)
  /\ phase' = [phase EXCEPT ![c] = "auth"]
  /\ UNCHANGED <<process, uncounted, monitor, reply, counters>>

\* A GFileMonitor of a backend directory reports: change_flag().
ChangeFlag ==
  /\ up /\ uncounted = {} /\ ~ quit
  /\ changes < MaxChanges
  /\ changes' = changes + 1
  /\ backends_changed' = TRUE
  /\ UNCHANGED <<process, uncounted, phase, reply, counters>>

\* Mutant: off by one.
ModulesAreBusyOffByOne == global_counter > 1

\* is_module_busy() of the executor, the only module of the model.
ModulesAreBusy == global_counter > 0

\* Mutant: the modules are not asked.
BackendsChangedAnyway ==
  /\ up /\ uncounted = {} /\ ~ quit
  /\ backends_changed
  /\ quit' = TRUE
  /\ lastBatch' = {}
  /\ UNCHANGED <<up, uncounted, monitor, phase, reply, counters>>

\* The timer alterator_manager_backend_monitor_backends_changed() decides to
\* stop. Handlers that are ready in the same iteration may still run.
BackendsChanged ==
  /\ up /\ uncounted = {} /\ ~ quit
  /\ backends_changed
  /\ ~ ModulesAreBusy
  /\ quit' = TRUE
  /\ \E ready \in SUBSET {c \in AllCalls : phase[c] = "queued"} : lastBatch' = ready
  /\ UNCHANGED <<up, uncounted, monitor, phase, reply, counters>>

\* main() returns: the process and its threads end. The bus answers for the
\* calls the process had read and not answered.
Exit ==
  /\ up /\ uncounted = {} /\ quit
  /\ up' = FALSE
  /\ phase' = [c \in AllCalls |-> IF phase[c] \in {"new", "sent"} THEN phase[c] ELSE "done"]
  /\ reply' = [c \in AllCalls |->
       IF phase[c] \notin {"new", "sent"} /\ reply[c] = "none" THEN "lost" ELSE reply[c]]
  /\ UNCHANGED <<quit, lastBatch, uncounted, monitor, counters>>

\* systemd starts the service again (Restart=on-success): main() from the top.
Restart ==
  /\ ~ up
  /\ up' = TRUE
  /\ quit' = FALSE
  /\ lastBatch' = {}
  /\ backends_changed' = FALSE
  /\ method_counter' = [m \in Methods |-> 0]
  /\ interface_counter' = [i \in Interfaces |-> 0]
  /\ global_counter' = 0
  /\ UNCHANGED <<uncounted, changes, phase, reply>>

-----------------------------------------------------------------------------
(* Executor threads: execute_command_line().                               *)

Thread(c, from, to) ==
  /\ up
  /\ phase[c] = from
  /\ phase' = [phase EXCEPT ![c] = to]
  /\ UNCHANGED <<process, uncounted, monitor, counters>>

Answer(c, r) == reply' = [reply EXCEPT ![c] = r]

\* Mutant: a denied call returns without lowering the counters.
AuthorizeLeaking(c) ==
  \/ Thread(c, "auth", "parse") /\ UNCHANGED reply
  \/ Thread(c, "auth", "done") /\ Answer(c, "denied")

\* Mutant: a denied call is answered and executed all the same.
AuthorizeFallingThrough(c) ==
  \/ Thread(c, "auth", "parse") /\ UNCHANGED reply
  \/ Thread(c, "auth", "parse") /\ Answer(c, "denied")

\* authorization_check(). In user mode it always succeeds: the first case.
Authorize(c) ==
  \/ Thread(c, "auth", "parse") /\ UNCHANGED reply
  \/ Thread(c, "auth", "release") /\ Answer(c, "denied")

\* g_shell_parse_argv() of the command line.
ParseArgv(c) ==
  \/ Thread(c, "parse", "spawn") /\ UNCHANGED reply
  \/ Thread(c, "parse", "release") /\ Answer(c, "failed")

\* g_spawn_async_with_pipes().
Spawn(c) ==
  \/ Thread(c, "spawn", "run") /\ UNCHANGED reply
  \/ Thread(c, "spawn", "release") /\ Answer(c, "failed")

\* The child and its streams are done: return_value_and_free_child_data()
\* up to global_mutex.
ReturnValue(c) == Thread(c, "run", "release") /\ Answer(c, "value")

\* Mutant: the interface is not discounted.
ReleaseMethodOnly(c) ==
  /\ up
  /\ phase[c] = "release"
  /\ phase' = [phase EXCEPT ![c] = "done"]
  /\ method_counter' = [method_counter EXCEPT ![MethodOf[c]] = @ - 1]
  /\ global_counter' = global_counter - 1
  /\ UNCHANGED <<process, uncounted, monitor, reply, interface_counter>>

\* Mutant: the global counter is not lowered.
ReleaseNotGlobal(c) ==
  /\ up
  /\ phase[c] = "release"
  /\ phase' = [phase EXCEPT ![c] = "done"]
  /\ interface_counter' = [interface_counter EXCEPT ![InterfaceOf[MethodOf[c]]] = @ - 1]
  /\ method_counter' = [method_counter EXCEPT ![MethodOf[c]] = @ - 1]
  /\ UNCHANGED <<process, uncounted, monitor, reply, global_counter>>

\* The critical section every path of the thread ends with.
Release(c) ==
  /\ up
  /\ phase[c] = "release"
  /\ phase' = [phase EXCEPT ![c] = "done"]
  /\ interface_counter' = [interface_counter EXCEPT ![InterfaceOf[MethodOf[c]]] = @ - 1]
  /\ method_counter' = [method_counter EXCEPT ![MethodOf[c]] = @ - 1]
  /\ global_counter' = global_counter - 1
  /\ UNCHANGED <<process, uncounted, monitor, reply>>

\* The thread of a manager method: handler(). It answers an error, or a value.
HandlerReply(c) ==
  /\ Thread(c, "auth", "done")
  /\ \/ Answer(c, "denied")
     \/ Answer(c, "value")

-----------------------------------------------------------------------------
ThreadStep(c) == Authorize(c) \/ ParseArgv(c) \/ Spawn(c) \/ ReturnValue(c) \/ Release(c)

CallStep(c) == RejectCall(c) \/ StartThread(c) \/ CountThread(c) \/ ThreadStep(c)

ManagerCallStep(c) == StartHandler(c) \/ HandlerReply(c)

Next ==
  \/ \E c \in AllCalls : Send(c) \/ Deliver(c)
  \/ \E c \in Calls : CallStep(c)
  \/ \E c \in ManagerCalls : ManagerCallStep(c)
  \/ ChangeFlag
  \/ BackendsChanged
  \/ Exit
  \/ Restart

Spec == Init /\ [][Next]_vars

\* The bus delivers, the main loop dispatches every ready source, threads are
\* scheduled and their blocking calls (polkit, the child) come back, the timer
\* fires and systemd restarts the service. Clients and file changes are free.
Fairness ==
  /\ \A c \in AllCalls : WF_vars(Deliver(c))
  /\ \A c \in Calls : /\ WF_vars(RejectCall(c) \/ StartThread(c))
                      /\ WF_vars(CountThread(c))
                      /\ WF_vars(ThreadStep(c))
  /\ \A c \in ManagerCalls : WF_vars(StartHandler(c)) /\ WF_vars(HandlerReply(c))
  /\ WF_vars(BackendsChanged)
  /\ WF_vars(Exit)
  /\ WF_vars(Restart)

FairSpec == Spec /\ Fairness

-----------------------------------------------------------------------------
(* Properties.                                                             *)

\* Every variable keeps its type, and the main thread handles one call at a
\* time. The counters are integers, not naturals: a
\* thread may be discounted before handle_method_call() has counted it.
TypeOK ==
  /\ up \in BOOLEAN
  /\ quit \in BOOLEAN
  /\ lastBatch \in SUBSET AllCalls
  /\ uncounted \in SUBSET Calls /\ Cardinality(uncounted) <= 1
  /\ backends_changed \in BOOLEAN
  /\ changes \in Nat
  /\ phase \in [AllCalls -> Phases]
  /\ reply \in [AllCalls -> Replies]
  /\ method_counter \in [Methods -> Int]
  /\ interface_counter \in [Interfaces -> Int]
  /\ global_counter \in Int

\* The three thread counters of executor.c count the executor threads exactly,
\* but for the one thread handle_method_call() has started and not counted.
CounterAccuracy ==
  up =>
    /\ \A m \in Methods :
         method_counter[m] = Cardinality(LiveOfMethod(m)) - Cardinality(UncountedOfMethod(m))
    /\ \A i \in Interfaces :
         interface_counter[i] = Cardinality(LiveOfInterface(i)) - Cardinality(UncountedOfInterface(i))
    /\ global_counter = Cardinality(LiveCalls) - Cardinality(uncounted)

\* thread_limit holds although g_thread_new() runs before the counters are
\* raised: never more threads of a method or of an interface than its limit.
ThreadLimitRespected ==
  /\ \A m \in Methods : Cardinality(LiveOfMethod(m)) <= MethodLimit[m]
  /\ \A i \in Interfaces : Cardinality(LiveOfInterface(i)) <= InterfaceLimit[i]

\* The timer stops the main loop only when no executor thread exists, counted
\* or not: is_module_busy() is not fooled by the late counting.
QuitOnlyWhenIdle == [][~ quit /\ quit' => LiveCalls = {}]_vars

\* When the process ends, the only executor threads it takes along are those
\* of handlers that ran after the decision to stop, in the same iteration of
\* the main loop.
AcceptedCallsSurvive ==
  [][\A c \in Calls : phase[c] \in ThreadPhases /\ reply[c] = "none" /\ reply'[c] = "lost"
                       => c \in lastBatch]_vars

\* "Thread limit reached." is answered only when as many threads as the limit
\* allows exist, for the method or for its interface.
RejectionJustified ==
  [][\A c \in Calls : reply[c] = "none" /\ reply'[c] = "busy" =>
       LET m == MethodOf[c]
           i == InterfaceOf[m]
       IN  \/ Cardinality(LiveOfMethod(m)) >= MethodLimit[m]
           \/ Cardinality(LiveOfInterface(i)) >= InterfaceLimit[i]]_vars

\* What a caller sees of the position of a call.
StateOf(p) ==
  IF p = "new" THEN "idle"
  ELSE IF p \in {"sent", "queued"} THEN "asked"
  ELSE IF p \in ThreadPhases THEN "served" ELSE "over"

Service == INSTANCE ExecutorService
  WITH running  <- up,
       stopping <- quit,
       last     <- lastBatch,
       state    <- [c \in AllCalls |-> StateOf(phase[c])],
       answer   <- reply

\* Threads that are counted late, critical sections and the last iteration of
\* the main loop are a service that admits calls by the number it serves: the
\* counters are never off when a call is admitted or refused, every exit of
\* execute_command_line() answers once and gives its place back once, and a
\* process never goes with a call that it served when it decided to stop.
ServiceKept == Service!ServiceSafety

\* Every call that was sent is answered, by the service or by the bus after the
\* process has gone: no thread, counter or restart leaves a caller waiting.
EveryCallEnds == \A c \in AllCalls : (phase[c] = "sent") ~> (reply[c] # "none")

\* main.c: "If a change occurs in one of the directories with backend files,
\* the service will be stopped." It is, once the calls in progress are over.
ChangeStopsService == backends_changed ~> ~ up
=============================================================================
