------------------------------- MODULE Backend3 -------------------------------
(***************************************************************************)
(* Legacy backends (alterator-module-backend3): one child process for each *)
(* backend name, started by the first call that needs it, with a thread    *)
(* that runs a loop for its output, its exit and its timeouts. A call has  *)
(* a thread that takes the child's mutex if it is free, writes the request *)
(* and waits in a loop of its own until a callback of the child's loop     *)
(* quits it.                                                               *)
(*                                                                         *)
(* The main thread of the service handles the calls and the timer that     *)
(* stops the service when backend files change and no module is busy. A    *)
(* ChildData is named by the call that created it.                         *)
(*                                                                         *)
(* A use of freed memory goes on with the old contents; the process may    *)
(* crash at any time after it.                                             *)
(***************************************************************************)
EXTENDS Naturals, Sequences

CONSTANTS
  Calls,      \* calls of backend3 methods
  Backends,   \* names of backends
  BackendOf,  \* Calls -> Backends, or None for a name that is not known
  None        \* no call

ASSUME Backend3Assumption ==
  /\ None \notin Calls \cup Backends
  /\ BackendOf \in [Calls -> Backends \cup {None}]

VARIABLES
  service,   \* "up", "stopped" by the timer, or "crashed"
  changed,   \* backends_changed
  main,      \* main thread: "loop", "check" or "wait" for a new child's loop, "stuck"
  starting,  \* the call for which the main thread starts a child
  leaked,    \* backend3_table_mutex is held and nobody will release it
  table,     \* backend3_table: the ChildData of each backend
  proc,      \* child process: "none", "alive", "zombie" or "reaped"
  inbox,     \* requests written to the child and not yet answered
  out,       \* what is in the child's stdout: nothing, part of a reply or the rest
  cloop,     \* position of the child's thread
  owner,     \* who holds ChildData.mutex
  current,   \* ChildData.method_data
  freed,     \* the ChildData was freed
  pc,        \* position of the thread of each call
  ref,       \* the ChildData it looked up
  running,   \* the loop of the call runs
  reply,     \* the first answer to the call
  again,     \* calls that were answered a second time
  answered,  \* the request the value given to a call is the reply to
  lost,      \* ghost: calls whose loop was quit before it ran
  missed,    \* ghost: calls entered in a child whose loop has quit or has not begun
  uaf        \* ghost: children of which freed memory was used

mainVars == <<service, changed, main, starting, leaked>>
childVars == <<proc, inbox, out, cloop>>
sharedVars == <<table, owner, current, freed>>
callVars == <<pc, ref>>
answerVars == <<running, reply, again, answered>>
ghosts == <<lost, missed, uaf>>
vars == <<mainVars, childVars, sharedVars, callVars, answerVars, ghosts>>

Init ==
  /\ service = "up"
  /\ changed = FALSE
  /\ main = "loop"
  /\ starting = None
  /\ leaked = FALSE
  /\ table = [b \in Backends |-> None]
  /\ proc = [k \in Calls |-> "none"]
  /\ inbox = [k \in Calls |-> <<>>]
  /\ out = [k \in Calls |-> "empty"]
  /\ cloop = [k \in Calls |-> "none"]
  /\ owner = [k \in Calls |-> None]
  /\ current = [k \in Calls |-> None]
  /\ freed = [k \in Calls |-> FALSE]
  /\ pc = [c \in Calls |-> "new"]
  /\ ref = [c \in Calls |-> None]
  /\ running = [c \in Calls |-> TRUE]
  /\ reply = [c \in Calls |-> "none"]
  /\ again = {}
  /\ answered = [c \in Calls |-> None]
  /\ lost = {}
  /\ missed = {}
  /\ uaf = {}

Goto(c, from, to) == pc[c] = from /\ pc' = [pc EXCEPT ![c] = to]

\* A reply to the invocation of c: the first one, or one too many.
Answer(c, r) ==
  /\ reply' = IF reply[c] = "none" THEN [reply EXCEPT ![c] = r] ELSE reply
  /\ again' = IF reply[c] = "none" THEN again ELSE again \cup {c}

-----------------------------------------------------------------------------
(* The main thread.                                                        *)

\* handle_method_call(): the object, interface, method or backend is wrong.
RefuseCall(c) ==
  /\ main = "loop"
  /\ BackendOf[c] = None
  /\ Goto(c, "new", "done")
  /\ Answer(c, "wrong")
  /\ UNCHANGED <<mainVars, childVars, sharedVars, ref, running, answered, ghosts>>

\* The backend runs: a thread for the call.
StartCall(c) ==
  /\ main = "loop" /\ ~ leaked
  /\ BackendOf[c] # None /\ table[BackendOf[c]] # None
  /\ Goto(c, "new", "auth")
  /\ UNCHANGED <<mainVars, childVars, sharedVars, ref, answerVars, ghosts>>

\* The backend does not run and start_backend3() fails.
FailStart(c) ==
  /\ main = "loop" /\ ~ leaked
  /\ BackendOf[c] # None /\ table[BackendOf[c]] = None
  /\ Goto(c, "new", "done")
  /\ Answer(c, "not started")
  /\ UNCHANGED <<mainVars, childVars, sharedVars, ref, running, answered, ghosts>>

\* The backend does not run: it is started, entered in the table, and gets a
\* thread, whose loop the main thread is going to wait for.
StartBackend3(c) ==
  /\ main = "loop" /\ ~ leaked
  /\ BackendOf[c] # None /\ table[BackendOf[c]] = None
  /\ Goto(c, "new", "starting")
  /\ table' = [table EXCEPT ![BackendOf[c]] = c]
  /\ proc' = [proc EXCEPT ![c] = "alive"]
  /\ cloop' = [cloop EXCEPT ![c] = "starting"]
  /\ main' = "check"
  /\ starting' = c
  /\ UNCHANGED <<service, changed, leaked, inbox, out, owner, current, freed, ref, answerVars,
                 ghosts>>

\* g_main_loop_is_running() of the child's loop.
ChildLoopRuns(k) == cloop[k] \in {"first", "running", "reading"}

\* ChildData k is used, although it may be freed.
Touch(k) == uaf' = IF freed[k] THEN uaf \cup {k} ELSE uaf

\* "We wait until the child's main loop starts": under the child's mutex, the
\* loop runs at the moment of the check and the call gets its thread ...
LoopStarted ==
  /\ main = "check" /\ owner[starting] = None
  /\ ChildLoopRuns(starting)
  /\ main' = "loop"
  /\ starting' = None
  /\ Goto(starting, "starting", "auth")
  /\ Touch(starting)
  /\ UNCHANGED <<service, changed, leaked, childVars, sharedVars, ref, answerVars, lost, missed>>

\* ... or it does not, and the main thread waits for the condition.
CondWait ==
  /\ main = "check" /\ owner[starting] = None
  /\ ~ ChildLoopRuns(starting)
  /\ main' = "wait"
  /\ Touch(starting)
  /\ UNCHANGED <<service, changed, starting, leaked, childVars, sharedVars, callVars, answerVars,
                 lost, missed>>

\* change_flag() of the backend monitor.
ChangeFlag ==
  /\ main = "loop"
  /\ ~ changed
  /\ changed' = TRUE
  /\ UNCHANGED <<service, main, starting, leaked, childVars, sharedVars, callVars, answerVars,
                 ghosts>>

IsModuleBusy == \E b \in Backends : table[b] # None /\ current[table[b]] # None

\* The timer: is_module_busy() returns TRUE and keeps backend3_table_mutex.
TimerBusy ==
  /\ main = "loop" /\ ~ leaked
  /\ changed /\ IsModuleBusy
  /\ leaked' = TRUE
  /\ UNCHANGED <<service, changed, main, starting, childVars, sharedVars, callVars, answerVars,
                 ghosts>>

\* The timer: no module is busy, the process ends.
TimerStops ==
  /\ main = "loop" /\ ~ leaked
  /\ changed /\ ~ IsModuleBusy
  /\ service' = "stopped"
  /\ UNCHANGED <<changed, main, starting, leaked, childVars, sharedVars, callVars, answerVars,
                 ghosts>>

\* The main thread locks backend3_table_mutex, for a call or in the timer, and
\* never gets it.
MainBlocks ==
  /\ main = "loop" /\ leaked
  /\ changed \/ \E c \in Calls : pc[c] = "new" /\ BackendOf[c] # None
  /\ main' = "stuck"
  /\ UNCHANGED <<service, changed, starting, leaked, childVars, sharedVars, callVars, answerVars,
                 ghosts>>

-----------------------------------------------------------------------------
(* The thread of a call: run_method().                                     *)

Authorize(c) ==
  /\ \/ Goto(c, "auth", "lookup") /\ UNCHANGED <<reply, again>>
     \/ Goto(c, "auth", "done") /\ Answer(c, "denied")
  /\ UNCHANGED <<mainVars, childVars, sharedVars, ref, running, answered, ghosts>>

\* The child is looked up under backend3_table_mutex ...
Lookup(c) ==
  /\ pc[c] = "lookup" /\ ~ leaked
  /\ LET k == table[BackendOf[c]]
     IN  IF k = None
         THEN /\ Goto(c, "lookup", "done")
              /\ Answer(c, "not in table")
              /\ UNCHANGED ref
         ELSE /\ Goto(c, "lookup", "trylock")
              /\ ref' = [ref EXCEPT ![c] = k]
              /\ UNCHANGED <<reply, again>>
  /\ UNCHANGED <<mainVars, childVars, sharedVars, running, answered, ghosts>>

\* A method holds the child's mutex, or the main thread or the child's thread
\* does for a moment.
MaybeLocked(k) ==
  \/ owner[k] # None
  \/ main = "check" /\ starting = k
  \/ cloop[k] \in {"first", "quit"}

\* ... and used after it was released.
Busy(c) ==
  /\ pc[c] = "trylock" /\ MaybeLocked(ref[c])
  /\ Goto(c, "trylock", "done")
  /\ Answer(c, "busy")
  /\ Touch(ref[c])
  /\ UNCHANGED <<mainVars, childVars, sharedVars, ref, running, answered, lost, missed>>

\* Enters the call as the child's method, with its timeout.
Enter(c) ==
  /\ owner' = [owner EXCEPT ![ref[c]] = c]
  /\ current' = [current EXCEPT ![ref[c]] = c]
  /\ missed' = IF cloop[ref[c]] \in {"running", "reading"} THEN missed ELSE missed \cup {c}
  /\ Touch(ref[c])
  /\ UNCHANGED <<mainVars, childVars, table, freed, ref, answerVars, lost>>

\* Mutant: the mutex is not tried.
TakeChildAnyway(c) ==
  /\ Goto(c, "trylock", "write")
  /\ Enter(c)

TakeChild(c) ==
  /\ Goto(c, "trylock", "write")
  /\ owner[ref[c]] = None
  /\ Enter(c)

\* write_to_stdin(): the request, if there is still somebody to read it.
WriteToStdin(c) ==
  /\ Goto(c, "write", "run")
  /\ inbox' = IF proc[ref[c]] = "alive" THEN [inbox EXCEPT ![ref[c]] = Append(@, c)] ELSE inbox
  /\ Touch(ref[c])
  /\ UNCHANGED <<mainVars, proc, out, cloop, sharedVars, ref, answerVars, lost, missed>>

\* g_main_loop_run(): a quit that came before is forgotten.
RunLoop(c) ==
  /\ Goto(c, "run", "running")
  /\ running' = [running EXCEPT ![c] = TRUE]
  /\ lost' = IF running[c] THEN lost ELSE lost \cup {c}
  /\ UNCHANGED <<mainVars, childVars, sharedVars, ref, reply, again, answered, missed, uaf>>

\* The loop was quit: method_data is freed, with its timeout ...
FreeMethodData(c) ==
  /\ ~ running[c]
  /\ Goto(c, "running", "freed")
  /\ UNCHANGED <<mainVars, childVars, sharedVars, ref, answerVars, ghosts>>

\* ... and then taken out of the ChildData, whose mutex is released.
LeaveChild(c) ==
  /\ Goto(c, "freed", "done")
  /\ current' = [current EXCEPT ![ref[c]] = None]
  /\ owner' = [owner EXCEPT ![ref[c]] = None]
  /\ Touch(ref[c])
  /\ UNCHANGED <<mainVars, childVars, table, freed, ref, answerVars, lost, missed>>

-----------------------------------------------------------------------------
(* The child process (external).                                           *)

\* It writes a reply to its oldest request, whole or in two parts, and nothing
\* unasked: a reply that is not well formed may end a call early and leave its
\* rest to the next one.
ChildReply(k) ==
  /\ proc[k] = "alive"
  /\ inbox[k] # <<>>
  /\ \/ out[k] = "empty" /\ out' = [out EXCEPT ![k] = "part"]
     \/ out[k] # "rest" /\ out' = [out EXCEPT ![k] = "rest"]
  /\ UNCHANGED <<mainVars, proc, inbox, cloop, sharedVars, callVars, answerVars, ghosts>>

\* It ends, or closes its output, upon which on_child_stdout() kills it.
ChildExit(k) ==
  /\ proc[k] = "alive"
  /\ proc' = [proc EXCEPT ![k] = "zombie"]
  /\ UNCHANGED <<mainVars, inbox, out, cloop, sharedVars, callVars, answerVars, ghosts>>

-----------------------------------------------------------------------------
(* The thread of a child: backend3_thread() and the callbacks of its loop. *)

CGoto(k, from, to) == cloop[k] = from /\ cloop' = [cloop EXCEPT ![k] = to]

RunChildLoop(k) ==
  /\ CGoto(k, "starting", "first")
  /\ UNCHANGED <<mainVars, proc, inbox, out, sharedVars, callVars, answerVars, ghosts>>

\* for_cond_signal(), the first source of the first iteration, takes the mutex.
ForCondSignal(k) ==
  /\ owner[k] = None
  /\ CGoto(k, "first", "running")
  /\ main' = IF main = "wait" /\ starting = k THEN "check" ELSE main
  /\ UNCHANGED <<service, changed, starting, leaked, proc, inbox, out, sharedVars, callVars,
                 answerVars, ghosts>>

\* A callback that uses the child's method_data, which may be freed already.
TouchMethod(k) ==
  uaf' = IF current[k] # None /\ pc[current[k]] = "freed" THEN uaf \cup {k} ELSE uaf

Quit(c) == running' = [running EXCEPT ![c] = FALSE]

\* on_child_stdout() with a part of a reply: g_io_channel_read_line() waits for
\* the rest, and the loop with it.
ReadPart(k) ==
  /\ out[k] = "part" /\ proc[k] = "alive"
  /\ CGoto(k, "running", "reading")
  /\ UNCHANGED <<mainVars, proc, inbox, out, sharedVars, callVars, answerVars, ghosts>>

\* on_child_stdout() is dispatched, or was waiting for the rest of a line. It is
\* dispatched last in an iteration, be it the last one of the loop.
Stdout(k) ==
  /\ cloop[k] \in {"running", "reading", "last"}
  /\ cloop' = [cloop EXCEPT ![k] = IF @ = "last" THEN "quit" ELSE "running"]

\* The child ended in the middle of its reply: the line is complete as it is,
\* but the reply is not.
ReadBroken(k) ==
  /\ out[k] = "part" /\ proc[k] # "alive"
  /\ Stdout(k)
  /\ out' = [out EXCEPT ![k] = "empty"]
  /\ TouchMethod(k)
  /\ UNCHANGED <<mainVars, proc, inbox, sharedVars, callVars, answerVars, lost, missed>>

\* The reply is complete: it is sent and the caller's loop is quit.
Finish(k, c) ==
  /\ Answer(c, "value")
  /\ answered' = [answered EXCEPT ![c] = Head(inbox[k])]
  /\ Quit(c)

\* on_child_stdout() with a whole reply, or the rest of one. What is read while
\* no method is entered is thrown away.
ReadReply(k) ==
  /\ out[k] = "rest"
  /\ Stdout(k)
  /\ out' = [out EXCEPT ![k] = "empty"]
  /\ inbox' = [inbox EXCEPT ![k] = Tail(@)]
  /\ IF current[k] # None /\ answered[current[k]] = None
     THEN Finish(k, current[k]) ELSE UNCHANGED answerVars
  /\ TouchMethod(k)
  /\ UNCHANGED <<mainVars, proc, sharedVars, callVars, lost, missed>>

\* Mutant: the caller's loop is not asked whether it runs.
TellCallerAnyway(c) == Answer(c, "down") /\ Quit(c) /\ UNCHANGED answered

\* Mutant: the answer is sent and the caller's loop goes on.
TellCallerSilently(c) ==
  IF running[c] THEN Answer(c, "down") /\ UNCHANGED <<running, answered>>
  ELSE UNCHANGED answerVars

\* "Error: backend3 is down." for a caller whose loop runs.
TellCaller(c) ==
  IF running[c] THEN Answer(c, "down") /\ Quit(c) /\ UNCHANGED answered
  ELSE UNCHANGED answerVars

\* Mutant: the timeout ends the loop without waiting for the process.
MethodTimeoutQuits(k) ==
  /\ CGoto(k, "running", "quit")
  /\ current[k] # None /\ pc[current[k]] \in {"write", "run", "running"}
  /\ proc[k] = "alive"
  /\ proc' = [proc EXCEPT ![k] = "zombie"]
  /\ TellCaller(current[k])
  /\ UNCHANGED <<mainVars, inbox, out, sharedVars, callVars, ghosts>>

\* kill_by_pid(), from the method's timeout.
MethodTimeout(k) ==
  /\ cloop[k] = "running"
  /\ current[k] # None /\ pc[current[k]] \in {"write", "run", "running"}
  /\ proc[k] = "alive"
  /\ proc' = [proc EXCEPT ![k] = "zombie"]
  /\ UNCHANGED <<mainVars, inbox, out, cloop, sharedVars, callVars, answerVars, ghosts>>

\* Mutant: the child that is not used is freed with the kill.
KillIfNotUsedFrees(k) ==
  /\ CGoto(k, "running", "gone")
  /\ current[k] = None
  /\ proc[k] = "alive"
  /\ proc' = [proc EXCEPT ![k] = "zombie"]
  /\ table' = [table EXCEPT ![BackendOf[k]] = None]
  /\ freed' = [freed EXCEPT ![k] = TRUE]
  /\ UNCHANGED <<mainVars, inbox, out, owner, current, callVars, answerVars, ghosts>>

\* kill_if_not_used(), every ten minutes.
KillIfNotUsed(k) ==
  /\ cloop[k] = "running"
  /\ current[k] = None
  /\ proc[k] = "alive"
  /\ proc' = [proc EXCEPT ![k] = "zombie"]
  /\ UNCHANGED <<mainVars, inbox, out, cloop, sharedVars, callVars, answerVars, ghosts>>

\* on_child_exited(). The rest of the iteration is still dispatched.
OnChildExited(k) ==
  /\ proc[k] = "zombie"
  /\ CGoto(k, "running", "last")
  /\ proc' = [proc EXCEPT ![k] = "reaped"]
  /\ IF current[k] # None THEN TellCaller(current[k]) ELSE UNCHANGED answerVars
  /\ TouchMethod(k)
  /\ UNCHANGED <<mainVars, inbox, out, sharedVars, callVars, lost, missed>>

\* The iteration ends with nothing read.
EndLoop(k) ==
  /\ CGoto(k, "last", "quit")
  /\ UNCHANGED <<mainVars, proc, inbox, out, sharedVars, callVars, answerVars, ghosts>>

\* The loop has ended: the thread waits for the method in progress ...
AwaitMethod(k) ==
  /\ owner[k] = None
  /\ CGoto(k, "quit", "removing")
  /\ UNCHANGED <<mainVars, proc, inbox, out, sharedVars, callVars, answerVars, ghosts>>

\* ... and removes the child from the table, which frees the ChildData.
RemoveChild(k) ==
  /\ ~ leaked
  /\ CGoto(k, "removing", "gone")
  /\ table' = [table EXCEPT ![BackendOf[k]] = None]
  /\ freed' = [freed EXCEPT ![k] = TRUE]
  /\ UNCHANGED <<mainVars, proc, inbox, out, owner, current, callVars, answerVars, ghosts>>

\* What a use of freed memory may lead to.
Crash ==
  /\ uaf # {}
  /\ service' = "crashed"
  /\ UNCHANGED <<changed, main, starting, leaked, childVars, sharedVars, callVars, answerVars,
                 ghosts>>

-----------------------------------------------------------------------------
MainStep ==
  \/ \E c \in Calls : StartCall(c) \/ FailStart(c) \/ StartBackend3(c)
  \/ LoopStarted \/ CondWait
  \/ TimerBusy \/ TimerStops \/ MainBlocks

CallStep(c) ==
  \/ Authorize(c) \/ Lookup(c) \/ Busy(c) \/ TakeChild(c) \/ WriteToStdin(c)
  \/ RunLoop(c) \/ FreeMethodData(c) \/ LeaveChild(c)

ThreadStep(k) ==
  \/ RunChildLoop(k) \/ ForCondSignal(k)
  \/ ReadPart(k) \/ ReadBroken(k) \/ ReadReply(k)
  \/ OnChildExited(k) \/ EndLoop(k) \/ AwaitMethod(k) \/ RemoveChild(k)

Next ==
  /\ service = "up"
  /\ \/ MainStep
     \/ ChangeFlag
     \/ Crash
     \/ \E c \in Calls : RefuseCall(c) \/ CallStep(c)
     \/ \E k \in Calls : \/ ThreadStep(k)
                         \/ ChildReply(k) \/ ChildExit(k)
                         \/ MethodTimeout(k) \/ KillIfNotUsed(k)

Spec == Init /\ [][Next]_vars

\* Threads are scheduled, the timer of the monitor runs, a method's timeout runs
\* out, and a child that has begun a reply completes it or ends.
Up(A) == service = "up" /\ A
FairSpec ==
  /\ Spec
  /\ WF_vars(Up(LoopStarted \/ CondWait))
  /\ WF_vars(Up(TimerBusy \/ TimerStops \/ MainBlocks))
  /\ \A c \in Calls : WF_vars(Up(CallStep(c)))
  /\ \A k \in Calls : /\ WF_vars(Up(ThreadStep(k)))
                      /\ WF_vars(Up(MethodTimeout(k)))
                      /\ WF_vars(Up(out[k] = "part" /\ (ChildReply(k) \/ ChildExit(k))))

-----------------------------------------------------------------------------
(* Properties.                                                             *)

\* A backend never runs twice and its process is never orphaned: a process that
\* has not been reaped is the one the table has under its name.
OneProcessPerBackend ==
  \A k \in Calls : proc[k] \in {"alive", "zombie"} => table[BackendOf[k]] = k

\* A caller gets the reply to its own request, not to one written earlier, unless
\* it entered the child after its end was seen: the last iteration of the loop
\* may then read a reply to the call before it.
OwnReply == \A c \in Calls : answered[c] \in {None, c} \/ c \in missed

\* While its child lives, a call is answered once. It is answered a second time
\* only when the child has ended: the reply was in before the caller's loop ran,
\* which forgets the quit, or the last reply is read in the iteration that has
\* already told the caller that the backend is down.
AnsweredTwiceOnlyAtExit ==
  \A c \in again : /\ proc[ref[c]] = "reaped"
                   /\ c \in lost \/ reply[c] = "down"

\* Freed memory is used only where a child has ended: neither a ChildData nor the
\* method_data in it is used freed while the process lives or is not reaped.
UnsafeOnlyAfterExit == \A k \in uaf : proc[k] = "reaped"

\* Every call that got its thread ends, unless the quit of its loop came before
\* the loop ran, it entered a child whose loop had quit or not yet signalled that it
\* runs, the timer has kept the table's mutex, or the process is gone.
CallEnds ==
  \A c \in Calls :
    (pc[c] = "auth") ~> (\/ pc[c] = "done"
                         \/ c \in lost \cup missed
                         \/ leaked
                         \/ service # "up")

\* main.c: "If a change occurs in one of the directories with backend files, the
\* service will be stopped." Unless the main thread waits for a new child, the service stops after a change.
ChangeStops == changed ~> (service # "up" \/ main \in {"check", "wait"})
=============================================================================
