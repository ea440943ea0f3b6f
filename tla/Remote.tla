-------------------------------- MODULE Remote --------------------------------
(***************************************************************************)
(* Connections to remote machines (alterator-module-remote): every call of *)
(* Connect and Disconnect runs in a thread of its own, and they share the  *)
(* table subtrees_info_table, from connection names to the loop and the    *)
(* remote polkit agent of the connection, and the subtrees registered on   *)
(* the local bus connection.                                               *)
(*                                                                         *)
(* An action is one critical section of the mutex, one step that may fail  *)
(* on the network, or one callback. The table keeps, for a name, the       *)
(* Connect call that entered it: that call stands for its SubtreeInfo.     *)
(***************************************************************************)
EXTENDS Naturals

CONSTANTS
  Connects,     \* calls of Connect
  Disconnects,  \* calls of Disconnect
  Names,        \* connection names
  ValidNames,   \* names that make an object path
  NameOf,       \* Connects -> Names
  TargetOf,     \* Disconnects -> Names
  None          \* no entry

ASSUME RemoteAssumption ==
  /\ ValidNames \subseteq Names
  /\ NameOf \in [Connects -> Names]
  /\ TargetOf \in [Disconnects -> Names]
  /\ None \notin Connects

VARIABLES
  pc,       \* position of the thread of each Connect
  reply,    \* its answer
  table,    \* subtrees_info_table
  subtree,  \* subtree registered for each name
  agent,    \* remote-polkit-agent of each Connect: "none", "alive" or "dead"
  watch,    \* the source of read_pkstdout() is attached to the loop
  quit,     \* g_main_loop_quit() was called for the loop of the Connect
  frees,    \* times the HandlersData of the Connect were freed
  up,       \* the service has not crashed
  raced,    \* ghost: names under which two Connects were on their way at once
  dpc,      \* position of the thread of each Disconnect
  dreply    \* its answer

connectVars == <<pc, reply, table, subtree, agent, watch, quit, frees>>
disconnectVars == <<dpc, dreply>>
vars == <<connectVars, disconnectVars, up, raced>>

Init ==
  /\ pc = [c \in Connects |-> "new"]
  /\ reply = [c \in Connects |-> "none"]
  /\ table = [n \in Names |-> None]
  /\ subtree = [n \in Names |-> None]
  /\ agent = [c \in Connects |-> "none"]
  /\ watch = [c \in Connects |-> FALSE]
  /\ quit = [c \in Connects |-> FALSE]
  /\ frees = [c \in Connects |-> 0]
  /\ up = TRUE
  /\ raced = {}
  /\ dpc = [d \in Disconnects |-> "new"]
  /\ dreply = [d \in Disconnects |-> "none"]

-----------------------------------------------------------------------------
(* The thread of a Connect: handle_connect().                              *)

Go(c, from, to) == pc[c] = from /\ pc' = [pc EXCEPT ![c] = to]
Answer(c, r) == reply' = [reply EXCEPT ![c] = r]

\* Another Connect of the name of c is on its way to the table.
Underway(c) ==
  \E d \in Connects \ {c} : NameOf[d] = NameOf[c]
                            /\ pc[d] \in {"stream", "spawn", "introspect"}

\* Mutant: the table is not consulted.
NameIsFreeUnchecked(n) == TRUE

\* connection_name_is_exist_in_table(), under the mutex.
NameIsFree(n) == table[n] = None

\* The name makes no object path, or the table has it: an error is returned.
RefuseName(c) ==
  /\ NameOf[c] \notin ValidNames \/ ~ NameIsFree(NameOf[c])
  /\ Go(c, "new", "done")
  /\ Answer(c, "error")
  /\ UNCHANGED <<table, subtree, agent, watch, quit, frees, disconnectVars>>

AcceptName(c) ==
  /\ NameOf[c] \in ValidNames /\ NameIsFree(NameOf[c])
  /\ Go(c, "new", "stream")
  /\ raced' = IF Underway(c) THEN raced \cup {NameOf[c]} ELSE raced
  /\ UNCHANGED <<reply, table, subtree, agent, watch, quit, frees, disconnectVars>>

\* The ssh stream, the D-Bus connection over it, its unique name and the pid
\* of the bridge: the first failure is the answer.
OpenStream(c) ==
  /\ \/ Go(c, "stream", "spawn") /\ UNCHANGED reply
     \/ Go(c, "stream", "done") /\ Answer(c, "error")
  /\ UNCHANGED <<table, subtree, agent, watch, quit, frees, disconnectVars>>

\* spawn_polkit_agent_on_remote().
SpawnAgent(c) ==
  /\ \/ /\ Go(c, "spawn", "introspect")
        /\ agent' = [agent EXCEPT ![c] = "alive"]
        /\ UNCHANGED reply
     \/ Go(c, "spawn", "done") /\ Answer(c, "error") /\ UNCHANGED agent
  /\ UNCHANGED <<table, subtree, watch, quit, frees, disconnectVars>>

\* receive_introspections() fails: the agent is left to itself.
FailIntrospect(c) ==
  /\ Go(c, "introspect", "done")
  /\ Answer(c, "error")
  /\ UNCHANGED <<table, subtree, agent, watch, quit, frees, disconnectVars>>

\* subtrees_info_table_add_info() replaces what the name had; the watch of the
\* agent's output is attached.
AddInfo(c) ==
  /\ Go(c, "introspect", "added")
  /\ table' = [table EXCEPT ![NameOf[c]] = c]
  /\ watch' = [watch EXCEPT ![c] = TRUE]
  /\ UNCHANGED <<reply, subtree, agent, quit, frees, disconnectVars>>

\* register_subtree(): the object path is free.
RegisterSubtree(c) ==
  /\ subtree[NameOf[c]] = None
  /\ Go(c, "added", "registered")
  /\ subtree' = [subtree EXCEPT ![NameOf[c]] = c]
  /\ Answer(c, "true")
  /\ UNCHANGED <<table, agent, watch, quit, frees, disconnectVars>>

\* register_subtree() fails and frees handlers_data, and so does its caller:
\* the second free may go unnoticed, or abort the process (CrashOnDoubleFree).
FailRegister(c) ==
  /\ subtree[NameOf[c]] # None
  /\ Go(c, "added", "cleanup")
  /\ Answer(c, "false")
  /\ frees' = [frees EXCEPT ![c] = @ + 2]
  /\ UNCHANGED <<table, subtree, agent, watch, quit, disconnectVars>>

\* g_main_loop_run(): the loop forgets a quit that came before.
RunLoop(c) ==
  /\ Go(c, "registered", "loop")
  /\ quit' = [quit EXCEPT ![c] = FALSE]
  /\ UNCHANGED <<reply, table, subtree, agent, watch, frees, disconnectVars>>

\* Mutant: the watch is removed without a word to the loop.
StopLoopSilent(c) ==
  /\ pc[c] = "loop" /\ ~ quit[c]
  /\ watch[c]
  /\ watch' = [watch EXCEPT ![c] = FALSE]
  /\ UNCHANGED <<pc, reply, table, subtree, agent, quit, frees, disconnectVars>>

\* The end of read_pkstdout() when nothing more can be read: the watch is removed
\* and the loop that the table has under the connection's name is told to quit.
StopLoop(c) ==
  /\ pc[c] = "loop" /\ ~ quit[c]
  /\ watch[c]
  /\ watch' = [watch EXCEPT ![c] = FALSE]
  /\ LET entry == table[NameOf[c]]
     IN  quit' = IF entry = None THEN quit ELSE [quit EXCEPT ![entry] = TRUE]
  /\ UNCHANGED <<pc, reply, table, subtree, agent, frees, disconnectVars>>

\* read_pkstdout() at end of file.
ReadPkstdoutEof(c) == agent[c] = "dead" /\ StopLoop(c)

\* read_pkstdout() after a failed read (bytes that are not UTF-8). The agent is
\* not killed. It goes on with a length that was never set, and str[length-1]
\* may be a wild access: see CrashOnReadError.
ReadPkstdoutError(c) == agent[c] # "none" /\ StopLoop(c)

\* g_main_loop_run() returns; unregistering the subtree frees handlers_data.
Unregister(c) ==
  /\ quit[c]
  /\ Go(c, "loop", "cleanup")
  /\ subtree' = [subtree EXCEPT ![NameOf[c]] = None]
  /\ frees' = [frees EXCEPT ![c] = @ + 1]
  /\ UNCHANGED <<reply, table, agent, watch, quit, disconnectVars>>

\* Mutant: the entry is left in the table.
RemoveInfoNot(c) ==
  /\ Go(c, "cleanup", "done")
  /\ UNCHANGED <<reply, table, subtree, agent, watch, quit, frees, disconnectVars>>

\* subtrees_info_table_remove_info(): by name, whoever entered it.
RemoveInfo(c) ==
  /\ Go(c, "cleanup", "done")
  /\ table' = [table EXCEPT ![NameOf[c]] = None]
  /\ UNCHANGED <<reply, subtree, agent, watch, quit, frees, disconnectVars>>

\* The agent, or the ssh process that carries it, ends by itself (external).
AgentDies(c) ==
  /\ agent[c] = "alive"
  /\ agent' = [agent EXCEPT ![c] = "dead"]
  /\ UNCHANGED <<pc, reply, table, subtree, watch, quit, frees, disconnectVars>>

-----------------------------------------------------------------------------
(* The thread of a Disconnect: handle_disconnect().                        *)

DGo(d, from, to, r) ==
  /\ dpc[d] = from
  /\ dpc' = [dpc EXCEPT ![d] = to]
  /\ dreply' = [dreply EXCEPT ![d] = r]

CheckConnected(d) ==
  /\ IF TargetOf[d] \in ValidNames /\ ~ NameIsFree(TargetOf[d])
     THEN DGo(d, "new", "kill", "none")
     ELSE DGo(d, "new", "done", "error")
  /\ UNCHANGED connectVars

\* subtrees_info_table_kill_pkagent(): FALSE if the entry has gone meanwhile or
\* kill() fails, which it does once a dead agent is reaped. The entry is removed
\* by the thread of the Connect.
KillAgent(d) ==
  /\ LET entry == table[TargetOf[d]]
     IN  \/ /\ entry # None
           /\ agent' = [agent EXCEPT ![entry] = "dead"]
           /\ DGo(d, "kill", "done", "true")
        \/ /\ entry # None => agent[entry] = "dead"
           /\ UNCHANGED agent
           /\ DGo(d, "kill", "done", "false")
  /\ UNCHANGED <<pc, reply, table, subtree, watch, quit, frees>>

-----------------------------------------------------------------------------
\* The steps of a Connect thread that has accepted its name.
ConnectStep(c) ==
  \/ OpenStream(c) \/ SpawnAgent(c) \/ FailIntrospect(c)
  \/ AddInfo(c) \/ RegisterSubtree(c) \/ FailRegister(c)
  \/ RunLoop(c) \/ ReadPkstdoutEof(c) \/ Unregister(c) \/ RemoveInfo(c)

CrashOnDoubleFree(c) == FailRegister(c) /\ frees'[c] > 1
CrashOnReadError(c) == ReadPkstdoutError(c)

Next ==
  /\ up
  /\ \/ \E c \in Connects : AcceptName(c) /\ UNCHANGED up
     \/ \E c \in Connects : (RefuseName(c) \/ ConnectStep(c) \/ ReadPkstdoutError(c)
                               \/ AgentDies(c))
                            /\ UNCHANGED <<up, raced>>
     \/ \E d \in Disconnects : (CheckConnected(d) \/ KillAgent(d)) /\ UNCHANGED <<up, raced>>
     \/ \E c \in Connects : (CrashOnDoubleFree(c) \/ CrashOnReadError(c))
                            /\ up' = FALSE /\ UNCHANGED raced

Spec == Init /\ [][Next]_vars

\* Threads that have started are scheduled and their network calls return.
\* Clients need not call, agents need not die.
FairSpec ==
  /\ Spec
  /\ \A c \in Connects : WF_vars(up /\ ConnectStep(c) /\ UNCHANGED <<up, raced>>)
  /\ \A d \in Disconnects : WF_vars(up /\ KillAgent(d) /\ UNCHANGED <<up, raced>>)

-----------------------------------------------------------------------------
(* Properties.                                                             *)

\* The entry a name has in the table is the one of the connection it serves,
\* so that Disconnect kills the right agent, the end of an agent stops the right
\* loop and GetConnections lists the connection: whatever the interleaving of
\* threads, unless two Connects raced for the name.
EntryIsServed ==
  \A c \in Connects : pc[c] \in {"registered", "loop"} /\ NameOf[c] \notin raced => table[NameOf[c]] = c

\* An entry never outlives the thread that made it, races or not: is_module_busy()
\* of the module turns false again.
NoStaleEntry ==
  \A n \in Names : table[n] # None => pc[table[n]] \in {"added", "registered", "loop", "cleanup"}

\* remote.c: "handlers_data will free in register_subtree() or when unregister
\* subtree": they are freed once.
FreedOnce == \A c \in Connects : frees[c] <= 1

\* A connection whose agent is gone, killed by Disconnect or not, is taken down:
\* its subtree is unregistered and its name can be used again, unless two
\* Connects raced for the name or a failed read has crashed the service.
DeadIsTakenDown ==
  \A c \in Connects :
    (pc[c] \in {"added", "registered", "loop"} /\ agent[c] = "dead")
      ~> (pc[c] = "done" \/ NameOf[c] \in raced \/ ~ up)
=============================================================================
