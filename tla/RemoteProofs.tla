----------------------------- MODULE RemoteProofs -----------------------------
(***************************************************************************)
(* Proofs about Remote: its safety properties, for any number of Connects, *)
(* Disconnects and names.                                                  *)
(***************************************************************************)
EXTENDS Remote, TLAPS

\* Positions of a Connect on its way to the table, and from its entry there on.
Entering == {"stream", "spawn", "introspect"}
Entered == {"added", "registered", "loop", "cleanup"}

\* Every variable has its type.
TypeOK ==
  /\ pc \in [Connects -> {"new", "done"} \cup Entering \cup Entered]
  /\ reply \in [Connects -> {"none", "error", "true", "false"}]
  /\ table \in [Names -> Connects \cup {None}]
  /\ subtree \in [Names -> Connects \cup {None}]
  /\ agent \in [Connects -> {"none", "alive", "dead"}]
  /\ watch \in [Connects -> BOOLEAN]
  /\ quit \in [Connects -> BOOLEAN]
  /\ frees \in [Connects -> Nat]
  /\ up \in BOOLEAN
  /\ raced \in SUBSET Names
  /\ dpc \in [Disconnects -> {"new", "kill", "done"}]
  /\ dreply \in [Disconnects -> {"none", "error", "true", "false"}]

\* An entry is under the name of its Connect, and so is a subtree.
EntryUnderItsName == \A n \in Names : table[n] # None => NameOf[table[n]] = n

\* A subtree is registered for a Connect whose loop runs or is about to.
SubtreeIsServed ==
  \A n \in Names : subtree[n] # None =>
    NameOf[subtree[n]] = n /\ pc[subtree[n]] \in {"registered", "loop"}

\* But for raced names, a Connect has its entry from AddInfo to RemoveInfo ...
EntryIsKept ==
  \A c \in Connects : pc[c] \in Entered /\ NameOf[c] \notin raced => table[NameOf[c]] = c

\* ... and there is one Connect of a name under way at most.
OneUnderway ==
  \A c, d \in Connects :
    /\ NameOf[c] = NameOf[d] /\ NameOf[c] \notin raced
    /\ pc[c] \in Entering \cup Entered /\ pc[d] \in Entering \cup Entered
    => c = d

\* Nothing is freed before the subtree is unregistered or could not be registered.
FreedLate == \A c \in Connects : pc[c] \notin {"cleanup", "done"} => frees[c] = 0

\* Handlers data are freed twice only where two Connects raced for the name: the
\* double free that FreedOnce (see Remote) shows needs such a race.
FreedOnceUnlessRaced == \A c \in Connects : NameOf[c] \notin raced => frees[c] <= 1

\* A Disconnect that answers TRUE has ended the agent of the connection that
\* serves the name, unless two Connects raced for it: kill_pkagent() looks the
\* agent up a second time, after connection_name_is_exist_in_table().
DisconnectEndsAgent ==
  [][\A d \in Disconnects, c \in Connects :
       /\ dreply[d] # "true" /\ dreply'[d] = "true"
       /\ NameOf[c] = TargetOf[d] /\ NameOf[c] \notin raced
       /\ pc[c] \in {"registered", "loop"}
       => agent'[c] = "dead"]_vars

\* The inductive invariant.
IInv ==
  /\ TypeOK
  /\ NoStaleEntry
  /\ EntryUnderItsName
  /\ SubtreeIsServed
  /\ EntryIsKept
  /\ OneUnderway
  /\ FreedLate
  /\ FreedOnceUnlessRaced

-----------------------------------------------------------------------------
\* The initial state.
LEMMA InitInv == Init => IInv
  BY RemoteAssumption
  DEF Init, IInv, TypeOK, NoStaleEntry, EntryUnderItsName, SubtreeIsServed, EntryIsKept,
      OneUnderway, FreedLate, FreedOnceUnlessRaced, Entering, Entered

\* Every step keeps the invariant.
LEMMA NextInv ==
  ASSUME IInv, [Next]_vars
  PROVE  IInv'
<1> USE RemoteAssumption
    DEF IInv, TypeOK, NoStaleEntry, EntryUnderItsName, SubtreeIsServed, EntryIsKept, OneUnderway,
        FreedLate, FreedOnceUnlessRaced, Entering, Entered, disconnectVars, Go, Answer
<1>1. ASSUME NEW c \in Connects, AcceptName(c), UNCHANGED up
      PROVE  IInv'
  BY <1>1 DEF AcceptName, NameIsFree, Underway
<1>2. ASSUME NEW c \in Connects, RefuseName(c), UNCHANGED <<up, raced>>
      PROVE  IInv'
  BY <1>2 DEF RefuseName
<1>3. ASSUME NEW c \in Connects, OpenStream(c), UNCHANGED <<up, raced>>
      PROVE  IInv'
  BY <1>3 DEF OpenStream
<1>4. ASSUME NEW c \in Connects, SpawnAgent(c), UNCHANGED <<up, raced>>
      PROVE  IInv'
  BY <1>4 DEF SpawnAgent
<1>5. ASSUME NEW c \in Connects, FailIntrospect(c), UNCHANGED <<up, raced>>
      PROVE  IInv'
  BY <1>5 DEF FailIntrospect
<1>6. ASSUME NEW c \in Connects, AddInfo(c), UNCHANGED <<up, raced>>
      PROVE  IInv'
  BY <1>6 DEF AddInfo
<1>7. ASSUME NEW c \in Connects, RegisterSubtree(c), UNCHANGED <<up, raced>>
      PROVE  IInv'
  BY <1>7 DEF RegisterSubtree
<1>8. ASSUME NEW c \in Connects, FailRegister(c), up' \in BOOLEAN, UNCHANGED raced
      PROVE  IInv'
  BY <1>8 DEF FailRegister
<1>9. ASSUME NEW c \in Connects, RunLoop(c), UNCHANGED <<up, raced>>
      PROVE  IInv'
  BY <1>9 DEF RunLoop
<1>10. ASSUME NEW c \in Connects, StopLoop(c), up' \in BOOLEAN, UNCHANGED raced
       PROVE  IInv'
  BY <1>10 DEF StopLoop
<1>11. ASSUME NEW c \in Connects, Unregister(c), UNCHANGED <<up, raced>>
       PROVE  IInv'
  BY <1>11 DEF Unregister
<1>12. ASSUME NEW c \in Connects, RemoveInfo(c), UNCHANGED <<up, raced>>
       PROVE  IInv'
  BY <1>12 DEF RemoveInfo
<1>13. ASSUME NEW c \in Connects, AgentDies(c), UNCHANGED <<up, raced>>
       PROVE  IInv'
  BY <1>13 DEF AgentDies
<1>14. ASSUME NEW d \in Disconnects, CheckConnected(d), UNCHANGED <<up, raced>>
       PROVE  IInv'
  BY <1>14 DEF CheckConnected, DGo, connectVars
<1>15. ASSUME NEW d \in Disconnects, KillAgent(d), UNCHANGED <<up, raced>>
       PROVE  IInv'
  BY <1>15 DEF KillAgent, DGo
<1>16. CASE UNCHANGED vars
  BY <1>16 DEF vars, connectVars
<1> QED
  BY <1>1, <1>2, <1>3, <1>4, <1>5, <1>6, <1>7, <1>8, <1>9, <1>10, <1>11, <1>12, <1>13, <1>14, <1>15,
     <1>16 DEF Next, ConnectStep, ReadPkstdoutEof, ReadPkstdoutError, CrashOnDoubleFree,
     CrashOnReadError

\* The invariant holds in every reachable state.
THEOREM Invariance == Spec => []IInv
<1>1. Init => IInv
  BY InitInv
<1>2. IInv /\ [Next]_vars => IInv'
  BY NextInv
<1> QED
  BY <1>1, <1>2, PTL DEF Spec

-----------------------------------------------------------------------------
\* Every variable of the module keeps its type.
THEOREM TypeCorrect == Spec => []TypeOK
<1>1. IInv => TypeOK
  BY DEF IInv
<1> QED
  BY <1>1, Invariance, PTL

\* The entry of a name in subtrees_info_table is the connection that serves it,
\* unless two Connects raced for the name.
THEOREM EntriesServed == Spec => []EntryIsServed
<1>1. IInv => EntryIsServed
  BY DEF IInv, EntryIsKept, EntryIsServed, Entered
<1> QED
  BY <1>1, Invariance, PTL

\* No entry of the table outlives the thread of its Connect, races or not.
THEOREM EntriesNotStale == Spec => []NoStaleEntry
<1>1. IInv => NoStaleEntry
  BY DEF IInv
<1> QED
  BY <1>1, Invariance, PTL

\* Only a race of two Connects for a name makes register_subtree() and its
\* caller free the same handlers_data.
THEOREM DoubleFreeNeedsRace == Spec => []FreedOnceUnlessRaced
<1>1. IInv => FreedOnceUnlessRaced
  BY DEF IInv
<1> QED
  BY <1>1, Invariance, PTL

\* A Disconnect that answers TRUE has ended the agent of the connection that
\* serves the name.
THEOREM DisconnectsEndAgents == Spec => DisconnectEndsAgent
<1> DEFINE Kills(d, c) == /\ dreply[d] # "true" /\ dreply'[d] = "true"
                          /\ NameOf[c] = TargetOf[d] /\ NameOf[c] \notin raced
                          /\ pc[c] \in {"registered", "loop"}
           P == \A d \in Disconnects, c \in Connects : Kills(d, c) => agent'[c] = "dead"
<1>1. IInv /\ [Next]_vars => [P]_vars
  <2> SUFFICES ASSUME IInv, Next, NEW d \in Disconnects, NEW c \in Connects, Kills(d, c)
               PROVE  agent'[c] = "dead"
    OBVIOUS
  <2>1. KillAgent(d)
    <3>1. ASSUME NEW e \in Connects,
                 \/ AcceptName(e) \/ RefuseName(e) \/ ConnectStep(e) \/ StopLoop(e) \/ AgentDies(e)
          PROVE  dreply' = dreply
      BY <3>1 DEF AcceptName, RefuseName, ConnectStep, OpenStream, SpawnAgent, FailIntrospect,
             AddInfo, RegisterSubtree, FailRegister, RunLoop, StopLoop, ReadPkstdoutEof, Unregister,
             RemoveInfo, AgentDies, disconnectVars
    <3>2. PICK e \in Disconnects : CheckConnected(e) \/ KillAgent(e)
      BY <3>1 DEF Next, ConnectStep, ReadPkstdoutError, CrashOnDoubleFree, CrashOnReadError
    <3> QED
      BY <3>2 DEF CheckConnected, KillAgent, DGo, IInv, TypeOK
  <2>2. table[TargetOf[d]] = c
    BY DEF IInv, EntryIsKept, Entered
  <2> QED
    BY <2>1, <2>2, RemoteAssumption DEF KillAgent, DGo, IInv, TypeOK
<1> QED
  BY <1>1, Invariance, PTL DEF Spec, DisconnectEndsAgent
=============================================================================
