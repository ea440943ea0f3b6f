---------------------------- MODULE Backend3Proofs ----------------------------
(***************************************************************************)
(* The safety properties of legacy backends, for any calls and backends.   *)
(*                                                                         *)
(* None of them is inductive.  They rest on three facts of the code.  The  *)
(* mutex of a ChildData is held from the entry of a call to its leaving,   *)
(* and ChildData.method_data is that very call.  A call leaves a child     *)
(* that lives only after its reply was read, so that no request is ever    *)
(* left behind in the pipe of a living child.  And a process is reaped     *)
(* before the loop of its thread ends, which is before it is taken from    *)
(* the table.                                                              *)
(***************************************************************************)
EXTENDS Backend3, TLAPS

Holding == {"write", "run", "running", "freed"}
Early == {"new", "starting", "auth", "lookup", "trylock"}

\* The loop of call c runs, or has still to run.
Runs(r, c) == r[c]

\* The types of all variables, by the thread that they belong to.
MainType ==
  /\ service \in {"up", "stopped", "crashed"}
  /\ changed \in BOOLEAN /\ leaked \in BOOLEAN
  /\ main \in {"loop", "check", "wait", "stuck"}
  /\ starting \in Calls \cup {None}
  /\ main \in {"check", "wait"} => starting \in Calls

ChildType ==
  /\ proc \in [Calls -> {"none", "alive", "zombie", "reaped"}]
  /\ out \in [Calls -> {"empty", "part", "rest"}]
  /\ cloop \in [Calls -> {"none", "starting", "first", "running", "reading", "last", "quit",
                          "removing", "gone"}]

InboxType ==
  /\ inbox \in [Calls -> Seq(Calls)]
  /\ \A k \in Calls : inbox[k] # <<>> => \E c \in Calls : inbox[k] = <<c>>

SharedType ==
  /\ table \in [Backends -> Calls \cup {None}]
  /\ owner \in [Calls -> Calls \cup {None}]
  /\ current \in [Calls -> Calls \cup {None}]
  /\ freed \in [Calls -> BOOLEAN]

CallType ==
  /\ pc \in [Calls -> Early \cup Holding \cup {"done"}]
  /\ ref \in [Calls -> Calls \cup {None}]

AnswerType ==
  /\ running \in [Calls -> BOOLEAN]
  /\ reply \in [Calls -> {"none", "wrong", "not started", "denied", "not in table", "busy",
                          "value", "down"}]
  /\ answered \in [Calls -> Calls \cup {None}]

GhostType == again \subseteq Calls /\ lost \subseteq Calls /\ missed \subseteq Calls /\ uaf \subseteq Calls

TypeOK ==
  /\ MainType /\ ChildType /\ InboxType /\ SharedType
  /\ CallType /\ AnswerType /\ GhostType

\* A child is in the table while its thread runs, and its process is reaped
\* before the loop ends.
ChildOK(k) ==
  /\ proc[k] = "none" <=> cloop[k] = "none"
  /\ proc[k] = "reaped" <=> cloop[k] \in {"last", "quit", "removing", "gone"}
  /\ cloop[k] \notin {"none", "gone"} => BackendOf[k] \in Backends /\ table[BackendOf[k]] = k
  /\ freed[k] => cloop[k] = "gone"

\* The mutex of a child is held by a call that has entered it.
OwnerOK(k) == owner[k] # None => pc[owner[k]] \in Holding /\ ref[owner[k]] = k

\* Whose request the child may have: of a child that is not reaped only the
\* call's that has entered it and still waits.
RequestOK(k) ==
  /\ out[k] # "empty" => inbox[k] # <<>>
  /\ proc[k] # "reaped" /\ inbox[k] # <<>> =>
       /\ owner[k] # None /\ inbox[k] = <<owner[k]>>
       /\ Runs(running, owner[k]) /\ pc[owner[k]] \in {"run", "running"}
  /\ proc[k] = "reaped" /\ inbox[k] # <<>> /\ owner[k] # None =>
       inbox[k] = <<owner[k]>> \/ owner[k] \in missed

\* What is true of a call by where its thread is.
CallOK(c) ==
  /\ pc[c] = "new" => cloop[c] = "none"
  /\ pc[c] \notin {"new", "done"} => BackendOf[c] \in Backends
  /\ pc[c] \in Holding \cup {"trylock"} => ref[c] \in Calls /\ cloop[ref[c]] # "none"
  /\ pc[c] \in Early => reply[c] = "none" /\ Runs(running, c) /\ answered[c] = None
  /\ pc[c] \in Holding => owner[ref[c]] = c

\* What a call that has entered a child was answered.
AnswerOK(c) ==
  /\ pc[c] = "write" /\ proc[ref[c]] # "reaped" => Runs(running, c)
  /\ pc[c] \in Holding /\ reply[c] # "none" =>
       /\ answered[c] = None => reply[c] = "down"
       /\ reply[c] = "down" => proc[ref[c]] = "reaped"
       /\ Runs(running, c) => c \in lost \/ reply[c] = "down"
  /\ c \in again => /\ pc[c] \notin Early /\ ref[c] \in Calls /\ reply[c] # "none"
                    /\ proc[ref[c]] = "reaped"
                    /\ c \in lost \/ reply[c] = "down"
  /\ answered[c] \in {None, c} \/ c \in missed

\* A child that is in the table has a thread, or had one.
TableLife == \A b \in Backends : table[b] # None => cloop[table[b]] # "none"

IInv ==
  /\ TypeOK
  /\ current = owner
  /\ TableLife
  /\ UnsafeOnlyAfterExit
  /\ \A k \in Calls : ChildOK(k) /\ OwnerOK(k) /\ RequestOK(k)
  /\ \A c \in Calls : CallOK(c) /\ AnswerOK(c)

\* A ChildData serves one call at a time, also when its process has ended.
OneCallPerChild ==
  \A c, d \in Calls : pc[c] \in Holding /\ pc[d] \in Holding /\ ref[c] = ref[d] => c = d

-----------------------------------------------------------------------------
(* A step is about at most one call and one child.                         *)

SameCall(c) ==
  /\ pc'[c] = pc[c] /\ ref'[c] = ref[c]
  /\ reply'[c] = reply[c] /\ running'[c] = running[c] /\ answered'[c] = answered[c]

SameChild(k) ==
  /\ proc'[k] = proc[k] /\ cloop'[k] = cloop[k] /\ freed'[k] = freed[k]
  /\ inbox'[k] = inbox[k] /\ out'[k] = out[k] /\ owner'[k] = owner[k]

\* What no step undoes, and what it leaves to the others.
About(c, k) ==
  /\ \A d \in Calls : d # c => SameCall(d)
  /\ \A j \in Calls : j # k => SameChild(j)
  /\ c \in Calls /\ pc[c] \in Holding => ref[c] = k
  /\ k \in Calls => /\ owner'[k] = owner[k] \/ owner[k] \in {None, c}
                    /\ proc[k] = "reaped" => proc'[k] = "reaped"
                    /\ cloop'[k] = "none" <=> cloop[k] = "none" /\ k # c
  /\ \A j \in Calls : j # k /\ cloop[j] \notin {"none", "gone"} =>
       table'[BackendOf[j]] = table[BackendOf[j]]
  /\ lost \subseteq lost' /\ missed \subseteq missed' /\ again' \subseteq again \cup {c}
  /\ current' = owner'

LEMMA OtherCall ==
  ASSUME IInv, NEW c, NEW k, About(c, k), NEW d \in Calls, d # c
  PROVE  CallOK(d)' /\ AnswerOK(d)'
<1>1. SameCall(d) BY DEF About
<1>2. CallOK(d) /\ AnswerOK(d) BY DEF IInv
<1>3. \A j \in Calls : /\ proc[j] = "reaped" => proc'[j] = "reaped"
                       /\ cloop[j] # "none" => cloop'[j] # "none"
  BY DEF About, SameChild
<1>4. pc[d] = "new" => cloop'[d] = "none" BY <1>2 DEF About, SameChild, CallOK
<1>5. pc[d] \in Holding => ref[d] \in Calls /\ owner[ref[d]] = d BY <1>2 DEF CallOK
<1>6. pc[d] \in Holding => owner'[ref[d]] = d
  <2>1. CASE ref[d] = k BY <1>5, <2>1, Backend3Assumption DEF About
  <2>2. CASE ref[d] # k BY <1>5, <2>2 DEF About, SameChild
  <2> QED BY <2>1, <2>2
<1>7. CallOK(d)' BY <1>1, <1>2, <1>3, <1>4, <1>6 DEF CallOK, SameCall, Runs
<1>8. AnswerOK(d)'
  <2>1. lost \subseteq lost' /\ missed \subseteq missed' /\ (d \in again' => d \in again)
    BY DEF About
  <2>2. pc[d] = "write" => pc[d] \in Holding BY DEF Holding
  <2>3. pc[d] = "write" /\ proc'[ref[d]] # "reaped" => Runs(running', d)
    BY <1>1, <1>2, <1>3, <1>5, <2>2 DEF AnswerOK, SameCall, Runs
  <2>4. pc[d] \in Holding /\ reply[d] # "none" =>
       /\ answered[d] = None => reply[d] = "down"
       /\ reply[d] = "down" => proc'[ref[d]] = "reaped"
       /\ Runs(running', d) => d \in lost' \/ reply[d] = "down"
    BY <1>1, <1>2, <1>3, <1>5, <2>1 DEF AnswerOK, SameCall, Runs
  <2>5. d \in again' => /\ pc[d] \notin Early /\ ref[d] \in Calls /\ reply[d] # "none"
                        /\ proc'[ref[d]] = "reaped"
                        /\ d \in lost' \/ reply[d] = "down"
    BY <1>2, <1>3, <2>1 DEF AnswerOK
  <2>6. answered[d] \in {None, d} \/ d \in missed' BY <1>2, <2>1 DEF AnswerOK
  <2> QED BY <1>1, <2>3, <2>4, <2>5, <2>6 DEF AnswerOK, SameCall
<1> QED BY <1>7, <1>8

LEMMA OtherChild ==
  ASSUME IInv, NEW c, NEW k, About(c, k), NEW j \in Calls, j # k
  PROVE  ChildOK(j)' /\ OwnerOK(j)' /\ RequestOK(j)'
<1>1. SameChild(j) /\ missed \subseteq missed' BY DEF About
<1>2. ChildOK(j) /\ OwnerOK(j) /\ RequestOK(j) BY DEF IInv
<1>3. owner[j] # None => owner[j] \in Calls BY DEF IInv, TypeOK, SharedType
<1>4. owner[j] # None => SameCall(owner[j]) BY <1>2, <1>3 DEF OwnerOK, About
<1>5. ChildOK(j)'
  <2>1. cloop[j] \notin {"none", "gone"} => table'[BackendOf[j]] = table[BackendOf[j]]
    BY DEF About
  <2> QED BY <1>1, <1>2, <2>1 DEF ChildOK, SameChild
<1>6. OwnerOK(j)' BY <1>1, <1>2, <1>4 DEF OwnerOK, SameChild, SameCall
<1>7. RequestOK(j)'
  <2>1. owner[j] # None => /\ Runs(running', owner[j]) <=> Runs(running, owner[j])
                           /\ pc'[owner[j]] = pc[owner[j]]
    BY <1>4 DEF SameCall, Runs
  <2> QED BY <1>1, <1>2, <2>1 DEF RequestOK, SameChild
<1> QED BY <1>5, <1>6, <1>7

\* It is enough to look at the call and the child that a step is about.
LEMMA Assemble ==
  ASSUME IInv, NEW c, NEW k, About(c, k), TypeOK', TableLife', UnsafeOnlyAfterExit',
         c \in Calls => CallOK(c)' /\ AnswerOK(c)',
         k \in Calls => ChildOK(k)' /\ OwnerOK(k)' /\ RequestOK(k)'
  PROVE  IInv'
<1>1. \A d \in Calls : CallOK(d)' /\ AnswerOK(d)' BY OtherCall
<1>2. \A j \in Calls : ChildOK(j)' /\ OwnerOK(j)' /\ RequestOK(j)' BY OtherChild
<1>3. current' = owner' BY DEF About
<1> QED BY <1>1, <1>2, <1>3 DEF IInv

\* ChildData k is used: a freed one is that of a process that was reaped.
LEMMA Touched ==
  ASSUME IInv, NEW k \in Calls, Touch(k), proc' = proc
  PROVE  uaf' \subseteq Calls /\ UnsafeOnlyAfterExit'
<1>1. freed[k] => proc[k] = "reaped" BY DEF IInv, ChildOK
<1>2. uaf \subseteq Calls /\ \A j \in uaf : proc[j] = "reaped"
  BY DEF IInv, TypeOK, GhostType, UnsafeOnlyAfterExit
<1> QED BY <1>1, <1>2 DEF Touch, UnsafeOnlyAfterExit

-----------------------------------------------------------------------------
(* Steps of the main thread, and of a call that has not entered a child.   *)

\* Nothing but the main thread and the use of freed memory.
LEMMA MainOnly ==
  ASSUME IInv, UNCHANGED <<childVars, sharedVars, callVars, answerVars, lost, missed>>,
         MainType', uaf' \subseteq Calls, UnsafeOnlyAfterExit'
  PROVE  IInv'
<1> USE DEF childVars, sharedVars, callVars, answerVars
<1>1. About(None, None)
  BY Backend3Assumption DEF IInv, About, SameCall, SameChild
<1>2. ChildType' /\ InboxType' /\ SharedType' /\ CallType' /\ AnswerType'
  BY DEF IInv, TypeOK, ChildType, InboxType, SharedType, CallType, AnswerType
<1>3. GhostType' BY DEF IInv, TypeOK, GhostType
<1>4. TableLife' BY DEF IInv, TableLife
<1> QED BY <1>1, <1>2, <1>3, <1>4, Assemble, Backend3Assumption DEF TypeOK

LEMMA MainStepInv ==
  ASSUME IInv, ChangeFlag \/ TimerBusy \/ TimerStops \/ MainBlocks \/ Crash \/ UNCHANGED vars
  PROVE  IInv'
<1>1. UNCHANGED <<childVars, sharedVars, callVars, answerVars, ghosts>>
  BY DEF ChangeFlag, TimerBusy, TimerStops, MainBlocks, Crash, vars
<1>2. MainType'
  <2>1. /\ main' \in {main, "stuck"} /\ starting' = starting
        /\ service' \in {service, "stopped", "crashed"}
        /\ changed' = changed \/ changed' = TRUE
        /\ leaked' = leaked \/ leaked' = TRUE
    BY DEF ChangeFlag, TimerBusy, TimerStops, MainBlocks, Crash, vars, mainVars
  <2>2. MainType BY DEF IInv, TypeOK
  <2>3. changed' \in BOOLEAN /\ leaked' \in BOOLEAN BY <2>1, <2>2 DEF MainType
  <2> QED BY <2>1, <2>2, <2>3 DEF MainType
<1>3. uaf' \subseteq Calls /\ UnsafeOnlyAfterExit'
  BY <1>1 DEF ghosts, childVars, IInv, TypeOK, GhostType, UnsafeOnlyAfterExit
<1> QED BY <1>1, <1>2, <1>3, MainOnly DEF ghosts

LEMMA CondWaitInv == ASSUME IInv, CondWait PROVE IInv'
<1>1. /\ main = "check" /\ main' = "wait" /\ Touch(starting) /\ UNCHANGED <<service, changed, starting, leaked>>
      /\ UNCHANGED <<childVars, sharedVars, callVars, answerVars, lost, missed>>
  BY DEF CondWait
<1>2. starting \in Calls BY <1>1 DEF IInv, TypeOK, MainType
<1>3. MainType' BY <1>1, <1>2 DEF IInv, TypeOK, MainType
<1>4. uaf' \subseteq Calls /\ UnsafeOnlyAfterExit' BY <1>1, <1>2, Touched DEF childVars
<1> QED BY <1>1, <1>3, <1>4, MainOnly

Replies == {"wrong", "not started", "denied", "not in table", "busy"}

\* A call goes on, or it is answered and ends.
Proceeds(c, to) ==
  \/ to \in {"auth", "lookup"} /\ UNCHANGED <<ref, reply, again>>
  \/ /\ to = "trylock" /\ UNCHANGED <<reply, again>>
     /\ \E k \in Calls : cloop[k] # "none" /\ ref' = [ref EXCEPT ![c] = k]
  \/ to = "done" /\ ref' = ref /\ \E r \in Replies : Answer(c, r)

LEMMA EarlyStep ==
  ASSUME IInv, NEW c \in Calls, NEW to,
         pc[c] \in Early, pc' = [pc EXCEPT ![c] = to], Proceeds(c, to),
         to = "done" \/ BackendOf[c] \in Backends,
         UNCHANGED <<childVars, sharedVars, running, answered, lost, missed>>,
         MainType', uaf' \subseteq Calls, UnsafeOnlyAfterExit'
  PROVE  IInv'
<1> USE DEF childVars, sharedVars
<1>1. pc[c] \notin Holding BY DEF Early, Holding
<1>2. CallOK(c) /\ AnswerOK(c) BY DEF IInv
<1>3. c \notin again /\ reply[c] = "none" BY <1>2 DEF CallOK, AnswerOK
<1>4. /\ CallType /\ AnswerType /\ GhostType BY DEF IInv, TypeOK
<1>5. again' = again BY <1>3 DEF Proceeds, Answer
<1>6. /\ \A d \in Calls : d # c => ref'[d] = ref[d] /\ reply'[d] = reply[d]
      /\ ref' \in [Calls -> Calls \cup {None}]
  BY <1>4 DEF Proceeds, Answer, CallType, AnswerType
<1>7. AnswerType' BY <1>4 DEF Proceeds, Answer, AnswerType, Replies
<1>8. to \in {"auth", "lookup", "trylock", "done"} BY DEF Proceeds
<1>9. CallType' BY <1>4, <1>6, <1>8 DEF CallType, Early
<1>10. GhostType' BY <1>4, <1>5 DEF GhostType
<1>11. ChildType' /\ InboxType' /\ SharedType'
  BY DEF IInv, TypeOK, ChildType, InboxType, SharedType
<1>12. TableLife' BY DEF IInv, TableLife
<1>13. About(c, None)
  <2>1. \A d \in Calls : d # c => SameCall(d) BY <1>4, <1>6 DEF SameCall, CallType
  <2>2. \A j \in Calls : SameChild(j) BY DEF SameChild
  <2> QED BY <1>1, <1>5, <2>1, <2>2, Backend3Assumption DEF About, IInv
<1>14. pc'[c] = to BY <1>4 DEF CallType
<1>15. /\ to \notin Holding /\ (to \in Early <=> to # "done") /\ to # "new" /\ to # "write"
  BY <1>8 DEF Early, Holding
<1>16. CallOK(c)'
  <2>1. to = "trylock" => ref'[c] \in Calls /\ cloop[ref'[c]] # "none"
    BY <1>4 DEF Proceeds, CallType
  <2>2. to # "done" => reply' = reply BY DEF Proceeds
  <2> QED BY <1>2, <1>14, <1>15, <2>1, <2>2 DEF CallOK
<1>17. AnswerOK(c)' BY <1>2, <1>3, <1>5, <1>14, <1>15 DEF AnswerOK, CallOK
<1> QED BY <1>7, <1>9, <1>10, <1>11, <1>12, <1>13, <1>16, <1>17, Assemble, Backend3Assumption
     DEF TypeOK

\* The main thread and the memory in use are left alone.
LEMMA Undisturbed ==
  ASSUME IInv, UNCHANGED <<mainVars, proc, uaf>>
  PROVE  MainType' /\ uaf' \subseteq Calls /\ UnsafeOnlyAfterExit'
BY DEF mainVars, IInv, TypeOK, MainType, GhostType, UnsafeOnlyAfterExit

LEMMA HandleCallInv ==
  ASSUME IInv, NEW c \in Calls, RefuseCall(c) \/ StartCall(c) \/ FailStart(c) \/ Authorize(c)
  PROVE  IInv'
<1> USE DEF RefuseCall, StartCall, FailStart, Authorize, Goto
<1>1. UNCHANGED <<mainVars, childVars, sharedVars, running, answered, ghosts>>
  BY DEF answerVars
<1>2. MainType' /\ uaf' \subseteq Calls /\ UnsafeOnlyAfterExit'
  BY <1>1, Undisturbed DEF childVars, ghosts
<1>3. \E to \in {"auth", "lookup", "done"} :
        /\ pc' = [pc EXCEPT ![c] = to] /\ Proceeds(c, to)
        /\ pc[c] \in {"new", "auth"}
        /\ to = "done" \/ pc[c] = "auth" \/ BackendOf[c] # None
  BY DEF Proceeds, Replies, answerVars
<1>4. pc[c] = "auth" => BackendOf[c] \in Backends BY DEF IInv, CallOK
<1>5. BackendOf[c] # None => BackendOf[c] \in Backends BY Backend3Assumption
<1>6. {"new", "auth"} \subseteq Early BY DEF Early
<1> QED BY <1>1, <1>2, <1>3, <1>4, <1>5, <1>6, EarlyStep DEF ghosts

LEMMA LoopStartedInv == ASSUME IInv, LoopStarted PROVE IInv'
<1>1. /\ main = "check" /\ main' = "loop" /\ starting' = None
      /\ pc[starting] = "starting" /\ pc' = [pc EXCEPT ![starting] = "auth"] /\ Touch(starting)
      /\ UNCHANGED <<service, changed, leaked, childVars, sharedVars, ref, answerVars, lost, missed>>
  BY DEF LoopStarted, Goto
<1>2. starting \in Calls BY <1>1 DEF IInv, TypeOK, MainType
<1>3. MainType' BY <1>1 DEF IInv, TypeOK, MainType
<1>4. uaf' \subseteq Calls /\ UnsafeOnlyAfterExit' BY <1>1, <1>2, Touched DEF childVars
<1>5. BackendOf[starting] \in Backends BY <1>1, <1>2 DEF IInv, CallOK
<1>6. Proceeds(starting, "auth") BY <1>1 DEF Proceeds, answerVars
<1>7. pc[starting] \in Early BY <1>1 DEF Early
<1>8. UNCHANGED <<running, answered>> BY <1>1 DEF answerVars
<1> QED BY <1>1, <1>2, <1>3, <1>4, <1>5, <1>6, <1>7, <1>8, EarlyStep

LEMMA LookupInv == ASSUME IInv, NEW c \in Calls, Lookup(c) PROVE IInv'
<1>1. /\ pc[c] = "lookup"
      /\ UNCHANGED <<mainVars, childVars, sharedVars, running, answered, ghosts>>
  BY DEF Lookup
<1>2. MainType' /\ uaf' \subseteq Calls /\ UnsafeOnlyAfterExit'
  BY <1>1, Undisturbed DEF childVars, ghosts
<1>3. BackendOf[c] \in Backends BY <1>1 DEF IInv, CallOK
<1>4. \E to \in {"trylock", "done"} : pc' = [pc EXCEPT ![c] = to] /\ Proceeds(c, to)
  <2>1. CASE table[BackendOf[c]] = None
    BY <2>1 DEF Lookup, Goto, Proceeds, Replies
  <2>2. CASE table[BackendOf[c]] # None
    <3>1. /\ table[BackendOf[c]] \in Calls /\ cloop[table[BackendOf[c]]] # "none"
      BY <1>3, <2>2 DEF IInv, TableLife, TypeOK, SharedType
    <3>2. /\ pc' = [pc EXCEPT ![c] = "trylock"] /\ UNCHANGED <<reply, again>>
          /\ ref' = [ref EXCEPT ![c] = table[BackendOf[c]]]
      BY <2>2 DEF Lookup, Goto
    <3> QED BY <3>1, <3>2 DEF Proceeds
  <2> QED BY <2>1, <2>2
<1>5. pc[c] \in Early BY <1>1 DEF Early
<1> QED BY <1>1, <1>2, <1>3, <1>4, <1>5, EarlyStep DEF ghosts

LEMMA BusyInv == ASSUME IInv, NEW c \in Calls, Busy(c) PROVE IInv'
<1>1. /\ pc[c] = "trylock" /\ pc' = [pc EXCEPT ![c] = "done"]
      /\ Answer(c, "busy") /\ Touch(ref[c])
      /\ UNCHANGED <<mainVars, childVars, sharedVars, ref, running, answered, lost, missed>>
  BY DEF Busy, Goto
<1>2. ref[c] \in Calls BY <1>1 DEF IInv, CallOK
<1>3. uaf' \subseteq Calls /\ UnsafeOnlyAfterExit' BY <1>1, <1>2, Touched DEF childVars
<1>4. MainType' BY <1>1 DEF IInv, TypeOK, MainType, mainVars
<1>5. Proceeds(c, "done") BY <1>1 DEF Proceeds, Replies
<1>6. pc[c] \in Early BY <1>1 DEF Early
<1> QED BY <1>1, <1>3, <1>4, <1>5, <1>6, EarlyStep

\* A new child: nobody has a request for it, and the table had none.
LEMMA StartBackend3Inv == ASSUME IInv, NEW c \in Calls, StartBackend3(c) PROVE IInv'
<1> DEFINE b == BackendOf[c]
<1>1. /\ b # None /\ table[b] = None
      /\ pc[c] = "new" /\ pc' = [pc EXCEPT ![c] = "starting"]
      /\ table' = [table EXCEPT ![b] = c]
      /\ proc' = [proc EXCEPT ![c] = "alive"] /\ cloop' = [cloop EXCEPT ![c] = "starting"]
      /\ main' = "check" /\ starting' = c
      /\ UNCHANGED <<service, changed, leaked, inbox, out, owner, current, freed, ref, answerVars, ghosts>>
  BY DEF StartBackend3, Goto
<1>2. b \in Backends BY <1>1, Backend3Assumption
<1>3. /\ CallOK(c) /\ AnswerOK(c) /\ ChildOK(c) /\ OwnerOK(c) /\ RequestOK(c)
  BY DEF IInv
<1>4. /\ MainType /\ ChildType /\ InboxType /\ SharedType /\ CallType /\ AnswerType /\ GhostType
  BY DEF IInv, TypeOK
<1>5. cloop[c] = "none" /\ proc[c] = "none" /\ ~ freed[c] BY <1>1, <1>3 DEF CallOK, ChildOK
<1>6. /\ pc'[c] = "starting" /\ table'[b] = c /\ proc'[c] = "alive" /\ cloop'[c] = "starting"
      /\ \A d \in Calls : d # c => pc'[d] = pc[d] /\ proc'[d] = proc[d] /\ cloop'[d] = cloop[d]
  BY <1>1, <1>2, <1>4 DEF CallType, ChildType, SharedType
<1>7. /\ "starting" \in Early /\ "starting" \notin Holding /\ "new" \in Early /\ "new" \notin Holding
  BY DEF Early, Holding
<1>8. TypeOK'
  <2>1. MainType' BY <1>1, <1>4 DEF MainType
  <2>2. ChildType' /\ SharedType' BY <1>1, <1>4 DEF ChildType, SharedType
  <2>3. CallType' BY <1>1, <1>4, <1>7 DEF CallType
  <2>4. InboxType' /\ AnswerType' /\ GhostType'
    BY <1>1, <1>4 DEF InboxType, AnswerType, GhostType, answerVars, ghosts
  <2> QED BY <2>1, <2>2, <2>3, <2>4 DEF TypeOK
<1>9. TableLife' BY <1>1, <1>4, <1>6 DEF IInv, TableLife, SharedType
<1>10. UnsafeOnlyAfterExit' BY <1>1, <1>4, <1>5, <1>6 DEF IInv, UnsafeOnlyAfterExit, ghosts, GhostType
<1>11. About(c, c)
  <2>1. \A d \in Calls : d # c => SameCall(d) BY <1>1, <1>6 DEF SameCall, answerVars
  <2>2. \A d \in Calls : d # c => SameChild(d) BY <1>1, <1>6 DEF SameChild
  <2>3. \A j \in Calls : j # c /\ cloop[j] \notin {"none", "gone"} => BackendOf[j] # b
    BY <1>1, Backend3Assumption DEF IInv, ChildOK
  <2>4. \A j \in Calls : j # c /\ cloop[j] \notin {"none", "gone"} =>
          table'[BackendOf[j]] = table[BackendOf[j]]
    BY <1>1, <1>4, <2>3, Backend3Assumption DEF SharedType, IInv, ChildOK
  <2> QED BY <1>1, <1>5, <1>6, <1>7, <2>1, <2>2, <2>4 DEF About, answerVars, ghosts, IInv
<1>12. CallOK(c)' BY <1>1, <1>2, <1>3, <1>6, <1>7 DEF CallOK, answerVars
<1>13. AnswerOK(c)' BY <1>1, <1>3, <1>6, <1>7 DEF AnswerOK, CallOK, answerVars, ghosts
<1>14. ChildOK(c)' BY <1>1, <1>2, <1>5, <1>6 DEF ChildOK
<1>15. owner[c] = None BY <1>3, <1>5, <1>4 DEF IInv, OwnerOK, CallOK, SharedType
<1>16. OwnerOK(c)' /\ RequestOK(c)'
  BY <1>1, <1>3, <1>5, <1>6, <1>15 DEF OwnerOK, RequestOK
<1> QED BY <1>8, <1>9, <1>10, <1>11, <1>12, <1>13, <1>14, <1>16, Assemble

-----------------------------------------------------------------------------
(* Steps of a call that enters a child, is in it or leaves it.             *)

\* What is known of the call c and of its child.
LEMMA InChild ==
  ASSUME IInv, NEW c \in Calls, pc[c] \in Holding \cup {"trylock"}
  PROVE  /\ ref[c] \in Calls /\ CallOK(c) /\ AnswerOK(c)
         /\ ChildOK(ref[c]) /\ OwnerOK(ref[c]) /\ RequestOK(ref[c])
         /\ cloop[ref[c]] # "none" /\ BackendOf[c] \in Backends
         /\ pc[c] \in Holding => owner[ref[c]] = c
         /\ None \notin Calls
<1>1. ref[c] \in Calls /\ cloop[ref[c]] # "none" BY DEF IInv, CallOK
<1>2. BackendOf[c] \in Backends BY DEF IInv, CallOK, Holding
<1>3. pc[c] \in Holding => owner[ref[c]] = c BY DEF IInv, CallOK
<1>4. None \notin Calls BY Backend3Assumption
<1> QED BY <1>1, <1>2, <1>3, <1>4 DEF IInv

LEMMA TakeChildInv == ASSUME IInv, NEW c \in Calls, TakeChild(c) PROVE IInv'
<1> PICK k : k = ref[c] OBVIOUS
<1>1. /\ pc[c] = "trylock" /\ pc' = [pc EXCEPT ![c] = "write"]
      /\ owner[k] = None
      /\ owner' = [owner EXCEPT ![k] = c] /\ current' = [current EXCEPT ![k] = c]
      /\ missed' = IF cloop[k] \in {"running", "reading"} THEN missed ELSE missed \cup {c}
      /\ Touch(k)
      /\ UNCHANGED <<mainVars, childVars, table, freed, ref, answerVars, lost>>
  BY DEF TakeChild, Enter, Goto
<1>2. /\ k \in Calls /\ CallOK(c) /\ AnswerOK(c) /\ ChildOK(k) /\ OwnerOK(k) /\ RequestOK(k)
      /\ cloop[k] # "none" /\ BackendOf[c] \in Backends /\ None \notin Calls
  BY <1>1, InChild
<1>3. /\ MainType /\ ChildType /\ InboxType /\ SharedType /\ CallType /\ AnswerType /\ GhostType
  BY DEF IInv, TypeOK
<1>4. /\ pc'[c] = "write" /\ owner'[k] = c
      /\ \A d \in Calls : d # c => pc'[d] = pc[d]
      /\ \A j \in Calls : j # k => owner'[j] = owner[j]
  BY <1>1, <1>2, <1>3 DEF CallType, SharedType
<1>5. uaf' \subseteq Calls /\ UnsafeOnlyAfterExit' BY <1>1, <1>2, Touched DEF childVars
<1>6. /\ "write" \in Holding /\ "write" \notin Early /\ "trylock" \in Early /\ "trylock" \notin Holding
  BY DEF Holding, Early
<1>7. TypeOK'
  <2>1. MainType' /\ ChildType' /\ InboxType' /\ AnswerType'
    BY <1>1, <1>3 DEF MainType, ChildType, InboxType, AnswerType, mainVars, childVars, answerVars
  <2>2. SharedType' BY <1>1, <1>2, <1>3 DEF SharedType
  <2>3. CallType' BY <1>1, <1>3, <1>6 DEF CallType
  <2>4. GhostType' BY <1>1, <1>3, <1>5 DEF GhostType, answerVars
  <2> QED BY <2>1, <2>2, <2>3, <2>4 DEF TypeOK
<1>8. TableLife' BY <1>1 DEF IInv, TableLife, childVars
<1>9. About(c, k)
  <2>1. \A d \in Calls : d # c => SameCall(d) BY <1>1, <1>4 DEF SameCall, answerVars
  <2>2. \A j \in Calls : j # k => SameChild(j) BY <1>1, <1>4 DEF SameChild, childVars
  <2>3. current' = owner' BY <1>1 DEF IInv
  <2>4. missed \subseteq missed' /\ lost' = lost /\ again' = again BY <1>1 DEF answerVars
  <2>5. UNCHANGED <<proc, cloop, table>> BY <1>1 DEF childVars
  <2> QED BY <1>1, <1>2, <1>6, <2>1, <2>2, <2>3, <2>4, <2>5 DEF About
<1>10. CallOK(c)' BY <1>1, <1>2, <1>4, <1>6 DEF CallOK, childVars
<1>11. AnswerOK(c)' BY <1>1, <1>2, <1>4, <1>6 DEF AnswerOK, CallOK, childVars, answerVars
<1>12. ChildOK(k)' BY <1>1, <1>2 DEF ChildOK, childVars
<1>13. OwnerOK(k)' BY <1>1, <1>2, <1>4, <1>6 DEF OwnerOK
<1>14. RequestOK(k)'
  <2>1. proc[k] # "reaped" => inbox[k] = <<>> BY <1>1, <1>2 DEF RequestOK
  <2>2. proc[k] = "reaped" => c \in missed' BY <1>1, <1>2 DEF ChildOK
  <2> QED BY <1>1, <1>2, <1>4, <2>1, <2>2 DEF RequestOK, childVars
<1> QED BY <1>2, <1>5, <1>7, <1>8, <1>9, <1>10, <1>11, <1>12, <1>13, <1>14, Assemble

LEMMA Pipe == ASSUME NEW S, NEW c \in S
              PROVE  /\ Append(<<>>, c) = <<c>> /\ <<c>> # <<>> /\ <<c>> \in Seq(S)
                     /\ Tail(<<c>>) = <<>> /\ Head(<<c>>) = c /\ <<>> \in Seq(S)
OBVIOUS

\* The pipe of a child that lives is empty when a call writes its request.
LEMMA WriteToStdinInv == ASSUME IInv, NEW c \in Calls, WriteToStdin(c) PROVE IInv'
<1> PICK k : k = ref[c] OBVIOUS
<1>1. /\ pc[c] = "write" /\ pc' = [pc EXCEPT ![c] = "run"]
      /\ inbox' = IF proc[k] = "alive" THEN [inbox EXCEPT ![k] = Append(@, c)] ELSE inbox
      /\ Touch(k)
      /\ UNCHANGED <<mainVars, proc, out, cloop, sharedVars, ref, answerVars, lost, missed>>
  BY DEF WriteToStdin, Goto
<1>2. /\ "write" \in Holding /\ "write" \notin Early /\ "run" \in Holding /\ "run" \notin Early
  BY DEF Holding, Early
<1>3. /\ k \in Calls /\ CallOK(c) /\ AnswerOK(c) /\ ChildOK(k) /\ OwnerOK(k) /\ RequestOK(k)
      /\ cloop[k] # "none" /\ BackendOf[c] \in Backends /\ owner[k] = c /\ None \notin Calls
  BY <1>1, <1>2, InChild
<1>4. /\ MainType /\ ChildType /\ InboxType /\ SharedType /\ CallType /\ AnswerType /\ GhostType
  BY DEF IInv, TypeOK
<1>5. /\ pc'[c] = "run" /\ \A d \in Calls : d # c => pc'[d] = pc[d]
  BY <1>1, <1>4 DEF CallType
<1>6. uaf' \subseteq Calls /\ UnsafeOnlyAfterExit' BY <1>1, <1>3, Touched
<1>7. proc[k] # "reaped" => inbox[k] = <<>> /\ Runs(running, c)
  BY <1>1, <1>3 DEF RequestOK, AnswerOK
<1>8. /\ proc[k] = "alive" => inbox' = [inbox EXCEPT ![k] = <<c>>]
      /\ proc[k] # "alive" => inbox' = inbox
  BY <1>1, <1>7, Pipe
<1>9. /\ proc[k] = "alive" => inbox'[k] = <<c>>
      /\ \A j \in Calls : j # k => inbox'[j] = inbox[j]
  BY <1>3, <1>4, <1>8 DEF InboxType
<1>10. TypeOK'
  <2>1. MainType' /\ ChildType' /\ SharedType' /\ AnswerType'
    BY <1>1, <1>4 DEF MainType, ChildType, SharedType, AnswerType, mainVars, sharedVars, answerVars
  <2>2. CallType' BY <1>1, <1>2, <1>4 DEF CallType
  <2>3. InboxType'
    <3>1. inbox' \in [Calls -> Seq(Calls)]
      <4>1. <<c>> \in Seq(Calls) /\ inbox \in [Calls -> Seq(Calls)] BY <1>4 DEF InboxType
      <4> QED BY <1>8, <4>1
    <3>2. \A j \in Calls : inbox'[j] # <<>> => \E d \in Calls : inbox'[j] = <<d>>
      BY <1>4, <1>8, <1>9 DEF InboxType
    <3> QED BY <3>1, <3>2 DEF InboxType
  <2>4. GhostType' BY <1>1, <1>4, <1>6 DEF GhostType, answerVars
  <2> QED BY <2>1, <2>2, <2>3, <2>4 DEF TypeOK
<1>11. TableLife' BY <1>1 DEF IInv, TableLife, sharedVars
<1>12. About(c, k)
  <2>1. \A d \in Calls : d # c => SameCall(d) BY <1>1, <1>5 DEF SameCall, answerVars
  <2>2. \A j \in Calls : j # k => SameChild(j) BY <1>1, <1>9 DEF SameChild, sharedVars
  <2> QED BY <1>1, <1>3, <2>1, <2>2 DEF About, IInv, sharedVars, answerVars
<1>13. CallOK(c)' BY <1>1, <1>2, <1>3, <1>5 DEF CallOK, sharedVars
<1>14. AnswerOK(c)' BY <1>1, <1>2, <1>3, <1>5 DEF AnswerOK, answerVars
<1>15. ChildOK(k)' BY <1>1, <1>3 DEF ChildOK, sharedVars
<1>16. OwnerOK(k)' BY <1>1, <1>2, <1>3, <1>5 DEF OwnerOK, sharedVars
<1>17. RequestOK(k)'
  <2>1. CASE proc[k] = "alive"
    BY <1>1, <1>3, <1>5, <1>7, <1>9, <2>1, Pipe DEF RequestOK, sharedVars, answerVars
  <2>2. CASE proc[k] # "alive"
    BY <1>1, <1>3, <1>5, <1>7, <1>8, <2>2 DEF RequestOK, sharedVars, answerVars
  <2> QED BY <2>1, <2>2
<1> QED BY <1>3, <1>6, <1>10, <1>11, <1>12, <1>13, <1>14, <1>15, <1>16, <1>17, Assemble

LEMMA RunLoopInv == ASSUME IInv, NEW c \in Calls, RunLoop(c) PROVE IInv'
<1> PICK k : k = ref[c] OBVIOUS
<1>1. /\ pc[c] = "run" /\ pc' = [pc EXCEPT ![c] = "running"]
      /\ running' = [running EXCEPT ![c] = TRUE]
      /\ lost' = IF running[c] THEN lost ELSE lost \cup {c}
      /\ UNCHANGED <<mainVars, childVars, sharedVars, ref, reply, again, answered, missed, uaf>>
  BY DEF RunLoop, Goto
<1>2. /\ "run" \in Holding /\ "run" \notin Early /\ "running" \in Holding /\ "running" \notin Early
  BY DEF Holding, Early
<1>3. /\ k \in Calls /\ CallOK(c) /\ AnswerOK(c) /\ ChildOK(k) /\ OwnerOK(k) /\ RequestOK(k)
      /\ cloop[k] # "none" /\ BackendOf[c] \in Backends /\ owner[k] = c /\ None \notin Calls
  BY <1>1, <1>2, InChild
<1>4. /\ MainType /\ ChildType /\ InboxType /\ SharedType /\ CallType /\ AnswerType /\ GhostType
  BY DEF IInv, TypeOK
<1>5. /\ pc'[c] = "running" /\ \A d \in Calls : d # c => pc'[d] = pc[d]
  BY <1>1, <1>4 DEF CallType
<1>6. /\ Runs(running', c) /\ \A d \in Calls : d # c => running'[d] = running[d]
  BY <1>1, <1>4 DEF AnswerType, Runs
<1>7. lost \subseteq lost' /\ lost' \subseteq Calls /\ (c \notin lost' => Runs(running, c))
  BY <1>1, <1>4 DEF GhostType, Runs
<1>8. TypeOK'
  <2>1. MainType' /\ ChildType' /\ InboxType' /\ SharedType'
    BY <1>1, <1>4 DEF MainType, ChildType, InboxType, SharedType, mainVars, childVars, sharedVars
  <2>2. CallType' BY <1>1, <1>2, <1>4 DEF CallType
  <2>3. running' \in [Calls -> BOOLEAN] BY <1>1, <1>4 DEF AnswerType
  <2>4. AnswerType' BY <1>1, <1>4, <2>3 DEF AnswerType
  <2>5. GhostType' BY <1>1, <1>4, <1>7 DEF GhostType
  <2> QED BY <2>1, <2>2, <2>4, <2>5 DEF TypeOK
<1>9. TableLife' BY <1>1 DEF IInv, TableLife, childVars, sharedVars
<1>10. UnsafeOnlyAfterExit' BY <1>1 DEF IInv, UnsafeOnlyAfterExit, childVars
<1>11. About(c, k)
  <2>1. \A d \in Calls : d # c => SameCall(d) BY <1>1, <1>5, <1>6 DEF SameCall
  <2>2. \A j \in Calls : SameChild(j) BY <1>1 DEF SameChild, childVars, sharedVars
  <2>3. UNCHANGED <<owner, current, table, proc, cloop, again, missed>> BY <1>1 DEF sharedVars, childVars
  <2>4. k = c => cloop[c] # "none" BY <1>3
  <2>5. cloop'[k] = "none" <=> cloop[k] = "none" /\ k # c BY <1>3, <2>3
  <2> QED BY <1>3, <1>7, <2>1, <2>2, <2>3, <2>5 DEF About, IInv
<1>12. CallOK(c)' BY <1>1, <1>2, <1>3, <1>5 DEF CallOK, childVars, sharedVars
<1>13. AnswerOK(c)'
  <2>1. UNCHANGED <<ref, reply, again, answered, missed, proc>> BY <1>1 DEF childVars
  <2> QED BY <1>1, <1>2, <1>3, <1>5, <1>6, <1>7, <2>1 DEF AnswerOK
<1>14. ChildOK(k)' BY <1>1, <1>3 DEF ChildOK, childVars, sharedVars
<1>15. OwnerOK(k)' BY <1>1, <1>2, <1>3, <1>5 DEF OwnerOK, sharedVars
<1>16. RequestOK(k)'
  <2>1. UNCHANGED <<out, inbox, proc, owner, missed>> BY <1>1 DEF childVars, sharedVars
  <2> QED BY <1>3, <1>5, <1>6, <2>1 DEF RequestOK
<1> QED BY <1>3, <1>8, <1>9, <1>10, <1>11, <1>12, <1>13, <1>14, <1>15, <1>16, Assemble

\* A call whose loop was quit has no request left in a child that lives.
LEMMA FreeMethodDataInv == ASSUME IInv, NEW c \in Calls, FreeMethodData(c) PROVE IInv'
<1> PICK k : k = ref[c] OBVIOUS
<1>1. /\ pc[c] = "running" /\ pc' = [pc EXCEPT ![c] = "freed"] /\ ~ running[c]
      /\ UNCHANGED <<mainVars, childVars, sharedVars, ref, answerVars, ghosts>>
  BY DEF FreeMethodData, Goto
<1>2. /\ "running" \in Holding /\ "running" \notin Early /\ "freed" \in Holding /\ "freed" \notin Early
  BY DEF Holding, Early
<1>3. /\ k \in Calls /\ CallOK(c) /\ AnswerOK(c) /\ ChildOK(k) /\ OwnerOK(k) /\ RequestOK(k)
      /\ cloop[k] # "none" /\ BackendOf[c] \in Backends /\ owner[k] = c /\ None \notin Calls
  BY <1>1, <1>2, InChild
<1>4. /\ MainType /\ ChildType /\ InboxType /\ SharedType /\ CallType /\ AnswerType /\ GhostType
  BY DEF IInv, TypeOK
<1>5. /\ pc'[c] = "freed" /\ \A d \in Calls : d # c => pc'[d] = pc[d]
  BY <1>1, <1>4 DEF CallType
<1>6. ~ Runs(running, c) BY <1>1 DEF Runs
<1>7. TypeOK'
  <2>1. MainType' /\ ChildType' /\ InboxType' /\ SharedType'
    BY <1>1, <1>4 DEF MainType, ChildType, InboxType, SharedType, mainVars, childVars, sharedVars
  <2>2. CallType' BY <1>1, <1>2, <1>4 DEF CallType
  <2>3. AnswerType' /\ GhostType' BY <1>1, <1>4 DEF AnswerType, GhostType, answerVars, ghosts
  <2> QED BY <2>1, <2>2, <2>3 DEF TypeOK
<1>8. TableLife' BY <1>1 DEF IInv, TableLife, childVars, sharedVars
<1>9. UnsafeOnlyAfterExit' BY <1>1 DEF IInv, UnsafeOnlyAfterExit, childVars, ghosts
<1>10. About(c, k)
  <2>1. \A d \in Calls : d # c => SameCall(d) BY <1>1, <1>5 DEF SameCall, answerVars
  <2>2. \A j \in Calls : SameChild(j) BY <1>1 DEF SameChild, childVars, sharedVars
  <2> QED BY <1>1, <1>3, <2>1, <2>2 DEF About, IInv, childVars, sharedVars, answerVars, ghosts
<1>11. CallOK(c)' BY <1>1, <1>2, <1>3, <1>5 DEF CallOK, childVars, sharedVars
<1>12. AnswerOK(c)' BY <1>1, <1>2, <1>3, <1>5 DEF AnswerOK, childVars, answerVars, ghosts
<1>13. ChildOK(k)' BY <1>1, <1>3 DEF ChildOK, childVars, sharedVars
<1>14. OwnerOK(k)' BY <1>1, <1>2, <1>3, <1>5 DEF OwnerOK, sharedVars
<1>15. RequestOK(k)' BY <1>1, <1>3, <1>6 DEF RequestOK, childVars, sharedVars, ghosts
<1> QED BY <1>3, <1>7, <1>8, <1>9, <1>10, <1>11, <1>12, <1>13, <1>14, <1>15, Assemble

LEMMA LeaveChildInv == ASSUME IInv, NEW c \in Calls, LeaveChild(c) PROVE IInv'
<1> PICK k : k = ref[c] OBVIOUS
<1>1. /\ pc[c] = "freed" /\ pc' = [pc EXCEPT ![c] = "done"]
      /\ current' = [current EXCEPT ![k] = None] /\ owner' = [owner EXCEPT ![k] = None]
      /\ Touch(k)
      /\ UNCHANGED <<mainVars, childVars, table, freed, ref, answerVars, lost, missed>>
  BY DEF LeaveChild, Goto
<1>2. /\ "freed" \in Holding /\ "freed" \notin Early /\ "done" \notin Holding /\ "done" \notin Early
  BY DEF Holding, Early
<1>3. /\ k \in Calls /\ CallOK(c) /\ AnswerOK(c) /\ ChildOK(k) /\ OwnerOK(k) /\ RequestOK(k)
      /\ cloop[k] # "none" /\ BackendOf[c] \in Backends /\ owner[k] = c /\ None \notin Calls
  BY <1>1, <1>2, InChild
<1>4. /\ MainType /\ ChildType /\ InboxType /\ SharedType /\ CallType /\ AnswerType /\ GhostType
  BY DEF IInv, TypeOK
<1>5. /\ pc'[c] = "done" /\ owner'[k] = None
      /\ \A d \in Calls : d # c => pc'[d] = pc[d]
      /\ \A j \in Calls : j # k => owner'[j] = owner[j]
  BY <1>1, <1>3, <1>4 DEF CallType, SharedType
<1>6. uaf' \subseteq Calls /\ UnsafeOnlyAfterExit' BY <1>1, <1>3, Touched DEF childVars
<1>7. TypeOK'
  <2>1. MainType' /\ ChildType' /\ InboxType' /\ AnswerType'
    BY <1>1, <1>4 DEF MainType, ChildType, InboxType, AnswerType, mainVars, childVars, answerVars
  <2>2. SharedType' BY <1>1, <1>3, <1>4 DEF SharedType
  <2>3. CallType' BY <1>1, <1>4 DEF CallType
  <2>4. GhostType' BY <1>1, <1>4, <1>6 DEF GhostType, answerVars
  <2> QED BY <2>1, <2>2, <2>3, <2>4 DEF TypeOK
<1>8. TableLife' BY <1>1 DEF IInv, TableLife, childVars
<1>9. About(c, k)
  <2>1. \A d \in Calls : d # c => SameCall(d) BY <1>1, <1>5 DEF SameCall, answerVars
  <2>2. \A j \in Calls : j # k => SameChild(j) BY <1>1, <1>5 DEF SameChild, childVars
  <2>3. current' = owner' BY <1>1 DEF IInv
  <2>4. UNCHANGED <<proc, cloop, table, lost, missed, again>> BY <1>1 DEF childVars, answerVars
  <2> QED BY <1>3, <2>1, <2>2, <2>3, <2>4 DEF About
<1>10. CallOK(c)' BY <1>2, <1>5 DEF CallOK
<1>11. AnswerOK(c)' BY <1>1, <1>2, <1>3, <1>5 DEF AnswerOK, childVars, answerVars
<1>12. ChildOK(k)' BY <1>1, <1>3 DEF ChildOK, childVars
<1>13. OwnerOK(k)' BY <1>5 DEF OwnerOK
<1>14. RequestOK(k)' BY <1>1, <1>3, <1>5 DEF RequestOK, childVars
<1> QED BY <1>3, <1>6, <1>7, <1>8, <1>9, <1>10, <1>11, <1>12, <1>13, <1>14, Assemble

-----------------------------------------------------------------------------
(* Steps of a child and of its thread.                                     *)

\* There was at most one request in the pipe.
LEMMA EmptiedPipe ==
  ASSUME InboxType, NEW k \in Calls, inbox' = inbox \/ inbox' = [inbox EXCEPT ![k] = <<>>]
  PROVE  /\ InboxType' /\ inbox'[k] \in {inbox[k], <<>>}
         /\ \A j \in Calls : j # k => inbox'[j] = inbox[j]
<1>1. <<>> \in Seq(Calls) OBVIOUS
<1>2. inbox' \in [Calls -> Seq(Calls)] BY <1>1 DEF InboxType
<1>3. \A j \in Calls : inbox'[j] \in {inbox[j], <<>>} /\ (j # k => inbox'[j] = inbox[j])
  BY DEF InboxType
<1>4. \A j \in Calls : inbox'[j] # <<>> => \E c \in Calls : inbox'[j] = <<c>>
  BY <1>3 DEF InboxType
<1> QED BY <1>2, <1>3, <1>4 DEF InboxType

\* Steps that change no call, and reap no process.
LEMMA ChildOnly ==
  ASSUME IInv, NEW k \in Calls,
         \A j \in Calls : j # k => SameChild(j),
         UNCHANGED <<owner, current, callVars, answerVars, lost, missed>>,
         inbox' = inbox \/ inbox' = [inbox EXCEPT ![k] = <<>>],
         proc'[k] = "reaped" <=> proc[k] = "reaped",
         cloop[k] # "none" /\ cloop'[k] # "none",
         out'[k] # "empty" => inbox'[k] # <<>>,
         \/ table' = table
         \/ table[BackendOf[k]] = k /\ table' = [table EXCEPT ![BackendOf[k]] = None],
         MainType', ChildType', SharedType', uaf' \subseteq Calls, UnsafeOnlyAfterExit',
         ChildOK(k)'
  PROVE  IInv'
<1> USE DEF callVars, answerVars
<1>1. RequestOK(k) /\ OwnerOK(k) BY DEF IInv
<1>2. CallType' /\ AnswerType' /\ GhostType'
  BY DEF IInv, TypeOK, CallType, AnswerType, GhostType
<1>3. InboxType' /\ inbox'[k] \in {inbox[k], <<>>} BY EmptiedPipe DEF IInv, TypeOK
<1>4. table \in [Backends -> Calls \cup {None}] BY DEF IInv, TypeOK, SharedType
<1>5. TableLife'
  <2>1. \A j \in Calls : cloop[j] # "none" => cloop'[j] # "none" BY DEF SameChild
  <2>2. \A b \in Backends : table'[b] # None => table'[b] = table[b] BY <1>4
  <2> QED BY <1>4, <2>1, <2>2 DEF IInv, TableLife
<1>6. About(None, k)
  <2>1. \A d \in Calls : SameCall(d) BY DEF SameCall
  <2>2. \A j \in Calls : j # k /\ cloop[j] \notin {"none", "gone"} =>
          table'[BackendOf[j]] = table[BackendOf[j]]
    BY <1>4 DEF IInv, ChildOK
  <2> QED BY <2>1, <2>2, Backend3Assumption DEF About, IInv
<1>7. OwnerOK(k)' BY <1>1 DEF OwnerOK
<1>8. RequestOK(k)' BY <1>1, <1>3 DEF RequestOK
<1> QED BY <1>2, <1>3, <1>5, <1>6, <1>7, <1>8, Assemble, Backend3Assumption DEF TypeOK

LEMMA ProcessInv ==
  ASSUME IInv, NEW k \in Calls, ChildReply(k) \/ ChildExit(k) \/ MethodTimeout(k) \/ KillIfNotUsed(k)
  PROVE  IInv'
<1>1. /\ UNCHANGED <<mainVars, inbox, cloop, sharedVars, callVars, answerVars, ghosts>>
      /\ proc[k] = "alive"
      /\ \/ /\ proc' = proc /\ inbox[k] # <<>>
            /\ \E o \in {"part", "rest"} : out' = [out EXCEPT ![k] = o]
         \/ out' = out /\ proc' = [proc EXCEPT ![k] = "zombie"]
  BY DEF ChildReply, ChildExit, MethodTimeout, KillIfNotUsed
<1>2. ChildType /\ SharedType /\ MainType /\ GhostType /\ ChildOK(k) /\ RequestOK(k)
  BY DEF IInv, TypeOK
<1>3. /\ proc'[k] \in {"alive", "zombie"} /\ (out'[k] # "empty" => inbox[k] # <<>>)
      /\ \A j \in Calls : j # k => proc'[j] = proc[j] /\ out'[j] = out[j]
  BY <1>1, <1>2 DEF ChildType, RequestOK
<1>4. \A j \in Calls : j # k => SameChild(j) BY <1>1, <1>3 DEF SameChild, sharedVars
<1>5. ChildType' BY <1>1, <1>2 DEF ChildType
<1>6. SharedType' /\ MainType' BY <1>1, <1>2 DEF SharedType, MainType, sharedVars, mainVars
<1>7. uaf' \subseteq Calls /\ UnsafeOnlyAfterExit'
  <2>1. \A j \in uaf : j # k /\ j \in Calls BY <1>1, <1>2 DEF IInv, UnsafeOnlyAfterExit, GhostType
  <2> QED BY <1>1, <1>2, <1>3, <2>1 DEF IInv, UnsafeOnlyAfterExit, ghosts, GhostType
<1>8. ChildOK(k)' /\ cloop[k] # "none" BY <1>1, <1>2, <1>3 DEF ChildOK, sharedVars
<1> QED BY <1>1, <1>3, <1>4, <1>5, <1>6, <1>7, <1>8, ChildOnly DEF sharedVars, ghosts

\* The thread of a child moves on.
LEMMA ThreadMovesInv ==
  ASSUME IInv, NEW k \in Calls,
         RunChildLoop(k) \/ ForCondSignal(k) \/ ReadPart(k) \/ EndLoop(k) \/ AwaitMethod(k)
  PROVE  IInv'
<1>1. /\ UNCHANGED <<service, changed, starting, leaked, proc, inbox, out, sharedVars, callVars,
                     answerVars, ghosts>>
      /\ main' = main \/ (main = "wait" /\ main' = "check")
  BY DEF RunChildLoop, ForCondSignal, ReadPart, EndLoop, AwaitMethod, mainVars
<1>2. \E from, to \in {"starting", "first", "running", "reading", "last", "quit", "removing"} :
        /\ cloop[k] = from /\ cloop' = [cloop EXCEPT ![k] = to]
        /\ from \in {"last", "quit"} <=> to \in {"last", "quit", "removing"}
        /\ from # "removing"
  BY DEF RunChildLoop, ForCondSignal, ReadPart, EndLoop, AwaitMethod, CGoto
<1>3. ChildType /\ SharedType /\ MainType /\ GhostType /\ ChildOK(k) /\ RequestOK(k)
  BY DEF IInv, TypeOK
<1>4. \A j \in Calls : j # k => SameChild(j)
  BY <1>1, <1>2, <1>3 DEF SameChild, sharedVars, ChildType
<1>5. ChildType' BY <1>1, <1>2, <1>3 DEF ChildType
<1>6. SharedType' BY <1>1, <1>3 DEF SharedType, sharedVars
<1>7. MainType' BY <1>1, <1>3 DEF MainType
<1>8. uaf' \subseteq Calls /\ UnsafeOnlyAfterExit'
  BY <1>1, <1>3 DEF IInv, UnsafeOnlyAfterExit, ghosts, GhostType
<1>9. ChildOK(k)' /\ cloop[k] # "none" /\ cloop'[k] # "none"
  BY <1>1, <1>2, <1>3 DEF ChildOK, sharedVars, ChildType
<1>10. out'[k] # "empty" => inbox[k] # <<>> BY <1>1, <1>3 DEF RequestOK
<1> QED BY <1>1, <1>4, <1>5, <1>6, <1>7, <1>8, <1>9, <1>10, ChildOnly DEF sharedVars, ghosts

LEMMA RemoveChildInv == ASSUME IInv, NEW k \in Calls, RemoveChild(k) PROVE IInv'
<1>1. /\ cloop[k] = "removing" /\ cloop' = [cloop EXCEPT ![k] = "gone"]
      /\ table' = [table EXCEPT ![BackendOf[k]] = None]
      /\ freed' = [freed EXCEPT ![k] = TRUE]
      /\ UNCHANGED <<mainVars, proc, inbox, out, owner, current, callVars, answerVars, ghosts>>
  BY DEF RemoveChild, CGoto
<1>2. ChildType /\ SharedType /\ MainType /\ GhostType /\ ChildOK(k) /\ RequestOK(k)
  BY DEF IInv, TypeOK
<1>3. \A j \in Calls : j # k => SameChild(j)
  <2>1. \A j \in Calls : j # k => cloop'[j] = cloop[j] BY <1>1, <1>2 DEF ChildType
  <2>2. \A j \in Calls : j # k => freed'[j] = freed[j] BY <1>1, <1>2 DEF SharedType
  <2> QED BY <1>1, <2>1, <2>2 DEF SameChild
<1>4. ChildType' BY <1>1, <1>2 DEF ChildType
<1>5. SharedType'
  <2>1. freed' \in [Calls -> BOOLEAN] BY <1>1, <1>2 DEF SharedType
  <2>2. table' \in [Backends -> Calls \cup {None}] BY <1>1, <1>2 DEF SharedType
  <2> QED BY <1>1, <1>2, <2>1, <2>2 DEF SharedType
<1>6. MainType' /\ uaf' \subseteq Calls /\ UnsafeOnlyAfterExit' BY <1>1, Undisturbed DEF ghosts
<1>7. cloop'[k] = "gone" BY <1>1, <1>2 DEF ChildType
<1>8. table[BackendOf[k]] = k /\ proc[k] = "reaped" BY <1>1, <1>2 DEF ChildOK
<1>9. ChildOK(k)' BY <1>1, <1>7, <1>8 DEF ChildOK
<1>10. out'[k] # "empty" => inbox[k] # <<>> BY <1>1, <1>2 DEF RequestOK
<1> QED BY <1>1, <1>3, <1>4, <1>5, <1>6, <1>7, <1>8, <1>9, <1>10, ChildOnly DEF ghosts

\* The loop reads what its child has written: the call that waits for it has
\* not freed its method_data, unless the process was reaped.
LEMMA MethodTouched ==
  ASSUME IInv, NEW k \in Calls, TouchMethod(k), inbox[k] # <<>>, proc' = proc
  PROVE  uaf' \subseteq Calls /\ UnsafeOnlyAfterExit'
<1>1. current[k] # None /\ pc[current[k]] = "freed" => proc[k] = "reaped" BY DEF IInv, RequestOK
<1>2. uaf \subseteq Calls /\ \A j \in uaf : proc[j] = "reaped"
  BY DEF IInv, TypeOK, GhostType, UnsafeOnlyAfterExit
<1> QED BY <1>1, <1>2 DEF TouchMethod, UnsafeOnlyAfterExit

\* The callback for output may run in the last iteration too.
LEMMA StdoutMoves ==
  ASSUME IInv, NEW k \in Calls, Stdout(k), UNCHANGED <<proc, table, freed>>
  PROVE  /\ cloop' \in [Calls -> {"none", "starting", "first", "running", "reading", "last", "quit",
                                  "removing", "gone"}]
         /\ \A j \in Calls : j # k => cloop'[j] = cloop[j]
         /\ ChildOK(k)' /\ cloop[k] # "none" /\ cloop'[k] # "none"
<1>1. ChildType /\ ChildOK(k) BY DEF IInv, TypeOK
<1>2. /\ cloop[k] \in {"running", "reading", "last"}
      /\ cloop' = [cloop EXCEPT ![k] = IF cloop[k] = "last" THEN "quit" ELSE "running"]
  BY DEF Stdout
<1>3. /\ cloop'[k] = (IF cloop[k] = "last" THEN "quit" ELSE "running")
      /\ \A j \in Calls : j # k => cloop'[j] = cloop[j]
      /\ cloop' \in [Calls -> {"none", "starting", "first", "running", "reading", "last", "quit",
                               "removing", "gone"}]
  BY <1>1, <1>2 DEF ChildType
<1>4. ChildOK(k)' BY <1>1, <1>2, <1>3 DEF ChildOK
<1> QED BY <1>2, <1>3, <1>4

LEMMA ReadBrokenInv == ASSUME IInv, NEW k \in Calls, ReadBroken(k) PROVE IInv'
<1>1. /\ out[k] = "part" /\ Stdout(k) /\ out' = [out EXCEPT ![k] = "empty"] /\ TouchMethod(k)
      /\ UNCHANGED <<mainVars, proc, inbox, sharedVars, callVars, answerVars, lost, missed>>
  BY DEF ReadBroken
<1>2. ChildType /\ SharedType /\ MainType /\ RequestOK(k) BY DEF IInv, TypeOK
<1>3. /\ cloop' \in [Calls -> {"none", "starting", "first", "running", "reading", "last", "quit",
                               "removing", "gone"}]
      /\ \A j \in Calls : j # k => cloop'[j] = cloop[j]
      /\ ChildOK(k)' /\ cloop[k] # "none" /\ cloop'[k] # "none"
  BY <1>1, StdoutMoves DEF sharedVars
<1>4. out'[k] = "empty" /\ \A j \in Calls : j # k => out'[j] = out[j] BY <1>1, <1>2 DEF ChildType
<1>5. \A j \in Calls : j # k => SameChild(j) BY <1>1, <1>3, <1>4 DEF SameChild, sharedVars
<1>6. ChildType' BY <1>1, <1>2, <1>3 DEF ChildType
<1>7. SharedType' /\ MainType' BY <1>1, <1>2 DEF SharedType, MainType, sharedVars, mainVars
<1>8. uaf' \subseteq Calls /\ UnsafeOnlyAfterExit'
  BY <1>1, <1>2, MethodTouched DEF RequestOK
<1> QED BY <1>1, <1>3, <1>4, <1>5, <1>6, <1>7, <1>8, ChildOnly DEF sharedVars

\* What is known of the call that is entered in child k.
LEMMA Entered ==
  ASSUME IInv, NEW k \in Calls, current[k] # None
  PROVE  /\ current[k] \in Calls /\ owner[k] = current[k]
         /\ pc[current[k]] \in Holding /\ ref[current[k]] = k
         /\ CallOK(current[k]) /\ AnswerOK(current[k])
<1>1. current[k] \in Calls /\ owner[k] = current[k] BY DEF IInv, TypeOK, SharedType
<1>2. pc[owner[k]] \in Holding /\ ref[owner[k]] = k BY <1>1 DEF IInv, OwnerOK
<1> QED BY <1>1, <1>2 DEF IInv

\* A whole reply: it is that to the request of the call that waits for it, or
\* the call has entered after the process was reaped.
LEMMA ReadReplyInv == ASSUME IInv, NEW k \in Calls, ReadReply(k) PROVE IInv'
<1> PICK c : c = current[k] OBVIOUS
<1>1. /\ out[k] = "rest" /\ Stdout(k) /\ out' = [out EXCEPT ![k] = "empty"] /\ TouchMethod(k)
      /\ inbox' = [inbox EXCEPT ![k] = Tail(inbox[k])]
      /\ UNCHANGED <<mainVars, proc, sharedVars, callVars, lost, missed>>
      /\ IF c # None /\ answered[c] = None THEN Finish(k, c) ELSE UNCHANGED answerVars
  BY DEF ReadReply
<1>2. /\ MainType /\ ChildType /\ InboxType /\ SharedType /\ CallType /\ AnswerType /\ GhostType
      /\ RequestOK(k) /\ OwnerOK(k)
  BY DEF IInv, TypeOK
<1>3. PICK x \in Calls : inbox[k] = <<x>> BY <1>1, <1>2 DEF RequestOK, InboxType
<1>4. inbox' = [inbox EXCEPT ![k] = <<>>] /\ Head(inbox[k]) = x /\ inbox[k] # <<>>
  BY <1>1, <1>3, Pipe
<1>5. InboxType' /\ inbox'[k] = <<>> /\ \A j \in Calls : j # k => inbox'[j] = inbox[j]
  <2>1. inbox'[k] = <<>> BY <1>2, <1>4 DEF InboxType
  <2> QED BY <1>2, <1>4, <2>1, EmptiedPipe
<1>6. /\ cloop' \in [Calls -> {"none", "starting", "first", "running", "reading", "last", "quit",
                               "removing", "gone"}]
      /\ \A j \in Calls : j # k => cloop'[j] = cloop[j]
      /\ ChildOK(k)' /\ cloop[k] # "none" /\ cloop'[k] # "none"
  BY <1>1, StdoutMoves DEF sharedVars
<1>7. out'[k] = "empty" /\ \A j \in Calls : j # k => out'[j] = out[j] BY <1>1, <1>2 DEF ChildType
<1>8. \A j \in Calls : j # k => SameChild(j) BY <1>1, <1>5, <1>6, <1>7 DEF SameChild, sharedVars
<1>9. ChildType' BY <1>1, <1>2, <1>6 DEF ChildType
<1>10. SharedType' /\ MainType' /\ CallType'
  BY <1>1, <1>2 DEF SharedType, MainType, CallType, sharedVars, mainVars, callVars
<1>11. uaf' \subseteq Calls /\ UnsafeOnlyAfterExit' BY <1>1, <1>4, MethodTouched
<1>12. CASE ~ (c # None /\ answered[c] = None)
  <2>1. UNCHANGED answerVars BY <1>1, <1>12
  <2> QED BY <1>1, <1>4, <1>5, <1>6, <1>7, <1>8, <1>9, <1>10, <1>11, <2>1, ChildOnly DEF sharedVars
<1>13. CASE c # None /\ answered[c] = None
  <2>1. /\ reply' = IF reply[c] = "none" THEN [reply EXCEPT ![c] = "value"] ELSE reply
        /\ again' = IF reply[c] = "none" THEN again ELSE again \cup {c}
        /\ answered' = [answered EXCEPT ![c] = x]
        /\ running' = [running EXCEPT ![c] = FALSE]
    BY <1>1, <1>4, <1>13 DEF Finish, Answer, Quit
  <2>2. /\ c \in Calls /\ owner[k] = c /\ pc[c] \in Holding /\ ref[c] = k
        /\ CallOK(c) /\ AnswerOK(c)
    BY <1>13, Entered
  <2>3. pc[c] \notin Early BY <2>2 DEF Holding, Early
  <2>4. /\ answered'[c] = x /\ reply'[c] = (IF reply[c] = "none" THEN "value" ELSE reply[c])
        /\ \A d \in Calls : d # c => reply'[d] = reply[d] /\ answered'[d] = answered[d]
    BY <1>2, <2>1, <2>2 DEF AnswerType
  <2>5. ~ Runs(running', c) /\ \A d \in Calls : d # c => running'[d] = running[d]
    BY <1>2, <2>1, <2>2 DEF AnswerType, Runs
  <2>6. AnswerType'
    <3>1. running' \in [Calls -> BOOLEAN] BY <1>2, <2>1 DEF AnswerType
    <3> QED BY <1>2, <2>1, <3>1 DEF AnswerType
  <2>7. GhostType' BY <1>1, <1>2, <1>11, <2>1, <2>2 DEF GhostType
  <2>8. TableLife'
    <3>1. table' = table /\ \A j \in Calls : cloop[j] # "none" => cloop'[j] # "none"
      BY <1>1, <1>6 DEF sharedVars
    <3> QED BY <1>2, <3>1 DEF IInv, TableLife, SharedType
  <2>9. About(c, k)
    <3>1. \A d \in Calls : d # c => SameCall(d) BY <1>1, <2>4, <2>5 DEF SameCall, callVars
    <3>2. again' \subseteq again \cup {c} BY <2>1
    <3>3. UNCHANGED <<proc, owner, current, table, lost, missed>> BY <1>1 DEF sharedVars
    <3> QED BY <1>6, <1>8, <2>2, <3>1, <3>2, <3>3 DEF About, IInv
  <2>10. CallOK(c)' BY <1>1, <1>6, <2>2, <2>3 DEF CallOK, callVars, sharedVars
  <2>11. AnswerOK(c)'
    <3>1. proc[k] # "reaped" => pc[c] # "write" BY <1>2, <1>4, <2>2 DEF RequestOK
    <3>2. x = c \/ c \in missed BY <1>2, <1>3, <1>4, <1>13, <2>2 DEF RequestOK
    <3>3. reply'[c] = "down" => proc[k] = "reaped" BY <2>2, <2>4 DEF AnswerOK
    <3>4. c \in again' => (reply[c] # "none" /\ reply[c] = "down") \/ c \in again
      BY <1>13, <2>1, <2>2 DEF AnswerOK
    <3>5. c \in again' => /\ reply'[c] # "none" /\ proc[k] = "reaped"
                          /\ c \in lost \/ reply'[c] = "down"
      BY <2>2, <2>4, <3>4 DEF AnswerOK
    <3>6. UNCHANGED <<pc, ref, proc, lost, missed>> BY <1>1 DEF callVars
    <3> QED BY <1>13, <2>2, <2>3, <2>4, <2>5, <3>1, <3>2, <3>3, <3>5, <3>6, Backend3Assumption
         DEF AnswerOK
  <2>12. OwnerOK(k)' BY <1>1, <1>2 DEF OwnerOK, sharedVars, callVars
  <2>13. RequestOK(k)' BY <1>5, <1>7 DEF RequestOK
  <2> QED BY <1>5, <1>6, <1>9, <1>10, <1>11, <2>6, <2>7, <2>8, <2>9, <2>10, <2>11, <2>12, <2>13,
             Assemble DEF TypeOK
<1> QED BY <1>12, <1>13

\* The end of the process: a call whose loop runs is told.
LEMMA OnChildExitedInv == ASSUME IInv, NEW k \in Calls, OnChildExited(k) PROVE IInv'
<1> PICK c : c = current[k] OBVIOUS
<1>1. /\ proc[k] = "zombie" /\ cloop[k] = "running"
      /\ cloop' = [cloop EXCEPT ![k] = "last"] /\ proc' = [proc EXCEPT ![k] = "reaped"]
      /\ TouchMethod(k)
      /\ UNCHANGED <<mainVars, inbox, out, sharedVars, callVars, lost, missed>>
      /\ IF c # None THEN TellCaller(c) ELSE UNCHANGED answerVars
  BY DEF OnChildExited, CGoto
<1>2. /\ MainType /\ ChildType /\ InboxType /\ SharedType /\ CallType /\ AnswerType /\ GhostType
      /\ RequestOK(k) /\ OwnerOK(k) /\ ChildOK(k)
  BY DEF IInv, TypeOK
<1>3. /\ proc'[k] = "reaped" /\ cloop'[k] = "last"
      /\ \A j \in Calls : j # k => proc'[j] = proc[j] /\ cloop'[j] = cloop[j]
      /\ ChildType'
  BY <1>1, <1>2 DEF ChildType
<1>4. \A j \in Calls : j # k => SameChild(j) BY <1>1, <1>3 DEF SameChild, sharedVars
<1>5. SharedType' /\ MainType' /\ CallType' /\ InboxType'
  BY <1>1, <1>2 DEF SharedType, MainType, CallType, InboxType, sharedVars, mainVars, callVars
<1>6. uaf' \subseteq Calls /\ UnsafeOnlyAfterExit'
  <2>1. uaf \subseteq Calls /\ \A j \in uaf : proc[j] = "reaped"
    BY <1>2 DEF IInv, GhostType, UnsafeOnlyAfterExit
  <2>2. uaf' \subseteq uaf \cup {k} BY <1>1 DEF TouchMethod
  <2> QED BY <1>3, <2>1, <2>2 DEF UnsafeOnlyAfterExit
<1>7. TableLife'
  <2>1. table' = table /\ \A j \in Calls : cloop[j] # "none" => cloop'[j] # "none"
    BY <1>1, <1>3 DEF sharedVars
  <2> QED BY <1>2, <2>1 DEF IInv, TableLife, SharedType
<1>8. ChildOK(k)' BY <1>1, <1>2, <1>3 DEF ChildOK, sharedVars
<1>9. OwnerOK(k)' BY <1>1, <1>2 DEF OwnerOK, sharedVars, callVars
<1>10. RequestOK(k)'
  <2>1. inbox[k] # <<>> => inbox[k] = <<owner[k]>> BY <1>1, <1>2 DEF RequestOK
  <2> QED BY <1>1, <1>2, <1>3, <2>1 DEF RequestOK, sharedVars
\* The answer to the call, if there is one.
<1>11. CASE c # None /\ running[c]
  <2>1. /\ reply' = IF reply[c] = "none" THEN [reply EXCEPT ![c] = "down"] ELSE reply
        /\ again' = IF reply[c] = "none" THEN again ELSE again \cup {c}
        /\ answered' = answered
        /\ running' = [running EXCEPT ![c] = FALSE]
    BY <1>1, <1>11 DEF TellCaller, Answer, Quit
  <2>2. /\ c \in Calls /\ owner[k] = c /\ pc[c] \in Holding /\ ref[c] = k
        /\ CallOK(c) /\ AnswerOK(c)
    BY <1>11, Entered
  <2>3. pc[c] \notin Early BY <2>2 DEF Holding, Early
  <2>4. /\ reply'[c] = (IF reply[c] = "none" THEN "down" ELSE reply[c])
        /\ \A d \in Calls : d # c => reply'[d] = reply[d]
    BY <1>2, <2>1, <2>2 DEF AnswerType
  <2>5. /\ ~ Runs(running', c) /\ Runs(running, c)
        /\ \A d \in Calls : d # c => running'[d] = running[d]
    BY <1>2, <1>11, <2>1, <2>2 DEF AnswerType, Runs
  <2>6. AnswerType'
    <3>1. running' \in [Calls -> BOOLEAN] BY <1>2, <2>1 DEF AnswerType
    <3> QED BY <1>2, <2>1, <3>1 DEF AnswerType
  <2>7. GhostType' BY <1>1, <1>2, <1>6, <2>1, <2>2 DEF GhostType
  <2>8. About(c, k)
    <3>1. \A d \in Calls : d # c => SameCall(d) BY <1>1, <2>1, <2>4, <2>5 DEF SameCall, callVars
    <3>2. again' \subseteq again \cup {c} BY <2>1
    <3>3. UNCHANGED <<owner, current, table, lost, missed>> BY <1>1 DEF sharedVars
    <3> QED BY <1>1, <1>3, <1>4, <2>2, <3>1, <3>2, <3>3 DEF About, IInv
  <2>9. CallOK(c)' BY <1>1, <1>3, <2>2, <2>3 DEF CallOK, callVars, sharedVars
  <2>10. AnswerOK(c)'
    <3>1. reply'[c] # "none" /\ (answered[c] = None => reply'[c] = "down") BY <2>2, <2>4 DEF AnswerOK
    <3>2. c \in again' => c \in lost \/ reply'[c] = "down"
      BY <2>1, <2>2, <2>4, <2>5 DEF AnswerOK
    <3>3. answered[c] \in {None, c} \/ c \in missed BY <2>2 DEF AnswerOK
    <3>4. UNCHANGED <<pc, ref, lost, missed, answered>> BY <1>1, <2>1 DEF callVars
    <3> QED BY <1>3, <2>2, <2>3, <2>5, <3>1, <3>2, <3>3, <3>4 DEF AnswerOK
  <2> QED BY <1>3, <1>5, <1>6, <1>7, <1>8, <1>9, <1>10, <2>6, <2>7, <2>8, <2>9, <2>10, Assemble
       DEF TypeOK
<1>12. CASE ~ (c # None /\ running[c])
  <2>1. UNCHANGED <<running, reply, again, answered>>
    BY <1>1, <1>12 DEF TellCaller, answerVars
  <2>2. AnswerType' BY <1>2, <2>1 DEF AnswerType
  <2>3. GhostType' BY <1>1, <1>2, <1>6, <2>1 DEF GhostType
  <2>4. \A d \in Calls : SameCall(d) BY <1>1, <2>1 DEF SameCall, callVars
  <2>5. UNCHANGED <<owner, current, table, lost, missed>> BY <1>1 DEF sharedVars
  <2>6. About(None, k) BY <1>1, <1>3, <1>4, <2>1, <2>4, <2>5, Backend3Assumption DEF About, IInv
  <2> QED BY <1>3, <1>5, <1>6, <1>7, <1>8, <1>9, <1>10, <2>2, <2>3, <2>6, Assemble,
             Backend3Assumption DEF TypeOK
<1> QED BY <1>11, <1>12

-----------------------------------------------------------------------------
(* The theorems.                                                           *)

LEMMA InitInv == Init => IInv
<1> SUFFICES ASSUME Init PROVE IInv OBVIOUS
<1> USE DEF Init
<1>1. "new" \in Early /\ "new" \notin Holding BY DEF Early, Holding
<1>2. MainType /\ ChildType /\ SharedType BY DEF MainType, ChildType, SharedType
<1>3. InboxType BY DEF InboxType
<1>4. CallType /\ AnswerType /\ GhostType BY <1>1 DEF CallType, AnswerType, GhostType
<1>5. TableLife /\ UnsafeOnlyAfterExit BY DEF TableLife, UnsafeOnlyAfterExit
<1>6. ASSUME NEW k \in Calls PROVE ChildOK(k) /\ OwnerOK(k) /\ RequestOK(k)
  BY DEF ChildOK, OwnerOK, RequestOK
<1>7. ASSUME NEW c \in Calls PROVE CallOK(c) /\ AnswerOK(c)
  BY <1>1 DEF CallOK, AnswerOK, Runs
<1>8. current = owner OBVIOUS
<1> QED BY <1>2, <1>3, <1>4, <1>5, <1>6, <1>7, <1>8 DEF IInv, TypeOK

LEMMA NextInv == IInv /\ [Next]_vars => IInv'
<1> SUFFICES ASSUME IInv, [Next]_vars PROVE IInv' OBVIOUS
<1>1. CASE MainStep
  BY <1>1, HandleCallInv, StartBackend3Inv, LoopStartedInv, CondWaitInv, MainStepInv DEF MainStep
<1>2. CASE ChangeFlag \/ Crash \/ UNCHANGED vars BY <1>2, MainStepInv
<1>3. ASSUME NEW c \in Calls, RefuseCall(c) \/ CallStep(c) PROVE IInv'
  BY <1>3, HandleCallInv, LookupInv, BusyInv, TakeChildInv, WriteToStdinInv, RunLoopInv,
     FreeMethodDataInv, LeaveChildInv DEF CallStep
<1>4. ASSUME NEW k \in Calls, ThreadStep(k) PROVE IInv'
  BY <1>4, ThreadMovesInv, ReadBrokenInv, ReadReplyInv, OnChildExitedInv, RemoveChildInv
     DEF ThreadStep
<1>5. ASSUME NEW k \in Calls,
             ChildReply(k) \/ ChildExit(k) \/ MethodTimeout(k) \/ KillIfNotUsed(k)
      PROVE IInv'
  BY <1>5, ProcessInv
<1> QED BY <1>1, <1>2, <1>3, <1>4, <1>5 DEF Next

\* The inductive invariant holds in every state.
THEOREM Invariance == Spec => []IInv
BY InitInv, NextInv, PTL DEF Spec

\* Every variable has its type; a pipe holds at most one request.
THEOREM TypeCorrect == Spec => []TypeOK
<1>1. IInv => TypeOK BY DEF IInv
<1> QED BY <1>1, Invariance, PTL

\* start_backend3() never starts a second process for a name, and no process
\* is left without its entry in backend3_table.
THEOREM OneProcess == Spec => []OneProcessPerBackend
<1>1. IInv => OneProcessPerBackend
  <2> SUFFICES ASSUME IInv, NEW k \in Calls, proc[k] \in {"alive", "zombie"}
               PROVE  table[BackendOf[k]] = k
    BY DEF OneProcessPerBackend
  <2>1. ChildOK(k) /\ ChildType BY DEF IInv, TypeOK
  <2> QED BY <2>1 DEF ChildOK, ChildType
<1> QED BY <1>1, Invariance, PTL

\* The mutex of a ChildData lets one call into it at a time.
THEOREM OneCall == Spec => []OneCallPerChild
<1>1. IInv => OneCallPerChild BY DEF IInv, CallOK, OneCallPerChild
<1> QED BY <1>1, Invariance, PTL

\* on_child_stdout() gives a caller the reply to its own request.
THEOREM RepliesOwn == Spec => []OwnReply
<1>1. IInv => OwnReply BY DEF IInv, AnswerOK, OwnReply
<1> QED BY <1>1, Invariance, PTL

\* A call is answered a second time only when its child has ended.
THEOREM AnsweredOnce == Spec => []AnsweredTwiceOnlyAtExit
<1>1. IInv => AnsweredTwiceOnlyAtExit
  BY DEF IInv, TypeOK, GhostType, AnswerOK, AnsweredTwiceOnlyAtExit
<1> QED BY <1>1, Invariance, PTL

\* Neither a ChildData nor a method_data is used freed while its process lives
\* or is not reaped.
THEOREM UnsafeAfterExit == Spec => []UnsafeOnlyAfterExit
<1>1. IInv => UnsafeOnlyAfterExit BY DEF IInv
<1> QED BY <1>1, Invariance, PTL
=============================================================================
