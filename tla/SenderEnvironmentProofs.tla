------------------------ MODULE SenderEnvironmentProofs ------------------------
(***************************************************************************)
(* Proofs about SenderEnvironment: its safety properties, for any senders, *)
(* names and values and any number of calls.                               *)
(***************************************************************************)
EXTENDS SenderEnvironment, TLAPS

Tables == [Names -> Values \cup {Unset}]

\* Messages in the inbox, and handler threads by their position.
Messages == [kind : {"call"}, sender : Senders, slot : Slots]
            \cup [kind : {"names"}, names : SUBSET Senders]
Waiting == [pc : {"queued", "auth"}, req : Requests]
Working == [pc : {"create", "apply"}, req : Requests, tab : Nat]

\* Every variable has its type, and a thread works on a table that exists.
TypeOK ==
  /\ user_mode \in BOOLEAN
  /\ conn \in [Senders -> {"new", "on", "off"}]
  /\ inbox \in Seq(Messages)
  /\ available \in BOOLEAN
  /\ listing \in {"no", "asked", "answered"}
  /\ sysNames \in SUBSET Senders
  /\ heap \in Seq(Tables)
  /\ table \in [Senders -> 0..Len(heap)]
  /\ handler \in [Senders -> [Slots -> {Idle} \cup Waiting \cup Working]]
  /\ \A s \in Senders, k \in Slots : handler[s][k].pc = "apply" => handler[s][k].tab \in 1..Len(heap)
  /\ acked \in [Senders -> Tables]
  /\ calls \in Nat
  /\ vanished \in Nat

IsCall(q, i, s, k) == q[i].kind = "call" /\ q[i].sender = s /\ q[i].slot = k

\* A call in the inbox has not been started, and is there once.
InboxIsQueued ==
  \A i \in 1..Len(inbox), s \in Senders, k \in Slots :
    IsCall(inbox, i, s, k) => /\ handler[s][k].pc = "queued"
                              /\ \A j \in 1..Len(inbox) : IsCall(inbox, j, s, k) => i = j

\* A sender that has not connected has left no trace.
NewIsUnknown ==
  \A s \in Senders : conn[s] = "new" =>
    table[s] = 0 /\ acked[s] = Empty /\ \A k \in Slots : handler[s][k] = Idle

\* A sender that connected after the bus made a list of names has no call before
\* that list in the inbox, and so no table when the list is used.
ListKnowsTheServed ==
  \A i \in 1..Len(inbox), s \in Senders :
    inbox[i].kind = "names" /\ s \notin inbox[i].names /\ conn[s] = "on" =>
      /\ table[s] = 0
      /\ \A k \in Slots : handler[s][k].pc \in {"idle", "queued"}
      /\ \A j \in 1..Len(inbox), k \in Slots : IsCall(inbox, j, s, k) => i < j

\* No two senders have a table in common, nor does a thread work on the table of
\* another sender.
TablesUnshared ==
  /\ \A s, r \in Senders : table[s] # 0 /\ table[s] = table[r] => s = r
  /\ \A s, r \in Senders, k \in Slots :
       handler[s][k].pc = "apply" /\ handler[s][k].tab = table[r] => s = r

\* The inductive invariant.
IInv ==
  /\ TypeOK
  /\ InboxIsQueued
  /\ NewIsUnknown
  /\ ListKnowsTheServed
  /\ TablesUnshared

-----------------------------------------------------------------------------
(* Senders that wait for the answer to a call before the next one.         *)

OneAtATime == \E k : Slots = {k}

\* The thread of a connected sender works on the sender's own table, which has
\* what was acknowledged at any time.
Orderly(s) ==
  ~ user_mode /\ conn[s] = "on" =>
    /\ \A k \in Slots : /\ handler[s][k].pc = "create" => table[s] = 0
                        /\ handler[s][k].pc = "apply" => handler[s][k].tab = table[s]
    /\ Visible(s) = acked[s]

OrderlyInv == IInv /\ \A s \in Senders : Orderly(s)

\* What modules see of a sender changes by calls of that sender only, or when its
\* table is removed: the table of tables is shared by the threads of all.
OthersUntouched ==
  [][\A s \in Senders :
       (\A k \in Slots : handler'[s][k] = handler[s][k]) /\ table'[s] # 0 => Visible(s)' = Visible(s)]_vars

-----------------------------------------------------------------------------
(* Sequences and records.                                                  *)

\* A message is delivered, or a table is allocated, at the end of a sequence.
LEMMA AppendFacts ==
  ASSUME NEW S, NEW q \in Seq(S), NEW x \in S
  PROVE  /\ Append(q, x) \in Seq(S)
         /\ Len(Append(q, x)) = Len(q) + 1 /\ Len(q) \in Nat
         /\ \A i \in 1..Len(q) : Append(q, x)[i] = q[i]
         /\ Append(q, x)[Len(q) + 1] = x
  OBVIOUS

\* The oldest message is taken.
LEMMA TailFacts ==
  ASSUME NEW S, NEW q \in Seq(S), q # <<>>
  PROVE  /\ Tail(q) \in Seq(S)
         /\ Len(Tail(q)) = Len(q) - 1 /\ Len(q) \in Nat \ {0}
         /\ \A i \in 1..Len(Tail(q)) : Tail(q)[i] = q[i + 1]
         /\ Head(q) = q[1] /\ q[1] \in S
  OBVIOUS

\* What the position of a thread says about its record.
LEMMA HandlerFacts ==
  ASSUME TypeOK, NEW s \in Senders, NEW k \in Slots
  PROVE  /\ handler[s][k].pc \in {"idle", "queued", "auth", "create", "apply"}
         /\ handler[s][k].pc = "idle" => handler[s][k] = Idle
         /\ handler[s][k].pc \in {"queued", "auth"} => handler[s][k] \in Waiting
         /\ handler[s][k].pc \in {"create", "apply"} => handler[s][k] \in Working
  BY DEF TypeOK, Idle, Waiting, Working

\* The new contents of a table are contents of a table.
LEMMA UpdatedTyped ==
  ASSUME NEW r \in Requests, NEW t \in Tables
  PROVE  Updated(r, t) \in Tables
  BY DEF Updated, Succeeds, Requests, Tables

LEMMA EmptyTyped == Empty \in Tables
  BY DEF Empty, Tables

-----------------------------------------------------------------------------
\* The initial state.
LEMMA InitInv == Init => IInv
<1> SUFFICES ASSUME Init PROVE IInv
  OBVIOUS
<1>1. TypeOK
  <2>1. user_mode \in BOOLEAN
    BY EnvironmentAssumption DEF Init
  <2>2. inbox \in Seq(Messages) /\ heap \in Seq(Tables)
    BY DEF Init
  <2>3. table \in [Senders -> 0..Len(heap)]
    BY DEF Init
  <2>4. acked \in [Senders -> Tables]
    BY EmptyTyped DEF Init
  <2>5. \A s \in Senders, k \in Slots : handler[s][k].pc # "apply"
    BY DEF Init, Idle
  <2> QED
    BY <2>1, <2>2, <2>3, <2>4, <2>5 DEF Init, TypeOK
<1>2. InboxIsQueued /\ NewIsUnknown /\ ListKnowsTheServed /\ TablesUnshared
  BY DEF Init, InboxIsQueued, NewIsUnknown, ListKnowsTheServed, TablesUnshared, Idle
<1> QED
  BY <1>1, <1>2 DEF IInv

-----------------------------------------------------------------------------
(* Steps that keep the invariant.                                          *)

\* A sender connects or disconnects.
LEMMA ConnectionKeeps ==
  ASSUME IInv, NEW s \in Senders, Connect(s) \/ Disconnect(s)
  PROVE  IInv'
<1> USE DEF IInv, serviceVars, tableVars, bounds
<1>1. /\ conn' = [conn EXCEPT ![s] = conn'[s]] /\ conn'[s] \in {"on", "off"}
      /\ UNCHANGED <<user_mode, inbox, available, listing, sysNames, table, heap, handler, acked,
                     calls, vanished>>
  BY DEF TypeOK, Connect, Disconnect
<1>2. TypeOK'
  BY <1>1 DEF TypeOK
<1>3. InboxIsQueued' /\ NewIsUnknown' /\ TablesUnshared'
  BY <1>1 DEF TypeOK, InboxIsQueued, NewIsUnknown, TablesUnshared, IsCall
<1>4. ListKnowsTheServed'
  <2>1. CASE Connect(s)
    <3>1. /\ table[s] = 0 /\ \A k \in Slots : handler[s][k].pc = "idle"
      BY <2>1 DEF Connect, NewIsUnknown, Idle
    <3>2. \A i \in 1..Len(inbox), k \in Slots : ~ IsCall(inbox, i, s, k)
      BY <3>1 DEF InboxIsQueued
    <3> QED
      BY <1>1, <3>1, <3>2, <2>1 DEF Connect, TypeOK, ListKnowsTheServed, IsCall
  <2>2. CASE Disconnect(s)
    <3>1. \A t \in Senders : conn'[t] = "on" => conn[t] = "on"
      BY <2>2 DEF Disconnect, TypeOK
    <3> QED
      BY <1>1, <3>1 DEF ListKnowsTheServed
  <2> QED
    BY <2>1, <2>2
<1> QED
  BY <1>2, <1>3, <1>4

\* A call is delivered.
LEMMA CallKeeps ==
  ASSUME IInv, NEW s \in Senders, NEW k \in Slots, NEW r \in Requests, Call(s, k, r)
  PROVE  IInv'
<1> USE DEF IInv, tableVars
<1> DEFINE m == [kind |-> "call", sender |-> s, slot |-> k]
           h == [pc |-> "queued", req |-> r]
<1>1. /\ conn[s] = "on" /\ handler[s][k].pc = "idle"
      /\ inbox' = Append(inbox, m)
      /\ handler' = [handler EXCEPT ![s][k] = h]
      /\ UNCHANGED <<user_mode, conn, available, listing, sysNames, table, heap, acked, vanished>>
  BY DEF Call, Idle
<1>2. m \in Messages /\ h \in Waiting /\ h.pc = "queued"
  BY DEF Messages, Waiting
<1>3. /\ inbox' \in Seq(Messages) /\ Len(inbox') = Len(inbox) + 1 /\ Len(inbox) \in Nat
      /\ \A i \in 1..Len(inbox) : inbox'[i] = inbox[i]
      /\ inbox'[Len(inbox) + 1] = m
  BY <1>1, <1>2, AppendFacts DEF TypeOK
<1>4. /\ handler' \in [Senders -> [Slots -> {Idle} \cup Waiting \cup Working]]
      /\ handler'[s][k] = h
      /\ \A t \in Senders, l \in Slots : t # s \/ l # k => handler'[t][l] = handler[t][l]
  BY <1>1, <1>2 DEF TypeOK
<1>5. TypeOK'
  <2>1. calls' \in Nat
    BY DEF Call, TypeOK
  <2> QED
    BY <1>1, <1>2, <1>3, <1>4, <2>1 DEF TypeOK
<1>6. \A i \in 1..Len(inbox), t \in Senders, l \in Slots :
        IsCall(inbox', i, t, l) <=> IsCall(inbox, i, t, l)
  BY <1>3 DEF IsCall
<1>7. \A t \in Senders, l \in Slots : IsCall(inbox', Len(inbox) + 1, t, l) <=> t = s /\ l = k
  BY <1>3 DEF IsCall
<1>8. \A i \in 1..Len(inbox) : ~ IsCall(inbox, i, s, k)
  BY <1>1 DEF InboxIsQueued
<1>9. InboxIsQueued'
  BY <1>2, <1>3, <1>4, <1>6, <1>7, <1>8 DEF InboxIsQueued
<1>10. NewIsUnknown' /\ TablesUnshared'
  BY <1>1, <1>2, <1>4 DEF NewIsUnknown, TablesUnshared
<1>11. ListKnowsTheServed'
  <2> SUFFICES ASSUME NEW i \in 1..Len(inbox'), NEW t \in Senders,
                      inbox'[i].kind = "names", t \notin inbox'[i].names, conn'[t] = "on"
               PROVE  /\ table'[t] = 0
                      /\ \A l \in Slots : handler'[t][l].pc \in {"idle", "queued"}
                      /\ \A j \in 1..Len(inbox'), l \in Slots : IsCall(inbox', j, t, l) => i < j
    BY DEF ListKnowsTheServed
  <2>1. i \in 1..Len(inbox)
    BY <1>3
  <2>2. inbox[i].kind = "names" /\ t \notin inbox[i].names /\ conn[t] = "on"
    BY <1>1, <1>3, <2>1
  <2>3. /\ table[t] = 0
        /\ \A l \in Slots : handler[t][l].pc \in {"idle", "queued"}
        /\ \A j \in 1..Len(inbox), l \in Slots : IsCall(inbox, j, t, l) => i < j
    BY <2>1, <2>2 DEF ListKnowsTheServed
  <2>4. \A l \in Slots : handler'[t][l].pc \in {"idle", "queued"}
    BY <1>2, <1>4, <2>3
  <2>5. \A j \in 1..Len(inbox'), l \in Slots : IsCall(inbox', j, t, l) => i < j
    <3> SUFFICES ASSUME NEW j \in 1..Len(inbox'), NEW l \in Slots, IsCall(inbox', j, t, l)
                 PROVE  i < j
      OBVIOUS
    <3>1. CASE j \in 1..Len(inbox)
      BY <1>6, <2>3, <3>1
    <3>2. CASE j = Len(inbox) + 1
      BY <1>3, <2>1, <3>2
    <3> QED
      BY <1>3, <3>1, <3>2
  <2> QED
    BY <1>1, <2>3, <2>4, <2>5
<1> QED
  BY <1>5, <1>9, <1>10, <1>11

\* The bus answers ListNames.
LEMMA AnswerKeeps ==
  ASSUME IInv, AnswerListNames
  PROVE  IInv'
<1> USE DEF IInv, tableVars, bounds
<1>1. UNCHANGED <<user_mode, conn, available, table, heap, handler, acked, calls, vanished>>
  BY DEF AnswerListNames
<1>2. listing' = "answered"
  BY DEF AnswerListNames
<1>3. CASE user_mode
  <2>1. UNCHANGED inbox /\ sysNames' \in SUBSET Senders
    BY <1>3 DEF AnswerListNames
  <2> QED
    BY <1>1, <1>2, <2>1 DEF TypeOK, InboxIsQueued, NewIsUnknown, ListKnowsTheServed, TablesUnshared
<1>4. CASE ~ user_mode
  <2> DEFINE m == [kind |-> "names", names |-> Connected]
  <2>1. UNCHANGED sysNames /\ inbox' = Append(inbox, m)
    BY <1>4 DEF AnswerListNames
  <2>2. m \in Messages /\ m.kind = "names" /\ m.names = Connected
    BY DEF Messages, Connected
  <2>3. /\ inbox' \in Seq(Messages) /\ Len(inbox') = Len(inbox) + 1 /\ Len(inbox) \in Nat
        /\ \A i \in 1..Len(inbox) : inbox'[i] = inbox[i]
        /\ inbox'[Len(inbox) + 1] = m
    BY <2>1, <2>2, AppendFacts DEF TypeOK
  <2> HIDE DEF m
  <2>4. TypeOK'
    BY <1>1, <1>2, <2>1, <2>3 DEF TypeOK
  <2>5. \A i \in 1..Len(inbox), t \in Senders, l \in Slots :
          IsCall(inbox', i, t, l) <=> IsCall(inbox, i, t, l)
    BY <2>3 DEF IsCall
  <2>6. \A t \in Senders, l \in Slots : ~ IsCall(inbox', Len(inbox) + 1, t, l)
    BY <2>2, <2>3 DEF IsCall
  <2>7. InboxIsQueued'
    BY <1>1, <2>3, <2>5, <2>6 DEF InboxIsQueued
  <2>8. NewIsUnknown' /\ TablesUnshared'
    BY <1>1 DEF NewIsUnknown, TablesUnshared
  <2>9. ListKnowsTheServed'
    <3> SUFFICES ASSUME NEW i \in 1..Len(inbox'), NEW t \in Senders,
                        inbox'[i].kind = "names", t \notin inbox'[i].names, conn'[t] = "on"
                 PROVE  /\ table'[t] = 0
                        /\ \A l \in Slots : handler'[t][l].pc \in {"idle", "queued"}
                        /\ \A j \in 1..Len(inbox'), l \in Slots : IsCall(inbox', j, t, l) => i < j
      BY DEF ListKnowsTheServed
    <3>1. i # Len(inbox) + 1
      BY <1>1, <2>2, <2>3 DEF Connected
    <3>2. i \in 1..Len(inbox)
      BY <2>3, <3>1
    <3>3. inbox[i].kind = "names" /\ t \notin inbox[i].names /\ conn[t] = "on"
      BY <1>1, <2>3, <3>2
    <3>4. /\ table[t] = 0
          /\ \A l \in Slots : handler[t][l].pc \in {"idle", "queued"}
          /\ \A j \in 1..Len(inbox), l \in Slots : IsCall(inbox, j, t, l) => i < j
      BY <3>2, <3>3 DEF ListKnowsTheServed
    <3>5. ASSUME NEW j \in 1..Len(inbox'), NEW l \in Slots, IsCall(inbox', j, t, l)
          PROVE  i < j
      <4>1. j \in 1..Len(inbox)
        BY <2>3, <2>6, <3>5
      <4> QED
        BY <2>5, <3>4, <3>5, <4>1
    <3> QED
      BY <1>1, <3>4, <3>5
  <2> QED
    BY <2>4, <2>7, <2>8, <2>9
<1> QED
  BY <1>3, <1>4

\* The bus name comes and goes, and the timer asks for the names.
LEMMA MonitorKeeps ==
  ASSUME IInv, NameAppeared \/ NameVanished \/ CheckSenders
  PROVE  IInv'
<1> USE DEF IInv, tableVars, bounds
<1>1. UNCHANGED <<user_mode, conn, inbox, sysNames, table, heap, handler, acked, calls>>
  BY DEF NameAppeared, NameVanished, CheckSenders
<1>2. TypeOK'
  <2>1. listing' \in {"no", "asked", "answered"}
    BY DEF NameAppeared, NameVanished, CheckSenders, TypeOK
  <2>2. available' \in BOOLEAN
    BY DEF NameAppeared, NameVanished, CheckSenders, TypeOK
  <2>3. vanished' \in Nat
    BY DEF NameAppeared, NameVanished, CheckSenders, TypeOK
  <2> QED
    BY <1>1, <2>1, <2>2, <2>3 DEF TypeOK
<1> QED
  BY <1>1, <1>2 DEF InboxIsQueued, NewIsUnknown, ListKnowsTheServed, TablesUnshared

\* remove_absent_senders() with a list that is at the head of the inbox, or came
\* from the other bus.
LEMMA RemoveKeeps ==
  ASSUME IInv, RemoveAbsentSenders
  PROVE  IInv'
<1> USE DEF IInv, bounds
<1>1. /\ \A s \in Senders : table'[s] \in {0, table[s]}
      /\ UNCHANGED <<user_mode, conn, available, sysNames, heap, handler, acked, calls, vanished>>
      /\ listing' = "no"
  BY DEF RemoveAbsentSenders, RemoveAbsent, TypeOK
<1>2. table' \in [Senders -> 0..Len(heap)]
  BY DEF RemoveAbsentSenders, RemoveAbsent, TypeOK
<1>3. NewIsUnknown'
  BY <1>1 DEF NewIsUnknown
<1>4. TablesUnshared'
  BY <1>1, HandlerFacts DEF TypeOK, TablesUnshared
<1>5. CASE UNCHANGED inbox
  <2>1. TypeOK'
    BY <1>1, <1>2, <1>5 DEF TypeOK
  <2> QED
    BY <1>1, <1>3, <1>4, <1>5, <2>1 DEF InboxIsQueued, ListKnowsTheServed
<1>6. CASE inbox # <<>> /\ inbox' = Tail(inbox)
  <2>1. /\ inbox' \in Seq(Messages)
        /\ Len(inbox') = Len(inbox) - 1 /\ Len(inbox) \in Nat \ {0}
        /\ \A i \in 1..Len(inbox') : inbox'[i] = inbox[i + 1]
    BY <1>6, TailFacts DEF TypeOK
  <2>2. TypeOK'
    BY <1>1, <1>2, <2>1 DEF TypeOK
  <2>3. /\ \A i \in 1..Len(inbox') : i + 1 \in 1..Len(inbox)
        /\ \A i \in 1..Len(inbox'), t \in Senders, l \in Slots :
             IsCall(inbox', i, t, l) <=> IsCall(inbox, i + 1, t, l)
    BY <2>1 DEF IsCall
  <2>4. InboxIsQueued'
    BY <1>1, <2>1, <2>3 DEF InboxIsQueued
  <2>5. ListKnowsTheServed'
    BY <1>1, <2>1, <2>3 DEF ListKnowsTheServed
  <2> QED
    BY <1>3, <1>4, <2>2, <2>4, <2>5
<1> QED
  BY <1>5, <1>6 DEF RemoveAbsentSenders

\* A handler thread is started for the call at the head of the inbox.
LEMMA StartKeeps ==
  ASSUME IInv, StartHandler
  PROVE  IInv'
<1> USE DEF IInv, tableVars, bounds
<1>1. /\ inbox # <<>> /\ inbox' = Tail(inbox) /\ Head(inbox).kind = "call"
      /\ UNCHANGED <<user_mode, conn, available, listing, sysNames, table, heap, acked, calls, vanished>>
  BY DEF StartHandler
<1>2. /\ inbox' \in Seq(Messages)
      /\ Len(inbox') = Len(inbox) - 1 /\ Len(inbox) \in Nat \ {0}
      /\ \A i \in 1..Len(inbox') : inbox'[i] = inbox[i + 1]
      /\ Head(inbox) = inbox[1] /\ inbox[1] \in Messages
  BY <1>1, TailFacts DEF TypeOK
<1>3. PICK s \in Senders, k \in Slots : IsCall(inbox, 1, s, k)
  BY <1>1, <1>2 DEF Messages, IsCall
<1> DEFINE h == [handler[s][k] EXCEPT !.pc = "auth"]
<1>4. handler[s][k].pc = "queued" /\ 1 \in 1..Len(inbox)
  BY <1>2, <1>3 DEF InboxIsQueued
<1>5. h \in Waiting /\ h.pc = "auth"
  BY <1>4, HandlerFacts DEF Waiting
<1>6. handler' = [handler EXCEPT ![s][k] = h]
  BY <1>1, <1>2, <1>3 DEF StartHandler, IsCall, TypeOK
<1> HIDE DEF h
<1>7. /\ handler' \in [Senders -> [Slots -> {Idle} \cup Waiting \cup Working]]
      /\ handler'[s][k] = h
      /\ \A t \in Senders, l \in Slots : t # s \/ l # k => handler'[t][l] = handler[t][l]
  BY <1>5, <1>6 DEF TypeOK
<1>8. TypeOK'
  BY <1>1, <1>2, <1>5, <1>7 DEF TypeOK
<1>9. /\ \A i \in 1..Len(inbox') : i + 1 \in 1..Len(inbox)
      /\ \A i \in 1..Len(inbox'), t \in Senders, l \in Slots :
           IsCall(inbox', i, t, l) <=> IsCall(inbox, i + 1, t, l)
  BY <1>2 DEF IsCall
<1>10. \A i \in 1..Len(inbox') : ~ IsCall(inbox', i, s, k)
  <2>1. \A j \in 1..Len(inbox) : IsCall(inbox, j, s, k) => j = 1
    BY <1>3, <1>4 DEF InboxIsQueued
  <2> SUFFICES ASSUME NEW i \in 1..Len(inbox'), IsCall(inbox', i, s, k)
               PROVE  FALSE
    OBVIOUS
  <2>2. i + 1 \in 1..Len(inbox) /\ IsCall(inbox, i + 1, s, k)
    BY <1>9
  <2>3. i \in Nat \ {0} /\ i + 1 = 1
    BY ONLY <1>2, <2>1, <2>2
  <2> QED
    BY ONLY <2>3
<1>11. InboxIsQueued'
  BY <1>2, <1>7, <1>9, <1>10 DEF InboxIsQueued
<1>12. NewIsUnknown'
  BY <1>1, <1>4, <1>5, <1>7 DEF NewIsUnknown, Idle
<1>13. TablesUnshared'
  BY <1>1, <1>4, <1>5, <1>7 DEF TablesUnshared, Idle
<1>14. ListKnowsTheServed'
  <2> SUFFICES ASSUME NEW i \in 1..Len(inbox'), NEW t \in Senders,
                      inbox'[i].kind = "names", t \notin inbox'[i].names, conn'[t] = "on"
               PROVE  /\ table'[t] = 0
                      /\ \A l \in Slots : handler'[t][l].pc \in {"idle", "queued"}
                      /\ \A j \in 1..Len(inbox'), l \in Slots : IsCall(inbox', j, t, l) => i < j
    BY DEF ListKnowsTheServed
  <2>1. inbox[i + 1].kind = "names" /\ t \notin inbox[i + 1].names /\ conn[t] = "on"
    BY <1>1, <1>2
  <2>2. /\ table[t] = 0
        /\ \A l \in Slots : handler[t][l].pc \in {"idle", "queued"}
        /\ \A j \in 1..Len(inbox), l \in Slots : IsCall(inbox, j, t, l) => i + 1 < j
    BY <1>9, <2>1 DEF ListKnowsTheServed
  <2>3. t # s
    BY <1>3, <1>4, <2>2
  <2>4. \A j \in 1..Len(inbox'), l \in Slots : IsCall(inbox', j, t, l) => i < j
    BY <1>9, <2>2
  <2> QED
    BY <1>1, <1>7, <2>2, <2>3, <2>4
<1> QED
  BY <1>8, <1>11, <1>12, <1>13, <1>14

\* What a step of a thread that was started does to the inbox and to the lists
\* of names in it: nothing.
LEMMA ThreadMoved ==
  ASSUME IInv, NEW s \in Senders, NEW k \in Slots, NEW h \in {Idle} \cup Waiting \cup Working,
         handler[s][k].pc \in {"auth", "create", "apply"}, h.pc # "queued",
         handler' = [handler EXCEPT ![s][k] = h], UNCHANGED <<conn, inbox>>,
         \A t \in Senders : t # s => table'[t] = table[t] /\ acked'[t] = acked[t]
  PROVE  /\ handler' \in [Senders -> [Slots -> {Idle} \cup Waiting \cup Working]]
         /\ handler'[s][k] = h
         /\ \A t \in Senders, l \in Slots : t # s \/ l # k => handler'[t][l] = handler[t][l]
         /\ InboxIsQueued' /\ NewIsUnknown' /\ ListKnowsTheServed'
<1> USE DEF IInv
<1>1. /\ handler' \in [Senders -> [Slots -> {Idle} \cup Waiting \cup Working]]
      /\ handler'[s][k] = h
      /\ \A t \in Senders, l \in Slots : t # s \/ l # k => handler'[t][l] = handler[t][l]
  BY DEF TypeOK
<1>2. \A i \in 1..Len(inbox) : ~ IsCall(inbox, i, s, k)
  BY DEF InboxIsQueued
<1>3. InboxIsQueued'
  BY <1>1, <1>2 DEF InboxIsQueued
<1>4. conn[s] # "new"
  BY DEF NewIsUnknown, Idle
<1>5. NewIsUnknown'
  BY <1>1, <1>4 DEF NewIsUnknown
<1>6. \A i \in 1..Len(inbox) : inbox[i].kind = "names" /\ conn[s] = "on" => s \in inbox[i].names
  BY DEF ListKnowsTheServed
<1>7. ListKnowsTheServed'
  <2> SUFFICES ASSUME NEW i \in 1..Len(inbox), NEW t \in Senders,
                      inbox[i].kind = "names", t \notin inbox[i].names, conn[t] = "on"
               PROVE  /\ table'[t] = 0
                      /\ \A l \in Slots : handler'[t][l].pc \in {"idle", "queued"}
                      /\ \A j \in 1..Len(inbox), l \in Slots : IsCall(inbox, j, t, l) => i < j
    BY DEF ListKnowsTheServed
  <2>1. t # s
    BY <1>6
  <2> QED
    BY <1>1, <2>1 DEF ListKnowsTheServed
<1> QED
  BY <1>1, <1>3, <1>5, <1>7

\* The caller is refused, or the table of the sender is looked up.
LEMMA LookupKeeps ==
  ASSUME IInv, NEW s \in Senders, NEW k \in Slots, Deny(s, k) \/ GetTable(s, k)
  PROVE  IInv'
<1> USE DEF IInv, serviceVars, tableVars, bounds
<1>1. /\ handler[s][k].pc = "auth"
      /\ UNCHANGED <<user_mode, conn, inbox, available, listing, sysNames, table, heap, acked, calls,
                     vanished>>
  BY DEF Deny, GetTable
<1>2. handler[s][k] \in Waiting
  BY <1>1, HandlerFacts
<1> DEFINE h == handler'[s][k]
<1>3. /\ h \in {Idle} \cup Working
      /\ handler' = [handler EXCEPT ![s][k] = h]
      /\ h.pc \in {"idle", "create", "apply"}
      /\ h.pc = "apply" => h.tab = table[s] /\ table[s] # 0
  <2>1. CASE Deny(s, k)
    <3>1. handler' = [handler EXCEPT ![s][k] = Idle]
      BY <2>1 DEF Deny, Move
    <3>2. h = Idle
      BY <3>1 DEF TypeOK
    <3>3. h.pc = "idle"
      BY <3>2 DEF Idle
    <3> QED
      BY <3>1, <3>2, <3>3
  <2>2. CASE GetTable(s, k)
    <3> DEFINE g == [req |-> handler[s][k].req, tab |-> table[s],
                     pc |-> IF table[s] = 0 THEN "create" ELSE "apply"]
    <3>1. table[s] \in Nat
      BY DEF TypeOK
    <3>2. /\ g \in Working /\ g.tab = table[s] /\ g.pc \in {"create", "apply"}
          /\ g.pc = "apply" => table[s] # 0
      BY <1>2, <3>1 DEF Waiting, Working
    <3>3. handler' = [handler EXCEPT ![s][k] = g]
      BY <2>2 DEF GetTable, Move
    <3> HIDE DEF g
    <3>4. h = g
      BY <3>3 DEF TypeOK
    <3> QED
      BY <3>2, <3>3, <3>4
  <2> QED
    BY <2>1, <2>2
<1> HIDE DEF h
<1>4. /\ handler' \in [Senders -> [Slots -> {Idle} \cup Waiting \cup Working]]
      /\ handler'[s][k] = h
      /\ \A t \in Senders, l \in Slots : t # s \/ l # k => handler'[t][l] = handler[t][l]
      /\ InboxIsQueued' /\ NewIsUnknown' /\ ListKnowsTheServed'
  BY <1>1, <1>3, ThreadMoved
<1>5. TypeOK'
  BY <1>1, <1>3, <1>4 DEF TypeOK
<1>6. TablesUnshared'
  BY <1>1, <1>3, <1>4 DEF TablesUnshared
<1> QED
  BY <1>4, <1>5, <1>6

\* A table is made: no one else can have it.
LEMMA CreateKeeps ==
  ASSUME IInv, NEW s \in Senders, NEW k \in Slots, CreateTable(s, k)
  PROVE  IInv'
<1> USE DEF IInv, serviceVars, bounds
<1> DEFINE new == Len(heap) + 1
           h == [handler[s][k] EXCEPT !.pc = "apply", !.tab = new]
<1>1. /\ handler[s][k].pc = "create" /\ heap' = Append(heap, Empty)
      /\ UNCHANGED <<user_mode, conn, inbox, available, listing, sysNames, acked, calls, vanished>>
  BY DEF CreateTable
<1>2. /\ heap' \in Seq(Tables) /\ Len(heap') = new /\ Len(heap) \in Nat
  BY <1>1, EmptyTyped, AppendFacts DEF TypeOK
<1>3. h \in Working /\ h.pc = "apply" /\ h.tab = new
  <2>1. handler[s][k] \in Working /\ new \in Nat
    BY <1>1, <1>2, HandlerFacts
  <2> QED
    BY <2>1 DEF Working
<1>4. table' = [table EXCEPT ![s] = new] /\ handler' = [handler EXCEPT ![s][k] = h]
  BY <1>2 DEF CreateTable, Move
<1> HIDE DEF h
<1>5. \A t \in Senders : t # s => table'[t] = table[t]
  BY <1>4 DEF TypeOK
<1>6. /\ handler' \in [Senders -> [Slots -> {Idle} \cup Waiting \cup Working]]
      /\ handler'[s][k] = h
      /\ \A t \in Senders, l \in Slots : t # s \/ l # k => handler'[t][l] = handler[t][l]
      /\ InboxIsQueued' /\ NewIsUnknown' /\ ListKnowsTheServed'
  BY <1>1, <1>3, <1>4, <1>5, ThreadMoved
<1>7. table' \in [Senders -> 0..Len(heap')] /\ table'[s] = new
  BY <1>2, <1>4 DEF TypeOK
<1>8. ASSUME NEW t \in Senders, NEW l \in Slots, handler'[t][l].pc = "apply"
      PROVE  handler'[t][l].tab \in 1..Len(heap')
  <2>1. CASE t = s /\ l = k
    BY <1>2, <1>3, <1>6, <2>1
  <2>2. CASE t # s \/ l # k
    BY <1>2, <1>6, <1>8, <2>2 DEF TypeOK
  <2> QED
    BY <2>1, <2>2
<1>9. TypeOK'
  BY <1>1, <1>2, <1>6, <1>7, <1>8 DEF TypeOK
<1>10. /\ \A t \in Senders : table[t] # new
       /\ \A t \in Senders, l \in Slots : handler[t][l].pc = "apply" => handler[t][l].tab # new
  BY <1>2 DEF TypeOK
<1>11. TablesUnshared'
  <2>1. \A t, r \in Senders : table'[t] # 0 /\ table'[t] = table'[r] => t = r
    BY <1>5, <1>7, <1>10 DEF TablesUnshared
  <2>2. ASSUME NEW t \in Senders, NEW r \in Senders, NEW l \in Slots,
               handler'[t][l].pc = "apply", handler'[t][l].tab = table'[r]
        PROVE  t = r
    <3>1. CASE t = s /\ l = k
      BY <1>3, <1>5, <1>6, <1>10, <2>2, <3>1
    <3>2. CASE t # s \/ l # k
      BY <1>5, <1>6, <1>7, <1>10, <2>2, <3>2 DEF TablesUnshared
    <3> QED
      BY <3>1, <3>2
  <2> QED
    BY <2>1, <2>2 DEF TablesUnshared
<1> QED
  BY <1>6, <1>9, <1>11

\* The operation on the table.
LEMMA ApplyKeeps ==
  ASSUME IInv, NEW s \in Senders, NEW k \in Slots, Apply(s, k)
  PROVE  IInv'
<1> USE DEF IInv, serviceVars, bounds
<1> DEFINE r == handler[s][k].req
           t == handler[s][k].tab
<1>1. /\ handler[s][k].pc = "apply" /\ heap' = [heap EXCEPT ![t] = Updated(r, heap[t])]
      /\ handler' = [handler EXCEPT ![s][k] = Idle]
      /\ acked' = acked \/ acked' = [acked EXCEPT ![s] = Updated(r, acked[s])]
      /\ UNCHANGED <<user_mode, conn, inbox, available, listing, sysNames, table, calls, vanished>>
  BY DEF Apply, Move
<1>2. r \in Requests /\ t \in 1..Len(heap)
  BY <1>1, HandlerFacts DEF Working, TypeOK
<1>3. /\ heap[t] \in Tables /\ Updated(r, heap[t]) \in Tables
      /\ acked[s] \in Tables /\ Updated(r, acked[s]) \in Tables
  BY <1>2, UpdatedTyped DEF TypeOK
<1>4. heap' \in Seq(Tables) /\ Len(heap') = Len(heap)
  BY <1>1, <1>2, <1>3 DEF TypeOK
<1>5. acked' \in [Senders -> Tables] /\ \A q \in Senders : q # s => acked'[q] = acked[q]
  BY <1>1, <1>3 DEF TypeOK
<1>6. /\ handler' \in [Senders -> [Slots -> {Idle} \cup Waiting \cup Working]]
      /\ handler'[s][k] = Idle
      /\ \A q \in Senders, l \in Slots : q # s \/ l # k => handler'[q][l] = handler[q][l]
      /\ InboxIsQueued' /\ NewIsUnknown' /\ ListKnowsTheServed'
  <2>1. Idle.pc = "idle"
    BY DEF Idle
  <2> QED
    BY <1>1, <1>5, <2>1, ThreadMoved
<1>7. Idle.pc # "apply"
  BY DEF Idle
<1>8. TypeOK'
  BY <1>1, <1>4, <1>5, <1>6, <1>7 DEF TypeOK
<1>9. TablesUnshared'
  BY <1>1, <1>6, <1>7 DEF TablesUnshared
<1> QED
  BY <1>6, <1>8, <1>9

\* Every step keeps the invariant.
LEMMA NextInv ==
  ASSUME IInv, [Next]_vars
  PROVE  IInv'
<1>1. CASE UNCHANGED vars
  BY <1>1 DEF vars, serviceVars, tableVars, bounds, IInv, TypeOK, InboxIsQueued, NewIsUnknown,
              ListKnowsTheServed, TablesUnshared
<1> QED
  BY <1>1, ConnectionKeeps, CallKeeps, AnswerKeeps, MonitorKeeps, RemoveKeeps, StartKeeps, LookupKeeps,
     CreateKeeps, ApplyKeeps
  DEF Next, HandlerStep

\* The invariant holds in every reachable state.
THEOREM Invariance == Spec => []IInv
<1>1. Init => IInv
  BY InitInv
<1>2. IInv /\ [Next]_vars => IInv'
  BY NextInv
<1> QED
  BY <1>1, <1>2, PTL DEF Spec

-----------------------------------------------------------------------------
(* What follows.                                                           *)

\* Every variable keeps its type, and a thread works on a table that exists.
THEOREM TypeCorrect == Spec => []TypeOK
<1>1. IInv => TypeOK
  BY DEF IInv
<1> QED
  BY <1>1, Invariance, PTL

\* Steps that take no table away.
LEMMA TablesStay ==
  ASSUME IInv, Next, NEW s \in Senders, table[s] # 0, table'[s] = 0
  PROVE  RemoveAbsentSenders
<1>1. ASSUME NEW t \in Senders, NEW k \in Slots, CreateTable(t, k)
      PROVE  FALSE
  <2>1. /\ table' = [table EXCEPT ![t] = Len(heap')] /\ Len(heap') = Len(heap) + 1
        /\ Len(heap) \in Nat
    BY <1>1, EmptyTyped, AppendFacts DEF CreateTable, IInv, TypeOK
  <2> QED
    BY <2>1 DEF IInv, TypeOK
<1> QED
  BY <1>1 DEF Next, Connect, Disconnect, Call, AnswerListNames, NameAppeared, NameVanished,
              CheckSenders, StartHandler, Deny, HandlerStep, GetTable, Apply, tableVars

\* On the system bus remove_absent_senders() takes no table of a connected sender
\* away, however old the list of names is.
THEOREM PresentKept == Spec => PresentAreKept
<1> DEFINE P == \A s \in Senders : ~ user_mode /\ table[s] # 0 /\ table'[s] = 0 => conn[s] # "on"
<1>1. IInv /\ [Next]_vars => [P]_vars
  <2> SUFFICES ASSUME IInv, Next, NEW s \in Senders, ~ user_mode, table[s] # 0, table'[s] = 0,
                      conn[s] = "on"
               PROVE  FALSE
    OBVIOUS
  <2>1. RemoveAbsentSenders
    BY TablesStay
  <2>2. inbox # <<>> /\ Head(inbox).kind = "names" /\ RemoveAbsent(Head(inbox).names)
    BY <2>1 DEF RemoveAbsentSenders
  <2>3. s \notin Head(inbox).names
    BY <2>2 DEF RemoveAbsent
  <2>4. Len(inbox) \in Nat \ {0} /\ Head(inbox) = inbox[1]
    BY <2>2, TailFacts DEF IInv, TypeOK
  <2> QED
    BY <2>2, <2>3, <2>4 DEF IInv, ListKnowsTheServed
<1> QED
  BY <1>1, Invariance, PTL DEF Spec, PresentAreKept

\* No call of one sender changes what modules see of another.
THEOREM OthersNotTouched == Spec => OthersUntouched
<1> DEFINE P == \A s \in Senders :
                  (\A k \in Slots : handler'[s][k] = handler[s][k]) /\ table'[s] # 0
                    => Visible(s)' = Visible(s)
<1>1. IInv /\ [Next]_vars => [P]_vars
  <2> SUFFICES ASSUME IInv, Next, NEW s \in Senders,
                      \A k \in Slots : handler'[s][k] = handler[s][k], table'[s] # 0
               PROVE  Visible(s)' = Visible(s)
    OBVIOUS
  <2>1. ASSUME NEW t \in Senders, NEW k \in Slots, CreateTable(t, k)
        PROVE  Visible(s)' = Visible(s)
    <3>1. t # s
      <4>1. handler'[t][k] = [handler[t][k] EXCEPT !.pc = "apply", !.tab = Len(heap')]
        BY <2>1 DEF CreateTable, Move, IInv, TypeOK
      <4>2. handler'[t][k].pc = "apply"
        BY <2>1, <4>1, HandlerFacts DEF CreateTable, Working, IInv
      <4> QED
        BY <2>1, <4>2 DEF CreateTable
    <3>2. table'[s] = table[s]
      BY <2>1, <3>1 DEF CreateTable, IInv, TypeOK
    <3>3. heap'[table[s]] = heap[table[s]]
      BY <2>1, <3>2, EmptyTyped, AppendFacts DEF CreateTable, IInv, TypeOK
    <3> QED
      BY <3>2, <3>3 DEF Visible
  <2>2. ASSUME NEW t \in Senders, NEW k \in Slots, Apply(t, k)
        PROVE  Visible(s)' = Visible(s)
    <3>1. t # s
      BY <2>2 DEF Apply, Move, Idle, IInv, TypeOK
    <3>2. table'[s] = table[s] /\ handler[t][k].tab # table[s]
      BY <2>2, <3>1 DEF Apply, IInv, TablesUnshared
    <3>3. heap'[table[s]] = heap[table[s]]
      BY <2>2, <3>2 DEF Apply, IInv, TypeOK
    <3> QED
      BY <3>2, <3>3 DEF Visible
  <2>3. CASE RemoveAbsentSenders
    <3>1. table'[s] = table[s] /\ heap' = heap
      BY <2>3 DEF RemoveAbsentSenders, RemoveAbsent
    <3> QED
      BY <3>1 DEF Visible
  <2>4. CASE UNCHANGED <<table, heap>>
    BY <2>4 DEF Visible
  <2> QED
    BY <2>1, <2>2, <2>3, <2>4
    DEF Next, Connect, Disconnect, Call, AnswerListNames, NameAppeared, NameVanished,
        CheckSenders, StartHandler, Deny, HandlerStep, GetTable, tableVars
<1> QED
  BY <1>1, Invariance, PTL DEF Spec, OthersUntouched

-----------------------------------------------------------------------------
(* Senders that wait for the answer to a call before the next one.         *)

\* A sender that a step does not concern.
LEMMA OrderlyKept ==
  ASSUME NEW s \in Senders, Orderly(s), conn'[s] = "on" => conn[s] = "on",
         UNCHANGED <<user_mode, handler[s], table[s], acked[s]>>,
         table[s] # 0 => heap'[table[s]] = heap[table[s]]
  PROVE  Orderly(s)'
  BY DEF Orderly, Visible

\* remove_absent_senders() keeps the table of a connected sender.
LEMMA RemovedIsAbsent ==
  ASSUME IInv, RemoveAbsentSenders, ~ user_mode, NEW s \in Senders, conn[s] = "on"
  PROVE  table'[s] = table[s]
<1>1. inbox # <<>> /\ Head(inbox).kind = "names" /\ RemoveAbsent(Head(inbox).names)
  BY DEF RemoveAbsentSenders
<1>2. Len(inbox) \in Nat \ {0} /\ Head(inbox) = inbox[1]
  BY <1>1, TailFacts DEF IInv, TypeOK
<1>3. s \in Head(inbox).names \/ table[s] = 0
  BY <1>1, <1>2 DEF IInv, ListKnowsTheServed
<1> QED
  BY <1>1, <1>3 DEF RemoveAbsent, IInv, TypeOK

\* A thread that makes or changes a table does it with the one its sender has.
LEMMA WorkIsOrderly ==
  ASSUME OneAtATime, OrderlyInv, NEW s \in Senders, NEW k \in Slots,
         CreateTable(s, k) \/ Apply(s, k)
  PROVE  Orderly(s)'
<1> USE DEF OrderlyInv
<1> SUFFICES ASSUME ~ user_mode', conn'[s] = "on"
             PROVE  /\ \A l \in Slots : /\ handler'[s][l].pc = "create" => table'[s] = 0
                                        /\ handler'[s][l].pc = "apply" => handler'[s][l].tab = table'[s]
                    /\ Visible(s)' = acked'[s]
  BY DEF Orderly
<1>1. ~ user_mode /\ conn[s] = "on"
  BY DEF CreateTable, Apply, serviceVars
<1>2. \A l \in Slots : l = k
  BY DEF OneAtATime
<1>3. CASE CreateTable(s, k)
  <2>1. handler[s][k].pc = "create" /\ handler[s][k] \in Working
    BY <1>3, HandlerFacts DEF CreateTable, IInv
  <2>2. table[s] = 0 /\ acked[s] = Empty
    BY <1>1, <2>1 DEF Orderly, Visible
  <2>3. /\ Len(heap') = Len(heap) + 1 /\ Len(heap) \in Nat /\ heap'[Len(heap')] = Empty
    BY <1>3, EmptyTyped, AppendFacts DEF CreateTable, IInv, TypeOK
  <2>4. table'[s] = Len(heap') /\ acked'[s] = Empty
    BY <1>3, <2>2 DEF CreateTable, IInv, TypeOK
  <2>5. handler'[s][k] = [handler[s][k] EXCEPT !.pc = "apply", !.tab = Len(heap')]
    BY <1>3 DEF CreateTable, Move, IInv, TypeOK
  <2>6. handler'[s][k].pc = "apply" /\ handler'[s][k].tab = Len(heap')
    BY <2>1, <2>5 DEF Working
  <2> QED
    BY <1>2, <2>3, <2>4, <2>6 DEF Visible
<1>4. CASE Apply(s, k)
  <2> DEFINE r == handler[s][k].req
             t == handler[s][k].tab
  <2>1. handler[s][k].pc = "apply" /\ t \in 1..Len(heap)
    BY <1>4 DEF Apply, IInv, TypeOK
  <2>2. t = table[s] /\ t # 0 /\ heap[t] = acked[s]
    BY <1>1, <2>1 DEF Orderly, Visible
  <2>3. table'[s] = t /\ heap'[t] = Updated(r, heap[t])
    BY <1>4, <2>1, <2>2 DEF Apply, IInv, TypeOK
  <2>4. acked'[s] = IF Succeeds(r, heap[t]) THEN Updated(r, acked[s]) ELSE acked[s]
    BY <1>4 DEF Apply, IInv, TypeOK
  <2>5. ~ Succeeds(r, heap[t]) => Updated(r, heap[t]) = heap[t]
    BY DEF Updated
  <2>6. handler'[s][k].pc = "idle"
    BY <1>4 DEF Apply, Move, Idle, IInv, TypeOK
  <2>7. Visible(s)' = acked'[s]
    BY <2>2, <2>3, <2>4, <2>5 DEF Visible
  <2> QED
    BY <1>2, <2>6, <2>7
<1> QED
  BY <1>3, <1>4

\* Nothing but its own thread disturbs what a connected sender has.
LEMMA NextOrderly ==
  ASSUME OneAtATime, OrderlyInv, [Next]_vars
  PROVE  OrderlyInv'
<1> USE DEF OrderlyInv
<1>0. IInv /\ IInv'
  BY NextInv
<1> SUFFICES ASSUME NEW s \in Senders PROVE Orderly(s)'
  BY <1>0
<1>1. ASSUME NEW t \in Senders, Connect(t) \/ Disconnect(t)
      PROVE  Orderly(s)'
  <2>1. CASE Connect(t) /\ t = s
    <3>1. /\ table'[s] = 0 /\ acked'[s] = Empty /\ \A k \in Slots : handler'[s][k].pc = "idle"
      BY <1>0, <2>1 DEF Connect, IInv, NewIsUnknown, Idle, tableVars
    <3> QED
      BY <3>1 DEF Orderly, Visible
  <2>2. CASE ~ (Connect(t) /\ t = s)
    <3>1. conn'[s] = "on" => conn[s] = "on"
      BY <1>0, <1>1, <2>2 DEF Connect, Disconnect, IInv, TypeOK
    <3> QED
      BY <1>1, <3>1, OrderlyKept DEF Connect, Disconnect, serviceVars, tableVars
  <2> QED
    BY <2>1, <2>2
<1>2. CASE \/ AnswerListNames \/ NameAppeared \/ NameVanished \/ CheckSenders
  BY <1>2, OrderlyKept DEF AnswerListNames, NameAppeared, NameVanished, CheckSenders, tableVars
<1>3. CASE RemoveAbsentSenders
  <2>1. UNCHANGED <<user_mode, conn, handler, heap, acked>>
    BY <1>3 DEF RemoveAbsentSenders, RemoveAbsent
  <2>2. ~ user_mode /\ conn[s] = "on" => table'[s] = table[s]
    BY <1>0, <1>3, RemovedIsAbsent
  <2> QED
    BY <2>1, <2>2 DEF Orderly, Visible
<1>4. ASSUME NEW t \in Senders, NEW k \in Slots,
             \/ \E r \in Requests : Call(t, k, r)
             \/ Deny(t, k) \/ GetTable(t, k) \/ CreateTable(t, k) \/ Apply(t, k)
      PROVE  Orderly(s)'
  <2>1. CASE t # s
    <3>1. handler'[s] = handler[s] /\ UNCHANGED <<user_mode, conn>>
      BY <1>0, <1>4, <2>1 DEF Call, Deny, GetTable, CreateTable, Apply, Move, serviceVars, IInv, TypeOK
    <3>2. table'[s] = table[s] /\ acked'[s] = acked[s]
      BY <1>0, <1>4, <2>1 DEF Call, Deny, GetTable, CreateTable, Apply, tableVars, IInv, TypeOK
    <3>3. table[s] # 0 => heap'[table[s]] = heap[table[s]]
      <4>1. CASE CreateTable(t, k)
        BY <1>0, <4>1, EmptyTyped, AppendFacts DEF CreateTable, IInv, TypeOK
      <4>2. CASE Apply(t, k)
        <5>1. handler[t][k].tab # table[s]
          BY <1>0, <2>1, <4>2 DEF Apply, IInv, TablesUnshared
        <5> QED
          BY <1>0, <4>2, <5>1 DEF Apply, IInv, TypeOK
      <4> QED
        BY <1>4, <4>1, <4>2 DEF Call, Deny, GetTable, tableVars
    <3> QED
      BY <3>1, <3>2, <3>3, OrderlyKept
  <2>2. CASE t = s /\ (CreateTable(t, k) \/ Apply(t, k))
    BY <2>2, WorkIsOrderly
  <2>3. CASE t = s /\ ((\E r \in Requests : Call(t, k, r)) \/ Deny(t, k) \/ GetTable(t, k))
    <3>1. UNCHANGED <<user_mode, conn, table, heap, acked>>
      BY <2>3 DEF Call, Deny, GetTable, serviceVars, tableVars
    <3>2. \A l \in Slots : l = k
      BY DEF OneAtATime
    <3>3. \/ handler'[s][k].pc \in {"queued", "idle"}
          \/ handler'[s][k].pc = "create" /\ table[s] = 0
          \/ handler'[s][k].pc = "apply" /\ handler'[s][k].tab = table[s]
      <4>1. CASE \E r \in Requests : Call(t, k, r)
        BY <1>0, <2>3, <4>1 DEF Call, IInv, TypeOK
      <4>2. CASE Deny(t, k)
        BY <1>0, <2>3, <4>2 DEF Deny, Move, Idle, IInv, TypeOK
      <4>3. CASE GetTable(t, k)
        BY <1>0, <2>3, <4>3 DEF GetTable, Move, IInv, TypeOK
      <4> QED
        BY <2>3, <4>1, <4>2, <4>3
    <3> QED
      BY <3>1, <3>2, <3>3 DEF Orderly, Visible
  <2> QED
    BY <1>4, <2>1, <2>2, <2>3
<1>5. CASE StartHandler
  <2>1. UNCHANGED <<user_mode, conn, table, heap, acked>>
    BY <1>5 DEF StartHandler, tableVars
  <2>2. \A k \in Slots : handler'[s][k] = handler[s][k] \/ handler'[s][k].pc = "auth"
    <3>1. /\ Head(inbox) = inbox[1] /\ inbox[1] \in Messages /\ inbox[1].kind = "call"
          /\ Len(inbox) \in Nat \ {0}
      BY <1>0, <1>5, TailFacts DEF StartHandler, IInv, TypeOK
    <3>2. PICK t \in Senders, k \in Slots : IsCall(inbox, 1, t, k)
      BY <3>1 DEF Messages, IsCall
    <3>3. handler' = [handler EXCEPT ![t][k] = [handler[t][k] EXCEPT !.pc = "auth"]]
      BY <1>0, <1>5, <3>1, <3>2 DEF StartHandler, IsCall, IInv, TypeOK
    <3>4. handler[t][k].pc = "queued"
      BY <1>0, <3>1, <3>2 DEF IInv, InboxIsQueued
    <3>5. [handler[t][k] EXCEPT !.pc = "auth"].pc = "auth"
      BY <1>0, <3>4, HandlerFacts DEF Waiting, IInv
    <3> QED
      BY <1>0, <3>3, <3>5 DEF IInv, TypeOK
  <2> QED
    BY <2>1, <2>2 DEF Orderly, Visible
<1>6. CASE UNCHANGED vars
  BY <1>6, OrderlyKept DEF vars, serviceVars, tableVars
<1> QED
  BY <1>1, <1>2, <1>3, <1>4, <1>5, <1>6 DEF Next, HandlerStep

\* Modules see for a connected sender what its acknowledged calls have set, if
\* the sender has one call in flight at a time.
THEOREM AckedVisible ==
  ASSUME OneAtATime
  PROVE  Spec => []AckedIsVisible
<1>1. Init => OrderlyInv
  BY InitInv DEF Init, OrderlyInv, Orderly
<1>2. OrderlyInv /\ [Next]_vars => OrderlyInv'
  BY NextOrderly
<1>3. OrderlyInv => AckedIsVisible
  BY DEF OrderlyInv, Orderly, AckedIsVisible
<1> QED
  BY <1>1, <1>2, <1>3, PTL DEF Spec
===============================================================================
