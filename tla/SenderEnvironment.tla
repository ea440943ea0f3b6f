--------------------------- MODULE SenderEnvironment ---------------------------
(***************************************************************************)
(* The environment variables that D-Bus clients (senders) store in         *)
(* alterator-manager: the table sender_environment_data, the threads that  *)
(* serve GetEnvironment, SetEnvironment and UnsetEnvironment, and the      *)
(* ten-minute check that drops the senders the bus no longer lists.        *)
(*                                                                         *)
(* The table is shared by the handler threads and the main thread without  *)
(* a lock. An action is one operation on a hash table; what two operations *)
(* that run at the very same time do to a GHashTable is outside the model. *)
(*                                                                         *)
(* The service reads its connection in order: the answer to ListNames and  *)
(* the method calls are taken from one inbox. In user mode the service is  *)
(* on the session bus while ListNames still goes to the system bus.        *)
(***************************************************************************)
EXTENDS Naturals, Sequences

CONSTANTS
  Senders,     \* unique names on the bus of the service; never reused
  Slots,       \* calls a sender may have in flight at the same time
  Names,       \* names of variables, valid or not
  ValidNames,  \* names is_valid_environment_name() accepts
  Values,      \* values of variables
  Unset,       \* no such variable
  Modes,       \* ways to start the service: TRUE with --user (session bus)
  MaxCalls,    \* bound: calls of the manager interface
  MaxVanish    \* bound: times the bus name may vanish

ASSUME EnvironmentAssumption ==
  /\ ValidNames \subseteq Names
  /\ Unset \notin Values
  /\ Modes \subseteq BOOLEAN
  /\ MaxCalls \in Nat
  /\ MaxVanish \in Nat

VARIABLES
  user_mode,  \* the --user option of this process
  conn,       \* "new", "on" or "off": connection of each sender
  inbox,      \* what the bus has delivered to the service, in order
  available,  \* is_interface_available
  listing,    \* "no"; "asked": ListNames sent; "answered": reply on its way
  sysNames,   \* user mode: names the system bus listed
  table,      \* sender_environment_data: the table of each sender, 0 if none
  heap,       \* contents of every table allocated so far
  handler,    \* state of the handler thread of each call in flight
  acked,      \* ghost: value last acknowledged for each sender and name
  calls,      \* calls so far
  vanished    \* times the bus name vanished

serviceVars == <<user_mode, inbox, available, listing, sysNames>>
tableVars == <<table, heap>>
bounds == <<calls, vanished>>
vars == <<conn, serviceVars, tableVars, handler, acked, bounds>>

Requests == [op : {"set"}, name : Names, value : Values]
            \cup [op : {"get", "unset"}, name : Names]
Empty == [n \in Names |-> Unset]

\* A handler thread: its position, its request, and the table it refers to.
Idle == [pc |-> "idle"]

Init ==
  /\ user_mode \in Modes
  /\ conn = [s \in Senders |-> "new"]
  /\ inbox = <<>>
  /\ available = FALSE
  /\ listing = "no"
  /\ sysNames = {}
  /\ table = [s \in Senders |-> 0]
  /\ heap = <<>>
  /\ handler = [s \in Senders |-> [k \in Slots |-> Idle]]
  /\ acked = [s \in Senders |-> Empty]
  /\ calls = 0
  /\ vanished = 0

-----------------------------------------------------------------------------
(* Senders and the bus (external).                                         *)

Connected == {s \in Senders : conn[s] = "on"}

Connect(s) ==
  /\ conn[s] = "new"
  /\ conn' = [conn EXCEPT ![s] = "on"]
  /\ UNCHANGED <<serviceVars, tableVars, handler, acked, bounds>>

Disconnect(s) ==
  /\ conn[s] = "on"
  /\ conn' = [conn EXCEPT ![s] = "off"]
  /\ UNCHANGED <<serviceVars, tableVars, handler, acked, bounds>>

\* A connected sender calls a method; the bus delivers it.
Call(s, k, r) ==
  /\ conn[s] = "on"
  /\ handler[s][k] = Idle
  /\ calls < MaxCalls
  /\ calls' = calls + 1
  /\ handler' = [handler EXCEPT ![s][k] = [pc |-> "queued", req |-> r]]
  /\ inbox' = Append(inbox, [kind |-> "call", sender |-> s, slot |-> k])
  /\ UNCHANGED <<user_mode, conn, available, listing, sysNames, tableVars, acked, vanished>>

\* The bus answers ListNames with the names it knows at that moment.
AnswerListNames ==
  /\ listing = "asked"
  /\ listing' = "answered"
  /\ IF user_mode
     THEN /\ \E names \in SUBSET Senders : sysNames' = names
          /\ UNCHANGED inbox
     ELSE /\ inbox' = Append(inbox, [kind |-> "names", names |-> Connected])
          /\ UNCHANGED sysNames
  /\ UNCHANGED <<user_mode, conn, available, tableVars, handler, acked, bounds>>

-----------------------------------------------------------------------------
(* The main thread.                                                        *)

\* on_name_appeared(), on_name_vanished(). A pending ListNames fails with the
\* name, and remove_absent_senders() then returns at once.
NameAppeared ==
  /\ ~ available
  /\ available' = TRUE
  /\ UNCHANGED <<user_mode, conn, inbox, listing, sysNames, tableVars, handler, acked, bounds>>

NameVanished ==
  /\ available
  /\ vanished < MaxVanish
  /\ vanished' = vanished + 1
  /\ available' = FALSE
  /\ listing' = IF listing = "asked" THEN "no" ELSE listing
  /\ UNCHANGED <<user_mode, conn, inbox, sysNames, tableVars, handler, acked, calls>>

\* Mutant: the check is done once only.
CheckSendersOnce ==
  /\ available
  /\ listing = "no"
  /\ calls = 0
  /\ listing' = "asked"
  /\ UNCHANGED <<user_mode, conn, inbox, available, sysNames, tableVars, handler, acked, bounds>>

\* alterator_manager_sender_environment_check_senders(), every 600 seconds.
CheckSenders ==
  /\ available
  /\ listing = "no"
  /\ listing' = "asked"
  /\ UNCHANGED <<user_mode, conn, inbox, available, sysNames, tableVars, handler, acked, bounds>>

\* Mutant: the test is inverted.
RemovePresent(names) ==
  /\ table' = [s \in Senders |-> IF s \in names THEN 0 ELSE table[s]]
  /\ listing' = "no"
  /\ UNCHANGED <<user_mode, conn, available, sysNames, heap, handler, acked, bounds>>

\* remove_absent_senders(): drop every sender that is not in the answer.
RemoveAbsent(names) ==
  /\ table' = [s \in Senders |-> IF s \in names THEN table[s] ELSE 0]
  /\ listing' = "no"
  /\ UNCHANGED <<user_mode, conn, available, sysNames, heap, handler, acked, bounds>>

RemoveAbsentSenders ==
  \/ /\ ~ user_mode
     /\ inbox # <<>> /\ Head(inbox).kind = "names"
     /\ inbox' = Tail(inbox)
     /\ RemoveAbsent(Head(inbox).names)
  \/ /\ user_mode
     /\ listing = "answered"
     /\ UNCHANGED inbox
     /\ RemoveAbsent(sysNames)

\* handle_method_call() of the manager interface starts a thread: handler().
StartHandler ==
  /\ inbox # <<>> /\ Head(inbox).kind = "call"
  /\ inbox' = Tail(inbox)
  /\ LET m == Head(inbox)
     IN  handler' = [handler EXCEPT ![m.sender][m.slot].pc = "auth"]
  /\ UNCHANGED <<user_mode, conn, available, listing, sysNames, tableVars, acked, bounds>>

-----------------------------------------------------------------------------
(* A handler thread.                                                       *)

Move(s, k, h) == handler' = [handler EXCEPT ![s][k] = h]

\* authorization_check(): refused in system mode, the error is the answer.
Deny(s, k) ==
  /\ handler[s][k].pc = "auth"
  /\ ~ user_mode
  /\ Move(s, k, Idle)
  /\ UNCHANGED <<conn, serviceVars, tableVars, acked, bounds>>

\* alterator_manager_sender_environment_get_table(): the lookup ...
GetTable(s, k) ==
  /\ handler[s][k].pc = "auth"
  /\ Move(s, k, [req |-> handler[s][k].req, tab |-> table[s],
                 pc |-> IF table[s] = 0 THEN "create" ELSE "apply"])
  /\ UNCHANGED <<conn, serviceVars, tableVars, acked, bounds>>

\* Mutant: the new table is never stored under the sender.
CreateTablePrivate(s, k) ==
  /\ handler[s][k].pc = "create"
  /\ heap' = Append(heap, Empty)
  /\ Move(s, k, [handler[s][k] EXCEPT !.pc = "apply", !.tab = Len(heap')])
  /\ UNCHANGED <<conn, serviceVars, table, acked, bounds>>

\* ... and, if it found nothing, a new table.
CreateTable(s, k) ==
  /\ handler[s][k].pc = "create"
  /\ heap' = Append(heap, Empty)
  /\ table' = [table EXCEPT ![s] = Len(heap')]
  /\ Move(s, k, [handler[s][k] EXCEPT !.pc = "apply", !.tab = Len(heap')])
  /\ UNCHANGED <<conn, serviceVars, acked, bounds>>

\* method_set_environment(), method_unset_environment(): the new contents of
\* the table, and whether the caller is told that it worked.
Succeeds(r, t) == r.name \in ValidNames /\ (r.op = "set" \/ t[r.name] # Unset)

Updated(r, t) ==
  IF ~ Succeeds(r, t) \/ r.op = "get" THEN t
  ELSE [t EXCEPT ![r.name] = IF r.op = "set" THEN r.value ELSE Unset]

\* The rest of the handler: the operation on the table it holds, and the reply.
Apply(s, k) ==
  /\ handler[s][k].pc = "apply"
  /\ LET r == handler[s][k].req
         t == handler[s][k].tab
     IN  /\ heap' = [heap EXCEPT ![t] = Updated(r, @)]
         /\ acked' = IF Succeeds(r, heap[t]) THEN [acked EXCEPT ![s] = Updated(r, @)] ELSE acked
  /\ Move(s, k, Idle)
  /\ UNCHANGED <<conn, serviceVars, table, bounds>>

HandlerStep(s, k) == GetTable(s, k) \/ CreateTable(s, k) \/ Apply(s, k)

-----------------------------------------------------------------------------
Next ==
  \/ \E s \in Senders : Connect(s) \/ Disconnect(s)
  \/ \E s \in Senders, k \in Slots, r \in Requests : Call(s, k, r)
  \/ AnswerListNames
  \/ NameAppeared
  \/ NameVanished
  \/ CheckSenders
  \/ RemoveAbsentSenders
  \/ StartHandler
  \/ \E s \in Senders, k \in Slots : Deny(s, k) \/ HandlerStep(s, k)

Spec == Init /\ [][Next]_vars

\* The bus answers, the timer and the main loop run, threads are scheduled.
Fairness ==
  /\ WF_vars(AnswerListNames) /\ WF_vars(NameAppeared)
  /\ WF_vars(CheckSenders) /\ WF_vars(RemoveAbsentSenders) /\ WF_vars(StartHandler)
  /\ \A s \in Senders, k \in Slots : WF_vars(Deny(s, k) \/ HandlerStep(s, k))

FairSpec == Spec /\ Fairness

-----------------------------------------------------------------------------
(* Properties.                                                             *)

\* On the system bus a sender that is connected keeps its table, however old
\* the list of names is by the time remove_absent_senders() uses it.
PresentAreKept ==
  [][\A s \in Senders : ~ user_mode /\ table[s] # 0 /\ table'[s] = 0 => conn[s] # "on"]_vars

\* The variables modules see for a connected sender (make_environment() of the
\* executor) are the ones its acknowledged calls have set, when it has no call
\* in flight (on the system bus).
Visible(s) == IF table[s] = 0 THEN Empty ELSE heap[table[s]]
AckedIsVisible ==
  \A s \in Senders :
    ~ user_mode /\ conn[s] = "on" /\ (\A k \in Slots : handler[s][k] = Idle) => Visible(s) = acked[s]

\* Whatever a sender leaves behind when it disconnects is removed in the end,
\* even if a late handler thread recreates its table.
AbsentAreRemoved == \A s \in Senders : (~ user_mode /\ conn[s] = "off") ~> [](table[s] = 0)
=============================================================================
