---------------------------- MODULE ExecutorService ----------------------------
(***************************************************************************)
(* What the service promises to its callers, without the main loop, the    *)
(* threads and their counters: a call of the executor is served while      *)
(* fewer calls than the limits of its method and of its interface are      *)
(* being served, and refused otherwise; every call has one answer; the     *)
(* service decides to stop at a moment when it serves no such call, and    *)
(* takes along only what it began to serve after that.  ExecutorThreads    *)
(* implements this.                                                        *)
(***************************************************************************)
EXTENDS Integers, FiniteSets

CONSTANTS
    Calls,           \* calls with limits
    ManagerCalls,    \* calls without
    MethodOf, InterfaceOf, MethodLimit, InterfaceLimit

VARIABLES
    running,    \* there is a process
    stopping,   \* it has decided to stop
    last,       \* the calls that it may still begin to serve
    state,      \* call -> "idle", "asked", "served" or "over"
    answer      \* call -> what the caller got, "none" before

serviceVars == <<running, stopping, last, state, answer>>

Callers == Calls \cup ManagerCalls

Serving == {c \in Calls : state[c] = "served"}

\* As many calls as the limit allows are being served.
Full(m) ==
    LET i == InterfaceOf[m]
    IN \/ Cardinality({c \in Serving : MethodOf[c] = m}) >= MethodLimit[m]
       \/ Cardinality({c \in Serving : InterfaceOf[MethodOf[c]] = i}) >= InterfaceLimit[i]

ServiceInit ==
    /\ running = TRUE
    /\ stopping = FALSE
    /\ last = {}
    /\ state = [c \in Callers |-> "idle"]
    /\ answer = [c \in Callers |-> "none"]

Ask(c) ==
    /\ state[c] = "idle"
    /\ state' = [state EXCEPT ![c] = "asked"]
    /\ UNCHANGED <<running, stopping, last, answer>>

\* It is the turn of this call.
Taken(c) == running /\ state[c] = "asked" /\ (stopping => c \in last)

Refuse(c) ==
    /\ Taken(c) /\ Full(MethodOf[c])
    /\ state' = [state EXCEPT ![c] = "over"]
    /\ answer' = [answer EXCEPT ![c] = "busy"]
    /\ UNCHANGED <<running, stopping, last>>

Serve(c) ==
    /\ Taken(c) /\ (c \in Calls => ~ Full(MethodOf[c]))
    /\ state' = [state EXCEPT ![c] = "served"]
    /\ UNCHANGED <<running, stopping, last, answer>>

\* A call with limits takes its place a little longer than the answer.
Reply(c) ==
    /\ running /\ state[c] = "served" /\ answer[c] = "none"
    /\ \E r \in {"denied", "failed", "value"} : answer' = [answer EXCEPT ![c] = r]
    /\ state' = IF c \in Calls THEN state ELSE [state EXCEPT ![c] = "over"]
    /\ UNCHANGED <<running, stopping, last>>

Leave(c) ==
    /\ running /\ state[c] = "served" /\ answer[c] # "none"
    /\ state' = [state EXCEPT ![c] = "over"]
    /\ UNCHANGED <<running, stopping, last, answer>>

Stop ==
    /\ running /\ ~ stopping /\ Serving = {}
    /\ stopping' = TRUE
    /\ last' \in SUBSET {c \in Callers : state[c] = "asked"}
    /\ UNCHANGED <<running, state, answer>>

\* The callers whose request had been read, or served, get an error.
End ==
    /\ running /\ stopping
    /\ running' = FALSE
    /\ \E read \in SUBSET {c \in Callers : state[c] = "asked"} :
         LET gone == read \cup {c \in Callers : state[c] = "served"}
         IN /\ state' = [c \in Callers |-> IF c \in gone THEN "over" ELSE state[c]]
            /\ answer' = [c \in Callers |-> IF c \in gone /\ answer[c] = "none" THEN "lost"
                                            ELSE answer[c]]
    /\ UNCHANGED <<stopping, last>>

Begin ==
    /\ ~ running
    /\ running' = TRUE /\ stopping' = FALSE /\ last' = {}
    /\ UNCHANGED <<state, answer>>

ServiceNext ==
    \/ \E c \in Callers : Ask(c) \/ Serve(c) \/ Reply(c)
    \/ \E c \in Calls : Refuse(c) \/ Leave(c)
    \/ Stop \/ End \/ Begin

ServiceSafety == ServiceInit /\ [][ServiceNext]_serviceVars

=============================================================================
