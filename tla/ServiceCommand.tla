---------------------------- MODULE ServiceCommand ----------------------------
(***************************************************************************)
(* What one "alteratorctl services" command promises, without how it does  *)
(* it: a request with parameters goes out only after consent, there is one *)
(* at most, only a start may follow it, and only after a deployment that   *)
(* succeeded; and the command ends.  CtlServices implements this.          *)
(***************************************************************************)
EXTENDS Sequences

CONSTANT Methods     \* the requests that need consent

VARIABLES
    consent,    \* the user said yes
    requests,   \* the requests made: [method, ok]
    over        \* the process has ended

commandVars == <<consent, requests, over>>

CommandInit == ~consent /\ requests = <<>> /\ ~over

Consent ==
    /\ ~over /\ ~consent /\ requests = <<>>
    /\ consent' = TRUE
    /\ UNCHANGED <<requests, over>>

\* start and stop have no parameters and ask no question.  The request that
\* fails may end the process in the same step.
Ask(method) ==
    /\ ~over /\ requests = <<>>
    /\ method \in Methods => consent
    /\ \E ok \in BOOLEAN :
         /\ requests' = <<[method |-> method, ok |-> ok]>>
         /\ over' \in BOOLEAN /\ (ok => ~over')
    /\ UNCHANGED consent

Autostart ==
    /\ ~over /\ requests = <<[method |-> "deploy", ok |-> TRUE]>>
    /\ \E ok \in BOOLEAN :
         /\ requests' = Append(requests, [method |-> "start", ok |-> ok])
         /\ over' \in BOOLEAN /\ (ok => ~over')
    /\ UNCHANGED consent

End ==
    /\ ~over /\ over' = TRUE
    /\ UNCHANGED <<consent, requests>>

CommandNext ==
    \/ Consent \/ (\E m \in Methods \cup {"start", "stop"} : Ask(m)) \/ Autostart \/ End

CommandSafety == CommandInit /\ [][CommandNext]_commandVars

CommandSpec == CommandSafety /\ <>over

=============================================================================
