-------------------------- MODULE CtlServicesProofs --------------------------
(***************************************************************************)
(* What "alteratorctl services" keeps for any service, any command line    *)
(* and any answers of the backend: requests meet the state they are meant  *)
(* for, a deployment comes after its diagnostics, success means that the   *)
(* request was executed, and the program implements ServiceCommand.        *)
(*                                                                         *)
(* The functions run in the order of "at", so the invariant says what is   *)
(* known before each of them: which command may be there and whether the   *)
(* user has consented, what has been sent, the state that the service must *)
(* still be in, and what the tests so far amount to.                       *)
(***************************************************************************)
EXTENDS CtlServices, FiniteSetTheorems, SequenceTheorems, NaturalsInduction, TLAPS

-----------------------------------------------------------------------------
(* The inductive invariant. *)

\* The functions up to the user's answer.
Preparing ==
  {"alterator_ctl_app_parse_args", "alterator_ctl_app_run", "parse_arguments", "required state",
   "load info", "parse_diagnose_arguments", "parse_contextual_arguments", "play",
   "confirm_execution", "conflicts", "prompt"}

\* The subcommands without parameters.
Parameterless == {"list", "info", "resources", "status", "start", "stop"}

Requests == Contextual \ {"diagnose"}

PlayTesting == at \in {"play_run_diag", "run_test"} /\ phase \in {"PRE_DIAG", "POST_DIAG"}

\* Until a request is made: the functions that may still make one, or never will.
NothingSent ==
  \/ at \in Preparing \cup {"services_module_run", "parametrized", "request", "diagnose",
                            "diagnose tool", "failed"} \cup (Parameterless \ {"start"})
  \/ at = "send stop"
  \/ at \in {"start", "send start"} /\ phase # "autostart"
  \/ at = "play_run_diag" /\ phase = "PRE_DIAG"
  \/ at = "run_test" /\ phase # "POST_DIAG"

\* Which command is where, and whether it has the user's consent.
PlaceInv ==
  /\ at \in Preparing => ~consented /\ phase = "" /\ ran = {} /\ done = {}
  /\ at \in {"required state"} => command \in Contextual \cup Parameterless
  /\ at = "load info" => command \in Contextual \cup {"status"}
  /\ at = "parse_diagnose_arguments" => command = "diagnose"
  /\ at \in {"parse_contextual_arguments", "confirm_execution", "conflicts", "prompt"}
       => command \in Contextual
  /\ at = "services_module_run" => command \in Contextual \cup Parameterless
  /\ at \in {"services_module_run", "handle_results"} => (consented <=> command \in Contextual)
  /\ at \in {"services_module_run", "parametrized", "diagnose"} \cup (Parameterless \ {"start"})
       => phase = "" /\ ran = {}
  /\ at \in {"parametrized", "request", "postdiag"} \/ PlayTesting
       => command \in Requests /\ consented
  /\ at = "play_run_diag" => PlayTesting
  /\ at = "run_test" => PlayTesting \/ (phase \in {"first", "second"} /\ command = "diagnose" /\ consented)
  /\ at \in {"diagnose", "diagnose tool", "failed"} => command = "diagnose" /\ consented
  /\ at = "diagnose tool" => phase \in {"", "first", "second"}
  /\ at \in Parameterless \ {"start"} => command = at /\ ~consented
  /\ at = "send stop" => command = "stop" /\ ~consented /\ phase = ""
  /\ at \in {"start", "send start"} =>
       \/ phase = "" /\ command = "start" /\ ~consented
       \/ phase = "autostart" /\ command = "deploy" /\ consented
  /\ at = "autostart_result" => phase = "autostart" /\ command = "deploy" /\ consented

WasDone(method) == \E r \in done : r.method = method

\* What is known of a request whose answer is in "results".
Answered ==
  \/ results = NULL /\ (sent = <<>> \/ sent = <<sent[1]>>)
  \/ /\ sent = <<sent[1]>> /\ sent[1].method = command
     /\ results # NULL /\ sent[1].reply = results[1].code
     /\ sent[1].reply = 0 => WasDone(command)

\* The requests that were made, and what they did.
SentInv ==
  /\ sent = <<>> \/ sent = <<sent[1]>> \/ sent = <<sent[1], sent[2]>>
  /\ NothingSent => sent = <<>>
  /\ (PlayTesting /\ phase = "POST_DIAG") \/ at = "postdiag" => Answered
  /\ at = "handle_results" /\ command \in Requests => Answered
  /\ at \in {"start", "send start"} /\ phase = "autostart" =>
       /\ sent = <<sent[1]>> /\ sent[1].method = "deploy" /\ sent[1].reply = 0
       /\ WasDone("deploy")
  /\ at = "autostart_result" =>
       /\ WasDone("deploy")
       /\ results[1].code = 0 => WasDone("start")
  /\ SuccessMeansDone

IsService(s) == s = [status |-> s.status, params |-> s.params] /\ s.status \in Statuses

\* The state that was read is still there unless another client was, or the
\* text that was read was empty.
StillFits == services_module_check_required_state(command, effective_force, service.status)

BeforeRequest == at = "request" \/ (PlayTesting /\ phase = "PRE_DIAG")

FitInv ==
  /\ IsService(service)
  /\ BeforeRequest => meddled \/ misread \/ StillFits
  /\ at = "send start" => meddled \/ misread \/ service.status = "DEPLOYED"
  /\ at = "send stop" => meddled \/ misread \/ service.status = "DEPLOYED_AND_STARTED"
  /\ StateFits

HasRun(d) == \E passed \in BOOLEAN : <<"PRE_DIAG", d[1], d[2], passed>> \in ran

SomeFailed == \E r \in ran : r[1] = "PRE_DIAG" /\ ~r[4]

Diagnosed == due # NULL /\ (\A d \in due[1] : HasRun(d)) /\ (overruled \/ ~SomeFailed)

\* The test d is still to be run.
Ahead(d) == \E i \in DOMAIN todo : todo[i].tool = d[1] /\ todo[i].test = d[2]

\* A test that is due has run or is still to be run.
Pending ==
  /\ todo \in Seq({todo[i] : i \in DOMAIN todo})
  /\ due # NULL
  /\ \A d \in due[1] : HasRun(d) \/ Ahead(d)
  /\ failures \/ ~SomeFailed

DiagInv ==
  /\ at = "play_run_diag" /\ phase = "PRE_DIAG" => ran = {}
  /\ at = "run_test" /\ phase = "PRE_DIAG" => Pending
  /\ at = "request" /\ need_prediag => Diagnosed
  /\ DiagnosedFirst

\* The parameter n of the node has the value that the entry gives to a resource.
FromResource(n, node) ==
  \E k \in DOMAIN Resources :
     /\ Resources[k].parameter = n /\ Resources[k].value # <<>>
     /\ Member(node, n) = <<Written(Resources[k].value[1])>>

\* The new parameters are the old ones and, perhaps, some of resources.
Adds(old, new) ==
  /\ \A n \in DOMAIN Members(old) : Member(new, n) = Member(old, n)
  /\ \A n \in DOMAIN Members(new) \ DOMAIN Members(old) : FromResource(n, new)

\* From the validation to the request.
Agreed ==
  \/ at \in {"conflicts", "prompt", "parametrized", "request"}
  \/ at = "services_module_run" /\ command \in Contextual
  \/ PlayTesting /\ phase = "PRE_DIAG"

\* The parameters are those of the table and some of resources, and the required
\* ones are among them.
OfferInv ==
  /\ Agreed => Adds(offered[1], json[1]) /\ HasRequired(json[1])
  /\ SentIsOffered /\ RequiredIsSent

IInv == PlaceInv /\ SentInv /\ FitInv /\ DiagInv /\ OfferInv

-----------------------------------------------------------------------------
(* Calls and requests. *)

\* What a call may come back with.
LEMMA CallOutcomes ==
  ASSUME NEW out \in call(Replies) \cup {Silent}, out # Silent
  PROVE  \/ out.err # "none" /\ out.res = <<>>
         \/ out.err = "none" /\ \E c \in ExitCodes : out.res = <<[code |-> c]>>
<1>1. CASE out \in {[err |-> e, res |-> NULL] : e \in {"unknown", "failed"}}
  BY <1>1 DEF NULL
<1>2. CASE out \in {[err |-> "none", res |-> <<r>>] : r \in Replies}
  <2>1. PICK r \in Replies : out = [err |-> "none", res |-> <<r>>]
    BY <1>2
  <2>2. PICK c \in ExitCodes : r = [code |-> c]
    BY DEF Replies
  <2> QED BY <2>1, <2>2
<1> QED BY <1>1, <1>2 DEF call, alterator_gdbus_source_callback

\* A request that is answered with exit code 0 was executed.
LEMMA RequestDone ==
  ASSUME NEW method, NEW node, NEW out, Request(method, node, out)
  PROVE  /\ done \subseteq done'
         /\ out.res # <<>> /\ out.res[1].code = 0 => \E r \in done' : r.method = method
<1>1. PICK was \in WasExecuted(out) :
        IF was THEN done' = done \cup {[method |-> method, over |-> service.status, misread |-> misread]}
        ELSE UNCHANGED done
  BY DEF Request
<1>2. out.res # <<>> /\ out.res[1].code = 0 => was = TRUE
  BY <1>1 DEF WasExecuted, NULL
<1>3. CASE was
  <2>1. [method |-> method, over |-> service.status, misread |-> misread] \in done'
    BY <1>1, <1>3
  <2> QED BY <1>1, <1>3, <2>1
<1>4. CASE ~was
  BY <1>1, <1>2, <1>4
<1> QED BY <1>3, <1>4

\* The exit codes of the process, and the answer of a call.
LEMMA MinusOne == -1 # 0
  OBVIOUS

LEMMA Pointed ==
  ASSUME NEW p, NEW x, p = <<x>>
  PROVE  p # <<>> /\ p[1] = x
  OBVIOUS

LEMMA OneReply ==
  ASSUME NEW res, NEW c, res = <<[code |-> c]>>
  PROVE  res # <<>> /\ res[1].code = c
  OBVIOUS

\* A second request.
LEMMA Appended ==
  ASSUME NEW x, NEW r
  PROVE  Append(<<x>>, r) = <<x, r>> /\ Append(<<>>, r) = <<r>>
<1> DEFINE T == {x, r}
<1>1. <<x>> \in Seq(T) /\ r \in T
  OBVIOUS
<1>2. Append(<<x>>, r) \in Seq(T) /\ Len(Append(<<x>>, r)) = 2
  BY <1>1
<1>3. Append(<<x>>, r)[1] = x /\ Append(<<x>>, r)[2] = r
  BY <1>1
<1>4. <<x, r>> \in Seq(T) /\ Len(<<x, r>>) = 2
  OBVIOUS
<1>5. \A i \in 1..2 : Append(<<x>>, r)[i] = <<x, r>>[i]
  BY <1>3
<1>6. Append(<<>>, r) = <<r>>
  OBVIOUS
<1> HIDE DEF T
<1> QED BY <1>2, <1>4, <1>5, <1>6, SeqEqual

LEMMA PlaceInvStep == PlaceInv /\ Next => PlaceInv'
<1> SUFFICES ASSUME PlaceInv, Next PROVE PlaceInv'
  OBVIOUS
<1> USE DEF ERR_EXIT, Finish, CRASH, Goto, commonVars, memory, loop, reads, world, record, PlaceInv, PlayTesting, Preparing, Parameterless, Requests, Contextual
<1>0. CASE AppNext /\ UNCHANGED <<memory, loop, reads, world, record>>
  BY <1>0 DEF AppNext, alterator_ctl_app_parse_args, alterator_ctl_app_run, alterator_ctl_app_list_modules
<1>1. CASE services_module_parse_arguments
  <2>1. /\ at = "parse_arguments"
        /\ command' = IF argv.sub = "" THEN "list" ELSE argv.sub
        /\ UNCHANGED <<done, loop, record>>
    BY <1>1 DEF services_module_parse_arguments, In
  <2>2. \/ at' \in {"end", "play"}
        \/ at' = "services_module_run" /\ argv.sub \in {"", "list"}
        \/ at' = "load info" /\ argv.sub \in Contextual
        \/ at' = "required state" /\ argv.sub \in Subcommands \ {"", "list", "play"}
    BY <1>1 DEF services_module_parse_arguments, services_module_print_help, help_flag, services_module_parse_options
  <2> QED BY <2>1, <2>2 DEF Subcommands
<1>2. CASE CheckRequiredState
  BY <1>2 DEF CheckRequiredState
<1>3. CASE LoadInfo
  BY <1>3 DEF LoadInfo
<1>4. CASE services_module_parse_diagnose_arguments
  BY <1>4 DEF services_module_parse_diagnose_arguments
<1>5. CASE services_module_parse_contextual_arguments
  BY <1>5 DEF services_module_parse_contextual_arguments
<1>6. CASE PlayFile
  BY <1>6 DEF PlayFile, get_command_id_from_context
<1>7. CASE services_module_confirm_execution
  BY <1>7 DEF services_module_confirm_execution
<1>8. CASE FindConflicts
  <2>1. /\ at = "conflicts"
        /\ UNCHANGED <<command, done, loop, record>>
    BY <1>8 DEF FindConflicts
  <2>2. at' \in {"end", "prompt"}
    BY <1>8 DEF FindConflicts
  <2> QED BY <2>1, <2>2
<1>9. CASE Prompt
  BY <1>9 DEF Prompt
<1>10. CASE services_module_run
  BY <1>10 DEF services_module_run
<1>11. CASE services_module_parametrized_subcommand
  BY <1>11 DEF services_module_parametrized_subcommand
<1>12. CASE services_module_play_run_diag
  BY <1>12 DEF services_module_play_run_diag
<1>13. CASE services_module_run_test
  BY <1>13 DEF services_module_run_test
<1>14. CASE PlayVerdict
  BY <1>14 DEF PlayVerdict
<1>15. CASE SendRequest
  BY <1>15 DEF SendRequest
<1>16. CASE PostDiag
  BY <1>16 DEF PostDiag
<1>17. CASE services_module_diagnose_subcommand
  BY <1>17 DEF services_module_diagnose_subcommand
<1>18. CASE DiagnoseTool
  <2>1. /\ at = "diagnose tool"
        /\ UNCHANGED <<command, done, ran, record>>
    BY <1>18 DEF DiagnoseTool
  <2>2. \/ at' \in {"handle_results", "failed"} /\ phase' = phase
        \/ at' = "run_test" /\ phase' \in {"first", "second"}
    BY <1>18 DEF DiagnoseTool
  <2> QED BY <2>1, <2>2
<1>19. CASE DiagnoseToolEnd
  BY <1>19 DEF DiagnoseToolEnd
<1>20. CASE Failure
  BY <1>20 DEF Failure
<1>21. CASE services_module_start_subcommand
  BY <1>21 DEF services_module_start_subcommand, StatusBefore
<1>22. CASE services_module_stop_subcommand
  BY <1>22 DEF services_module_stop_subcommand, StatusBefore
<1>23. CASE SendStartOrStop
  BY <1>23 DEF SendStartOrStop
<1>24. CASE services_module_info_subcommand
  BY <1>24 DEF services_module_info_subcommand
<1>25. CASE services_module_list_subcommand
  BY <1>25 DEF services_module_list_subcommand
<1>26. CASE services_module_resources_subcommand
  BY <1>26 DEF services_module_resources_subcommand
<1>27. CASE services_module_status_command
  BY <1>27 DEF services_module_status_command
<1>28. CASE services_module_handle_results
  BY <1>28 DEF services_module_handle_results, services_module_resources_handle_result, services_module_info_handle_result, services_module_status_handle_result, services_module_backup_handle_result, services_module_configure_handle_result, services_module_restore_handle_result, services_module_undeploy_handle_result, services_module_start_handle_result, services_module_stop_handle_result, services_module_deploy_handle_result, ExitCodeResult
<1>29. CASE services_module_run_with_args
  BY <1>29 DEF services_module_run_with_args
<1>30. CASE AutostartResult
  BY <1>30 DEF AutostartResult
<1>31. CASE OtherClient
  BY <1>31 DEF OtherClient
<1>32. CASE Ended
  BY <1>32 DEF Ended, vars
<1> QED BY <1>0, <1>1, <1>2, <1>3, <1>4, <1>5, <1>6, <1>7, <1>8, <1>9, <1>10, <1>11, <1>12, <1>13, <1>14, <1>15, <1>16, <1>17, <1>18, <1>19, <1>20, <1>21, <1>22, <1>23, <1>24, <1>25, <1>26, <1>27, <1>28, <1>29, <1>30, <1>31, <1>32 DEF Next, Step

LEMMA SentInvStep == PlaceInv /\ PlaceInv' /\ SentInv /\ Next => SentInv'
<1> SUFFICES ASSUME PlaceInv /\ PlaceInv' /\ SentInv, Next PROVE SentInv'
  OBVIOUS
<1> USE DEF ERR_EXIT, Finish, CRASH, Goto, commonVars, memory, loop, reads, world, record, PlayTesting, Preparing, Parameterless, Requests, Contextual, SentInv, NothingSent, NULL
<1>0. CASE AppNext /\ UNCHANGED <<memory, loop, reads, world, record>>
  BY <1>0 DEF PlaceInv, SuccessMeansDone, AppNext, alterator_ctl_app_parse_args, alterator_ctl_app_run, alterator_ctl_app_list_modules
<1>1. CASE services_module_parse_arguments
  BY <1>1 DEF PlaceInv, SuccessMeansDone, services_module_parse_arguments, In, services_module_print_help, Subcommands
<1>2. CASE CheckRequiredState
  BY <1>2 DEF PlaceInv, SuccessMeansDone, CheckRequiredState
<1>3. CASE LoadInfo
  BY <1>3 DEF PlaceInv, SuccessMeansDone, LoadInfo
<1>4. CASE services_module_parse_diagnose_arguments
  BY <1>4 DEF PlaceInv, SuccessMeansDone, services_module_parse_diagnose_arguments
<1>5. CASE services_module_parse_contextual_arguments
  BY <1>5 DEF PlaceInv, SuccessMeansDone, services_module_parse_contextual_arguments
<1>6. CASE PlayFile
  BY <1>6 DEF PlaceInv, SuccessMeansDone, PlayFile, get_command_id_from_context
<1>7. CASE services_module_confirm_execution
  BY <1>7 DEF PlaceInv, SuccessMeansDone, services_module_confirm_execution
<1>8. CASE FindConflicts
  BY <1>8 DEF PlaceInv, SuccessMeansDone, FindConflicts
<1>9. CASE Prompt
  BY <1>9 DEF PlaceInv, SuccessMeansDone, Prompt
<1>10. CASE services_module_run
  BY <1>10 DEF PlaceInv, SuccessMeansDone, services_module_run
<1>11. CASE services_module_parametrized_subcommand
  <2>0. UNCHANGED <<sent, done, results, argv, command, play_plan, consented>>
    BY <1>11 DEF services_module_parametrized_subcommand
  <2>1. (Answered => Answered') /\ (WasDone("deploy") => WasDone("deploy")')
    BY <2>0 DEF Answered, WasDone
  <2>2. /\ at = "parametrized"
        /\ \/ at' = "end" /\ ret' = -1
           \/ at' = "request"
           \/ at' = "play_run_diag" /\ phase' = "PRE_DIAG"
    BY <1>11 DEF services_module_parametrized_subcommand
  <2>3. SuccessMeansDone'
    BY <2>0, <2>2 DEF SuccessMeansDone
  <2> QED BY <2>0, <2>1, <2>2, <2>3
<1>12. CASE services_module_play_run_diag
  <2>0. UNCHANGED <<sent, done, results, argv, command, play_plan, consented>>
    BY <1>12 DEF services_module_play_run_diag
  <2>1. (Answered => Answered') /\ (WasDone("deploy") => WasDone("deploy")')
    BY <2>0 DEF Answered, WasDone
  <2>. at = "play_run_diag" /\ phase' = phase /\ phase \in {"PRE_DIAG", "POST_DIAG"}
    BY <1>12 DEF services_module_play_run_diag, PlaceInv
  <2>2. (at' = "end" /\ ret' # 0) \/ at' = "run_test"
    BY <1>12 DEF services_module_play_run_diag
  <2>3. SuccessMeansDone'
    BY <2>0, <2>2 DEF SuccessMeansDone
  <2> QED BY <2>0, <2>1, <2>2, <2>3
<1>13. CASE services_module_run_test
  <2>0. UNCHANGED <<sent, done, results, argv, command, play_plan, consented>>
    BY <1>13 DEF services_module_run_test
  <2>1. (Answered => Answered') /\ (WasDone("deploy") => WasDone("deploy")')
    BY <2>0 DEF Answered, WasDone
  <2>2. /\ at = "run_test" /\ phase' = phase
        /\ \/ at' = "end" /\ ret' = -1
           \/ at' = "run_test"
    BY <1>13 DEF services_module_run_test
  <2>3. SuccessMeansDone'
    BY <2>0, <2>2 DEF SuccessMeansDone
  <2> QED BY <2>0, <2>1, <2>2, <2>3
<1>14. CASE PlayVerdict
  <2>0. UNCHANGED <<sent, results, argv, command, play_plan, consented, phase>>
    BY <1>14 DEF PlayVerdict
  <2>1. done \subseteq done'
    BY <1>14 DEF PlayVerdict, services_module_maybe_save_diag_log
  <2>2. Answered => Answered'
    BY <2>0, <2>1 DEF Answered, WasDone
  <2>3. /\ at = "run_test"
        /\ \/ at' = "end" /\ ret' = -1
           \/ at' = "request" /\ phase = "PRE_DIAG"
           \/ at' = "handle_results" /\ phase = "POST_DIAG"
    BY <1>14 DEF PlayVerdict
  <2>4. SuccessMeansDone'
    BY <2>0, <2>3 DEF SuccessMeansDone
  <2> QED BY <2>0, <2>2, <2>3, <2>4
<1>15. CASE SendRequest
  <2>0. /\ at = "request" /\ sent = <<>> /\ command \in Requests
        /\ UNCHANGED <<argv, memory, loop, consented>>
    BY <1>15 DEF SendRequest, PlaceInv
  <2>1. PICK out \in call(Replies) \cup {Silent} :
          /\ IF out = Silent THEN UNCHANGED <<sent, service, done>>
                             ELSE Request(command, json[1], out)
          /\ results' = out.res
          /\ IF out.err # "none" THEN ERR_EXIT
             ELSE Goto(IF need_postdiag THEN "postdiag" ELSE "handle_results")
    BY <1>15 DEF SendRequest
  <2>2. SuccessMeansDone'
    BY <2>0, <2>1 DEF SuccessMeansDone
  <2>3. sent' = <<>> \/ sent' = <<sent'[1]>>
    BY <2>0, <2>1 DEF Request
  <2>4. CASE out.err # "none"
    BY <2>0, <2>1, <2>2, <2>3, <2>4
  <2>5. CASE out = Silent
    <3>1. Answered' /\ out.err = "none"
      BY <2>0, <2>1, <2>5 DEF Silent, Answered
    <3> QED BY <2>0, <2>1, <2>2, <2>3, <3>1
  <2>6. CASE out.err = "none" /\ out # Silent
    <3>1. PICK c \in ExitCodes : out.res = <<[code |-> c]>>
      BY <2>6, CallOutcomes
    <3>2. /\ sent' = <<sent'[1]>>
          /\ sent'[1].method = command /\ sent'[1].reply = c
      BY <2>0, <2>1, <2>6, <3>1 DEF Request
    <3>. Request(command, json[1], out)
      BY <2>1, <2>6
    <3>. out.res # <<>> /\ out.res[1].code = c
      BY <3>1, OneReply
    <3>3. c = 0 => \E r \in done' : r.method = command
      BY RequestDone
    <3>4. Answered'
      BY <2>0, <2>1, <3>1, <3>2, <3>3 DEF Answered, WasDone
    <3> QED BY <2>0, <2>1, <2>2, <2>3, <2>6, <3>4
  <2> QED BY <2>4, <2>5, <2>6
<1>16. CASE PostDiag
  <2>0. UNCHANGED <<sent, done, results, argv, command, play_plan, consented>>
    BY <1>16 DEF PostDiag
  <2>1. (Answered => Answered') /\ (WasDone("deploy") => WasDone("deploy")')
    BY <2>0 DEF Answered, WasDone
  <2>2. /\ at = "postdiag"
        /\ \/ at' = "end" /\ ret' = -1
           \/ at' = "handle_results"
           \/ at' = "play_run_diag" /\ phase' = "POST_DIAG"
    BY <1>16 DEF PostDiag
  <2>3. SuccessMeansDone'
    BY <2>0, <2>2 DEF SuccessMeansDone
  <2> QED BY <2>0, <2>1, <2>2, <2>3
<1>17. CASE services_module_diagnose_subcommand
  BY <1>17 DEF PlaceInv, SuccessMeansDone, services_module_diagnose_subcommand
<1>18. CASE DiagnoseTool
  BY <1>18 DEF PlaceInv, SuccessMeansDone, DiagnoseTool
<1>19. CASE DiagnoseToolEnd
  BY <1>19 DEF PlaceInv, SuccessMeansDone, DiagnoseToolEnd
<1>20. CASE Failure
  BY <1>20 DEF PlaceInv, SuccessMeansDone, Failure
<1>21. CASE services_module_start_subcommand
  <2>0. UNCHANGED <<sent, done, results, argv, command, play_plan, consented>>
    BY <1>21 DEF services_module_start_subcommand
  <2>1. (Answered => Answered') /\ (WasDone("deploy") => WasDone("deploy")')
    BY <2>0 DEF Answered, WasDone
  <2>2. /\ at = "start" /\ phase' = phase
        /\ \/ at' = "end" /\ ret' = -1
           \/ at' = "send start"
    BY <1>21 DEF services_module_start_subcommand, StatusBefore
  <2>3. SuccessMeansDone'
    BY <2>0, <2>2 DEF SuccessMeansDone
  <2> QED BY <2>0, <2>1, <2>2, <2>3
<1>22. CASE services_module_stop_subcommand
  BY <1>22 DEF PlaceInv, SuccessMeansDone, services_module_stop_subcommand, StatusBefore
<1>23. CASE SendStartOrStop
  <2>0. /\ at \in {"send start", "send stop"}
        /\ UNCHANGED <<argv, memory, loop, consented>>
        /\ at = "send stop" => phase = ""
    BY <1>23 DEF SendStartOrStop, PlaceInv
  <2>1. PICK out \in call(Replies) \cup {Silent} :
          /\ IF out = Silent THEN UNCHANGED <<sent, service, done>>
             ELSE Request(IF at = "send start" THEN "start" ELSE "stop", EmptyObject, out)
          /\ results' = out.res
          /\ IF out.res = <<>> THEN ERR_EXIT
             ELSE Goto(IF phase = "autostart" THEN "autostart_result" ELSE "handle_results")
    BY <1>23 DEF SendStartOrStop
  <2>2. sent' = <<>> \/ sent' = <<sent'[1]>> \/ sent' = <<sent'[1], sent'[2]>>
    <3>1. sent = <<>> \/ sent = <<sent[1]>>
      BY <2>0
    <3>2. CASE sent' = sent
      BY <3>1, <3>2
    <3>3. CASE \E r : sent' = Append(sent, r)
      <4>1. PICK r : sent' = Append(sent, r)
        BY <3>3
      <4>2. CASE sent = <<>>
        <5>1. sent' = <<r>>
          BY <4>1, <4>2, Appended
        <5> QED BY <5>1
      <4>3. CASE sent = <<sent[1]>>
        <5>1. PICK x : sent = <<x>>
          BY <4>3
        <5>2. sent' = <<x, r>>
          BY <4>1, <5>1, Appended
        <5>3. sent'[1] = x /\ sent'[2] = r
          BY <5>2
        <5> QED BY <5>2, <5>3
      <4> QED BY <3>1, <4>2, <4>3
    <3> QED BY <2>1, <3>2, <3>3 DEF Request
  <2>3. at' = "end" => ret' = -1
    BY <2>1
  <2>4. SuccessMeansDone'
    <3>1. ~(at' = "end" /\ ret' = 0)
      BY <2>3, MinusOne
    <3> QED BY <3>1 DEF SuccessMeansDone
  <2>5. CASE out.res = <<>>
    BY <2>1, <2>2, <2>4, <2>5
  <2>6. CASE out.res # <<>> /\ phase = "autostart"
    <3> out # Silent
      BY <2>6, Silent.res = <<>> DEF Silent
    <3>1. PICK c \in ExitCodes : out.res = <<[code |-> c]>>
      BY <2>6, CallOutcomes
    <3>2. at = "send start" /\ at' = "autostart_result" /\ WasDone("deploy")
      BY <2>0, <2>1, <2>6
    <3>3. Request("start", EmptyObject, out)
      BY <2>1, <3>2
    <3>. out.res # <<>> /\ out.res[1].code = c
      BY <3>1, OneReply
    <3>4. done \subseteq done' /\ (c = 0 => \E r \in done' : r.method = "start")
      BY <3>3, RequestDone
    <3>5. WasDone("deploy")' /\ (results'[1].code = 0 => WasDone("start")')
      BY <2>1, <3>1, <3>2, <3>4 DEF WasDone
    <3> QED BY <2>2, <2>4, <3>2, <3>5
  <2>7. CASE out.res # <<>> /\ phase # "autostart"
    <3>1. at' = "handle_results" /\ command' \notin Requests
      BY <2>0, <2>1, <2>7, <1>23 DEF PlaceInv
    <3> QED BY <2>2, <2>4, <3>1
  <2> QED BY <2>5, <2>6, <2>7
<1>24. CASE services_module_info_subcommand
  BY <1>24 DEF PlaceInv, SuccessMeansDone, services_module_info_subcommand
<1>25. CASE services_module_list_subcommand
  BY <1>25 DEF PlaceInv, SuccessMeansDone, services_module_list_subcommand
<1>26. CASE services_module_resources_subcommand
  BY <1>26 DEF PlaceInv, SuccessMeansDone, services_module_resources_subcommand
<1>27. CASE services_module_status_command
  BY <1>27 DEF PlaceInv, SuccessMeansDone, services_module_status_command
<1>28. CASE services_module_handle_results
  <2>0. /\ at = "handle_results"
        /\ UNCHANGED <<argv, results, done, memory, is_dbus_call_error, record>>
    BY <1>28 DEF services_module_handle_results
  <2>1. WasDone(command)' = WasDone(command) /\ should_autostart' = should_autostart
    BY <2>0 DEF WasDone, should_autostart, lauch_after_deploy, has
  <2>2. \/ at' = "end" /\ ret' # 0
        \/ at' = "end" /\ (command = "diagnose" \/ command \notin Contextual)
        \/ /\ at' = "end" /\ command \in Requests /\ results # <<>> /\ results[1].code = 0
           /\ command = "deploy" => ~should_autostart
        \/ /\ at' = "start" /\ phase' = "autostart" /\ command = "deploy"
           /\ results # <<>> /\ results[1].code = 0
    <3>1. CASE services_module_resources_handle_result
      BY <3>1 DEF services_module_resources_handle_result
    <3>2. CASE services_module_info_handle_result
      BY <3>2 DEF services_module_info_handle_result
    <3>3. CASE services_module_status_handle_result
      BY <3>3 DEF services_module_status_handle_result
    <3>4. CASE /\ command \in {"backup", "configure", "restore", "undeploy", "start", "stop"}
               /\ ExitCodeResult
      <4>1. CASE results # <<>> /\ results[1].code = 0
        BY <3>4, <4>1 DEF ExitCodeResult
      <4>2. CASE results = <<>> \/ results[1].code # 0
        BY <3>4, <4>2, MinusOne DEF ExitCodeResult
      <4> QED BY <4>1, <4>2
    <3>5. CASE services_module_deploy_handle_result
      <4>1. CASE results # <<>> /\ results[1].code = 0
        BY <3>5, <4>1 DEF services_module_deploy_handle_result
      <4>2. CASE results = <<>> \/ results[1].code # 0
        BY <3>5, <4>2, MinusOne DEF services_module_deploy_handle_result
      <4> QED BY <4>1, <4>2
    <3>6. CASE command \in {"diagnose", "list"} /\ Finish
      BY <3>6
    <3> QED
      BY <1>28, <3>1, <3>2, <3>3, <3>4, <3>5, <3>6
      DEF services_module_handle_results, services_module_backup_handle_result,
          services_module_configure_handle_result, services_module_restore_handle_result,
          services_module_undeploy_handle_result, services_module_start_handle_result,
          services_module_stop_handle_result
  <2>3. command \in Requests /\ results # NULL /\ results[1].code = 0 =>
          sent = <<sent[1]>> /\ sent[1].method = command /\ sent[1].reply = 0 /\ WasDone(command)
    BY <2>0 DEF Answered
  <2>4. SuccessMeansDone'
    BY <2>0, <2>1, <2>2, <2>3 DEF SuccessMeansDone, WasDone, PlaceInv
  <2>5. CASE at' = "end"
    BY <2>0, <2>4, <2>5
  <2>6. CASE at' = "start"
    BY <2>0, <2>1, <2>2, <2>3, <2>4, <2>6
  <2> QED BY <2>2, <2>5, <2>6
<1>29. CASE services_module_run_with_args
  BY <1>29 DEF PlaceInv, SuccessMeansDone, services_module_run_with_args
<1>30. CASE AutostartResult
  <2>0. /\ at = "autostart_result" /\ at' = "end" /\ (ret' = 0 => results[1].code = 0)
        /\ UNCHANGED <<done, command, sent>>
    BY <1>30 DEF AutostartResult
  <2>1. WasDone("deploy")' = WasDone("deploy") /\ WasDone("start")' = WasDone("start")
    BY <2>0 DEF WasDone
  <2>2. SuccessMeansDone'
    BY <2>0, <2>1 DEF SuccessMeansDone, WasDone, PlaceInv
  <2> QED BY <2>0, <2>2
<1>31. CASE OtherClient
  <2>0. UNCHANGED <<at, ret, phase, sent, done, results, argv, command, play_plan, consented, is_dbus_call_error>>
    BY <1>31 DEF OtherClient
  <2>1. (Answered => Answered') /\ (WasDone("deploy") => WasDone("deploy")') /\ (WasDone("start") => WasDone("start")')
    BY <2>0 DEF Answered, WasDone
  <2>2. SuccessMeansDone'
    BY <2>0 DEF SuccessMeansDone, should_autostart, lauch_after_deploy, has
  <2> QED BY <2>0, <2>1, <2>2
<1>32. CASE Ended
  <2>0. UNCHANGED <<at, ret, phase, sent, done, results, argv, command, play_plan, consented, is_dbus_call_error>>
    BY <1>32 DEF Ended, vars
  <2>1. (Answered => Answered') /\ (WasDone("deploy") => WasDone("deploy")') /\ (WasDone("start") => WasDone("start")')
    BY <2>0 DEF Answered, WasDone
  <2>2. SuccessMeansDone'
    BY <2>0 DEF SuccessMeansDone, should_autostart, lauch_after_deploy, has
  <2> QED BY <2>0, <2>1, <2>2
<1> QED BY <1>0, <1>1, <1>2, <1>3, <1>4, <1>5, <1>6, <1>7, <1>8, <1>9, <1>10, <1>11, <1>12, <1>13, <1>14, <1>15, <1>16, <1>17, <1>18, <1>19, <1>20, <1>21, <1>22, <1>23, <1>24, <1>25, <1>26, <1>27, <1>28, <1>29, <1>30, <1>31, <1>32 DEF Next, Step

-----------------------------------------------------------------------------
(* The state of the service. *)

\* A status text tells the state of the service, unless it is empty.
LEMMA StatusIsRead ==
  ASSUME IsService(service),
         NEW read \in services_module_status_subcommand,
         services_module_is_deployed(read) # <<>>
  PROVE  \/ services_module_is_deployed(read) = <<service.status>>
         \/ read.ok /\ read.text = NoText /\ service.status # "UNDEPLOYED"
<1> DEFINE D(n) == CASE n = "deployed" -> Bool(TRUE)
                     [] n = "started"  -> Bool(service.status = "DEPLOYED_AND_STARTED")
                     [] OTHER          -> service.params.obj[n]
<1>0. read.ok
  BY DEF services_module_is_deployed
<1>1. read.ok /\ read.text \in {StatusText, Garbage, NoText}
  <2>1. CASE \E flag \in BOOLEAN :
               read = [ok |-> FALSE, flag |-> flag, text |-> NoText, code |-> 0]
    BY <1>0, <2>1
  <2>2. CASE \E t \in {<<StatusText, 0>>, <<Garbage, 0>>, <<NoText, 1>>} :
               read = [ok |-> TRUE, flag |-> FALSE, text |-> t[1], code |-> t[2]]
    BY <2>2
  <2>3. \/ \E flag \in BOOLEAN :
             read = [ok |-> FALSE, flag |-> flag, text |-> NoText, code |-> 0]
        \/ \E t \in {<<StatusText, 0>>, <<Garbage, 0>>, <<NoText, 1>>} :
             read = [ok |-> TRUE, flag |-> FALSE, text |-> t[1], code |-> t[2]]
    BY DEF services_module_status_subcommand
  <2> QED BY <2>1, <2>2, <2>3
<1>2. read.text # Garbage
  BY <1>1 DEF services_module_is_deployed, services_module_is_deployed_from_status_ctx
<1>3. CASE read.text = NoText
  <2>1. services_module_is_deployed(read) = <<"UNDEPLOYED">>
    BY <1>1, <1>2, <1>3 DEF services_module_is_deployed, services_module_is_deployed_from_status_ctx
  <2> QED BY <1>1, <1>3, <2>1
<1>4. CASE read.text = StatusText /\ read.text # NoText
  <2>1. services_module_is_deployed(read) = <<services_module_status_params_get_state(StatusText)>>
    BY <1>1, <1>2, <1>4 DEF services_module_is_deployed, services_module_is_deployed_from_status_ctx
  <2>2. CASE service.status = "UNDEPLOYED"
    <3>1. StatusText = [obj |-> [deployed |-> Bool(FALSE)]]
      BY <2>2 DEF StatusText, Obj
    <3>2. Member(StatusText, "deployed") = <<Bool(FALSE)>>
      BY <3>1 DEF Member, Members, Is
    <3>3. Bool(FALSE) # Bool(TRUE)
      BY DEF Bool
    <3>4. Member(StatusText, "deployed") # <<Bool(TRUE)>>
      <4> DEFINE t == Bool(TRUE) f == Bool(FALSE)
      <4>1. t # f /\ Member(StatusText, "deployed") = <<f>>
        BY <3>2, <3>3
      <4> HIDE DEF t, f
      <4>2. <<f>> # <<t>>
        BY <4>1
      <4> QED BY <4>1, <4>2 DEF t
    <3>5. services_module_status_params_get_state(StatusText) = "UNDEPLOYED"
      BY <3>4 DEF services_module_status_params_get_state
    <3> QED BY <2>1, <2>2, <3>5
  <2>3. CASE service.status # "UNDEPLOYED"
    <3>1. StatusText = [obj |-> [n \in {"deployed", "started"} \cup DOMAIN service.params.obj |-> D(n)]]
      BY <2>3 DEF StatusText, Obj
    <3>2. D("deployed") = Bool(TRUE) /\ D("started") = Bool(service.status = "DEPLOYED_AND_STARTED")
      OBVIOUS
    <3> HIDE DEF D
    <3>3. /\ Member(StatusText, "deployed") = <<D("deployed")>>
          /\ Member(StatusText, "started") = <<D("started")>>
      BY <3>1 DEF Member, Members, Is
    <3>4. (Bool(service.status = "DEPLOYED_AND_STARTED") = Bool(TRUE))
            <=> service.status = "DEPLOYED_AND_STARTED"
      BY DEF Bool
    <3>5. service.status \in {"DEPLOYED", "DEPLOYED_AND_STARTED"}
      BY <2>3 DEF IsService, Statuses
    <3>6. /\ Member(StatusText, "deployed") = <<Bool(TRUE)>>
          /\ Member(StatusText, "started") = <<Bool(TRUE)>>
               <=> service.status = "DEPLOYED_AND_STARTED"
      <4> DEFINE t == Bool(TRUE) d == D("started")
      <4>1. Member(StatusText, "deployed") = <<t>> /\ Member(StatusText, "started") = <<d>>
        BY <3>2, <3>3
      <4>2. d = t <=> service.status = "DEPLOYED_AND_STARTED"
        BY <3>2, <3>4
      <4> HIDE DEF t, d
      <4>3. <<d>> = <<t>> <=> d = t
        OBVIOUS
      <4> QED BY <4>1, <4>2, <4>3 DEF t
    <3>7. services_module_status_params_get_state(StatusText) = service.status
      BY <3>5, <3>6 DEF services_module_status_params_get_state
    <3> QED BY <2>1, <3>7
  <2> QED BY <2>2, <2>3
<1> QED BY <1>1, <1>2, <1>3, <1>4

\* Whatever the backend's program does, it leaves a service.
LEMMA EffectIsService ==
  ASSUME NEW method, NEW node, NEW s, IsService(s)
  PROVE  IsService(Effect(method, node, s))
BY DEF Effect, IsService, Statuses, Undeployed

LEMMA RequestKeepsService ==
  ASSUME NEW method, NEW node, NEW out, IsService(service), Request(method, node, out)
  PROVE  /\ IsService(service')
         /\ done' \subseteq done \cup {[method |-> method, over |-> service.status, misread |-> misread]}
<1>1. PICK was \in WasExecuted(out) :
        IF was THEN /\ service' = Effect(method, node, service)
                    /\ done' = done \cup {[method |-> method, over |-> service.status, misread |-> misread]}
               ELSE UNCHANGED <<service, done>>
  BY DEF Request
<1> QED BY <1>1, EffectIsService

LEMMA StateFitsKept ==
  ASSUME StateFits, UNCHANGED <<argv, play_plan, done>>, meddled => meddled'
  PROVE  StateFits'
<1>1. effective_force' = effective_force
  BY DEF effective_force, HasForce, services_play_plan_get, force_deploy, has
<1> QED BY <1>1 DEF StateFits

LEMMA StateFitsAdded ==
  ASSUME StateFits, UNCHANGED <<argv, play_plan, meddled>>, NEW r, done' \subseteq done \cup {r},
         \/ r.method = "save log" \/ r.over \in StateFor(r.method)
         \/ meddled \/ r.misread \/ (r.method = "deploy" /\ effective_force)
  PROVE  StateFits'
<1>1. effective_force' = effective_force
  BY DEF effective_force, HasForce, services_play_plan_get, force_deploy, has
<1>2. ASSUME NEW d \in done', d.method # "save log", d.over \notin StateFor(d.method)
      PROVE  meddled' \/ d.misread \/ (d.method = "deploy" /\ effective_force')
  <2>1. CASE d \in done
    BY <1>1, <1>2, <2>1 DEF StateFits
  <2>2. CASE d = r
    BY <1>1, <1>2, <2>2
  <2> QED BY <2>1, <2>2
<1> QED BY <1>2 DEF StateFits, StateFor

LEMMA StillFitsKept ==
  ASSUME UNCHANGED <<argv, command, play_plan, service>>, StillFits
  PROVE  StillFits'
<1>1. effective_force' = effective_force
  BY DEF effective_force, HasForce, services_play_plan_get, force_deploy, has
<1> QED BY <1>1 DEF StillFits, services_module_check_required_state

\* The steps that change neither the service nor what is known of it.
LEMMA FitQuiet ==
  ASSUME FitInv, UNCHANGED <<argv, service, meddled, done>>, UNCHANGED play_plan \/ done = {},
         ~BeforeRequest', at' \notin {"send start", "send stop"}
  PROVE  FitInv'
<1>1. StateFits'
  <2>1. CASE UNCHANGED play_plan
    BY <2>1, StateFitsKept DEF FitInv
  <2>2. CASE done = {}
    BY <2>2 DEF StateFits
  <2> QED BY <2>1, <2>2
<1>2. IsService(service)'
  BY DEF FitInv, IsService
<1> QED BY <1>1, <1>2 DEF FitInv

LEMMA FitStep == PlaceInv /\ SentInv /\ FitInv /\ Next => FitInv'
<1> SUFFICES ASSUME PlaceInv, SentInv, FitInv, Next PROVE FitInv'
  OBVIOUS
<1> USE DEF ERR_EXIT, Finish, CRASH, Goto, commonVars, memory, loop, reads, world, record
<1>0. CASE AppNext /\ UNCHANGED <<memory, loop, reads, world, record>>
  <2>1. /\ UNCHANGED <<argv, service, meddled, done>> /\ (UNCHANGED play_plan \/ done = {})
        /\ ~BeforeRequest' /\ at' \notin {"send start", "send stop"}
    BY <1>0 DEF BeforeRequest, PlayTesting, AppNext, alterator_ctl_app_parse_args, alterator_ctl_app_run, alterator_ctl_app_list_modules
  <2> QED BY <2>1, FitQuiet
<1>1. CASE services_module_parse_arguments
  <2>1. /\ UNCHANGED <<argv, service, meddled, done>> /\ (UNCHANGED play_plan \/ done = {})
        /\ ~BeforeRequest' /\ at' \notin {"send start", "send stop"}
    BY <1>1 DEF BeforeRequest, PlayTesting, services_module_parse_arguments, In, services_module_print_help
  <2> QED BY <2>1, FitQuiet
<1>2. CASE CheckRequiredState
  <2>1. /\ UNCHANGED <<argv, service, meddled, done>> /\ (UNCHANGED play_plan \/ done = {})
        /\ ~BeforeRequest' /\ at' \notin {"send start", "send stop"}
    BY <1>2 DEF BeforeRequest, PlayTesting, CheckRequiredState
  <2> QED BY <2>1, FitQuiet
<1>3. CASE LoadInfo
  <2>1. /\ UNCHANGED <<argv, service, meddled, done>> /\ (UNCHANGED play_plan \/ done = {})
        /\ ~BeforeRequest' /\ at' \notin {"send start", "send stop"}
    BY <1>3 DEF BeforeRequest, PlayTesting, LoadInfo
  <2> QED BY <2>1, FitQuiet
<1>4. CASE services_module_parse_diagnose_arguments
  <2>1. /\ UNCHANGED <<argv, service, meddled, done>> /\ (UNCHANGED play_plan \/ done = {})
        /\ ~BeforeRequest' /\ at' \notin {"send start", "send stop"}
    BY <1>4 DEF BeforeRequest, PlayTesting, services_module_parse_diagnose_arguments
  <2> QED BY <2>1, FitQuiet
<1>5. CASE services_module_parse_contextual_arguments
  <2>1. /\ UNCHANGED <<argv, service, meddled, done>> /\ (UNCHANGED play_plan \/ done = {})
        /\ ~BeforeRequest' /\ at' \notin {"send start", "send stop"}
    BY <1>5 DEF BeforeRequest, PlayTesting, services_module_parse_contextual_arguments
  <2> QED BY <2>1, FitQuiet
<1>6. CASE PlayFile
  <2>1. /\ UNCHANGED <<argv, service, meddled, done>> /\ (UNCHANGED play_plan \/ done = {})
        /\ ~BeforeRequest' /\ at' \notin {"send start", "send stop"}
    BY <1>6 DEF BeforeRequest, PlayTesting, PlayFile, PlaceInv, Preparing
  <2> QED BY <2>1, FitQuiet
<1>7. CASE services_module_confirm_execution
  <2>1. /\ UNCHANGED <<argv, service, meddled, done>> /\ (UNCHANGED play_plan \/ done = {})
        /\ ~BeforeRequest' /\ at' \notin {"send start", "send stop"}
    BY <1>7 DEF BeforeRequest, PlayTesting, services_module_confirm_execution
  <2> QED BY <2>1, FitQuiet
<1>8. CASE FindConflicts
  <2>1. /\ UNCHANGED <<argv, service, meddled, done>> /\ (UNCHANGED play_plan \/ done = {})
        /\ ~BeforeRequest' /\ at' \notin {"send start", "send stop"}
    BY <1>8 DEF BeforeRequest, PlayTesting, FindConflicts
  <2> QED BY <2>1, FitQuiet
<1>9. CASE Prompt
  <2>1. /\ UNCHANGED <<argv, service, meddled, done>> /\ (UNCHANGED play_plan \/ done = {})
        /\ ~BeforeRequest' /\ at' \notin {"send start", "send stop"}
    BY <1>9 DEF BeforeRequest, PlayTesting, Prompt
  <2> QED BY <2>1, FitQuiet
<1>10. CASE services_module_run
  <2>1. /\ UNCHANGED <<argv, service, meddled, done>> /\ (UNCHANGED play_plan \/ done = {})
        /\ ~BeforeRequest' /\ at' \notin {"send start", "send stop"}
    BY <1>10 DEF BeforeRequest, PlayTesting, services_module_run, PlaceInv, Contextual, Parameterless
  <2> QED BY <2>1, FitQuiet
<1>11. CASE services_module_parametrized_subcommand
  <2>0. UNCHANGED <<argv, command, play_plan, service, meddled, done>>
    BY <1>11 DEF services_module_parametrized_subcommand
  <2>1. StateFits' /\ IsService(service)'
    BY <2>0, StateFitsKept DEF FitInv, IsService
  <2>2. PICK read \in services_module_status_subcommand :
          /\ Noted(read)
          /\ IF \/ services_module_is_deployed(read) = <<>>
                \/ ~services_module_check_required_state(command, effective_force,
                                                         services_module_is_deployed(read)[1])
               THEN ERR_EXIT
               ELSE at' \in {"play_run_diag", "request"}
    BY <1>11 DEF services_module_parametrized_subcommand
  <2>3. CASE at' = "end"
    BY <2>1, <2>3 DEF FitInv, BeforeRequest, PlayTesting
  <2>4. CASE at' # "end"
    <3>1. /\ services_module_is_deployed(read) # <<>>
          /\ services_module_check_required_state(command, effective_force, services_module_is_deployed(read)[1])
          /\ at' \in {"play_run_diag", "request"}
      BY <2>2, <2>4
    <3>2. CASE services_module_is_deployed(read) = <<service.status>>
      <4>1. StillFits
        BY <3>1, <3>2 DEF StillFits
      <4> QED BY <2>0, <2>1, <3>1, <4>1, StillFitsKept DEF FitInv
    <3>3. CASE read.ok /\ read.text = NoText /\ service.status # "UNDEPLOYED"
      <4>1. misread'
        BY <2>2, <3>3 DEF Noted
      <4> QED BY <2>1, <3>1, <4>1 DEF FitInv
    <3> QED BY <3>1, <3>2, <3>3, StatusIsRead DEF FitInv
  <2> QED BY <2>3, <2>4
<1>12. CASE services_module_play_run_diag
  <2>0. UNCHANGED <<argv, command, play_plan, service, meddled, misread, done>>
    BY <1>12 DEF services_module_play_run_diag
  <2>1. BeforeRequest' => BeforeRequest
    BY <1>12 DEF BeforeRequest, PlayTesting, services_module_play_run_diag
  <2>2. at' \notin {"send start", "send stop"}
    BY <1>12 DEF services_module_play_run_diag
  <2>3. StateFits'
    BY <2>0, StateFitsKept DEF FitInv
  <2>4. IsService(service)'
    BY <2>0 DEF FitInv, IsService
  <2>5. BeforeRequest' => meddled' \/ misread' \/ StillFits'
    BY <2>0, <2>1, StillFitsKept DEF FitInv
  <2> QED BY <2>2, <2>3, <2>4, <2>5 DEF FitInv
<1>13. CASE services_module_run_test
  <2>0. UNCHANGED <<argv, command, play_plan, service, meddled, misread, done>>
    BY <1>13 DEF services_module_run_test
  <2>1. BeforeRequest' => BeforeRequest
    BY <1>13 DEF BeforeRequest, PlayTesting, services_module_run_test
  <2>2. at' \notin {"send start", "send stop"}
    BY <1>13 DEF services_module_run_test
  <2>3. StateFits'
    BY <2>0, StateFitsKept DEF FitInv
  <2>4. IsService(service)'
    BY <2>0 DEF FitInv, IsService
  <2>5. BeforeRequest' => meddled' \/ misread' \/ StillFits'
    BY <2>0, <2>1, StillFitsKept DEF FitInv
  <2> QED BY <2>2, <2>3, <2>4, <2>5 DEF FitInv
<1>14. CASE PlayVerdict
  <2>0. UNCHANGED <<argv, command, play_plan, service, meddled, misread>>
    BY <1>14 DEF PlayVerdict
  <2>1. BeforeRequest' => BeforeRequest
    BY <1>14 DEF BeforeRequest, PlayTesting, PlayVerdict
  <2>2. at' \notin {"send start", "send stop"}
    BY <1>14 DEF PlayVerdict
  <2>3. StateFits'
    <3>1. done' \subseteq done \cup {[method |-> "save log", over |-> service.status, misread |-> FALSE]}
      BY <1>14 DEF PlayVerdict, services_module_maybe_save_diag_log
    <3> QED BY <2>0, <3>1, StateFitsAdded DEF FitInv
  <2>4. IsService(service)'
    BY <2>0 DEF FitInv, IsService
  <2>5. BeforeRequest' => meddled' \/ misread' \/ StillFits'
    BY <2>0, <2>1, StillFitsKept DEF FitInv
  <2> QED BY <2>2, <2>3, <2>4, <2>5 DEF FitInv
<1>15. CASE SendRequest
  <2>0. /\ at = "request" /\ command \in Requests
        /\ UNCHANGED <<argv, command, play_plan, meddled, misread>>
        /\ at' \in {"end", "postdiag", "handle_results"}
    BY <1>15 DEF SendRequest, PlaceInv
  <2>1. PICK out : UNCHANGED <<service, done>> \/ Request(command, json[1], out)
    BY <1>15 DEF SendRequest
  <2>2. /\ IsService(service')
        /\ done' \subseteq done \cup {[method |-> command, over |-> service.status, misread |-> misread]}
    BY <2>1, RequestKeepsService DEF FitInv
  <2>3. meddled \/ misread \/ StillFits
    BY <2>0 DEF FitInv, BeforeRequest
  <2>4. StateFits'
    <3> DEFINE R == [method |-> command, over |-> service.status, misread |-> misread]
    <3>1. R.method = command /\ R.over = service.status /\ (R.misread <=> misread) /\ done' \subseteq done \cup {R}
      BY <2>2
    <3> HIDE DEF R
    <3>2. StillFits /\ service.status \notin StateFor(command) => command = "deploy" /\ effective_force
      BY <2>0 DEF StillFits, services_module_check_required_state, StateFor, FitInv, IsService,
                  Statuses, Requests, Contextual
    <3> QED BY <2>0, <2>3, <3>1, <3>2, StateFitsAdded DEF FitInv
  <2> QED BY <2>0, <2>2, <2>4 DEF FitInv, BeforeRequest, PlayTesting
<1>16. CASE PostDiag
  <2>1. /\ UNCHANGED <<argv, service, meddled, done>> /\ (UNCHANGED play_plan \/ done = {})
        /\ ~BeforeRequest' /\ at' \notin {"send start", "send stop"}
    BY <1>16 DEF BeforeRequest, PlayTesting, PostDiag
  <2> QED BY <2>1, FitQuiet
<1>17. CASE services_module_diagnose_subcommand
  <2>1. /\ UNCHANGED <<argv, service, meddled, done>> /\ (UNCHANGED play_plan \/ done = {})
        /\ ~BeforeRequest' /\ at' \notin {"send start", "send stop"}
    BY <1>17 DEF BeforeRequest, PlayTesting, services_module_diagnose_subcommand
  <2> QED BY <2>1, FitQuiet
<1>18. CASE DiagnoseTool
  <2>1. /\ UNCHANGED <<argv, service, meddled, done>> /\ (UNCHANGED play_plan \/ done = {})
        /\ ~BeforeRequest' /\ at' \notin {"send start", "send stop"}
    BY <1>18 DEF BeforeRequest, PlayTesting, DiagnoseTool
  <2> QED BY <2>1, FitQuiet
<1>19. CASE DiagnoseToolEnd
  <2>1. /\ UNCHANGED <<argv, service, meddled, done>> /\ (UNCHANGED play_plan \/ done = {})
        /\ ~BeforeRequest' /\ at' \notin {"send start", "send stop"}
    BY <1>19 DEF BeforeRequest, PlayTesting, DiagnoseToolEnd
  <2> QED BY <2>1, FitQuiet
<1>20. CASE Failure
  <2>1. /\ UNCHANGED <<argv, service, meddled, done>> /\ (UNCHANGED play_plan \/ done = {})
        /\ ~BeforeRequest' /\ at' \notin {"send start", "send stop"}
    BY <1>20 DEF BeforeRequest, PlayTesting, Failure
  <2> QED BY <2>1, FitQuiet
<1>21. CASE services_module_start_subcommand
  <2>0. UNCHANGED <<argv, command, play_plan, service, meddled, done>>
    BY <1>21 DEF services_module_start_subcommand
  <2>1. StateFits' /\ IsService(service)'
    BY <2>0, StateFitsKept DEF FitInv, IsService
  <2>2. PICK read \in services_module_status_subcommand :
          /\ Noted(read)
          /\ \/ at' = "end"
             \/ at' = "send start" /\ services_module_is_deployed(read) = <<"DEPLOYED">>
    BY <1>21 DEF services_module_start_subcommand, StatusBefore
  <2>3. CASE at' = "end"
    BY <2>1, <2>3 DEF FitInv, BeforeRequest, PlayTesting
  <2>4. CASE at' = "send start" /\ services_module_is_deployed(read) = <<"DEPLOYED">>
    <3>1. service.status = "DEPLOYED" \/ misread'
      <4>1. CASE services_module_is_deployed(read) = <<service.status>>
        BY <2>4, <4>1, Pointed
      <4>2. CASE read.ok /\ read.text = NoText /\ service.status # "UNDEPLOYED"
        BY <2>2, <4>2 DEF Noted
      <4>3. services_module_is_deployed(read) # <<>>
        BY <2>4, Pointed
      <4> QED BY <4>1, <4>2, <4>3, StatusIsRead DEF FitInv
    <3> QED BY <2>0, <2>1, <2>4, <3>1 DEF FitInv, BeforeRequest, PlayTesting
  <2> QED BY <2>2, <2>3, <2>4
<1>22. CASE services_module_stop_subcommand
  <2>0. UNCHANGED <<argv, command, play_plan, service, meddled, done>>
    BY <1>22 DEF services_module_stop_subcommand
  <2>1. StateFits' /\ IsService(service)'
    BY <2>0, StateFitsKept DEF FitInv, IsService
  <2>2. PICK read \in services_module_status_subcommand :
          /\ Noted(read)
          /\ \/ at' = "end"
             \/ at' = "send stop" /\ services_module_is_deployed(read) = <<"DEPLOYED_AND_STARTED">>
    BY <1>22 DEF services_module_stop_subcommand, StatusBefore
  <2>3. CASE at' = "end"
    BY <2>1, <2>3 DEF FitInv, BeforeRequest, PlayTesting
  <2>4. CASE at' = "send stop" /\ services_module_is_deployed(read) = <<"DEPLOYED_AND_STARTED">>
    <3>1. service.status = "DEPLOYED_AND_STARTED" \/ misread'
      <4>1. CASE services_module_is_deployed(read) = <<service.status>>
        BY <2>4, <4>1, Pointed
      <4>2. CASE read.ok /\ read.text = NoText /\ service.status # "UNDEPLOYED"
        BY <2>2, <4>2 DEF Noted
      <4>3. services_module_is_deployed(read) # <<>>
        BY <2>4, Pointed
      <4> QED BY <4>1, <4>2, <4>3, StatusIsRead DEF FitInv
    <3> QED BY <2>0, <2>1, <2>4, <3>1 DEF FitInv, BeforeRequest, PlayTesting
  <2> QED BY <2>2, <2>3, <2>4
<1>23. CASE SendStartOrStop
  <2>0. /\ at \in {"send start", "send stop"}
        /\ UNCHANGED <<argv, command, play_plan, meddled, misread>>
        /\ at' \in {"end", "autostart_result", "handle_results"}
    BY <1>23 DEF SendStartOrStop
  <2> DEFINE method == IF at = "send start" THEN "start" ELSE "stop"
  <2>1. PICK out \in call(Replies) \cup {Silent} :
          UNCHANGED <<service, done>> \/ Request(method, EmptyObject, out)
    BY <1>23 DEF SendStartOrStop
  <2>5. \/ method = "start" /\ at = "send start"
        \/ method = "stop" /\ at = "send stop"
    BY <2>0
  <2> HIDE DEF method
  <2>2. /\ IsService(service')
        /\ done' \subseteq done \cup {[method |-> method, over |-> service.status, misread |-> misread]}
    BY <2>1, RequestKeepsService DEF FitInv
  <2>3. meddled \/ misread \/ service.status \in StateFor(method)
    BY <2>5 DEF FitInv, StateFor
  <2>4. StateFits'
    <3> DEFINE R == [method |-> method, over |-> service.status, misread |-> misread]
    <3>1. R.method = method /\ R.over = service.status /\ (R.misread <=> misread) /\ done' \subseteq done \cup {R}
      BY <2>2
    <3> HIDE DEF R
    <3> QED BY <2>0, <2>3, <3>1, StateFitsAdded DEF FitInv
  <2> QED BY <2>0, <2>2, <2>4 DEF FitInv, BeforeRequest, PlayTesting
<1>24. CASE services_module_info_subcommand
  <2>1. /\ UNCHANGED <<argv, service, meddled, done>> /\ (UNCHANGED play_plan \/ done = {})
        /\ ~BeforeRequest' /\ at' \notin {"send start", "send stop"}
    BY <1>24 DEF BeforeRequest, PlayTesting, services_module_info_subcommand
  <2> QED BY <2>1, FitQuiet
<1>25. CASE services_module_list_subcommand
  <2>1. /\ UNCHANGED <<argv, service, meddled, done>> /\ (UNCHANGED play_plan \/ done = {})
        /\ ~BeforeRequest' /\ at' \notin {"send start", "send stop"}
    BY <1>25 DEF BeforeRequest, PlayTesting, services_module_list_subcommand
  <2> QED BY <2>1, FitQuiet
<1>26. CASE services_module_resources_subcommand
  <2>1. /\ UNCHANGED <<argv, service, meddled, done>> /\ (UNCHANGED play_plan \/ done = {})
        /\ ~BeforeRequest' /\ at' \notin {"send start", "send stop"}
    BY <1>26 DEF BeforeRequest, PlayTesting, services_module_resources_subcommand
  <2> QED BY <2>1, FitQuiet
<1>27. CASE services_module_status_command
  <2>1. /\ UNCHANGED <<argv, service, meddled, done>> /\ (UNCHANGED play_plan \/ done = {})
        /\ ~BeforeRequest' /\ at' \notin {"send start", "send stop"}
    BY <1>27 DEF BeforeRequest, PlayTesting, services_module_status_command
  <2> QED BY <2>1, FitQuiet
<1>28. CASE services_module_handle_results
  <2>1. /\ UNCHANGED <<argv, service, meddled, done>> /\ (UNCHANGED play_plan \/ done = {})
        /\ ~BeforeRequest' /\ at' \notin {"send start", "send stop"}
    BY <1>28 DEF BeforeRequest, PlayTesting, services_module_handle_results, services_module_resources_handle_result, services_module_info_handle_result, services_module_status_handle_result, services_module_backup_handle_result, services_module_configure_handle_result, services_module_restore_handle_result, services_module_undeploy_handle_result, services_module_start_handle_result, services_module_stop_handle_result, services_module_deploy_handle_result, ExitCodeResult
  <2> QED BY <2>1, FitQuiet
<1>29. CASE services_module_run_with_args
  <2>1. /\ UNCHANGED <<argv, service, meddled, done>> /\ (UNCHANGED play_plan \/ done = {})
        /\ ~BeforeRequest' /\ at' \notin {"send start", "send stop"}
    BY <1>29 DEF BeforeRequest, PlayTesting, services_module_run_with_args
  <2> QED BY <2>1, FitQuiet
<1>30. CASE AutostartResult
  <2>1. /\ UNCHANGED <<argv, service, meddled, done>> /\ (UNCHANGED play_plan \/ done = {})
        /\ ~BeforeRequest' /\ at' \notin {"send start", "send stop"}
    BY <1>30 DEF BeforeRequest, PlayTesting, AutostartResult
  <2> QED BY <2>1, FitQuiet
<1>31. CASE OtherClient
  <2>0. meddled' /\ service' \in Services /\ UNCHANGED <<argv, play_plan, done>>
    BY <1>31 DEF OtherClient
  <2>1. IsService(service')
    BY <2>0 DEF Services, IsService, Undeployed, Statuses
  <2>2. StateFits'
    BY <2>0, StateFitsKept DEF FitInv
  <2> QED BY <2>0, <2>1, <2>2 DEF FitInv
<1>32. CASE Ended
  <2>0. UNCHANGED <<at, phase, argv, command, play_plan, service, meddled, misread, done>> /\ at = "end"
    BY <1>32 DEF Ended, vars
  <2>1. StateFits' /\ IsService(service)'
    BY <2>0, StateFitsKept DEF FitInv, IsService
  <2> QED BY <2>0, <2>1 DEF FitInv, BeforeRequest, PlayTesting
<1> QED BY <1>0, <1>1, <1>2, <1>3, <1>4, <1>5, <1>6, <1>7, <1>8, <1>9, <1>10, <1>11, <1>12, <1>13, <1>14, <1>15, <1>16, <1>17, <1>18, <1>19, <1>20, <1>21, <1>22, <1>23, <1>24, <1>25, <1>26, <1>27, <1>28, <1>29, <1>30, <1>31, <1>32 DEF Next, Step

-----------------------------------------------------------------------------
(* The diagnostics before a deployment. *)

\* The values of a function with a finite domain.
LEMMA FiniteImage ==
  ASSUME NEW S, IsFiniteSet(S), NEW f, f = [x \in S |-> f[x]]
  PROVE  IsFiniteSet({f[x] : x \in S})
<1> DEFINE T == {f[x] : x \in S}
<1>1. f \in Surjection(S, T)
  BY DEF Surjection
<1> HIDE DEF T
<1>2. ASSUME NEW A, NEW B, NEW g \in Surjection(A, B), IsFiniteSet(A)
      PROVE  IsFiniteSet(B)
  BY <1>2, FS_Surjection
<1> QED BY <1>1, <1>2 DEF T

\* An order of the selected tests is a sequence, and leaves none out.
LEMMA RunListsCover ==
  ASSUME NEW selection, IsFiniteSet(DOMAIN selection),
         \A tool \in DOMAIN selection : IsFiniteSet(selection[tool]),
         NEW order \in RunLists(selection)
  PROVE  /\ order \in Seq({order[i] : i \in DOMAIN order})
         /\ \A tool \in DOMAIN selection : \A t \in selection[tool] :
              \E i \in DOMAIN order : order[i].tool = tool /\ order[i].test = t
<1> DEFINE Of == [tool \in DOMAIN selection |->
                    {[tool |-> tool, test |-> t, known |-> TRUE] : t \in selection[tool]}]
           tests == UNION {Of[tool] : tool \in DOMAIN selection}
<1>1. order \in [1..Cardinality(tests) -> tests] /\ tests = {order[i] : i \in DOMAIN order}
  <2>1. {Of[tool] : tool \in DOMAIN selection}
          = {{[tool |-> tool, test |-> t, known |-> TRUE] : t \in selection[tool]} : tool \in DOMAIN selection}
    OBVIOUS
  <2> HIDE DEF Of
  <2> QED BY <2>1 DEF RunLists
<1>2. ASSUME NEW tool \in DOMAIN selection PROVE IsFiniteSet(Of[tool])
  <2> DEFINE f == [t \in selection[tool] |-> [tool |-> tool, test |-> t, known |-> TRUE]]
  <2>1. Of[tool] = {f[t] : t \in selection[tool]}
    OBVIOUS
  <2>2. f = [t \in selection[tool] |-> f[t]]
    OBVIOUS
  <2> HIDE DEF f, Of
  <2>3. IsFiniteSet({f[t] : t \in selection[tool]})
    BY <2>2, FiniteImage
  <2> QED BY <2>1, <2>3
<1>3. IsFiniteSet({Of[tool] : tool \in DOMAIN selection})
  <2>1. Of = [tool \in DOMAIN selection |-> Of[tool]]
    OBVIOUS
  <2> HIDE DEF Of
  <2> QED BY <2>1, FiniteImage
<1>4. Cardinality(tests) \in Nat
  <2> HIDE DEF Of
  <2> QED BY <1>2, <1>3, FS_UNION, FS_CardinalityType
<1>5. order \in Seq({order[i] : i \in DOMAIN order})
  <2> HIDE DEF tests
  <2>1. DOMAIN order = 1..Cardinality(tests)
    BY <1>1
  <2>2. order = [i \in 1..Cardinality(tests) |-> order[i]]
    BY <1>1
  <2>3. order \in [1..Cardinality(tests) -> {order[i] : i \in DOMAIN order}]
    BY <2>1, <2>2
  <2> QED BY <1>4, <2>3
<1>6. ASSUME NEW tool \in DOMAIN selection, NEW t \in selection[tool]
      PROVE  \E i \in DOMAIN order : order[i].tool = tool /\ order[i].test = t
  <2>0. [tool |-> tool, test |-> t, known |-> TRUE] \in Of[tool]
    OBVIOUS
  <2>1. [tool |-> tool, test |-> t, known |-> TRUE] \in tests
    <3> HIDE DEF Of
    <3> QED BY <2>0
  <2>2. PICK i \in DOMAIN order : order[i] = [tool |-> tool, test |-> t, known |-> TRUE]
    BY <1>1, <2>1
  <2> QED BY <2>2
<1> QED BY <1>5, <1>6

\* The lists of a tool name its own tests.
LEMMA OwnTests ==
  ASSUME NEW tool, NEW modes
  PROVE  /\ services_module_get_diag_tests(tool, modes).all \subseteq DOMAIN ServiceTools[tool]
         /\ services_module_get_diag_tests(tool, modes).required \subseteq DOMAIN ServiceTools[tool]
<1>1. ASSUME NEW b PROVE diag_list_tests_call(tool, modes, b) \subseteq DOMAIN ServiceTools[tool]
  BY DEF diag_list_tests_call
<1> QED BY <1>1 DEF services_module_get_diag_tests

\* Whatever the playfile asks for, the required tests are selected.
LEMMA SelectionCovers ==
  ASSUME NEW found, NEW got \in services_module_get_service_tests(found, FALSE), got.is = "ok",
         NEW request
  PROVE  LET selection == PlaySelection(got.tools, request)
         IN /\ IsFiniteSet(DOMAIN selection)
            /\ \A tool \in DOMAIN selection : IsFiniteSet(selection[tool])
            /\ \A d \in Required(got.tools) : d[1] \in DOMAIN selection /\ d[2] \in selection[d[1]]
<1> DEFINE tools == got.tools
           selection == PlaySelection(tools, request)
<1>1. /\ DOMAIN tools \subseteq DOMAIN ServiceTools
      /\ \A t \in DOMAIN tools : /\ tools[t].all \subseteq DOMAIN ServiceTools[t]
                                 /\ tools[t].required \subseteq DOMAIN ServiceTools[t]
  <2>1. CASE got = [is |-> "ok", tools |-> <<>>]
    BY <2>1
  <2>2. CASE \E present \in SUBSET DOMAIN ServiceTools :
               got = [is |-> "ok",
                      tools |-> [t \in present |-> services_module_get_diag_tests(t, Modes(found, FALSE))]]
    <3>1. PICK present \in SUBSET DOMAIN ServiceTools :
            got = [is |-> "ok",
                   tools |-> [t \in present |-> services_module_get_diag_tests(t, Modes(found, FALSE))]]
      BY <2>2
    <3>2. tools = [t \in present |-> services_module_get_diag_tests(t, Modes(found, FALSE))]
      BY <3>1
    <3>3. DOMAIN tools = present
      BY <3>2
    <3>4. ASSUME NEW t \in present
          PROVE  /\ tools[t].all \subseteq DOMAIN ServiceTools[t]
                 /\ tools[t].required \subseteq DOMAIN ServiceTools[t]
      <4>1. tools[t] = services_module_get_diag_tests(t, Modes(found, FALSE))
        BY <3>2
      <4> QED BY <4>1, OwnTests
    <3> QED BY <3>3, <3>4
  <2> DEFINE Record(present) ==
                 [is |-> "ok",
                  tools |-> [t \in present |-> services_module_get_diag_tests(t, Modes(found, FALSE))]]
  <2>3. \/ got \in {[is |-> "error", tools |-> <<>>], [is |-> "ok", tools |-> <<>>], [is |-> "crash", tools |-> <<>>]}
        \/ \E present \in SUBSET DOMAIN ServiceTools : got = Record(present)
    BY DEF services_module_get_service_tests, services_module_get_diag_tools_info
  <2>4. got = [is |-> "ok", tools |-> <<>>] \/ \E present \in SUBSET DOMAIN ServiceTools : got = Record(present)
    <3>1. /\ got # [is |-> "error", tools |-> <<>>]
          /\ got # [is |-> "crash", tools |-> <<>>]
      OBVIOUS
    <3> HIDE DEF Record
    <3> QED BY <2>3, <3>1
  <2> QED BY <2>1, <2>2, <2>4
<1> HIDE DEF tools
<1> DEFINE asked(t) == IF request = <<>> \/ t \notin DOMAIN request[1] THEN {}
                       ELSE request[1][t] \cap tools[t].all
           chosen == IF request = <<>> \/ (request # <<>> /\ request[1] = <<>>) THEN DOMAIN tools
                     ELSE {t \in DOMAIN tools : t \in DOMAIN request[1] \/ tools[t].required # {}}
<1>2. selection = [t \in chosen |-> IF asked(t) \cup tools[t].required = {} THEN tools[t].all
                                    ELSE asked(t) \cup tools[t].required]
  BY DEF PlaySelection
<1>3. /\ chosen \subseteq DOMAIN tools
      /\ \A t \in DOMAIN tools : tools[t].required # {} => t \in chosen
  OBVIOUS
<1>4. \A t \in DOMAIN tools : asked(t) \subseteq tools[t].all
  OBVIOUS
<1> HIDE DEF asked, chosen, selection
<1>5. DOMAIN selection = chosen
  BY <1>2
<1>6. \A t \in chosen : /\ selection[t] \subseteq DOMAIN ServiceTools[t]
                        /\ tools[t].required \subseteq selection[t]
  BY <1>1, <1>2, <1>3, <1>4
<1>7. IsFiniteSet(DOMAIN selection)
  BY <1>1, <1>3, <1>5, ToolsAreFinite, FS_Subset
<1>8. \A tool \in DOMAIN selection : IsFiniteSet(selection[tool])
  BY <1>1, <1>3, <1>5, <1>6, ToolsAreFinite, FS_Subset
<1>9. ASSUME NEW d \in Required(tools)
      PROVE  d[1] \in DOMAIN selection /\ d[2] \in selection[d[1]]
  <2>1. PICK t \in DOMAIN tools : d \in {t} \X tools[t].required
    BY DEF Required
  <2>2. d[1] = t /\ d[2] \in tools[t].required
    BY <2>1
  <2> QED BY <1>3, <1>5, <1>6, <2>2
<1> QED BY <1>7, <1>8, <1>9 DEF selection, tools

\* The steps before the request is prepared and after it is answered.
LEMMA DiagQuiet ==
  ASSUME DiagInv, ~BeforeRequest',
         \/ sent' = <<>>
         \/ UNCHANGED <<sent, argv, command, play_plan, ran, due, overruled>>
  PROVE  DiagInv'
<1>1. DiagnosedFirst'
  <2>1. CASE sent' = <<>>
    BY <2>1 DEF DiagnosedFirst
  <2>2. CASE UNCHANGED <<sent, argv, command, play_plan, ran, due, overruled>>
    <3>1. need_prediag' = need_prediag
      BY <2>2 DEF need_prediag, effective_force, HasForce, services_play_plan_get, force_deploy, has
    <3> QED BY <2>2, <3>1 DEF DiagInv, DiagnosedFirst
  <2> QED BY <2>1, <2>2
<1> QED BY <1>1 DEF DiagInv, BeforeRequest, PlayTesting

LEMMA DiagSame ==
  ASSUME DiagInv,
         UNCHANGED <<at, phase, todo, failures, sent, argv, command, play_plan, ran, due, overruled>>
  PROVE  DiagInv'
<1>1. need_prediag' = need_prediag
  BY DEF need_prediag, effective_force, HasForce, services_play_plan_get, force_deploy, has
<1>2. (Pending => Pending') /\ (Diagnosed => Diagnosed')
  BY DEF Pending, Diagnosed, HasRun, Ahead, SomeFailed
<1>3. DiagnosedFirst'
  BY <1>1 DEF DiagInv, DiagnosedFirst
<1> QED BY <1>1, <1>2, <1>3 DEF DiagInv

\* The tests that are left when one has been run.
LEMMA TailCovers ==
  ASSUME NEW s, s \in Seq({s[i] : i \in DOMAIN s}), s # <<>>
  PROVE  /\ Tail(s) \in Seq({Tail(s)[i] : i \in DOMAIN Tail(s)})
         /\ Head(s) = s[1]
         /\ \A i \in DOMAIN s : i = 1 \/ (i - 1 \in DOMAIN Tail(s) /\ Tail(s)[i - 1] = s[i])
<1> DEFINE S == {s[i] : i \in DOMAIN s}
<1>1. s \in Seq(S)
  OBVIOUS
<1> HIDE DEF S
<1>2. /\ Len(s) \in Nat /\ Len(s) > 0 /\ DOMAIN s = 1..Len(s)
      /\ Tail(s) \in Seq(S) /\ Len(Tail(s)) = Len(s) - 1
      /\ \A i \in 1..Len(s) - 1 : Tail(s)[i] = s[i + 1]
  BY <1>1
<1>3. Tail(s) \in Seq({Tail(s)[i] : i \in DOMAIN Tail(s)})
  <2> DEFINE r == Tail(s)
  <2>1. r \in Seq(S)
    BY <1>2
  <2> HIDE DEF r
  <2>2. Len(r) \in Nat /\ DOMAIN r = 1..Len(r) /\ r = [i \in 1..Len(r) |-> r[i]]
    BY <2>1
  <2>3. r \in [1..Len(r) -> {r[i] : i \in DOMAIN r}]
    BY <2>2
  <2>4. r \in Seq({r[i] : i \in DOMAIN r})
    BY <2>2, <2>3
  <2> QED BY <2>4 DEF r
<1>4. ASSUME NEW i \in DOMAIN s, i # 1
      PROVE  i - 1 \in DOMAIN Tail(s) /\ Tail(s)[i - 1] = s[i]
  <2>1. i - 1 \in 1..Len(s) - 1 /\ (i - 1) + 1 = i
    BY <1>2, <1>4
  <2>2. DOMAIN Tail(s) = 1..Len(s) - 1
    BY <1>2
  <2> QED BY <1>2, <2>1, <2>2
<1>5. Head(s) = s[1]
  BY <1>1, <1>2
<1>6. \A i \in DOMAIN s : i = 1 \/ (i - 1 \in DOMAIN Tail(s) /\ Tail(s)[i - 1] = s[i])
  BY <1>4
<1> QED BY <1>3, <1>5, <1>6

LEMMA DiagStep == PlaceInv /\ SentInv /\ DiagInv /\ Next => DiagInv'
<1> SUFFICES ASSUME PlaceInv, SentInv, DiagInv, Next PROVE DiagInv'
  OBVIOUS
<1> USE DEF ERR_EXIT, Finish, CRASH, Goto, commonVars, memory, loop, reads, world, record
<1>0. CASE AppNext /\ UNCHANGED <<memory, loop, reads, world, record>>
  <2>1. ~BeforeRequest' /\ UNCHANGED <<sent, argv, command, play_plan, ran, due, overruled>>
    BY <1>0 DEF BeforeRequest, PlayTesting, AppNext, alterator_ctl_app_parse_args, alterator_ctl_app_run,
       alterator_ctl_app_list_modules
  <2> QED BY <2>1, DiagQuiet
<1>1. CASE services_module_parse_arguments
  <2>1. ~BeforeRequest' /\ sent' = <<>>
    BY <1>1 DEF BeforeRequest, PlayTesting, SentInv, NothingSent, Preparing, services_module_parse_arguments, In, services_module_print_help
  <2> QED BY <2>1, DiagQuiet
<1>2. CASE CheckRequiredState
  <2>1. ~BeforeRequest' /\ UNCHANGED <<sent, argv, command, play_plan, ran, due, overruled>>
    BY <1>2 DEF BeforeRequest, PlayTesting, CheckRequiredState
  <2> QED BY <2>1, DiagQuiet
<1>3. CASE LoadInfo
  <2>1. ~BeforeRequest' /\ UNCHANGED <<sent, argv, command, play_plan, ran, due, overruled>>
    BY <1>3 DEF BeforeRequest, PlayTesting, LoadInfo
  <2> QED BY <2>1, DiagQuiet
<1>4. CASE services_module_parse_diagnose_arguments
  <2>1. ~BeforeRequest' /\ UNCHANGED <<sent, argv, command, play_plan, ran, due, overruled>>
    BY <1>4 DEF BeforeRequest, PlayTesting, services_module_parse_diagnose_arguments
  <2> QED BY <2>1, DiagQuiet
<1>5. CASE services_module_parse_contextual_arguments
  <2>1. ~BeforeRequest' /\ UNCHANGED <<sent, argv, command, play_plan, ran, due, overruled>>
    BY <1>5 DEF BeforeRequest, PlayTesting, services_module_parse_contextual_arguments
  <2> QED BY <2>1, DiagQuiet
<1>6. CASE PlayFile
  <2>1. ~BeforeRequest' /\ sent' = <<>>
    BY <1>6 DEF BeforeRequest, PlayTesting, SentInv, NothingSent, Preparing, PlayFile
  <2> QED BY <2>1, DiagQuiet
<1>7. CASE services_module_confirm_execution
  <2>1. ~BeforeRequest' /\ UNCHANGED <<sent, argv, command, play_plan, ran, due, overruled>>
    BY <1>7 DEF BeforeRequest, PlayTesting, services_module_confirm_execution
  <2> QED BY <2>1, DiagQuiet
<1>8. CASE FindConflicts
  <2>1. ~BeforeRequest' /\ UNCHANGED <<sent, argv, command, play_plan, ran, due, overruled>>
    BY <1>8 DEF BeforeRequest, PlayTesting, FindConflicts
  <2> QED BY <2>1, DiagQuiet
<1>9. CASE Prompt
  <2>1. ~BeforeRequest' /\ UNCHANGED <<sent, argv, command, play_plan, ran, due, overruled>>
    BY <1>9 DEF BeforeRequest, PlayTesting, Prompt
  <2> QED BY <2>1, DiagQuiet
<1>10. CASE services_module_run
  <2>1. ~BeforeRequest' /\ UNCHANGED <<sent, argv, command, play_plan, ran, due, overruled>>
    BY <1>10 DEF BeforeRequest, PlayTesting, services_module_run, PlaceInv, Contextual, Parameterless
  <2> QED BY <2>1, DiagQuiet
<1>11. CASE services_module_parametrized_subcommand
  <2>0. /\ sent = <<>> /\ sent' = <<>> /\ ran' = {}
        /\ UNCHANGED <<argv, command, play_plan>>
    BY <1>11 DEF services_module_parametrized_subcommand, SentInv, NothingSent, PlaceInv
  <2>1. need_prediag' = need_prediag
    BY <2>0 DEF need_prediag, effective_force, HasForce, services_play_plan_get, force_deploy, has
  <2>2. at' \in {"end", "play_run_diag"} \/ (at' = "request" /\ ~need_prediag)
    BY <1>11 DEF services_module_parametrized_subcommand
  <2>3. DiagnosedFirst'
    BY <2>0 DEF DiagnosedFirst
  <2> QED BY <2>0, <2>1, <2>2, <2>3 DEF DiagInv
<1>12. CASE services_module_play_run_diag
  <2>0. /\ UNCHANGED <<sent, argv, command, play_plan, phase, overruled, ran>>
        /\ at' \in {"end", "run_test"}
    BY <1>12 DEF services_module_play_run_diag
  <2>1. CASE at' = "end" /\ due' = due
    BY <2>0, <2>1, DiagQuiet DEF BeforeRequest, PlayTesting
  <2>2. CASE at' # "end" \/ due' # due
    <3>1. PICK got \in services_module_get_service_tests(status, FALSE) :
            /\ got.is = "ok" /\ at' = "run_test"
            /\ todo' \in RunLists(PlaySelection(got.tools, PlanDiag.tests))
            /\ failures' = FALSE
            /\ due' = IF phase = "PRE_DIAG" THEN <<Required(got.tools)>> ELSE due
      BY <1>12, <2>2 DEF services_module_play_run_diag
    <3>2. CASE phase # "PRE_DIAG"
      <4>1. ~BeforeRequest' /\ due' = due
        BY <2>0, <3>1, <3>2 DEF BeforeRequest, PlayTesting
      <4> QED BY <2>0, <4>1, DiagQuiet
    <3>3. CASE phase = "PRE_DIAG"
      <4>1. at = "play_run_diag" /\ sent' = <<>> /\ ran' = {}
        BY <1>12, <2>0, <3>3 DEF services_module_play_run_diag, SentInv, NothingSent, DiagInv
      <4> DEFINE selection == PlaySelection(got.tools, PlanDiag.tests)
      <4>2. /\ IsFiniteSet(DOMAIN selection)
            /\ \A tool \in DOMAIN selection : IsFiniteSet(selection[tool])
            /\ \A d \in Required(got.tools) : d[1] \in DOMAIN selection /\ d[2] \in selection[d[1]]
        BY <3>1, SelectionCovers
      <4>3. PICK order \in RunLists(selection) : todo' = order
        BY <3>1
      <4> HIDE DEF selection
      <4>9. /\ order \in Seq({order[i] : i \in DOMAIN order})
            /\ \A tool \in DOMAIN selection : \A t \in selection[tool] :
                 \E i \in DOMAIN order : order[i].tool = tool /\ order[i].test = t
        BY <4>2, RunListsCover
      <4>4. /\ todo' \in Seq({todo'[i] : i \in DOMAIN todo'})
            /\ \A tool \in DOMAIN selection : \A t \in selection[tool] :
                 \E i \in DOMAIN todo' : todo'[i].tool = tool /\ todo'[i].test = t
        BY <4>3, <4>9
      <4>5. due' = <<Required(got.tools)>>
        BY <3>1, <3>3
      <4>6. due' # NULL /\ due'[1] = Required(got.tools)
        BY <4>5, Pointed DEF NULL
      <4>7. Pending'
        <5>1. ASSUME NEW d \in due'[1]
              PROVE  \E i \in DOMAIN todo' : todo'[i].tool = d[1] /\ todo'[i].test = d[2]
          <6>1. d[1] \in DOMAIN selection /\ d[2] \in selection[d[1]]
            BY <4>2, <4>6
          <6> DEFINE tool == d[1] t == d[2]
          <6>2. tool \in DOMAIN selection /\ t \in selection[tool]
            BY <6>1
          <6> HIDE DEF tool, t
          <6>3. \E i \in DOMAIN todo' : todo'[i].tool = tool /\ todo'[i].test = t
            BY <4>4, <6>2
          <6> QED BY <6>3 DEF tool, t
        <5>2. ~SomeFailed'
          BY <4>1 DEF SomeFailed
        <5> QED BY <4>4, <4>6, <5>1, <5>2 DEF Pending, Ahead
      <4>8. DiagnosedFirst'
        BY <4>1 DEF DiagnosedFirst
      <4> QED BY <3>1, <4>7, <4>8 DEF DiagInv
    <3> QED BY <3>2, <3>3
  <2> QED BY <2>0, <2>1, <2>2
<1>13. CASE services_module_run_test
  <2>0. /\ UNCHANGED <<sent, argv, command, play_plan, phase, overruled, due>>
        /\ at = "run_test" /\ todo # <<>> /\ at' \in {"end", "run_test"}
    BY <1>13 DEF services_module_run_test
  <2>1. CASE at' = "end" /\ ran' = ran
    BY <2>0, <2>1, DiagQuiet DEF BeforeRequest, PlayTesting
  <2>2. CASE at' # "end" \/ ran' # ran
    <3>1. PICK passed \in BOOLEAN :
            /\ ran' = ran \cup {<<phase, Head(todo).tool, Head(todo).test, passed>>}
            /\ (failures \/ ~passed) => failures'
            /\ todo' = Tail(todo) /\ at' = "run_test"
      <4>1. PICK result \in {-1, 0, 1} :
              /\ ~(result < 0)
              /\ ran' = ran \cup {<<phase, Head(todo).tool, Head(todo).test, result = 0>>}
              /\ failures' = (failures \/ result > 0)
              /\ todo' = Tail(todo) /\ at' = "run_test"
        BY <1>13, <2>2 DEF services_module_run_test
      <4>2. CASE result = 0
        <5>1. (result = 0) = TRUE
          BY <4>2
        <5>2. ran' = ran \cup {<<phase, Head(todo).tool, Head(todo).test, TRUE>>}
          BY <4>1, <5>1
        <5>3. failures => failures'
          BY <4>1
        <5> QED BY <4>1, <5>2, <5>3
      <4>3. CASE result = 1
        <5>1. (result = 0) = FALSE
          BY <4>3
        <5>2. ran' = ran \cup {<<phase, Head(todo).tool, Head(todo).test, FALSE>>}
          BY <4>1, <5>1
        <5>3. result > 0
          BY <4>3
        <5>4. failures'
          BY <4>1, <5>3
        <5> QED BY <4>1, <5>2, <5>4
      <4> QED BY <4>1, <4>2, <4>3
    <3>2. CASE phase = "PRE_DIAG"
      <4>1. sent' = <<>> /\ Pending
        BY <2>0, <3>2 DEF SentInv, NothingSent, DiagInv
      <4>2. /\ todo' \in Seq({todo'[i] : i \in DOMAIN todo'})
            /\ Head(todo) = todo[1]
            /\ \A i \in DOMAIN todo : i = 1 \/ (i - 1 \in DOMAIN todo' /\ todo'[i - 1] = todo[i])
        BY <2>0, <3>1, <4>1, TailCovers DEF Pending
      <4>3. ASSUME NEW d \in due[1] PROVE HasRun(d)' \/ Ahead(d)'
        <5>1. CASE HasRun(d)
          BY <3>1, <5>1 DEF HasRun
        <5>2. CASE Ahead(d)
          <6>1. PICK i \in DOMAIN todo : todo[i].tool = d[1] /\ todo[i].test = d[2]
            BY <5>2 DEF Ahead
          <6>2. CASE i = 1
            <7>1. Head(todo).tool = d[1] /\ Head(todo).test = d[2]
              BY <4>2, <6>1, <6>2
            <7>2. <<"PRE_DIAG", d[1], d[2], passed>> \in ran'
              BY <3>1, <3>2, <7>1
            <7> QED BY <7>2 DEF HasRun
          <6>3. CASE i # 1
            <7>1. i - 1 \in DOMAIN todo' /\ todo'[i - 1] = todo[i]
              BY <4>2, <6>3
            <7> QED BY <6>1, <7>1 DEF Ahead
          <6> QED BY <6>2, <6>3
        <5> QED BY <4>1, <5>1, <5>2 DEF Pending
      <4>4. failures' \/ ~SomeFailed'
        <5>1. CASE failures'
          BY <5>1
        <5>2. CASE ~failures'
          <6>1. ~SomeFailed /\ passed
            BY <3>1, <4>1, <5>2 DEF Pending
          <6>2. <<phase, Head(todo).tool, Head(todo).test, passed>>[4] = passed
            OBVIOUS
          <6> QED BY <3>1, <6>1, <6>2 DEF SomeFailed
        <5> QED BY <5>1, <5>2
      <4>5. Pending'
        BY <2>0, <4>1, <4>2, <4>3, <4>4 DEF Pending
      <4>6. DiagnosedFirst'
        BY <4>1 DEF DiagnosedFirst
      <4> QED BY <3>1, <4>5, <4>6 DEF DiagInv
    <3>3. CASE phase \in {"first", "second"}
      <4>1. sent' = <<>> /\ ~BeforeRequest'
        BY <2>0, <3>1, <3>3 DEF SentInv, NothingSent, BeforeRequest, PlayTesting
      <4> QED BY <4>1, DiagQuiet
    <3>4. CASE phase = "POST_DIAG"
      <4>1. need_prediag' = need_prediag
        BY <2>0 DEF need_prediag, effective_force, HasForce, services_play_plan_get, force_deploy, has
      <4> DEFINE new == <<phase, Head(todo).tool, Head(todo).test, passed>>
      <4>2. new[1] # "PRE_DIAG" /\ ran' = ran \cup {new}
        BY <3>1, <3>4
      <4> HIDE DEF new
      <4>3. DiagnosedFirst'
        BY <2>0, <4>1, <4>2 DEF DiagInv, DiagnosedFirst
      <4> QED BY <2>0, <3>1, <3>4, <4>3 DEF DiagInv
    <3>5. phase \in {"PRE_DIAG", "POST_DIAG", "first", "second"}
      BY <2>0 DEF PlaceInv, PlayTesting
    <3> QED BY <3>2, <3>3, <3>4, <3>5
  <2> QED BY <2>0, <2>1, <2>2
<1>14. CASE PlayVerdict
  <2>0. /\ at = "run_test" /\ todo = <<>>
        /\ UNCHANGED <<sent, argv, command, play_plan, ran, due, failures>>
        /\ phase \in {"PRE_DIAG", "POST_DIAG"}
    BY <1>14 DEF PlayVerdict
  <2>1. CASE phase = "POST_DIAG" \/ at' = "end"
    <3>1. /\ at' \in {"end", "handle_results"}
          /\ overruled' = overruled
      BY <1>14, <2>0, <2>1 DEF PlayVerdict
    <3> QED BY <2>0, <3>1, DiagQuiet DEF BeforeRequest, PlayTesting
  <2>2. CASE phase = "PRE_DIAG" /\ at' # "end"
    <3>1. at' = "request" /\ (failures => overruled')
      BY <1>14, <2>2 DEF PlayVerdict
    <3>2. sent' = <<>> /\ Pending
      BY <2>0, <2>2 DEF SentInv, NothingSent, DiagInv
    <3>3. \A d \in due[1] : HasRun(d)
      BY <2>0, <3>2 DEF Pending, Ahead
    <3>4. Diagnosed'
      BY <2>0, <3>1, <3>2, <3>3 DEF Pending, Diagnosed, HasRun, SomeFailed
    <3>5. DiagnosedFirst'
      BY <3>2 DEF DiagnosedFirst
    <3> QED BY <3>1, <3>4, <3>5 DEF DiagInv
  <2> QED BY <2>0, <2>1, <2>2
<1>15. CASE SendRequest
  <2>0. /\ at = "request" /\ at' \in {"end", "postdiag", "handle_results"}
        /\ UNCHANGED <<argv, command, play_plan, ran, due, overruled>>
    BY <1>15 DEF SendRequest
  <2>1. need_prediag' = need_prediag
    BY <2>0 DEF need_prediag, effective_force, HasForce, services_play_plan_get, force_deploy, has
  <2>2. need_prediag => Diagnosed
    BY <2>0 DEF DiagInv
  <2>3. DiagnosedFirst'
    BY <2>0, <2>1, <2>2 DEF DiagnosedFirst, Diagnosed, HasRun, SomeFailed
  <2> QED BY <2>0, <2>3 DEF DiagInv
<1>16. CASE PostDiag
  <2>1. ~BeforeRequest' /\ UNCHANGED <<sent, argv, command, play_plan, ran, due, overruled>>
    BY <1>16 DEF BeforeRequest, PlayTesting, PostDiag
  <2> QED BY <2>1, DiagQuiet
<1>17. CASE services_module_diagnose_subcommand
  <2>1. ~BeforeRequest' /\ sent' = <<>>
    BY <1>17 DEF BeforeRequest, PlayTesting, SentInv, NothingSent, Preparing, services_module_diagnose_subcommand
  <2> QED BY <2>1, DiagQuiet
<1>18. CASE DiagnoseTool
  <2>1. ~BeforeRequest' /\ UNCHANGED <<sent, argv, command, play_plan, ran, due, overruled>>
    BY <1>18 DEF BeforeRequest, PlayTesting, DiagnoseTool
  <2> QED BY <2>1, DiagQuiet
<1>19. CASE DiagnoseToolEnd
  <2>1. ~BeforeRequest' /\ UNCHANGED <<sent, argv, command, play_plan, ran, due, overruled>>
    BY <1>19 DEF BeforeRequest, PlayTesting, DiagnoseToolEnd
  <2> QED BY <2>1, DiagQuiet
<1>20. CASE Failure
  <2>1. ~BeforeRequest' /\ UNCHANGED <<sent, argv, command, play_plan, ran, due, overruled>>
    BY <1>20 DEF BeforeRequest, PlayTesting, Failure
  <2> QED BY <2>1, DiagQuiet
<1>21. CASE services_module_start_subcommand
  <2>1. ~BeforeRequest' /\ UNCHANGED <<sent, argv, command, play_plan, ran, due, overruled>>
    BY <1>21 DEF BeforeRequest, PlayTesting, services_module_start_subcommand, StatusBefore
  <2> QED BY <2>1, DiagQuiet
<1>22. CASE services_module_stop_subcommand
  <2>1. ~BeforeRequest' /\ UNCHANGED <<sent, argv, command, play_plan, ran, due, overruled>>
    BY <1>22 DEF BeforeRequest, PlayTesting, services_module_stop_subcommand, StatusBefore
  <2> QED BY <2>1, DiagQuiet
<1>23. CASE SendStartOrStop
  <2>0. /\ at \in {"send start", "send stop"} /\ at' \in {"end", "autostart_result", "handle_results"}
        /\ UNCHANGED <<argv, command, play_plan, ran, due, overruled>>
    BY <1>23 DEF SendStartOrStop
  <2>1. CASE UNCHANGED sent
    BY <2>0, <2>1, DiagQuiet DEF BeforeRequest, PlayTesting
  <2>2. CASE ~UNCHANGED sent
    <3> DEFINE method == IF at = "send start" THEN "start" ELSE "stop"
    <3>1. PICK r : sent' = Append(sent, r) /\ r.method = method
      <4>1. PICK out : Request(method, EmptyObject, out)
        BY <1>23, <2>2 DEF SendStartOrStop
      <4> DEFINE new == [method |-> method, json |-> EmptyObject,
                         reply |-> IF out.res = NULL THEN -1 ELSE out.res[1].code]
      <4>2. sent' = Append(sent, new) /\ new.method = method
        BY <4>1 DEF Request
      <4> HIDE DEF new
      <4> QED BY <4>2
    <3>2. method # "deploy"
      OBVIOUS
    <3> HIDE DEF method
    <3>3. sent = <<>> \/ (sent = <<sent[1]>> /\ sent[1].method = "deploy")
      BY <2>0 DEF SentInv, NothingSent
    <3>4. need_prediag' = need_prediag
      BY <2>0 DEF need_prediag, effective_force, HasForce, services_play_plan_get, force_deploy, has
    <3>5. CASE sent = <<>>
      <4>1. sent' = <<r>>
        BY <3>1, <3>5, Appended
      <4>2. ~\E i \in DOMAIN sent' : sent'[i].method = "deploy"
        BY <3>1, <3>2, <4>1
      <4>3. DiagnosedFirst'
        BY <4>2 DEF DiagnosedFirst
      <4> QED BY <2>0, <4>3 DEF DiagInv
    <3>6. CASE sent = <<sent[1]>> /\ sent[1].method = "deploy"
      <4>1. \E i \in DOMAIN sent : sent[i].method = "deploy"
        <5>1. 1 \in DOMAIN sent
          BY <3>6
        <5> QED BY <3>6, <5>1
      <4>2. DiagnosedFirst'
        BY <2>0, <3>4, <4>1 DEF DiagInv, DiagnosedFirst
      <4> QED BY <2>0, <4>2 DEF DiagInv
    <3> QED BY <3>3, <3>5, <3>6
  <2> QED BY <2>1, <2>2
<1>24. CASE services_module_info_subcommand
  <2>1. ~BeforeRequest' /\ UNCHANGED <<sent, argv, command, play_plan, ran, due, overruled>>
    BY <1>24 DEF BeforeRequest, PlayTesting, services_module_info_subcommand
  <2> QED BY <2>1, DiagQuiet
<1>25. CASE services_module_list_subcommand
  <2>1. ~BeforeRequest' /\ UNCHANGED <<sent, argv, command, play_plan, ran, due, overruled>>
    BY <1>25 DEF BeforeRequest, PlayTesting, services_module_list_subcommand
  <2> QED BY <2>1, DiagQuiet
<1>26. CASE services_module_resources_subcommand
  <2>1. ~BeforeRequest' /\ UNCHANGED <<sent, argv, command, play_plan, ran, due, overruled>>
    BY <1>26 DEF BeforeRequest, PlayTesting, services_module_resources_subcommand
  <2> QED BY <2>1, DiagQuiet
<1>27. CASE services_module_status_command
  <2>1. ~BeforeRequest' /\ UNCHANGED <<sent, argv, command, play_plan, ran, due, overruled>>
    BY <1>27 DEF BeforeRequest, PlayTesting, services_module_status_command
  <2> QED BY <2>1, DiagQuiet
<1>28. CASE services_module_handle_results
  <2>1. ~BeforeRequest' /\ UNCHANGED <<sent, argv, command, play_plan, ran, due, overruled>>
    BY <1>28 DEF BeforeRequest, PlayTesting, services_module_handle_results, services_module_resources_handle_result, services_module_info_handle_result,
       services_module_status_handle_result, services_module_backup_handle_result,
       services_module_configure_handle_result, services_module_restore_handle_result,
       services_module_undeploy_handle_result, services_module_start_handle_result,
       services_module_stop_handle_result, services_module_deploy_handle_result, ExitCodeResult
  <2> QED BY <2>1, DiagQuiet
<1>29. CASE services_module_run_with_args
  <2>1. ~BeforeRequest' /\ UNCHANGED <<sent, argv, command, play_plan, ran, due, overruled>>
    BY <1>29 DEF BeforeRequest, PlayTesting, services_module_run_with_args
  <2> QED BY <2>1, DiagQuiet
<1>30. CASE AutostartResult
  <2>1. ~BeforeRequest' /\ UNCHANGED <<sent, argv, command, play_plan, ran, due, overruled>>
    BY <1>30 DEF BeforeRequest, PlayTesting, AutostartResult
  <2> QED BY <2>1, DiagQuiet
<1>31. CASE OtherClient
  BY <1>31, DiagSame DEF OtherClient
<1>32. CASE Ended
  BY <1>32, DiagSame DEF Ended, vars
<1> QED BY <1>0, <1>1, <1>2, <1>3, <1>4, <1>5, <1>6, <1>7, <1>8, <1>9, <1>10, <1>11, <1>12, <1>13, <1>14, <1>15, <1>16, <1>17, <1>18, <1>19, <1>20, <1>21, <1>22, <1>23, <1>24, <1>25, <1>26, <1>27, <1>28, <1>29, <1>30, <1>31, <1>32
  DEF Next, Step

-----------------------------------------------------------------------------
(* What is sent. *)

\* A set of numbers that has 0 and with every number the next one has them all:
\* otherwise the least number that is missing has a predecessor in the set.
LEMMA AllNumbers ==
  ASSUME NEW T \in SUBSET Nat, 0 \in T, \A n \in T : n + 1 \in T
  PROVE  T = Nat
<1> SUFFICES ASSUME Nat \ T # {} PROVE FALSE
  OBVIOUS
<1> DEFINE Less == OpToRel(<, Nat)
<1>1. IsWellFoundedOn(Less, Nat)
  BY NatLessThanWellFounded
<1> HIDE DEF Less
<1>2. PICK n \in Nat \ T : \A m \in Nat \ T : ~(<<m, n>> \in Less)
  BY <1>1, WFMin
<1>3. \A m \in Nat \ T : ~(m < n)
  BY <1>2 DEF Less, OpToRel
<1>4. n # 0 /\ n - 1 \in Nat /\ n - 1 \in T
  BY <1>3
<1>5. (n - 1) + 1 \in T
  BY <1>4
<1> QED BY <1>4, <1>5

\* The loop over the resources within the service has a result.
LEMMA LookUpLoop ==
  ASSUME NEW base, NEW n \in Nat
  PROVE  \E f : f = [i \in 0..n |-> IF i = 0 THEN base ELSE LookUpResource(f[i - 1], Resources[i])]
<1> DEFINE Loop(f, m) == f = [i \in 0..m |-> IF i = 0 THEN base
                                             ELSE LookUpResource(f[i - 1], Resources[i])]
           T == {m \in Nat : \E f : Loop(f, m)}
<1>1. 0 \in T
  <2> DEFINE f == [i \in 0..0 |-> base]
  <2>1. Loop(f, 0)
    OBVIOUS
  <2> QED BY <2>1
<1>2. ASSUME NEW m \in T PROVE m + 1 \in T
  <2>1. m \in Nat /\ \E f : Loop(f, m)
    OBVIOUS
  <2>2. PICK f : Loop(f, m)
    BY <2>1
  <2> DEFINE g == [i \in 0..(m + 1) |-> IF i = m + 1 THEN LookUpResource(f[m], Resources[m + 1]) ELSE f[i]]
  <2>3. ASSUME NEW i \in 0..(m + 1)
        PROVE  g[i] = IF i = 0 THEN base ELSE LookUpResource(g[i - 1], Resources[i])
    <3>1. CASE i = m + 1
      <4>1. i - 1 = m /\ m \in 0..(m + 1) /\ m # m + 1 /\ i # 0
        BY <2>1, <3>1
      <4>2. g[i - 1] = f[m]
        BY <4>1
      <4> QED BY <3>1, <4>1, <4>2
    <3>2. CASE i # m + 1 /\ i # 0
      <4>1. i \in 0..m /\ i - 1 \in 0..(m + 1) /\ i - 1 # m + 1
        BY <2>1, <3>2
      <4>2. g[i - 1] = f[i - 1] /\ g[i] = f[i]
        BY <3>2, <4>1
      <4>3. f[i] = LookUpResource(f[i - 1], Resources[i])
        BY <2>2, <3>2, <4>1
      <4> QED BY <3>2, <4>2, <4>3
    <3>3. CASE i # m + 1 /\ i = 0
      <4>1. g[i] = f[0] /\ 0 \in 0..m
        BY <2>1, <3>3
      <4> QED BY <2>2, <3>3, <4>1
    <3> QED BY <3>1, <3>2, <3>3
  <2>4. g = [i \in 0..(m + 1) |-> g[i]]
    OBVIOUS
  <2> HIDE DEF g
  <2>5. Loop(g, m + 1)
    BY <2>3, <2>4
  <2> QED BY <2>1, <2>5
<1> HIDE DEF T
<1>3. T = Nat
  BY <1>1, <1>2, AllNumbers DEF T
<1> QED BY <1>3 DEF T

LEMMA AddsNothing == ASSUME NEW node PROVE Adds(node, node)
  BY DEF Adds

LEMMA Present ==
  ASSUME NEW node, NEW n
  PROVE  n \in DOMAIN Members(node) <=> Member(node, n) # <<>>
<1>1. <<Members(node)[n]>> # <<>>
  OBVIOUS
<1> QED BY <1>1 DEF Member

LEMMA AddsMore ==
  ASSUME NEW a, NEW b, NEW c, Adds(a, b), Adds(b, c)
  PROVE  Adds(a, c)
<1>1. ASSUME NEW n \in DOMAIN Members(a) PROVE Member(c, n) = Member(a, n)
  <2>1. Member(b, n) = Member(a, n)
    BY DEF Adds
  <2>2. n \in DOMAIN Members(b)
    BY <2>1, Present
  <2> QED BY <2>1, <2>2 DEF Adds
<1>2. ASSUME NEW n \in DOMAIN Members(c) \ DOMAIN Members(a) PROVE FromResource(n, c)
  <2>1. CASE n \in DOMAIN Members(b)
    <3>1. FromResource(n, b) /\ Member(c, n) = Member(b, n)
      BY <2>1 DEF Adds
    <3> QED BY <3>1 DEF FromResource
  <2>2. CASE n \notin DOMAIN Members(b)
    BY <2>2 DEF Adds
  <2> QED BY <2>1, <2>2
<1> QED BY <1>1, <1>2 DEF Adds

\* A member that was not there is set: the others stay.
LEMMA SetNewMember ==
  ASSUME NEW node, NEW name, NEW value, name \notin DOMAIN Members(node)
  PROVE  /\ \A n \in DOMAIN Members(node) : Member(SetMember(node, name, value), n) = Member(node, n)
         /\ \A n \in DOMAIN Members(SetMember(node, name, value)) \ DOMAIN Members(node) :
               n = name /\ Member(SetMember(node, name, value), n) = <<value>>
<1>1. CASE ~Is("obj", node)
  BY <1>1 DEF SetMember
<1>2. CASE Is("obj", node)
  <2> DEFINE f == [n \in {name} \cup DOMAIN node.obj |-> IF n = name THEN value ELSE node.obj[n]]
             new == SetMember(node, name, value)
  <2>2. new = [obj |-> f]
    BY <1>2 DEF SetMember, Obj
  <2> HIDE DEF f
  <2>3. Members(new) = f
    BY <2>2 DEF Members, Is
  <2>4. Members(node) = node.obj
    BY <1>2 DEF Members
  <2>5. ASSUME NEW n \in DOMAIN Members(node) PROVE Member(new, n) = Member(node, n)
    <3>1. n \in DOMAIN f /\ f[n] = node.obj[n]
      BY <2>4 DEF f
    <3> HIDE DEF new
    <3> QED BY <2>3, <2>4, <3>1 DEF Member
  <2>6. ASSUME NEW n \in DOMAIN Members(new) \ DOMAIN Members(node) PROVE n = name /\ Member(new, n) = <<value>>
    <3>1. n = name /\ n \in DOMAIN f /\ f[n] = value
      BY <2>3, <2>4 DEF f
    <3> HIDE DEF new
    <3> QED BY <2>3, <3>1 DEF Member
  <2> QED BY <2>5, <2>6
<1> QED BY <1>1, <1>2

\* Looking up a resource of the service changes nothing but a parameter that
\* was missing.
LEMMA ValueAdds ==
  ASSUME NEW node, NEW name
  PROVE  Adds(node, get_actual_resourse_value(Resources, node, name).json)
<1> DEFINE r == Named(Resources, name)
           got == get_actual_resourse_value(Resources, node, name)
           new == SetMember(node, r.parameter, Written(r.value[1]))
           added == /\ name \in Names(Resources) /\ r.value # <<>>
                    /\ r.parameter \notin DOMAIN Members(node)
<1>1. CASE added
  <2>1. PICK k \in DOMAIN Resources : Resources[k] = r
    BY <1>1 DEF Named, Names
  <2>2. got.json = new \/ got.json = node
    BY <1>1 DEF get_actual_resourse_value
  <2> HIDE DEF r, got
  <2>3. Adds(node, new)
    <3>1. \A n \in DOMAIN Members(node) : Member(new, n) = Member(node, n)
      BY <1>1, SetNewMember
    <3>2. ASSUME NEW n \in DOMAIN Members(new) \ DOMAIN Members(node) PROVE FromResource(n, new)
      <4>1. n = r.parameter /\ Member(new, n) = <<Written(r.value[1])>>
        BY <1>1, SetNewMember
      <4> HIDE DEF new
      <4> QED BY <1>1, <2>1, <4>1 DEF FromResource
    <3> QED BY <3>1, <3>2 DEF Adds
  <2> QED BY <2>2, <2>3, AddsNothing DEF got
<1>2. CASE ~added
  <2>1. got.json = node
    BY <1>2 DEF get_actual_resourse_value
  <2> HIDE DEF got
  <2> QED BY <2>1, AddsNothing DEF got
<1> QED BY <1>1, <1>2

LEMMA Listed == Len(Resources) \in Nat /\ DOMAIN Resources = 1..Len(Resources)
  BY ResourcesAreListed, LenProperties

\* The search for two resources with one value.
LEMMA SearchWithinAdds ==
  ASSUME NEW node
  PROVE  Adds(node, find_conflicting_resources_within_current_service(node).json)
<1> DEFINE base == [is |-> "ok", json |-> node, seen |-> {}]
           f == CHOOSE f : f = [i \in 0..Len(Resources) |-> IF i = 0 THEN base
                                      ELSE LookUpResource(f[i - 1], Resources[i])]
           T == {i \in Nat : i <= Len(Resources) => Adds(node, f[i].json)}
<1> HIDE DEF base
<1>1. f = [i \in 0..Len(Resources) |-> IF i = 0 THEN base ELSE LookUpResource(f[i - 1], Resources[i])]
  BY Listed, LookUpLoop
<1>2. find_conflicting_resources_within_current_service(node) = f[Len(Resources)]
  BY DEF find_conflicting_resources_within_current_service, base
<1> HIDE DEF f
<1>3. 0 \in T
  <2>1. f[0] = base
    BY <1>1, Listed
  <2> QED BY <2>1, AddsNothing DEF base
<1>4. ASSUME NEW i \in T PROVE i + 1 \in T
  <2> SUFFICES ASSUME i + 1 <= Len(Resources) PROVE Adds(node, f[i + 1].json)
    OBVIOUS
  <2>1. i \in Nat /\ i + 1 \in 0..Len(Resources) /\ i + 1 # 0 /\ (i + 1) - 1 = i /\ Adds(node, f[i].json)
    BY Listed
  <2>2. f[i + 1] = LookUpResource(f[i], Resources[i + 1])
    BY <1>1, <2>1
  <2> DEFINE r == Resources[i + 1]
  <2>3. \/ LookUpResource(f[i], r).json = f[i].json
        \/ LookUpResource(f[i], r).json = get_actual_resourse_value(Resources, f[i].json, r.name).json
    BY DEF LookUpResource
  <2> HIDE DEF r
  <2> QED BY <2>1, <2>2, <2>3, ValueAdds, AddsMore DEF r
<1> HIDE DEF T
<1>5. Len(Resources) \in T
  BY <1>3, <1>4, AllNumbers, Listed DEF T
<1> QED BY <1>2, <1>5, Listed DEF T

\* The loop over the resources against those of another service has a result.
LEMMA CompareLoop ==
  ASSUME NEW base, NEW other, NEW n \in Nat
  PROVE  \E f : f = [i \in 0..n |-> IF i = 0 THEN base ELSE CompareResource(f[i - 1], Resources[i], other)]
<1> DEFINE Loop(f, m) == f = [i \in 0..m |-> IF i = 0 THEN base
                                             ELSE CompareResource(f[i - 1], Resources[i], other)]
           T == {m \in Nat : \E f : Loop(f, m)}
<1>1. 0 \in T
  <2> DEFINE f == [i \in 0..0 |-> base]
  <2>1. Loop(f, 0)
    OBVIOUS
  <2> QED BY <2>1
<1>2. ASSUME NEW m \in T PROVE m + 1 \in T
  <2>1. m \in Nat /\ \E f : Loop(f, m)
    OBVIOUS
  <2>2. PICK f : Loop(f, m)
    BY <2>1
  <2> DEFINE g == [i \in 0..(m + 1) |-> IF i = m + 1 THEN CompareResource(f[m], Resources[m + 1], other) ELSE f[i]]
  <2>3. ASSUME NEW i \in 0..(m + 1)
        PROVE  g[i] = IF i = 0 THEN base ELSE CompareResource(g[i - 1], Resources[i], other)
    <3>1. CASE i = m + 1
      <4>1. i - 1 = m /\ m \in 0..(m + 1) /\ m # m + 1 /\ i # 0
        BY <2>1, <3>1
      <4>2. g[i - 1] = f[m]
        BY <4>1
      <4> QED BY <3>1, <4>1, <4>2
    <3>2. CASE i # m + 1 /\ i # 0
      <4>1. i \in 0..m /\ i - 1 \in 0..(m + 1) /\ i - 1 # m + 1
        BY <2>1, <3>2
      <4>2. g[i - 1] = f[i - 1] /\ g[i] = f[i]
        BY <3>2, <4>1
      <4>3. f[i] = CompareResource(f[i - 1], Resources[i], other)
        BY <2>2, <3>2, <4>1
      <4> QED BY <3>2, <4>2, <4>3
    <3>3. CASE i # m + 1 /\ i = 0
      <4>1. g[i] = f[0] /\ 0 \in 0..m
        BY <2>1, <3>3
      <4> QED BY <2>2, <3>3, <4>1
    <3> QED BY <3>1, <3>2, <3>3
  <2>4. g = [i \in 0..(m + 1) |-> g[i]]
    OBVIOUS
  <2> HIDE DEF g
  <2>5. Loop(g, m + 1)
    BY <2>3, <2>4
  <2> QED BY <2>1, <2>5
<1> HIDE DEF T
<1>3. T = Nat
  BY <1>1, <1>2, AllNumbers DEF T
<1> QED BY <1>3 DEF T

\* The search against one deployed service.
LEMMA CheckAdds ==
  ASSUME NEW node, NEW other
  PROVE  Adds(node, check_resources_conflicts(node, other).json)
<1> DEFINE base == [is |-> "ok", json |-> node]
           f == CHOOSE f : f = [i \in 0..Len(Resources) |-> IF i = 0 THEN base
                                      ELSE CompareResource(f[i - 1], Resources[i], other)]
           T == {i \in Nat : i <= Len(Resources) => Adds(node, f[i].json)}
<1> HIDE DEF base
<1>1. f = [i \in 0..Len(Resources) |-> IF i = 0 THEN base ELSE CompareResource(f[i - 1], Resources[i], other)]
  BY Listed, CompareLoop
<1>2. check_resources_conflicts(node, other) = f[Len(Resources)]
  BY DEF check_resources_conflicts, base
<1> HIDE DEF f
<1>3. 0 \in T
  <2>1. f[0] = base
    BY <1>1, Listed
  <2> QED BY <2>1, AddsNothing DEF base
<1>4. ASSUME NEW i \in T PROVE i + 1 \in T
  <2> SUFFICES ASSUME i + 1 <= Len(Resources) PROVE Adds(node, f[i + 1].json)
    OBVIOUS
  <2>1. i \in Nat /\ i + 1 \in 0..Len(Resources) /\ i + 1 # 0 /\ (i + 1) - 1 = i /\ Adds(node, f[i].json)
    BY Listed
  <2>2. f[i + 1] = CompareResource(f[i], Resources[i + 1], other)
    BY <1>1, <2>1
  <2> DEFINE r == Resources[i + 1]
             acc == f[i]
  <2> HIDE DEF acc
  <2>3. \/ CompareResource(acc, r, other).json = acc.json
        \/ CompareResource(acc, r, other).json = get_actual_resourse_value(Resources, acc.json, r.name).json
    BY DEF CompareResource
  <2> HIDE DEF r
  <2> QED BY <2>1, <2>2, <2>3, ValueAdds, AddsMore DEF r, acc
<1> HIDE DEF T
<1>5. Len(Resources) \in T
  BY <1>3, <1>4, AllNumbers, Listed DEF T
<1> QED BY <1>2, <1>5, Listed DEF T

\* The loop over the other services has a result.
LEMMA ServicesLoop ==
  ASSUME NEW base, NEW deployed, NEW n \in Nat
  PROVE  \E f : f = [i \in 0..n |-> IF i = 0 THEN base ELSE ConflictsWith(f[i - 1], i, deployed)]
<1> DEFINE Loop(f, m) == f = [i \in 0..m |-> IF i = 0 THEN base ELSE ConflictsWith(f[i - 1], i, deployed)]
           T == {m \in Nat : \E f : Loop(f, m)}
<1>1. 0 \in T
  <2> DEFINE f == [i \in 0..0 |-> base]
  <2>1. Loop(f, 0)
    OBVIOUS
  <2> QED BY <2>1
<1>2. ASSUME NEW m \in T PROVE m + 1 \in T
  <2>1. m \in Nat /\ \E f : Loop(f, m)
    OBVIOUS
  <2>2. PICK f : Loop(f, m)
    BY <2>1
  <2> DEFINE g == [i \in 0..(m + 1) |-> IF i = m + 1 THEN ConflictsWith(f[m], m + 1, deployed) ELSE f[i]]
  <2>3. ASSUME NEW i \in 0..(m + 1)
        PROVE  g[i] = IF i = 0 THEN base ELSE ConflictsWith(g[i - 1], i, deployed)
    <3>1. CASE i = m + 1
      <4>1. i - 1 = m /\ m \in 0..(m + 1) /\ m # m + 1 /\ i # 0
        BY <2>1, <3>1
      <4>2. g[i - 1] = f[m]
        BY <4>1
      <4> QED BY <3>1, <4>1, <4>2
    <3>2. CASE i # m + 1 /\ i # 0
      <4>1. i \in 0..m /\ i - 1 \in 0..(m + 1) /\ i - 1 # m + 1
        BY <2>1, <3>2
      <4>2. g[i - 1] = f[i - 1] /\ g[i] = f[i]
        BY <3>2, <4>1
      <4>3. f[i] = ConflictsWith(f[i - 1], i, deployed)
        BY <2>2, <3>2, <4>1
      <4> QED BY <3>2, <4>2, <4>3
    <3>3. CASE i # m + 1 /\ i = 0
      <4>1. g[i] = f[0] /\ 0 \in 0..m
        BY <2>1, <3>3
      <4> QED BY <2>2, <3>3, <4>1
    <3> QED BY <3>1, <3>2, <3>3
  <2>4. g = [i \in 0..(m + 1) |-> g[i]]
    OBVIOUS
  <2> HIDE DEF g
  <2>5. Loop(g, m + 1)
    BY <2>3, <2>4
  <2> QED BY <2>1, <2>5
<1> HIDE DEF T
<1>3. T = Nat
  BY <1>1, <1>2, AllNumbers DEF T
<1> QED BY <1>3 DEF T

\* The search against all of them.
LEMMA SearchAdds ==
  ASSUME NEW node, NEW deployed
  PROVE  Adds(node, services_module_find_conflicting_services(node, deployed).json)
<1> DEFINE base == [is |-> "ok", json |-> node]
           N == Len(OtherServices)
           f == CHOOSE f : f = [i \in 0..N |-> IF i = 0 THEN base ELSE ConflictsWith(f[i - 1], i, deployed)]
           T == {i \in Nat : i <= N => Adds(node, f[i].json)}
<1> HIDE DEF base
<1>0. N \in Nat
  BY OtherServicesAreListed, LenProperties
<1>1. f = [i \in 0..N |-> IF i = 0 THEN base ELSE ConflictsWith(f[i - 1], i, deployed)]
  BY <1>0, ServicesLoop
<1>2. services_module_find_conflicting_services(node, deployed) = f[N]
  BY DEF services_module_find_conflicting_services, base
<1> HIDE DEF f, N
<1>3. 0 \in T
  <2>1. f[0] = base
    BY <1>0, <1>1
  <2> QED BY <2>1, AddsNothing DEF base
<1>4. ASSUME NEW i \in T PROVE i + 1 \in T
  <2> SUFFICES ASSUME i + 1 <= N PROVE Adds(node, f[i + 1].json)
    OBVIOUS
  <2>1. i \in Nat /\ i + 1 \in 0..N /\ i + 1 # 0 /\ (i + 1) - 1 = i /\ Adds(node, f[i].json)
    BY <1>0
  <2>2. f[i + 1] = ConflictsWith(f[i], i + 1, deployed)
    BY <1>1, <2>1
  <2>3. \/ ConflictsWith(f[i], i + 1, deployed).json = f[i].json
        \/ ConflictsWith(f[i], i + 1, deployed).json
             = check_resources_conflicts(f[i].json, OtherServices[i + 1]).json
    BY DEF ConflictsWith
  <2> QED BY <2>1, <2>2, <2>3, CheckAdds, AddsMore
<1> HIDE DEF T
<1>5. N \in T
  BY <1>0, <1>3, <1>4, AllNumbers DEF T
<1> QED BY <1>0, <1>2, <1>5 DEF T

\* The second validation finds the parameters that the command requires.
LEMMA ValidHasRequired ==
  ASSUME NEW node, validate_json(node, ValidationContexts, FALSE)
  PROVE  HasRequired(node)
<1> SUFFICES ASSUME NEW k \in DOMAIN Parameters,
                    ~Parameters[k].constant, Parameters[k].context # <<>>,
                    Context \in Parameters[k].context[1],
                    Parameters[k].required \cap {Context, "*"} # {}
             PROVE  LET p == Parameters[k]
                    IN /\ Member(node, p.name) \notin {<<>>, <<Null>>}
                       /\ p.type = "string" => StrOf(Member(node, p.name)[1]) # ""
  BY DEF HasRequired
<1> DEFINE p == Parameters[k]
           m == Member(node, p.name)
<1>1. validate_json_recursive(p, m, p.type, ValidationContexts, FALSE,
                              ValidateInside(p, m[1], p.type, ValidationContexts, FALSE))
  BY DEF validate_json
<1>2. Context \in ValidationContexts
  BY DEF ValidationContexts
<1>3. schema_param_matches_contexts(p, ValidationContexts)
  BY <1>2 DEF schema_param_matches_contexts, schema_param_in_context
<1>4. schema_param_required_in_contexts(p, ValidationContexts)
  BY <1>2 DEF schema_param_required_in_contexts, schema_param_required_in_context
<1> HIDE DEF m
<1>5. m # <<>> /\ m[1] # Null /\ (p.type = "string" => validate_string(p, m[1]))
  BY <1>1, <1>3, <1>4 DEF validate_json_recursive, schema_is_constant
<1>6. m # <<Null>>
  BY <1>5
<1> QED BY <1>5, <1>6 DEF m, validate_string

\* They are still there after the search.
LEMMA RequiredStays ==
  ASSUME NEW old, NEW new, HasRequired(old), Adds(old, new)
  PROVE  HasRequired(new)
<1> SUFFICES ASSUME NEW k \in DOMAIN Parameters,
                    ~Parameters[k].constant, Parameters[k].context # <<>>,
                    Context \in Parameters[k].context[1],
                    Parameters[k].required \cap {Context, "*"} # {}
             PROVE  LET p == Parameters[k]
                    IN /\ Member(new, p.name) \notin {<<>>, <<Null>>}
                       /\ p.type = "string" => StrOf(Member(new, p.name)[1]) # ""
  BY DEF HasRequired
<1> DEFINE p == Parameters[k]
<1>1. /\ Member(old, p.name) \notin {<<>>, <<Null>>}
      /\ p.type = "string" => StrOf(Member(old, p.name)[1]) # ""
  BY DEF HasRequired
<1>2. Member(new, p.name) = Member(old, p.name)
  BY <1>1, Present DEF Adds
<1> QED BY <1>1, <1>2

LEMMA NoRequests == DOMAIN <<>> = {}
  OBVIOUS

LEMMA OfferKept ==
  ASSUME SentIsOffered, RequiredIsSent,
         UNCHANGED <<sent, command, offered>>, consented => consented'
  PROVE  SentIsOffered' /\ RequiredIsSent'
<1>1. SentIsOffered'
  BY DEF SentIsOffered
<1>2. RequiredIsSent'
  BY DEF RequiredIsSent, HasRequired, Context
<1> QED BY <1>1, <1>2

\* The steps that neither change the parameters that the user is shown nor make
\* a request.
LEMMA OfferQuiet ==
  ASSUME OfferInv,
         Agreed' => Agreed /\ UNCHANGED <<command, json, offered>>,
         sent' = <<>> \/ (UNCHANGED <<sent, command, offered>> /\ (consented => consented'))
  PROVE  OfferInv'
<1>1. SentIsOffered' /\ RequiredIsSent'
  <2>1. CASE sent' = <<>>
    BY <2>1, NoRequests DEF SentIsOffered, RequiredIsSent
  <2>2. CASE sent' # <<>>
    BY <2>2, OfferKept DEF OfferInv
  <2> QED BY <2>1, <2>2
<1>2. ASSUME Agreed' PROVE Adds(offered[1], json[1])' /\ HasRequired(json[1])'
  <2>1. Agreed /\ UNCHANGED <<command, json, offered>>
    BY <1>2
  <2>2. Adds(offered[1], json[1])'
    BY <2>1 DEF OfferInv
  <2>3. HasRequired(json[1])'
    BY <2>1 DEF OfferInv, HasRequired, Context
  <2> QED BY <2>2, <2>3
<1> QED BY <1>1, <1>2 DEF OfferInv

LEMMA OfferStep == PlaceInv /\ SentInv /\ OfferInv /\ Next => OfferInv'
<1> SUFFICES ASSUME PlaceInv, SentInv, OfferInv, Next PROVE OfferInv'
  OBVIOUS
<1> USE DEF ERR_EXIT, Finish, CRASH, Goto, commonVars, memory, loop, reads, world, record
<1>0. CASE AppNext /\ UNCHANGED <<memory, loop, reads, world, record>>
  <2>1. ~Agreed' /\ UNCHANGED <<sent, command, offered, consented>>
    BY <1>0 DEF Agreed, PlayTesting, AppNext, alterator_ctl_app_parse_args, alterator_ctl_app_run,
       alterator_ctl_app_list_modules
  <2> QED BY <2>1, OfferQuiet
<1>1. CASE services_module_parse_arguments
  <2>1. ~Agreed' /\ sent' = <<>>
    BY <1>1 DEF Agreed, PlayTesting, Contextual, services_module_parse_arguments, In, services_module_print_help, SentInv, NothingSent, Preparing
  <2> QED BY <2>1, OfferQuiet
<1>2. CASE CheckRequiredState
  <2>1. ~Agreed' /\ UNCHANGED <<sent, command, offered, consented>>
    BY <1>2 DEF Agreed, PlayTesting, PlaceInv, CheckRequiredState
  <2> QED BY <2>1, OfferQuiet
<1>3. CASE LoadInfo
  <2>1. ~Agreed' /\ UNCHANGED <<sent, command, offered, consented>>
    BY <1>3 DEF Agreed, PlayTesting, PlaceInv, Contextual, LoadInfo
  <2> QED BY <2>1, OfferQuiet
<1>4. CASE services_module_parse_diagnose_arguments
  <2>1. ~Agreed' /\ UNCHANGED <<sent, command, offered, consented>>
    BY <1>4 DEF Agreed, PlayTesting, PlaceInv, services_module_parse_diagnose_arguments
  <2> QED BY <2>1, OfferQuiet
<1>5. CASE services_module_parse_contextual_arguments
  <2>1. ~Agreed' /\ UNCHANGED <<sent, command, offered, consented>>
    BY <1>5 DEF Agreed, PlayTesting, PlaceInv, services_module_parse_contextual_arguments
  <2> QED BY <2>1, OfferQuiet
<1>6. CASE PlayFile
  <2>1. ~Agreed' /\ sent' = <<>>
    BY <1>6 DEF Agreed, PlayTesting, Contextual, PlayFile, SentInv, NothingSent, Preparing
  <2> QED BY <2>1, OfferQuiet
<1>7. CASE services_module_confirm_execution
  <2>0. sent = <<>> /\ sent' = <<>> /\ UNCHANGED <<command, play_plan>>
    BY <1>7 DEF services_module_confirm_execution, SentInv, NothingSent, Preparing
  <2>1. CASE ~Agreed'
    BY <2>0, <2>1, OfferQuiet
  <2>2. CASE Agreed'
    <3>1. at' \in {"conflicts", "prompt"}
      BY <1>7, <2>2 DEF services_module_confirm_execution, Agreed, PlayTesting
    <3>2. /\ offered' = json'
          /\ validate_json(json'[1], ValidationContexts, FALSE)
      BY <1>7, <3>1 DEF services_module_confirm_execution
    <3>3. HasRequired(json'[1])
      BY <3>2, ValidHasRequired
    <3>4. HasRequired(json[1])'
      BY <2>0, <3>3 DEF HasRequired, Context
    <3>5. Adds(offered[1], json[1])'
      BY <3>2, AddsNothing
    <3>6. SentIsOffered' /\ RequiredIsSent'
      BY <2>0, NoRequests DEF SentIsOffered, RequiredIsSent
    <3> QED BY <3>4, <3>5, <3>6 DEF OfferInv
  <2> QED BY <2>1, <2>2
<1>8. CASE FindConflicts
  <2>0. at = "conflicts" /\ Agreed /\ UNCHANGED <<sent, command, offered, consented>>
    BY <1>8 DEF FindConflicts, Agreed
  <2>1. CASE ~Agreed'
    BY <2>0, <2>1, OfferQuiet
  <2>2. CASE Agreed'
    <3> DEFINE inside == IF command = "deploy"
                           THEN find_conflicting_resources_within_current_service(json[1])
                           ELSE [is |-> "ok", json |-> json[1], seen |-> {}]
    <3>1. Adds(json[1], inside.json)
      BY SearchWithinAdds, AddsNothing
    <3>2. \E deployed : json' = <<services_module_find_conflicting_services(inside.json, deployed).json>>
      <4>1. at' # "end"
        BY <2>2 DEF Agreed, PlayTesting
      <4> QED BY <1>8, <4>1 DEF FindConflicts
    <3> HIDE DEF inside
    <3>3. PICK deployed : json' = <<services_module_find_conflicting_services(inside.json, deployed).json>>
      BY <3>2
    <3>4. Adds(inside.json, json'[1])
      BY <3>3, SearchAdds
    <3>5. Adds(json[1], json'[1])
      BY <3>1, <3>4, AddsMore
    <3>6. Adds(offered[1], json[1])'
      BY <2>0, <3>5, AddsMore DEF OfferInv
    <3>7. HasRequired(json'[1])
      BY <2>0, <3>5, RequiredStays DEF OfferInv
    <3>8. HasRequired(json[1])'
      BY <2>0, <3>7 DEF HasRequired, Context
    <3>9. SentIsOffered' /\ RequiredIsSent'
      BY <2>0, OfferKept DEF OfferInv
    <3> QED BY <3>6, <3>8, <3>9 DEF OfferInv
  <2> QED BY <2>1, <2>2
<1>9. CASE Prompt
  <2>1. /\ Agreed' => Agreed
        /\ UNCHANGED <<sent, command, json, offered>> /\ (consented => consented')
    BY <1>9 DEF Agreed, PlayTesting, PlaceInv, Contextual, Parameterless, Prompt
  <2> QED BY <2>1, OfferQuiet
<1>10. CASE services_module_run
  <2>1. /\ Agreed' => Agreed
        /\ UNCHANGED <<sent, command, json, offered>> /\ (consented => consented')
    BY <1>10 DEF Agreed, PlayTesting, PlaceInv, Contextual, Parameterless, services_module_run
  <2> QED BY <2>1, OfferQuiet
<1>11. CASE services_module_parametrized_subcommand
  <2>1. /\ Agreed' => Agreed
        /\ UNCHANGED <<sent, command, json, offered>> /\ (consented => consented')
    BY <1>11 DEF Agreed, PlayTesting, PlaceInv, Contextual, Parameterless, services_module_parametrized_subcommand
  <2> QED BY <2>1, OfferQuiet
<1>12. CASE services_module_play_run_diag
  <2>1. /\ Agreed' => Agreed
        /\ UNCHANGED <<sent, command, json, offered>> /\ (consented => consented')
    BY <1>12 DEF Agreed, PlayTesting, PlaceInv, Contextual, Parameterless, services_module_play_run_diag
  <2> QED BY <2>1, OfferQuiet
<1>13. CASE services_module_run_test
  <2>1. /\ Agreed' => Agreed
        /\ UNCHANGED <<sent, command, json, offered>> /\ (consented => consented')
    BY <1>13 DEF Agreed, PlayTesting, PlaceInv, Contextual, Parameterless, services_module_run_test
  <2> QED BY <2>1, OfferQuiet
<1>14. CASE PlayVerdict
  <2>1. /\ Agreed' => Agreed
        /\ UNCHANGED <<sent, command, json, offered>> /\ (consented => consented')
    BY <1>14 DEF Agreed, PlayTesting, PlaceInv, Contextual, Parameterless, PlayVerdict
  <2> QED BY <2>1, OfferQuiet
<1>15. CASE SendRequest
  <2>0. /\ at = "request" /\ Agreed /\ consented /\ ~Agreed' /\ sent = <<>>
        /\ UNCHANGED <<command, offered, consented, json>>
    BY <1>15 DEF SendRequest, Agreed, PlayTesting, PlaceInv, SentInv, NothingSent
  <2>1. CASE sent' = <<>>
    BY <2>0, <2>1, OfferQuiet
  <2>2. CASE sent' # <<>>
    <3>1. PICK out : Request(command, json[1], out)
      BY <1>15, <2>0, <2>2 DEF SendRequest
    <3> DEFINE reply == IF out.res = NULL THEN -1 ELSE out.res[1].code
               r == [method |-> command, json |-> json[1], reply |-> reply]
    <3>2. sent' = <<r>>
      BY <2>0, <3>1, Appended DEF Request
    <3> HIDE DEF reply
    <3>3. DOMAIN sent' = {1} /\ sent'[1].json = json[1]
      BY <3>2
    <3>4. SentIsOffered'
      BY <2>0, <3>3 DEF SentIsOffered, OfferInv, Adds, FromResource
    <3>5. RequiredIsSent'
      BY <2>0, <3>3 DEF RequiredIsSent, OfferInv, HasRequired, Context
    <3> QED BY <2>0, <3>4, <3>5 DEF OfferInv
  <2> QED BY <2>1, <2>2
<1>16. CASE PostDiag
  <2>1. ~Agreed' /\ UNCHANGED <<sent, command, offered, consented>>
    BY <1>16 DEF Agreed, PlayTesting, PlaceInv, PostDiag
  <2> QED BY <2>1, OfferQuiet
<1>17. CASE services_module_diagnose_subcommand
  <2>1. ~Agreed' /\ UNCHANGED <<sent, command, offered, consented>>
    BY <1>17 DEF Agreed, PlayTesting, PlaceInv, services_module_diagnose_subcommand
  <2> QED BY <2>1, OfferQuiet
<1>18. CASE DiagnoseTool
  <2>1. ~Agreed' /\ UNCHANGED <<sent, command, offered, consented>>
    BY <1>18 DEF Agreed, PlayTesting, PlaceInv, DiagnoseTool
  <2> QED BY <2>1, OfferQuiet
<1>19. CASE DiagnoseToolEnd
  <2>1. ~Agreed' /\ UNCHANGED <<sent, command, offered, consented>>
    BY <1>19 DEF Agreed, PlayTesting, PlaceInv, DiagnoseToolEnd
  <2> QED BY <2>1, OfferQuiet
<1>20. CASE Failure
  <2>1. ~Agreed' /\ UNCHANGED <<sent, command, offered, consented>>
    BY <1>20 DEF Agreed, PlayTesting, PlaceInv, Failure
  <2> QED BY <2>1, OfferQuiet
<1>21. CASE services_module_start_subcommand
  <2>1. ~Agreed' /\ UNCHANGED <<sent, command, offered, consented>>
    BY <1>21 DEF Agreed, PlayTesting, PlaceInv, services_module_start_subcommand, StatusBefore
  <2> QED BY <2>1, OfferQuiet
<1>22. CASE services_module_stop_subcommand
  <2>1. ~Agreed' /\ UNCHANGED <<sent, command, offered, consented>>
    BY <1>22 DEF Agreed, PlayTesting, PlaceInv, services_module_stop_subcommand, StatusBefore
  <2> QED BY <2>1, OfferQuiet
<1>23. CASE SendStartOrStop
  <2> DEFINE method == IF at = "send start" THEN "start" ELSE "stop"
  <2>0. ~Agreed' /\ at \in {"send start", "send stop"} /\ UNCHANGED <<command, offered, consented>>
    BY <1>23 DEF SendStartOrStop, Agreed, PlayTesting
  <2>1. CASE UNCHANGED sent
    BY <2>0, <2>1, OfferQuiet
  <2>2. CASE ~UNCHANGED sent
    <3>1. PICK out : Request(method, EmptyObject, out)
      BY <1>23, <2>2 DEF SendStartOrStop
    <3> DEFINE reply == IF out.res = NULL THEN -1 ELSE out.res[1].code
               r == [method |-> method, json |-> EmptyObject, reply |-> reply]
    <3>2. sent' = Append(sent, r)
      BY <3>1 DEF Request
    <3> HIDE DEF reply
    <3>3. r.method \in {"start", "stop"}
      OBVIOUS
    <3> HIDE DEF r
    <3>4. sent = <<>> \/ sent = <<sent[1]>>
      BY <2>0 DEF SentInv, NothingSent
    <3>5. sent' = <<r>> \/ sent' = <<sent[1], r>>
      BY <3>2, <3>4, Appended
    <3>6. \A i \in DOMAIN sent' : sent'[i].method \in {"start", "stop"} \/ (i \in DOMAIN sent /\ sent'[i] = sent[i])
      <4>1. CASE sent' = <<r>>
        BY <3>3, <4>1
      <4>2. CASE sent' = <<sent[1], r>> /\ sent = <<sent[1]>>
        <5> DEFINE q == sent[1]
        <5>1. sent = <<q>> /\ sent' = <<q, r>>
          BY <4>2
        <5> HIDE DEF q
        <5>2. DOMAIN sent = {1} /\ DOMAIN sent' = {1, 2} /\ sent'[1] = q /\ sent'[2] = r /\ sent[1] = q
          BY <5>1
        <5> QED BY <3>3, <5>2
      <4> QED BY <3>2, <3>4, <4>1, <4>2, Appended
    <3>7. SentIsOffered'
      <4> SUFFICES ASSUME NEW i \in DOMAIN sent', sent'[i].method \notin {"start", "stop"}
                   PROVE  /\ consented'
                          /\ \A n \in DOMAIN Members(offered'[1]) :
                                Member(sent'[i].json, n) = Member(offered'[1], n)
                          /\ \A n \in DOMAIN Members(sent'[i].json) \ DOMAIN Members(offered'[1]) :
                                \E k \in DOMAIN Resources :
                                   /\ Resources[k].parameter = n /\ Resources[k].value # <<>>
                                   /\ Member(sent'[i].json, n) = <<Written(Resources[k].value[1])>>
        BY DEF SentIsOffered
      <4>1. i \in DOMAIN sent /\ sent'[i] = sent[i]
        BY <3>6
      <4> DEFINE q == sent[i]
      <4>2. sent[i].method \notin {"start", "stop"}
        BY <4>1
      <4>3. /\ consented
            /\ \A n \in DOMAIN Members(offered[1]) : Member(q.json, n) = Member(offered[1], n)
            /\ \A n \in DOMAIN Members(q.json) \ DOMAIN Members(offered[1]) :
                  \E k \in DOMAIN Resources :
                     /\ Resources[k].parameter = n /\ Resources[k].value # <<>>
                     /\ Member(q.json, n) = <<Written(Resources[k].value[1])>>
        BY <4>1, <4>2 DEF SentIsOffered, OfferInv
      <4>4. sent'[i] = q /\ offered' = offered /\ consented'
        BY <2>0, <4>1, <4>3
      <4> HIDE DEF q
      <4> QED BY <4>3, <4>4
    <3>8. RequiredIsSent'
      BY <2>0, <3>6 DEF RequiredIsSent, OfferInv, HasRequired, Context
    <3> QED BY <2>0, <3>7, <3>8 DEF OfferInv
  <2> QED BY <2>1, <2>2
<1>24. CASE services_module_info_subcommand
  <2>1. ~Agreed' /\ UNCHANGED <<sent, command, offered, consented>>
    BY <1>24 DEF Agreed, PlayTesting, PlaceInv, services_module_info_subcommand
  <2> QED BY <2>1, OfferQuiet
<1>25. CASE services_module_list_subcommand
  <2>1. ~Agreed' /\ UNCHANGED <<sent, command, offered, consented>>
    BY <1>25 DEF Agreed, PlayTesting, PlaceInv, services_module_list_subcommand
  <2> QED BY <2>1, OfferQuiet
<1>26. CASE services_module_resources_subcommand
  <2>1. ~Agreed' /\ UNCHANGED <<sent, command, offered, consented>>
    BY <1>26 DEF Agreed, PlayTesting, PlaceInv, services_module_resources_subcommand
  <2> QED BY <2>1, OfferQuiet
<1>27. CASE services_module_status_command
  <2>1. ~Agreed' /\ UNCHANGED <<sent, command, offered, consented>>
    BY <1>27 DEF Agreed, PlayTesting, PlaceInv, services_module_status_command
  <2> QED BY <2>1, OfferQuiet
<1>28. CASE services_module_handle_results
  <2>1. ~Agreed' /\ UNCHANGED <<sent, command, offered, consented>>
    BY <1>28 DEF Agreed, PlayTesting, PlaceInv, services_module_handle_results, services_module_resources_handle_result, services_module_info_handle_result,
       services_module_status_handle_result, services_module_backup_handle_result,
       services_module_configure_handle_result, services_module_restore_handle_result,
       services_module_undeploy_handle_result, services_module_start_handle_result,
       services_module_stop_handle_result, services_module_deploy_handle_result, ExitCodeResult
  <2> QED BY <2>1, OfferQuiet
<1>29. CASE services_module_run_with_args
  <2>1. ~Agreed' /\ UNCHANGED <<sent, command, offered, consented>>
    BY <1>29 DEF Agreed, PlayTesting, PlaceInv, services_module_run_with_args
  <2> QED BY <2>1, OfferQuiet
<1>30. CASE AutostartResult
  <2>1. ~Agreed' /\ UNCHANGED <<sent, command, offered, consented>>
    BY <1>30 DEF Agreed, PlayTesting, PlaceInv, AutostartResult
  <2> QED BY <2>1, OfferQuiet
<1>31. CASE OtherClient
  <2>1. /\ Agreed' => Agreed
        /\ UNCHANGED <<sent, command, json, offered>> /\ (consented => consented')
    BY <1>31 DEF Agreed, PlayTesting, PlaceInv, Contextual, Parameterless, OtherClient
  <2> QED BY <2>1, OfferQuiet
<1>32. CASE Ended
  <2>1. /\ Agreed' => Agreed
        /\ UNCHANGED <<sent, command, json, offered>> /\ (consented => consented')
    BY <1>32 DEF Agreed, PlayTesting, PlaceInv, Contextual, Parameterless, Ended, vars
  <2> QED BY <2>1, OfferQuiet
<1> QED BY <1>0, <1>1, <1>2, <1>3, <1>4, <1>5, <1>6, <1>7, <1>8, <1>9, <1>10, <1>11, <1>12, <1>13, <1>14, <1>15, <1>16, <1>17, <1>18, <1>19, <1>20, <1>21, <1>22, <1>23, <1>24, <1>25, <1>26, <1>27, <1>28, <1>29, <1>30, <1>31, <1>32
  DEF Next, Step

-----------------------------------------------------------------------------
(* The invariant. *)

LEMMA InitInv == Init => IInv
<1> SUFFICES ASSUME Init PROVE IInv
  OBVIOUS
<1>1. /\ at = "alterator_ctl_app_parse_args" /\ done = {} /\ sent = <<>>
      /\ ~consented /\ phase = "" /\ ran = {}
  BY DEF Init, CommonInit
<1>2. PlaceInv
  BY <1>1 DEF PlaceInv, Parameterless, PlayTesting
<1>3. SentInv
  <2>1. SuccessMeansDone
    BY <1>1 DEF SuccessMeansDone
  <2> QED BY <1>1, <2>1 DEF SentInv, PlayTesting
<1>4. FitInv
  <2>1. IsService(service)
    <3>1. service = Undeployed \/ service \in [status : Statuses \ {"UNDEPLOYED"}, params : Deployments]
      BY DEF Init, Services
    <3>2. CASE service = Undeployed
      BY <3>2 DEF Undeployed, IsService, Statuses
    <3>3. CASE service \in [status : Statuses \ {"UNDEPLOYED"}, params : Deployments]
      BY <3>3 DEF IsService
    <3> QED BY <3>1, <3>2, <3>3
  <2> QED BY <1>1, <2>1 DEF FitInv, BeforeRequest, PlayTesting, StateFits
<1>5. DiagInv
  <2>1. DiagnosedFirst
    <3>0. DOMAIN <<>> = {}
      OBVIOUS
    <3>1. ~\E i \in DOMAIN sent : sent[i].method = "deploy"
      BY <1>1, <3>0
    <3> QED BY <3>1 DEF DiagnosedFirst
  <2> QED BY <1>1, <2>1 DEF DiagInv
<1>6. OfferInv
  BY <1>1, NoRequests DEF OfferInv, Agreed, PlayTesting, SentIsOffered, RequiredIsSent
<1> QED BY <1>2, <1>3, <1>4, <1>5, <1>6 DEF IInv

LEMMA IdleInv == IInv /\ UNCHANGED vars => IInv'
<1> SUFFICES ASSUME IInv, UNCHANGED vars PROVE IInv'
  OBVIOUS
<1>1. CASE at = "end"
  <2>1. Next
    BY <1>1 DEF Next, Ended
  <2> QED BY <2>1, PlaceInvStep, SentInvStep, FitStep, DiagStep, OfferStep DEF IInv
<1>2. CASE at # "end"
  <2> USE DEF vars, commonVars, memory, loop, reads, world, record
  <2>1. PlaceInv'
    BY DEF IInv, PlaceInv, PlayTesting
  <2>2. (Answered => Answered') /\ (WasDone("deploy") => WasDone("deploy")') /\ (WasDone("start") => WasDone("start")')
    BY DEF Answered, WasDone
  <2>3. SuccessMeansDone'
    BY <1>2 DEF SuccessMeansDone
  <2>4. SentInv'
    BY <2>2, <2>3 DEF IInv, SentInv, NothingSent, PlayTesting
  <2>5. StateFits' /\ IsService(service)' /\ (StillFits => StillFits')
    BY StateFitsKept, StillFitsKept DEF IInv, FitInv, IsService
  <2>6. FitInv'
    BY <2>5 DEF IInv, FitInv, BeforeRequest, PlayTesting
  <2>7. DiagInv'
    BY DiagSame DEF IInv
  <2>8. Agreed' => Agreed
    BY DEF Agreed, PlayTesting
  <2>9. OfferInv'
    BY <2>8, OfferQuiet DEF IInv
  <2> QED BY <2>1, <2>4, <2>6, <2>7, <2>9 DEF IInv
<1> QED BY <1>1, <1>2

\* The inductive invariant holds in every state.
THEOREM Invariance == Spec => []IInv
<1>1. IInv /\ [Next]_vars => IInv'
  BY PlaceInvStep, SentInvStep, FitStep, DiagStep, OfferStep, IdleInv DEF IInv
<1> QED BY <1>1, InitInv, PTL DEF Spec

-----------------------------------------------------------------------------
(* The theorems. *)

\* services_module_check_required_state() before the request is enough: a
\* request is executed in the state it is meant for, unless another client was
\* there, the status text was empty or the deployment was forced.
THEOREM FitsState == Spec => []StateFits
<1>1. IInv => StateFits
  BY DEF IInv, FitInv
<1> QED BY <1>1, Invariance, PTL

\* Whatever tests the tools have and the playfile names, a deployment that asks
\* for diagnostics is sent only after the required tests, and with a failed one
\* only if the user said yes.
THEOREM DiagnosedBefore == Spec => []DiagnosedFirst
<1>1. IInv => DiagnosedFirst
  BY DEF IInv, DiagInv
<1> QED BY <1>1, Invariance, PTL

\* Exit code 0 after consent: the request was executed, unless a call failed on
\* the way.
THEOREM SuccessIsDone == Spec => []SuccessMeansDone
<1>1. IInv => SuccessMeansDone
  BY DEF IInv, SentInv
<1> QED BY <1>1, Invariance, PTL

\* What the backend receives is what the user said yes to: the search for
\* conflicts between the table and the request leaves every parameter as it is
\* and adds only values of resources.
THEOREM SentWasOffered == Spec => []SentIsOffered
<1>1. IInv => SentIsOffered
  BY DEF IInv, OfferInv
<1> QED BY <1>1, Invariance, PTL

\* No request lacks a parameter that the entry requires: the second validation
\* sees the passwords, and the search for conflicts removes nothing.
THEOREM RequiredWasSent == Spec => []RequiredIsSent
<1>1. IInv => RequiredIsSent
  BY DEF IInv, OfferInv
<1> QED BY <1>1, Invariance, PTL

-----------------------------------------------------------------------------
(* The refinement of ServiceCommand. *)

Outcome(r) == [method |-> r.method, ok |-> r.reply = 0]

Outcomes(s) == [i \in DOMAIN s |-> Outcome(s[i])]

\* What the abstract command sees of the requests.
LEMMA OutcomesOf ==
  ASSUME NEW q, NEW r
  PROVE  /\ Outcomes(<<>>) = <<>>
         /\ Outcomes(<<q>>) = <<Outcome(q)>>
         /\ Outcomes(<<q, r>>) = <<Outcome(q), Outcome(r)>>
<1> HIDE DEF Outcome
<1>1. Outcomes(<<>>) = <<>>
  BY DEF Outcomes
<1>2. Outcomes(<<q>>) = <<Outcome(q)>>
  BY DEF Outcomes
<1>3. Outcomes(<<q, r>>) = <<Outcome(q), Outcome(r)>>
  BY DEF Outcomes
<1> QED BY <1>1, <1>2, <1>3

\* Steps that neither ask the user nor send a request.
LEMMA NoRequest ==
  ASSUME at # "end", UNCHANGED <<sent, consented>>
  PROVE  Command!CommandNext \/ UNCHANGED Command!commandVars
<1>1. CASE at' = "end"
  <2>1. Command!End
    BY <1>1 DEF Command!End
  <2> QED BY <2>1 DEF Command!CommandNext
<1>2. CASE at' # "end"
  BY <1>2 DEF Command!commandVars
<1> QED BY <1>1, <1>2

LEMMA CommandStep == PlaceInv /\ SentInv /\ Next => Command!CommandNext \/ UNCHANGED Command!commandVars
<1> SUFFICES ASSUME PlaceInv, SentInv, Next PROVE Command!CommandNext \/ UNCHANGED Command!commandVars
  OBVIOUS
<1> USE DEF ERR_EXIT, Finish, CRASH, Goto, commonVars, memory, loop, reads, world, record
<1> DEFINE requests == [i \in DOMAIN sent |-> [method |-> sent[i].method, ok |-> sent[i].reply = 0]]
<1>a. requests = Outcomes(sent) /\ requests' = Outcomes(sent')
  BY DEF Outcomes, Outcome
<1> HIDE DEF requests
<1>0. CASE AppNext /\ UNCHANGED <<memory, loop, reads, world, record>>
  BY <1>0, NoRequest DEF AppNext, alterator_ctl_app_parse_args, alterator_ctl_app_run,
     alterator_ctl_app_list_modules
<1>1. CASE services_module_parse_arguments
  BY <1>1, NoRequest DEF services_module_parse_arguments, In, services_module_print_help
<1>2. CASE CheckRequiredState
  BY <1>2, NoRequest DEF CheckRequiredState
<1>3. CASE LoadInfo
  BY <1>3, NoRequest DEF LoadInfo
<1>4. CASE services_module_parse_diagnose_arguments
  BY <1>4, NoRequest DEF services_module_parse_diagnose_arguments
<1>5. CASE services_module_parse_contextual_arguments
  BY <1>5, NoRequest DEF services_module_parse_contextual_arguments
<1>6. CASE PlayFile
  BY <1>6, NoRequest DEF PlayFile
<1>7. CASE services_module_confirm_execution
  BY <1>7, NoRequest DEF services_module_confirm_execution
<1>8. CASE FindConflicts
  BY <1>8, NoRequest DEF FindConflicts
<1>9. CASE Prompt
  <2>1. CASE consented' = consented
    BY <1>9, <2>1, NoRequest DEF Prompt
  <2>2. CASE consented' # consented
    <3>1. /\ at = "prompt" /\ at' = "services_module_run" /\ consented' = TRUE /\ UNCHANGED sent
      BY <1>9, <2>2 DEF Prompt
    <3>2. ~consented /\ sent = <<>>
      BY <3>1 DEF PlaceInv, SentInv, NothingSent, Preparing
    <3>3. requests = <<>> /\ requests' = <<>>
      BY <1>a, <3>1, <3>2, OutcomesOf
    <3>4. Command!Consent
      BY <3>1, <3>2, <3>3 DEF Command!Consent, requests
    <3> QED BY <3>4 DEF Command!CommandNext
  <2> QED BY <2>1, <2>2
<1>10. CASE services_module_run
  BY <1>10, NoRequest DEF services_module_run
<1>11. CASE services_module_parametrized_subcommand
  BY <1>11, NoRequest DEF services_module_parametrized_subcommand
<1>12. CASE services_module_play_run_diag
  BY <1>12, NoRequest DEF services_module_play_run_diag
<1>13. CASE services_module_run_test
  BY <1>13, NoRequest DEF services_module_run_test
<1>14. CASE PlayVerdict
  BY <1>14, NoRequest DEF PlayVerdict
<1>15. CASE SendRequest
  <2>0. /\ at = "request" /\ sent = <<>> /\ command \in Requests /\ consented /\ UNCHANGED consented
    BY <1>15 DEF SendRequest, PlaceInv, SentInv, NothingSent
  <2>1. PICK out \in call(Replies) \cup {Silent} :
          /\ IF out = Silent THEN UNCHANGED sent ELSE Request(command, json[1], out)
          /\ at' = "end" => out.err # "none"
    BY <1>15 DEF SendRequest
  <2>2. CASE out = Silent
    BY <2>0, <2>1, <2>2, NoRequest
  <2>3. CASE out # Silent
    <3> DEFINE r == [method |-> command, json |-> json[1],
                     reply |-> IF out.res = NULL THEN -1 ELSE out.res[1].code]
               o == [method |-> command, ok |-> r.reply = 0]
    <3>1. sent' = <<r>>
      BY <2>0, <2>1, <2>3, Appended DEF Request
    <3>2. requests = <<>> /\ requests' = <<o>>
      <4>1. Outcome(r) = o
        BY DEF Outcome
      <4> HIDE DEF r, o
      <4> QED BY <1>a, <2>0, <3>1, <4>1, OutcomesOf
    <3>3. at' = "end" => r.reply # 0
      BY <2>1, <2>3, CallOutcomes, MinusOne DEF NULL
    <3> HIDE DEF r
    <3>5. PICK m \in Requests : m = command
      BY <2>0
    <3>4. Command!Ask(m)
      <4>1. PICK ok \in BOOLEAN : ok <=> r.reply = 0
        OBVIOUS
      <4>2. o = [method |-> command, ok |-> ok]
        BY <4>1
      <4> HIDE DEF o
      <4>3. (at' = "end") \in BOOLEAN /\ (ok => ~(at' = "end"))
        BY <3>3, <4>1
      <4>4. \E k \in BOOLEAN : /\ requests' = <<[method |-> m, ok |-> k]>>
                               /\ (at' = "end") \in BOOLEAN /\ (k => ~(at' = "end"))
        BY <3>2, <3>5, <4>2, <4>3
      <4>5. /\ ~(at = "end") /\ requests = <<>> /\ consented' = consented
            /\ (m \in Contextual \ {"diagnose"} => consented)
        BY <2>0, <3>2
      <4> QED BY <4>4, <4>5 DEF Command!Ask, requests
    <3> QED BY <3>4 DEF Command!CommandNext, Requests
  <2> QED BY <2>2, <2>3
<1>16. CASE PostDiag
  BY <1>16, NoRequest DEF PostDiag
<1>17. CASE services_module_diagnose_subcommand
  BY <1>17, NoRequest DEF services_module_diagnose_subcommand
<1>18. CASE DiagnoseTool
  BY <1>18, NoRequest DEF DiagnoseTool
<1>19. CASE DiagnoseToolEnd
  BY <1>19, NoRequest DEF DiagnoseToolEnd
<1>20. CASE Failure
  BY <1>20, NoRequest DEF Failure
<1>21. CASE services_module_start_subcommand
  BY <1>21, NoRequest DEF services_module_start_subcommand, StatusBefore
<1>22. CASE services_module_stop_subcommand
  BY <1>22, NoRequest DEF services_module_stop_subcommand, StatusBefore
<1>23. CASE SendStartOrStop
  <2> DEFINE method == IF at = "send start" THEN "start" ELSE "stop"
  <2>0. /\ at \in {"send start", "send stop"} /\ UNCHANGED consented
        /\ method \in {"start", "stop"} \ Requests
    BY <1>23 DEF SendStartOrStop, Requests, Contextual
  <2>1. PICK out \in call(Replies) \cup {Silent} :
          /\ IF out = Silent THEN UNCHANGED sent ELSE Request(method, EmptyObject, out)
          /\ at' = "end" => out.res = NULL
    BY <1>23 DEF SendStartOrStop
  <2>2. CASE out = Silent
    BY <2>0, <2>1, <2>2, NoRequest
  <2>3. CASE out # Silent
    <3> DEFINE r == [method |-> method, json |-> EmptyObject,
                     reply |-> IF out.res = NULL THEN -1 ELSE out.res[1].code]
               o == [method |-> method, ok |-> r.reply = 0]
    <3>1. sent' = Append(sent, r)
      BY <2>1, <2>3 DEF Request
    <3>2. at' = "end" => r.reply # 0
      BY <2>1, MinusOne
    <3>3. Outcome(r) = o
      BY DEF Outcome
    <3> HIDE DEF r
    <3>4. PICK ok \in BOOLEAN : (ok <=> r.reply = 0) /\ o = [method |-> method, ok |-> ok]
      OBVIOUS
    <3>7. (at' = "end") \in BOOLEAN /\ (ok => ~(at' = "end"))
      BY <3>2, <3>4
    <3> HIDE DEF o
    <3>5. CASE sent = <<>>
      <4>1. sent' = <<r>>
        BY <3>1, <3>5, Appended
      <4>2. requests = <<>> /\ requests' = <<o>>
        BY <1>a, <3>3, <3>5, <4>1, OutcomesOf
      <4>6. PICK m \in {"start", "stop"} : m = method
        BY <2>0
      <4>4. \E k \in BOOLEAN : /\ requests' = <<[method |-> m, ok |-> k]>>
                               /\ (at' = "end") \in BOOLEAN /\ (k => ~(at' = "end"))
        BY <3>4, <3>7, <4>2, <4>6
      <4>5. /\ ~(at = "end") /\ requests = <<>> /\ consented' = consented
            /\ (m \in Contextual \ {"diagnose"} => consented)
        BY <2>0, <4>2, <4>6 DEF Requests
      <4>3. Command!Ask(m)
        BY <4>4, <4>5 DEF Command!Ask, requests
      <4> QED BY <4>3 DEF Command!CommandNext
    <3>6. CASE sent = <<sent[1]>> /\ sent[1].method = "deploy" /\ sent[1].reply = 0 /\ at = "send start"
      <4> DEFINE q == sent[1]
      <4>0. sent = <<q>>
        BY <3>6
      <4>1. sent' = <<q, r>>
        <5> HIDE DEF q
        <5> QED BY <3>1, <4>0, Appended
      <4>2. Outcome(q) = [method |-> "deploy", ok |-> TRUE]
        BY <3>6 DEF Outcome
      <4> HIDE DEF q
      <4>3. requests = <<[method |-> "deploy", ok |-> TRUE]>>
        BY <1>a, <4>0, <4>2, OutcomesOf
      <4>4. requests' = <<[method |-> "deploy", ok |-> TRUE], o>>
        BY <1>a, <3>3, <4>1, <4>2, OutcomesOf
      <4>5. requests' = Append(requests, o)
        BY <4>3, <4>4, Appended
      <4>6. Command!Autostart
        BY <2>0, <3>4, <3>6, <3>7, <4>3, <4>5 DEF Command!Autostart, requests
      <4> QED BY <4>6 DEF Command!CommandNext
    <3> QED BY <2>0, <3>5, <3>6 DEF SentInv, NothingSent
  <2> QED BY <2>2, <2>3
<1>24. CASE services_module_info_subcommand
  BY <1>24, NoRequest DEF services_module_info_subcommand
<1>25. CASE services_module_list_subcommand
  BY <1>25, NoRequest DEF services_module_list_subcommand
<1>26. CASE services_module_resources_subcommand
  BY <1>26, NoRequest DEF services_module_resources_subcommand
<1>27. CASE services_module_status_command
  BY <1>27, NoRequest DEF services_module_status_command
<1>28. CASE services_module_handle_results
  BY <1>28, NoRequest DEF services_module_handle_results, services_module_resources_handle_result, services_module_info_handle_result,
       services_module_status_handle_result, services_module_backup_handle_result,
       services_module_configure_handle_result, services_module_restore_handle_result,
       services_module_undeploy_handle_result, services_module_start_handle_result,
       services_module_stop_handle_result, services_module_deploy_handle_result, ExitCodeResult
<1>29. CASE services_module_run_with_args
  BY <1>29, NoRequest DEF services_module_run_with_args
<1>30. CASE AutostartResult
  BY <1>30, NoRequest DEF AutostartResult
<1>31. CASE OtherClient
  BY <1>31, NoRequest DEF OtherClient
<1>32. CASE Ended
  BY <1>32 DEF Ended, vars, Command!commandVars
<1> QED BY <1>0, <1>1, <1>2, <1>3, <1>4, <1>5, <1>6, <1>7, <1>8, <1>9, <1>10, <1>11, <1>12, <1>13, <1>14, <1>15, <1>16, <1>17, <1>18, <1>19, <1>20, <1>21, <1>22, <1>23, <1>24, <1>25, <1>26, <1>27, <1>28, <1>29, <1>30, <1>31, <1>32
  DEF Next, Step

\* The command is what ServiceCommand promises, up to its end: a request with
\* parameters only after consent, one at most, and after it only a start, of a
\* service whose deployment succeeded.
THEOREM CommandImplemented == Spec => Command!CommandSafety
<1>1. Init => Command!CommandInit
  <2> SUFFICES ASSUME Init PROVE Command!CommandInit
    OBVIOUS
  <2>1. sent = <<>> /\ consented = FALSE /\ at # "end"
    BY DEF Init, CommonInit
  <2>2. Outcomes(sent) = <<>>
    BY <2>1, OutcomesOf
  <2> QED BY <2>1, <2>2 DEF Command!CommandInit, Outcomes, Outcome
<1>2. IInv /\ [Next]_vars => [Command!CommandNext]_(Command!commandVars)
  <2>1. CASE UNCHANGED vars
    BY <2>1 DEF vars, commonVars, record, Command!commandVars
  <2> QED BY <2>1, CommandStep DEF IInv
<1> QED BY <1>1, <1>2, Invariance, PTL DEF Spec, Command!CommandSafety

=============================================================================
