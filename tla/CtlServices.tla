----------------------------- MODULE CtlServices -----------------------------
(***************************************************************************)
(* alteratorctl services: one run of the program with one argument vector. *)
(* The command is parsed against the service's entry and its current       *)
(* state, its parameters are checked and shown to the user, and after the  *)
(* user's consent the request goes to the service's backend; a playfile    *)
(* may put diagnostics before and after it.  Between any two calls another *)
(* client may change the service, once.                                    *)
(***************************************************************************)
EXTENDS CtlCommon, ServiceJson

CONSTANTS
    Deployments,      \* the parameters the service may be found deployed with
    OtherServices,    \* the other services: a sequence of [resources, json]
    ServiceTools,     \* diag_tools of the entry: [tool -> [test -> [modes, required]]]
    TestNames,        \* all the tests, sorted by name
    EnableForce,      \* enable_force_deploy of the entry
    OptionWords,      \* the words "--path=value": [path, value]
    PlayFiles         \* the playfiles that are played

\* What is done to parameters at every depth: the operators of ServiceParams.
\* The proofs assume nothing of them.
CONSTANTS
    GetInitialParams(_, _, _), MergeJsonData(_, _), FilterParamsByContext(_, _, _),
    ParseParameterArgument(_, _, _, _), BuildParamOptions(_),
    StatusParamsBuildOutput(_, _, _), GetRequiredParametersPaths(_, _)

VARIABLES
    command,             \* the subcommand, of the playfile when one is played
    json,                \* module->json
    play_plan,           \* module->play_plan
    is_dbus_call_error,  \* set by a failed call, and never cleared
    status,              \* the deployment status that was read last
    service_tests,       \* the tools and tests that were selected
    diagnostic_tests,    \* the names of the tests of the first tool of "diagnose"
    todo,                \* the tests of the running loop that are left: [tool, test, known]
    phase,               \* what runs: PRE_DIAG, POST_DIAG; first, second (diagnose); autostart
    failures,            \* has_failures
    service,             \* the service itself: [status, params]
    meddled,             \* whether the other client has made its change
    misread,             \* the last status was empty although the service is deployed
    offered,             \* the parameters of which the user was shown a table
    consented,           \* the user said yes to them
    overruled,           \* the user said yes after failed tests
    sent,                \* the requests sent: [method, json, reply]
    ran,                 \* the tests that ran: <<phase, tool, test, passed>>
    due                  \* the tests that ought to run: those the tools call required before a
                         \* deployment; with "diagnose -a" those of the current mode

ASSUME OtherServicesAreListed ==
    OtherServices \in Seq({OtherServices[i] : i \in DOMAIN OtherServices})

\* An entry names finitely many tools and tests.
ASSUME ToolsAreFinite ==
    /\ IsFiniteSet(DOMAIN ServiceTools)
    /\ \A tool \in DOMAIN ServiceTools : IsFiniteSet(DOMAIN ServiceTools[tool])

memory == <<command, json, play_plan, service_tests>>
loop   == <<diagnostic_tests, todo, phase, failures, overruled, ran, due>>
reads  == <<is_dbus_call_error, status, misread>>
world  == <<service, meddled>>
record == <<offered, consented, sent>>

vars == <<commonVars, memory, loop, reads, world, record>>

Statuses == {"UNDEPLOYED", "DEPLOYED", "DEPLOYED_AND_STARTED"}

Undeployed == [status |-> "UNDEPLOYED", params |-> EmptyObject]

Services == {Undeployed} \cup [status : Statuses \ {"UNDEPLOYED"}, params : Deployments]

Init ==
    /\ CommonInit
    /\ command = argv.sub
    /\ json = NULL /\ play_plan = NULL /\ service_tests = <<>>
    /\ is_dbus_call_error = FALSE /\ status = "UNDEPLOYED" /\ misread = FALSE
    /\ diagnostic_tests = {} /\ todo = <<>> /\ phase = "" /\ failures = FALSE /\ overruled = FALSE /\ ran = {}
    /\ due = NULL
    /\ service \in Services /\ meddled = FALSE
    /\ offered = NULL /\ consented = FALSE /\ sent = <<>>

has(option) == option \in argv.opts

yes == has("-y")
force_deploy == has("-f")
lauch_after_deploy == has("-s")
run_all_tests == has("-a")
no_default == has("--no-default")
except_status_markers == has("-E")

Contextual == {"deploy", "undeploy", "configure", "backup", "restore", "diagnose"}

get_context_from_command_id(c) ==
    IF c = "diagnose" THEN "diag" ELSE IF c \in Contextual THEN c ELSE ""

get_command_id_from_context(c) ==
    IF c \in Contextual \ {"diagnose"} THEN c ELSE ""

Context == get_context_from_command_id(command)

-----------------------------------------------------------------------------
(* The state of the service, as it is read. *)

\* The entry of the service, its interfaces, its object on the bus.
services_module_validate_object_and_iface == BOOLEAN

EntryRead == BOOLEAN

NoText == Unset      \* an empty text

Garbage == Null      \* a text that is not JSON

\* What the backend prints: its state; a failing program prints nothing.
StatusText ==
    IF service.status = "UNDEPLOYED" THEN Obj([deployed |-> Bool(FALSE)])
    ELSE Obj([n \in {"deployed", "started"} \cup DOMAIN service.params.obj |->
                CASE n = "deployed" -> Bool(TRUE)
                  [] n = "started"  -> Bool(service.status = "DEPLOYED_AND_STARTED")
                  [] OTHER          -> service.params.obj[n]])

\* The exit code of the program is looked at only by status_get_json_node.
services_module_status_subcommand ==
    {[ok |-> FALSE, flag |-> FALSE, text |-> NoText, code |-> 0] :
        v \in services_module_validate_object_and_iface \ {TRUE}}
      \cup {[ok |-> FALSE, flag |-> TRUE, text |-> NoText, code |-> 0]}
      \cup {[ok |-> TRUE, flag |-> FALSE, text |-> t[1], code |-> t[2]] :
              t \in {<<StatusText, 0>>, <<Garbage, 0>>, <<NoText, 1>>}}

services_module_status_params_get_state(params) ==
    LET deployed == Member(params, "deployed") = <<Bool(TRUE)>>
        started  == deployed /\ Member(params, "started") = <<Bool(TRUE)>>
    IN IF started THEN "DEPLOYED_AND_STARTED"
       ELSE IF deployed THEN "DEPLOYED" ELSE "UNDEPLOYED"

\* The parameters of the entry under those of the status text.  An empty text
\* is that of an undeployed service.
services_module_status_result_get_service_params(text, initial, context, exclude) ==
    LET defaults == GetInitialParams(~(context = "" /\ exclude), context, exclude)
        merged   == IF initial \/ text = NoText THEN <<defaults>>
                    ELSE IF text = Garbage THEN <<>> ELSE MergeJsonData(defaults, text)
    IN IF merged = <<>> \/ context \in {"", "status"} THEN merged
       ELSE <<FilterParamsByContext(merged[1], context, FALSE)>>

services_module_status_get_json_node(read) ==
    IF ~read.ok \/ read.code # 0 \/ read.text \in {Garbage, NoText} THEN <<>> ELSE <<read.text>>

services_module_is_deployed_from_status_ctx(read) ==
    IF read.text = Garbage THEN <<>>
    ELSE IF read.text = NoText THEN <<"UNDEPLOYED">>
    ELSE <<services_module_status_params_get_state(read.text)>>

services_module_is_deployed(read) ==
    IF read.ok THEN services_module_is_deployed_from_status_ctx(read) ELSE <<>>

\* The effect of a read on what the program remembers.
Noted(read) ==
    /\ is_dbus_call_error' = (is_dbus_call_error \/ read.flag)
    /\ status' = IF services_module_is_deployed(read) = <<>> THEN status
                 ELSE services_module_is_deployed(read)[1]
    /\ misread' = (read.ok /\ read.text = NoText /\ service.status # "UNDEPLOYED")

-----------------------------------------------------------------------------
(* The command line. *)

OppositeServicesOptions ==
    {{"-n", "-p"}, {"-n", "-d"}, {"-d", "-p"}, {"-d", "-D"}, {"-v", "-d"}, {"-v", "-p"},
     {"-N", "-n"}, {"-N", "-D"}, {"-N", "-v"}}
      \cup (IF argv.sub = "diagnose" THEN {} ELSE {{"-v", "-n"}})

services_module_parse_options == \A pair \in OppositeServicesOptions : ~(pair \subseteq argv.opts)

services_module_print_help == Finish

Subcommands == Contextual \cup {"list", "info", "resources", "status", "start", "stop", "play", ""}

\* Help of a command that has no parameters is printed at once.
services_module_parse_arguments ==
    /\ In("services", "parse_arguments")
    /\ command' = IF argv.sub = "" THEN "list" ELSE argv.sub
    /\ IF help_flag /\ argv.sub = "" THEN services_module_print_help
       ELSE IF ~services_module_parse_options \/ argv.sub \notin Subcommands THEN ERR_EXIT
       ELSE IF help_flag /\ argv.sub \notin Contextual THEN services_module_print_help
       ELSE IF argv.sub \in {"", "list"}
         THEN IF argv.args = <<>> THEN Goto("services_module_run") ELSE ERR_EXIT
       ELSE IF argv.args = <<>> THEN ERR_EXIT
       ELSE Goto(CASE argv.sub = "play"                -> "play"
                   [] argv.sub # "play" /\ help_flag   -> "load info"
                   [] argv.sub # "play" /\ ~help_flag  -> "required state")
    /\ UNCHANGED <<argv, results, shown, done, names, json, play_plan, service_tests>>
    /\ UNCHANGED <<loop, reads, world, record>>

\* Mutant: any state will do for a deployment.
RequiredStateLenient(c, forced, found) ==
    c \in {"undeploy", "configure", "backup", "restore"} => found # "UNDEPLOYED"

\* The state that a command needs.
services_module_check_required_state(c, forced, found) ==
    CASE c = "deploy" -> forced \/ found = "UNDEPLOYED"
      [] c \in {"undeploy", "configure", "backup", "restore"} -> found # "UNDEPLOYED"
      [] OTHER -> TRUE

CheckRequiredState ==
    /\ at = "required state"
    /\ \E read \in services_module_status_subcommand :
         LET found == services_module_is_deployed(read)
         IN /\ Noted(read)
            /\ CASE found = <<>> -> ERR_EXIT
                 [] found # <<>> /\ ~services_module_check_required_state(command, force_deploy, found[1])
                      -> ERR_EXIT
                 [] OTHER -> Goto(IF command \in Contextual \cup {"status"} THEN "load info"
                                  ELSE "services_module_run")
    /\ UNCHANGED <<argv, results, shown, done, names>> /\ UNCHANGED <<memory, loop, world, record>>

\* module->info
LoadInfo ==
    /\ at = "load info"
    /\ \E ok \in EntryRead :
         IF ok THEN Goto(CASE command = "diagnose" -> "parse_diagnose_arguments"
                           [] command = "status"   -> "services_module_run"
                           [] OTHER                -> "parse_contextual_arguments")
               ELSE ERR_EXIT
    /\ UNCHANGED <<argv, results, shown, done, names>>
    /\ UNCHANGED <<memory, loop, reads, world, record>>

-----------------------------------------------------------------------------
(* The diagnostic tools of the entry and their tests. *)

Mode(found) == IF found = "UNDEPLOYED" THEN "pre" ELSE "post"

Modes(found, all_modes) == IF all_modes THEN {"pre", "post"} ELSE {Mode(found)}

\* The tool's own list, then the list of those that are required.
diag_list_tests_call(tool, modes, required_only) ==
    {t \in DOMAIN ServiceTools[tool] :
        /\ ServiceTools[tool][t].modes \cap modes # {}
        /\ required_only => ServiceTools[tool][t].required}

services_module_get_diag_tests(tool, modes) ==
    [all |-> diag_list_tests_call(tool, modes, FALSE),
     required |-> diag_list_tests_call(tool, modes, TRUE)]

\* Tools whose entry cannot be read or that are not on their bus are left out.
services_module_get_diag_tools_info == SUBSET DOMAIN ServiceTools

services_module_service_diag_tool_tests_is_no_tests(tests) == tests.all = {} /\ tests.required = {}

\* A list that does not come is read through a null pointer.
services_module_get_service_tests(found, all_modes) ==
    LET tests(tool) == services_module_get_diag_tests(tool, Modes(found, all_modes))
    IN {[is |-> "error", tools |-> <<>>]}
         \cup (IF DOMAIN ServiceTools = {} THEN {[is |-> "ok", tools |-> <<>>]}
               ELSE {[is |-> "crash", tools |-> <<>>]}
                      \cup {[is |-> "ok", tools |-> [t \in present |-> tests(t)]] :
                              present \in {P \in services_module_get_diag_tools_info :
                                 P # {} /\ \A t \in P :
                                   ~services_module_service_diag_tool_tests_is_no_tests(tests(t))}})

IsOption(word) == word \in DOMAIN OptionWords

\* argv without the parameters: the words up to the first option.
ToolsTestsArgv ==
    LET words == Tail(argv.args)
    IN SelectSeq([i \in DOMAIN words |-> IF \E j \in 1..i : IsOption(words[j]) THEN "" ELSE words[i]],
                 LAMBDA w : w # "")

\* A tool, then tests of it; a tool may be named once.
SelectWords(tools) ==
    LET step(acc, word) ==
          CASE ~acc.ok -> acc
            [] acc.ok /\ word \in DOMAIN tools ->
                 IF word \in DOMAIN acc.tests \/ tools[word].all = {} THEN [acc EXCEPT !.ok = FALSE]
                 ELSE [ok |-> TRUE, last |-> word, tests |-> (word :> {}) @@ acc.tests]
            [] OTHER ->
                 IF acc.tests = <<>> THEN [acc EXCEPT !.ok = FALSE]
                 ELSE IF word \notin tools[acc.last].all THEN [acc EXCEPT !.ok = FALSE]
                 ELSE [acc EXCEPT !.tests[acc.last] = @ \cup {word}]
    IN FoldLeft(step, [ok |-> TRUE, last |-> "", tests |-> <<>>], ToolsTestsArgv)

WithRequired(tests, tools) ==
    [t \in DOMAIN tests \cup {u \in DOMAIN tools : tools[u].required # {}} |->
        (IF t \in DOMAIN tests THEN tests[t] ELSE {}) \cup tools[t].required]

services_module_parse_diagnose_arguments ==
    /\ at = "parse_diagnose_arguments"
    /\ \E read \in services_module_status_subcommand :
         LET found == services_module_is_deployed(read)
             all   == run_all_tests \/ help_flag
         IN /\ Noted(read)
            /\ \/ found = <<>> /\ ERR_EXIT /\ UNCHANGED service_tests
               \/ /\ found # <<>>
                  /\ \E got \in services_module_get_service_tests(found[1], all) :
                       LET selected == SelectWords(got.tools)
                       IN CASE got.is = "error" -> ERR_EXIT /\ UNCHANGED service_tests
                            [] got.is = "crash" -> CRASH /\ UNCHANGED service_tests
                            [] got.is = "ok" /\ all ->
                                 /\ IF got.tools = <<>> THEN ERR_EXIT
                                                        ELSE Goto("parse_contextual_arguments")
                                 /\ service_tests' = [t \in DOMAIN got.tools |-> got.tools[t].all]
                            [] got.is = "ok" /\ ~all /\ ~selected.ok -> ERR_EXIT /\ UNCHANGED service_tests
                            [] OTHER -> /\ service_tests' = WithRequired(selected.tests, got.tools)
                                        /\ Goto("parse_contextual_arguments")
    /\ UNCHANGED <<argv, results, shown, done, names, command, json, play_plan>>
    /\ UNCHANGED <<loop, world, record>>

-----------------------------------------------------------------------------
(* The parameters of the command line. *)

WordAfterParameter ==
    /\ command = "diagnose"
    /\ \E i, j \in 2..Len(argv.args) : i < j /\ IsOption(argv.args[i]) /\ ~IsOption(argv.args[j])

ParameterWords ==
    IF command = "diagnose" THEN SelectSeq(Tail(argv.args), IsOption) ELSE Tail(argv.args)

\* What the parameters are before the words: the defaults, in "configure" under
\* the current values; with --no-default the constants of the current state.
StartParameters(read) ==
    IF no_default
      THEN LET node == services_module_status_get_json_node(read)
           IN IF node = <<>> THEN <<>> ELSE <<FilterParamsByContext(node[1], Context, TRUE)>>
    ELSE IF ~read.ok THEN <<>>
    ELSE LET current == services_module_status_result_get_service_params(
                            read.text, command # "configure", Context, TRUE)
         IN IF current = <<>> THEN <<>>
            ELSE MergeJsonData(
                   FilterParamsByContext(GetInitialParams(TRUE, Context, TRUE), Context, FALSE),
                   FilterParamsByContext(current[1], Context, FALSE))

ApproveForce(node) ==
    IF node = <<>> \/ ~force_deploy THEN node
    ELSE IF EnableForce THEN <<SetMember(node[1], "force_deploy", Bool(TRUE))>> ELSE <<>>

ApplyWords(node) ==
    FoldLeft(LAMBDA n, word :
               IF n = <<>> \/ ~IsOption(word) THEN <<>>
               ELSE LET o == OptionWords[word]
                        new == ParseParameterArgument(n[1], o.path, o.value,
                                                        command = "configure" /\ o.value = "")
                    IN IF new.ok THEN <<new.json>> ELSE <<>>,
             node, ParameterWords)

\* The options of the command, as they are listed.
services_module_create_command_usage_help ==
    {<<path, Str("option")>> : path \in BuildParamOptions({Context})}

services_module_parse_contextual_arguments ==
    /\ at = "parse_contextual_arguments"
    /\ \/ /\ help_flag /\ Finish
          /\ shown' = shown \cup services_module_create_command_usage_help
          /\ UNCHANGED <<json, reads>>
       \/ /\ ~help_flag /\ WordAfterParameter /\ ERR_EXIT
          /\ UNCHANGED <<shown, json, reads>>
       \/ /\ ~help_flag /\ ~WordAfterParameter
          /\ \E read \in services_module_status_subcommand, entry \in EntryRead :
               LET new == ApplyWords(ApproveForce(StartParameters(read)))
               IN /\ Noted(read)
                  /\ IF ~entry \/ new = <<>> THEN ERR_EXIT /\ UNCHANGED json
                     ELSE json' = new /\ Goto("confirm_execution")
          /\ UNCHANGED shown
    /\ UNCHANGED <<argv, results, done, names, command, play_plan, service_tests>>
    /\ UNCHANGED <<loop, world, record>>

-----------------------------------------------------------------------------
(* Playfiles. *)

services_play_plan_diag_clear == [enabled |-> FALSE, tests |-> <<>>]

services_module_play_parse_diag_section(section) ==
    IF section = <<>> THEN services_play_plan_diag_clear
    ELSE [enabled |-> section[1].enable,
          tests |-> IF section[1].enable THEN section[1].tests ELSE <<>>]

services_module_play_enable_force_deploy(node) ==
    IF EnableForce THEN <<SetMember(node, "force_deploy", Bool(TRUE))>> ELSE <<>>

\* The plan, and the parameters with force_deploy in them; a plan in which
\* nothing is asked for is dropped.
services_module_play_prepare_plan(action, options, node) ==
    LET o == options[1]
        deploying == action = "deploy"
        forced == deploying /\ o.force = <<TRUE>>
        plan == [prediag  |-> IF forced THEN services_play_plan_diag_clear
                              ELSE services_module_play_parse_diag_section(o.prediag),
                 postdiag |-> services_module_play_parse_diag_section(o.postdiag),
                 autostart |-> IF deploying THEN o.autostart ELSE <<>>,
                 force    |-> IF deploying THEN o.force ELSE <<>>]
        asked == \/ services_module_play_parse_diag_section(o.prediag).enabled
                 \/ plan.postdiag.enabled \/ plan.autostart # <<>> \/ plan.force # <<>>
        new == IF forced THEN services_module_play_enable_force_deploy(node) ELSE <<node>>
    IN CASE options = <<>> -> [ok |-> TRUE, plan |-> <<>>, json |-> node]
         [] options # <<>> /\ new = <<>> -> [ok |-> FALSE, plan |-> <<>>, json |-> node]
         [] OTHER -> [ok |-> TRUE, plan |-> IF asked THEN <<plan>> ELSE <<>>, json |-> new[1]]

\* The playfile is read from a file, or from standard input if it is there yet.
services_module_parse_stdin_param(file) == IF file.stdin THEN BOOLEAN ELSE {TRUE}

\* The state of the service is not looked at here, nor are its defaults.
PlayFile ==
    /\ at = "play"
    /\ LET file == PlayFiles[argv.args[1]]
           action == get_command_id_from_context(file.action)
           prepared == services_module_play_prepare_plan(action, file.options, file.parameters[1])
       IN \E there \in services_module_parse_stdin_param(file), entry \in EntryRead :
            IF /\ there /\ file.is_object /\ file.service /\ file.version \in {<<>>, <<1>>}
               /\ file.parameters # <<>> /\ action # "" /\ entry /\ prepared.ok
              THEN /\ command' = action
                   /\ json' = <<prepared.json>>
                   /\ play_plan' = prepared.plan
                   /\ Goto("confirm_execution")
              ELSE ERR_EXIT /\ UNCHANGED <<command, json, play_plan>>
    /\ UNCHANGED <<argv, results, shown, done, names, service_tests>>
    /\ UNCHANGED <<loop, reads, world, record>>

services_play_plan_requires_diag ==
    play_plan # NULL /\ (play_plan[1].prediag.enabled \/ play_plan[1].postdiag.enabled)

services_play_plan_get == play_plan

-----------------------------------------------------------------------------
(* Consent. *)

services_module_prompt_yes_no_play ==
    IF yes THEN {"YES"} ELSE IF has("not a tty") THEN {"NONTTY"} ELSE {"YES", "NO"}

Secrets == {<<>>, <<"secret">>}

ValidationContexts == {Context} \cup (IF services_play_plan_requires_diag THEN {"diag"} ELSE {})

Table(node) == StatusParamsBuildOutput(node, Parameters, <<>>)

TableFailed(node) == \E row \in Table(node) : row[2] = Failed

\* Validation without the passwords, the passwords, validation with them; the
\* table; the required parameters.
services_module_confirm_execution ==
    /\ at = "confirm_execution"
    /\ \E secret \in Secrets :
         LET lenient == validate_json(json[1], ValidationContexts, TRUE)
             filled  == IF lenient
                          THEN services_fill_missing_passwords(json[1], ValidationContexts, secret)
                          ELSE json
             new     == filled[1]
             valid   == lenient /\ validate_json(new, ValidationContexts, FALSE)
             paths   == GetRequiredParametersPaths(new, Context)
         IN IF filled = <<>> THEN ERR_EXIT /\ UNCHANGED <<json, offered, shown>>
            ELSE /\ json' = filled
                 /\ offered' = filled
                 /\ CASE TableFailed(new) -> ERR_EXIT /\ UNCHANGED shown
                      [] ~TableFailed(new) /\ <<"crash">> \in paths -> CRASH /\ UNCHANGED shown
                      [] ~TableFailed(new) /\ <<"crash">> \notin paths /\ ~valid ->
                           ERR_EXIT /\ shown' = shown \cup Table(new)
                      [] OTHER ->
                           /\ Goto(IF create_params_table(Table(new), paths) = {}
                                      /\ command \in {"deploy", "configure"}
                                   THEN "conflicts" ELSE "prompt")
                           /\ UNCHANGED shown
    /\ UNCHANGED <<argv, results, done, names, command, play_plan, service_tests, consented, sent>>
    /\ UNCHANGED <<loop, reads, world>>

\* How the status of another service may come back.
OtherStatus == {"invalid", "error", "garbage", "undeployed", "deployed"}

\* Services whose status cannot be read are passed over, except the last one of
\* the list; without any other service the list cannot be made at all.
service_module_get_list_of_deployed_services_with_params(found, last) ==
    IF last = 0 \/ (last # 0 /\ found[last] \in {"invalid", "error"}) THEN <<>>
    ELSE <<{i \in DOMAIN found : found[i] = "deployed"}>>

\* The resources against those of one deployed service, if no conflict is known.
ConflictsWith(acc, i, deployed) ==
    IF i \notin deployed \/ acc.is # "ok" THEN acc
    ELSE check_resources_conflicts(acc.json, OtherServices[i])

services_module_find_conflicting_services(node, deployed) ==
    LET acc[i \in 0..Len(OtherServices)] ==
          IF i = 0 THEN [is |-> "ok", json |-> node] ELSE ConflictsWith(acc[i - 1], i, deployed)
    IN acc[Len(OtherServices)]

FindConflicts ==
    /\ at = "conflicts"
    /\ LET inside == IF command = "deploy"
                       THEN find_conflicting_resources_within_current_service(json[1])
                       ELSE [is |-> "ok", json |-> json[1], seen |-> {}]
       IN \/ inside.is = "crash" /\ CRASH /\ UNCHANGED <<json, is_dbus_call_error>>
          \/ inside.is = "error" /\ ERR_EXIT /\ UNCHANGED <<json, is_dbus_call_error>>
          \/ /\ inside.is = "ok"
             /\ \E found \in [DOMAIN OtherServices -> OtherStatus],
                   last \in (IF OtherServices = <<>> THEN {0} ELSE DOMAIN OtherServices),
                   entry \in EntryRead :
                  LET list == service_module_get_list_of_deployed_services_with_params(found, last)
                      out  == services_module_find_conflicting_services(inside.json, list[1])
                  IN /\ is_dbus_call_error' = (is_dbus_call_error \/ \E i \in DOMAIN found : found[i] = "error")
                     /\ CASE list = <<>> \/ ~entry -> ERR_EXIT /\ UNCHANGED json
                          [] list # <<>> /\ entry /\ out.is = "crash" -> CRASH /\ UNCHANGED json
                          [] list # <<>> /\ entry /\ out.is \in {"error", "stop"} ->
                               ERR_EXIT /\ UNCHANGED json
                          [] OTHER -> json' = <<out.json>> /\ Goto("prompt")
    /\ UNCHANGED <<argv, results, shown, done, names, command, play_plan, service_tests>>
    /\ UNCHANGED <<status, misread, loop, world, record>>

\* Mutant: the command goes on whatever the answer is.
PromptForForm ==
    /\ at = "prompt"
    /\ shown' = shown \cup Table(offered[1])
    /\ \E answer \in services_module_prompt_yes_no_play : consented' = (answer = "YES")
    /\ Goto("services_module_run")
    /\ UNCHANGED <<argv, results, done, names, memory, loop, reads, world, offered, sent>>

\* The table was made before the search for conflicts; what is sent is the JSON
\* as it is now.
Prompt ==
    /\ at = "prompt"
    /\ shown' = shown \cup Table(offered[1])
    /\ \E answer \in services_module_prompt_yes_no_play :
         IF answer = "YES" THEN consented' = TRUE /\ Goto("services_module_run")
                           ELSE UNCHANGED consented /\ Finish
    /\ UNCHANGED <<argv, results, done, names, memory, loop, reads, world, offered, sent>>

services_module_run ==
    /\ at = "services_module_run"
    /\ Goto(IF command \in Contextual \ {"diagnose"} THEN "parametrized" ELSE command)
    /\ UNCHANGED <<argv, results, shown, done, names, memory, loop, reads, world, record>>

-----------------------------------------------------------------------------
(* Requests with parameters. *)

HasForce == play_plan # NULL /\ services_play_plan_get[1].force # <<>>

effective_force == IF HasForce THEN play_plan[1].force[1] ELSE force_deploy

need_prediag ==
    play_plan # NULL /\ command = "deploy" /\ play_plan[1].prediag.enabled /\ ~effective_force

need_postdiag ==
    play_plan # NULL /\ command \in {"deploy", "configure"} /\ play_plan[1].postdiag.enabled

services_module_parametrized_subcommand ==
    /\ at = "parametrized"
    /\ \E read \in services_module_status_subcommand :
         LET found == services_module_is_deployed(read)
         IN /\ Noted(read)
            /\ IF \/ found = <<>>
                  \/ ~services_module_check_required_state(command, effective_force, found[1])
                 THEN ERR_EXIT /\ UNCHANGED phase
                 ELSE IF need_prediag THEN phase' = "PRE_DIAG" /\ Goto("play_run_diag")
                                      ELSE UNCHANGED phase /\ Goto("request")
    /\ UNCHANGED <<argv, results, shown, done, names, memory, world, record>>
    /\ UNCHANGED <<diagnostic_tests, todo, failures, overruled, ran, due>>

PlanDiag == IF phase = "PRE_DIAG" THEN play_plan[1].prediag ELSE play_plan[1].postdiag

\* Mutant: the tests of the playfile replace the required ones.
SelectionAsAsked(tools, request) ==
    LET asked(t) == IF request = <<>> \/ t \notin DOMAIN request[1] THEN {}
                    ELSE request[1][t] \cap tools[t].all
    IN [t \in DOMAIN tools |-> IF request = <<>> THEN tools[t].all ELSE asked(t)]

\* The tests the playfile names, as far as the tools know them, and the required
\* tests of every tool; a tool without either runs all of its tests.
PlaySelection(tools, request) ==
    LET asked(t) == IF request = <<>> \/ t \notin DOMAIN request[1] THEN {}
                    ELSE request[1][t] \cap tools[t].all
        chosen == IF request = <<>> \/ (request # <<>> /\ request[1] = <<>>) THEN DOMAIN tools
                  ELSE {t \in DOMAIN tools : t \in DOMAIN request[1] \/ tools[t].required # {}}
    IN [t \in chosen |-> IF asked(t) \cup tools[t].required = {} THEN tools[t].all
                         ELSE asked(t) \cup tools[t].required]

services_module_get_sorted_string_keys(S) == SelectSeq(TestNames, LAMBDA t : t \in S)

Sorted(t, u) == \E i, j \in DOMAIN TestNames : i < j /\ TestNames[i] = t /\ TestNames[j] = u

\* The loop over the tools, in the order of a hash table, and their tests: each
\* test once, those of a tool one after another and sorted.
RunLists(selection) ==
    LET tests == UNION {{[tool |-> tool, test |-> t, known |-> TRUE] : t \in selection[tool]} :
                          tool \in DOMAIN selection}
    IN {order \in [1..Cardinality(tests) -> tests] :
          /\ tests = {order[i] : i \in DOMAIN order}
          /\ \A i, j \in DOMAIN order : i < j /\ order[i].tool = order[j].tool =>
                /\ Sorted(order[i].test, order[j].test)
                /\ \A k \in i..j : order[k].tool = order[i].tool}

Required(tools) == UNION {{t} \X tools[t].required : t \in DOMAIN tools}

\* The early returns jump over the initialisation of what "end:" frees.
services_module_play_run_diag ==
    /\ at = "play_run_diag"
    /\ \E got \in services_module_get_service_tests(status, FALSE) :
         \/ got.is = "error" /\ (ERR_EXIT \/ CRASH) /\ UNCHANGED <<todo, failures, due>>
         \/ got.is = "crash" /\ CRASH /\ UNCHANGED <<todo, failures, due>>
         \/ /\ got.is = "ok"
            /\ LET selection == PlaySelection(got.tools, PlanDiag.tests)
               IN todo' \in RunLists(selection)
            /\ failures' = FALSE
            /\ due' = IF phase = "PRE_DIAG" THEN <<Required(got.tools)>> ELSE due
            /\ Goto("run_test")
    /\ UNCHANGED <<argv, results, shown, done, names, memory, reads, world, record>>
    /\ UNCHANGED <<diagnostic_tests, phase, overruled, ran>>

\* The diag module runs the test: an error, passed, failed.
services_module_run_test ==
    /\ at = "run_test" /\ todo # <<>>
    /\ \E result \in {-1, 0, 1} :
         LET t == Head(todo)
         IN IF ~t.known \/ result < 0
              THEN ERR_EXIT /\ UNCHANGED <<todo, failures, ran>>
              ELSE /\ ran' = ran \cup {<<phase, t.tool, t.test, result = 0>>}
                   /\ failures' = (failures \/ result > 0)
                   /\ todo' = Tail(todo)
                   /\ Goto("run_test")
    /\ UNCHANGED <<argv, results, shown, done, names, memory, reads, world, record>>
    /\ UNCHANGED <<diagnostic_tests, phase, overruled, due>>

\* The log goes to a file whose name nothing else uses.
services_module_maybe_save_diag_log ==
    \E answer \in services_module_prompt_yes_no_play :
       done' = IF answer = "YES" THEN done \cup {[method |-> "save log", over |-> service.status, misread |-> FALSE]} ELSE done

\* Failed tests stop a deployment unless the user says yes; after it they are
\* only reported.
PlayVerdict ==
    /\ at = "run_test" /\ todo = <<>> /\ phase \in {"PRE_DIAG", "POST_DIAG"}
    /\ LET next == IF phase = "PRE_DIAG" THEN "request" ELSE "handle_results"
       IN \/ ~failures /\ Goto(next) /\ UNCHANGED <<overruled, done>>
          \/ /\ failures /\ phase = "POST_DIAG"
             /\ Goto(next) /\ services_module_maybe_save_diag_log /\ UNCHANGED overruled
          \/ /\ failures /\ phase = "PRE_DIAG"
             /\ \E answer \in services_module_prompt_yes_no_play :
                  IF answer = "YES"
                    THEN overruled' = TRUE /\ Goto(next) /\ services_module_maybe_save_diag_log
                    ELSE ERR_EXIT /\ UNCHANGED <<overruled, done>>
    /\ UNCHANGED <<argv, results, shown, names, memory, reads, world, record>>
    /\ UNCHANGED <<diagnostic_tests, todo, phase, failures, ran, due>>

\* The backend's program, when it exits with 0.
Effect(method, node, s) ==
    CASE method = "deploy"   -> [status |-> "DEPLOYED", params |-> RemoveMember(node, "force_deploy")]
      [] method = "undeploy" -> Undeployed
      [] method = "configure" /\ s.status # "UNDEPLOYED" ->
           [s EXCEPT !.params = MergeJsonData(@, node)[1]]
      [] method = "start" /\ s.status # "UNDEPLOYED" -> [s EXCEPT !.status = "DEPLOYED_AND_STARTED"]
      [] method = "stop" /\ s.status # "UNDEPLOYED"  -> [s EXCEPT !.status = "DEPLOYED"]
      [] OTHER -> s

Replies == {[code |-> c] : c \in ExitCodes}

\* A request and its outcome: whether it was executed, and the answer.
Request(method, node, out) ==
    /\ sent' = Append(sent, [method |-> method, json |-> node,
                             reply |-> IF out.res = NULL THEN -1 ELSE out.res[1].code])
    /\ \E was \in WasExecuted(out) :
         IF was THEN /\ service' = Effect(method, node, service)
                     /\ done' = done \cup {[method |-> method, over |-> service.status, misread |-> misread]}
                ELSE UNCHANGED <<service, done>>

\* A name that is no longer known: nothing is sent and there is no error.
Silent == [err |-> "none", res |-> NULL]

SendRequest ==
    /\ at = "request"
    /\ \E out \in call(Replies) \cup {Silent} :
         /\ IF out = Silent THEN UNCHANGED <<sent, service, done>>
                            ELSE Request(command, json[1], out)
         /\ results' = out.res
         /\ is_dbus_call_error' = (is_dbus_call_error \/ out.err # "none")
         /\ IF out.err # "none" THEN ERR_EXIT
            ELSE Goto(IF need_postdiag THEN "postdiag" ELSE "handle_results")
    /\ UNCHANGED <<argv, shown, names, memory, loop, status, misread, meddled, offered, consented>>

\* Diagnostics after a deployment that has not started the service.
PostDiag ==
    /\ at = "postdiag"
    /\ \E read \in services_module_status_subcommand :
         LET found == services_module_is_deployed(read)
         IN /\ Noted(read)
            /\ IF found = <<>> THEN ERR_EXIT /\ UNCHANGED phase
               ELSE IF command = "deploy" /\ found[1] = "DEPLOYED"
                 THEN phase' = "POST_DIAG" /\ Goto("play_run_diag")
                 ELSE UNCHANGED phase /\ Goto("handle_results")
    /\ UNCHANGED <<argv, results, shown, done, names, memory, world, record>>
    /\ UNCHANGED <<diagnostic_tests, todo, failures, overruled, ran, due>>

-----------------------------------------------------------------------------
(* diagnose. *)

CurrentTests(mode) ==
    UNION {{tool} \X {t \in service_tests[tool] : mode \in ServiceTools[tool][t].modes} :
             tool \in DOMAIN service_tests}

services_module_diagnose_subcommand ==
    /\ at = "diagnose"
    /\ \E read \in services_module_status_subcommand, entry \in EntryRead :
         LET current == services_module_status_result_get_service_params(read.text, FALSE, "", TRUE)
         IN /\ Noted(read)
            /\ Goto(IF read.ok /\ entry /\ current # <<>> THEN "diagnose tool" ELSE "failed")
            /\ due' = IF run_all_tests THEN <<CurrentTests(Mode(status'))>> ELSE due
    /\ UNCHANGED <<argv, results, shown, done, names, memory, world, record>>
    /\ UNCHANGED <<diagnostic_tests, todo, phase, failures, overruled, ran>>

\* Test information is there for the tests of all modes; for the tests that
\* were selected by words the name itself is read as if it were a record.
Skipped(tool, names_) ==
    IF run_all_tests
      THEN {{t \in names_ \cap DOMAIN ServiceTools[tool] :
               Mode(status) \notin ServiceTools[tool][t].modes}}
      ELSE SUBSET (names_ \cap service_tests[tool])

\* The first tool runs the tests that were selected for it.  For the next one
\* diagnostic_tests is no longer empty: it is asked for the tests of the first,
\* and then the function ends.
DiagnoseTool ==
    /\ at = "diagnose tool"
    /\ \/ /\ DOMAIN service_tests = {} \/ phase = "second"
          /\ Goto("handle_results")
          /\ UNCHANGED <<diagnostic_tests, todo, phase, service_tests>>
       \/ \E tool \in DOMAIN service_tests, entry \in EntryRead :
            /\ phase # "second"
            /\ LET tests == IF phase = "" THEN service_tests[tool] ELSE diagnostic_tests
               IN IF service_tests[tool] = {} \/ (~entry /\ ~has("-n"))
                    THEN /\ Goto("failed")
                         /\ UNCHANGED <<diagnostic_tests, todo, phase, service_tests>>
                    ELSE \E skipped \in Skipped(tool, tests) :
                           LET order == services_module_get_sorted_string_keys(tests \ skipped)
                           IN /\ diagnostic_tests' = tests
                              /\ todo' = [i \in DOMAIN order |->
                                            [tool |-> tool, test |-> order[i],
                                             known |-> order[i] \in service_tests[tool]]]
                              /\ phase' = IF phase = "" THEN "first" ELSE "second"
                              /\ service_tests' = [t \in DOMAIN service_tests \ {tool} |-> service_tests[t]]
                              /\ Goto("run_test")
    /\ UNCHANGED <<argv, results, shown, done, names, command, json, play_plan>>
    /\ UNCHANGED <<failures, overruled, ran, due, reads, world, record>>

DiagnoseToolEnd ==
    /\ at = "run_test" /\ todo = <<>> /\ phase \in {"first", "second"}
    /\ Goto("diagnose tool")
    /\ UNCHANGED <<argv, results, shown, done, names, memory, loop, reads, world, record>>

Failure ==
    /\ at = "failed" /\ ERR_EXIT
    /\ UNCHANGED <<argv, results, shown, done, names, memory, loop, reads, world, record>>

-----------------------------------------------------------------------------
(* The other subcommands. *)

\* Started when deployed, and stopped when started; start is also what follows
\* a deployment with autostart.
StatusBefore(method, needed) ==
    \E read \in services_module_status_subcommand,
       valid \in services_module_validate_object_and_iface :
         /\ Noted(read)
         /\ IF services_module_is_deployed(read) = <<needed>> /\ valid
              THEN Goto(method) ELSE ERR_EXIT

services_module_start_subcommand ==
    /\ at = "start" /\ StatusBefore("send start", "DEPLOYED")
    /\ UNCHANGED <<argv, results, shown, done, names, memory, loop, world, record>>

services_module_stop_subcommand ==
    /\ at = "stop" /\ StatusBefore("send stop", "DEPLOYED_AND_STARTED")
    /\ UNCHANGED <<argv, results, shown, done, names, memory, loop, world, record>>

SendStartOrStop ==
    /\ at \in {"send start", "send stop"}
    /\ \E out \in call(Replies) \cup {Silent} :
         /\ IF out = Silent THEN UNCHANGED <<sent, service, done>>
            ELSE Request(IF at = "send start" THEN "start" ELSE "stop", EmptyObject, out)
         /\ results' = out.res
         /\ is_dbus_call_error' = (is_dbus_call_error \/ out.res = NULL)
         /\ IF out.res = NULL THEN ERR_EXIT
            ELSE Goto(IF phase = "autostart" THEN "autostart_result" ELSE "handle_results")
    /\ UNCHANGED <<argv, shown, names, memory, loop, status, misread, meddled, offered, consented>>

\* The Info method; its exit code is not looked at.
InfoOutcomes ==
    {[ok |-> FALSE, flag |-> FALSE, text |-> ""]} \cup
      {[ok |-> o.res # NULL, flag |-> o.res = NULL, text |-> IF o.res = NULL THEN "" ELSE o.res[1]] :
         o \in call(Texts) \cup {Silent}}

services_module_info_subcommand ==
    /\ at = "info"
    /\ \E out \in InfoOutcomes :
         /\ is_dbus_call_error' = (is_dbus_call_error \/ out.flag)
         /\ IF out.ok THEN results' = <<out.text>> /\ Goto("handle_results")
                      ELSE UNCHANGED results /\ ERR_EXIT
    /\ UNCHANGED <<argv, shown, done, names, memory, loop, status, misread, world, record>>

\* The services on the bus are this one and the others.
AllServices == 0..Len(OtherServices)

\* An entry that cannot be read is passed over; one that cannot be parsed makes
\* the command fail, after the list.
EntryStates == {"unreadable", "unparsable", "ok"}

\* One status that cannot be read ends the list before anything is printed.
services_module_print_list_with_filters(listed) ==
    {[printed |-> listed, flag |-> FALSE]} \cup
      (IF except_status_markers \/ listed = {} THEN {}
       ELSE {[printed |-> {}, flag |-> f] : f \in BOOLEAN})

services_module_list_subcommand ==
    /\ at = "list"
    /\ \/ ERR_EXIT /\ UNCHANGED <<shown, is_dbus_call_error>>
       \/ \E entries \in [AllServices -> EntryStates] :
            LET listed == {s \in AllServices : entries[s] = "ok"}
            IN \E list \in services_module_print_list_with_filters(listed) :
                 /\ shown' = shown \cup {<<<<"service">>, Num(s)>> : s \in list.printed}
                 /\ is_dbus_call_error' = (is_dbus_call_error \/ list.flag)
                 /\ IF \E s \in AllServices : entries[s] = "unparsable"
                      THEN ERR_EXIT ELSE Goto("handle_results")
    /\ UNCHANGED <<argv, results, done, names, memory, loop, status, misread, world, record>>

\* The text of Info is looked at whatever its exit code is: it may lack the
\* table of resources.
services_module_resources_subcommand ==
    /\ at = "resources"
    /\ \/ \E out \in InfoOutcomes :
            /\ is_dbus_call_error' = (is_dbus_call_error \/ out.flag)
            /\ IF out.ok /\ out.text # "" THEN Goto("handle_results") ELSE ERR_EXIT
            /\ UNCHANGED <<results, json, status, misread>>
       \/ \E read \in services_module_status_subcommand, entry \in EntryRead :
            LET params == services_module_status_result_get_service_params(read.text, FALSE, "", FALSE)
            IN /\ Noted(read)
               /\ IF read.ok /\ entry /\ params # <<>>
                    THEN json' = params /\ results' = <<"entry">> /\ Goto("handle_results")
                    ELSE UNCHANGED <<json, results>> /\ ERR_EXIT
    /\ UNCHANGED <<argv, shown, done, names, command, play_plan, service_tests>>
    /\ UNCHANGED <<loop, world, record>>

services_module_status_command ==
    /\ at = "status"
    /\ \E read \in services_module_status_subcommand :
         /\ Noted(read)
         /\ IF read.ok THEN results' = <<read.text>> /\ Goto("handle_results")
                       ELSE UNCHANGED results /\ ERR_EXIT
    /\ UNCHANGED <<argv, shown, done, names, memory, loop, world, record>>

-----------------------------------------------------------------------------
(* handle_results. *)

\* The value of a resource is its initial one, or that of its parameter.
services_module_printing_resources_value(node) ==
    LET linked(r) == services_module_status_params_get_state(node) # "UNDEPLOYED" /\ r.parameter # ""
        shownRows == {r \in {Resources[i] : i \in DOMAIN Resources} :
                        linked(r) => Member(node, r.parameter) # <<>>}
        value(r) == IF linked(r) THEN Member(node, r.parameter)[1]
                    ELSE IF r.value = <<>> THEN Str("") ELSE r.value[1]
    IN {<<<<r.name>>, IF Is("obj", value(r)) THEN Failed ELSE status_value_to_str(value(r))>> :
          r \in shownRows}

services_module_resources_handle_result ==
    /\ command = "resources"
    /\ \/ results = NULL /\ Finish /\ UNCHANGED shown
       \/ /\ results # NULL
          /\ LET rows == services_module_printing_resources_value(json[1])
             IN IF \E row \in rows : row[2] = Failed THEN ERR_EXIT /\ UNCHANGED shown
                ELSE Finish /\ shown' = shown \cup rows

services_module_info_handle_result ==
    command = "info" /\ Finish /\ shown' = shown \cup {<<<<"info">>, Str(results[1])>>}

\* A deployed service of which the table shows nothing is an error.
services_module_status_handle_result ==
    /\ command = "status"
    /\ \E entry \in EntryRead :
         LET params == services_module_status_result_get_service_params(results[1], FALSE, "", FALSE)
             state  == services_module_status_params_get_state(params[1])
             marker == IF except_status_markers THEN {} ELSE {<<<<"state">>, Str(state)>>}
         IN CASE ~entry \/ params = <<>> -> ERR_EXIT /\ UNCHANGED shown
              [] entry /\ params # <<>> /\ state = "UNDEPLOYED" -> Finish /\ shown' = shown \cup marker
              [] entry /\ params # <<>> /\ state # "UNDEPLOYED" /\ (TableFailed(params[1]) \/ Table(params[1]) = {})
                   -> ERR_EXIT /\ shown' = shown \cup marker
              [] OTHER -> Finish /\ shown' = shown \cup marker \cup Table(params[1])

\* Mutant: an answer is a success.
AnyCodeResult ==
    /\ IF results # NULL THEN Finish ELSE ERR_EXIT
    /\ UNCHANGED <<shown, phase>>

\* Without results the function fails, with them the exit code decides.
ExitCodeResult ==
    /\ IF results # NULL THEN IF results[1].code = 0 THEN Finish ELSE ERR_EXIT ELSE ERR_EXIT
    /\ UNCHANGED <<shown, phase>>

services_module_backup_handle_result == command = "backup" /\ ExitCodeResult

services_module_configure_handle_result == command = "configure" /\ ExitCodeResult

services_module_restore_handle_result == command = "restore" /\ ExitCodeResult

services_module_start_handle_result == command = "start" /\ ExitCodeResult

services_module_stop_handle_result == command = "stop" /\ ExitCodeResult

services_module_undeploy_handle_result == command = "undeploy" /\ ExitCodeResult

should_autostart ==
    IF play_plan # NULL
      THEN IF play_plan[1].autostart # <<>> THEN play_plan[1].autostart[1] ELSE lauch_after_deploy
      ELSE lauch_after_deploy

services_module_deploy_handle_result ==
    /\ command = "deploy"
    /\ CASE results = NULL -> ERR_EXIT /\ UNCHANGED phase
         [] results # NULL /\ results[1].code # 0 -> ERR_EXIT /\ UNCHANGED phase
         [] results # NULL /\ results[1].code = 0 /\ ~should_autostart -> Finish /\ UNCHANGED phase
         [] OTHER -> Goto("start") /\ phase' = "autostart"
    /\ UNCHANGED shown

services_module_handle_results ==
    /\ at = "handle_results" /\ ~is_dbus_call_error
    /\ \/ services_module_resources_handle_result /\ UNCHANGED phase
       \/ services_module_info_handle_result /\ UNCHANGED phase
       \/ services_module_status_handle_result /\ UNCHANGED phase
       \/ services_module_backup_handle_result \/ services_module_configure_handle_result
       \/ services_module_restore_handle_result \/ services_module_undeploy_handle_result
       \/ services_module_start_handle_result \/ services_module_stop_handle_result
       \/ services_module_deploy_handle_result
       \/ command \in {"diagnose", "list"} /\ Finish /\ UNCHANGED <<shown, phase>>
    /\ UNCHANGED <<argv, results, done, names, memory, reads, world, record>>
    /\ UNCHANGED <<diagnostic_tests, todo, failures, overruled, ran, due>>

\* After a failed call, whichever it was, the results are not looked at.
services_module_run_with_args ==
    /\ at = "handle_results" /\ is_dbus_call_error
    /\ Finish
    /\ UNCHANGED <<argv, results, shown, done, names, memory, loop, reads, world, record>>

AutostartResult ==
    /\ at = "autostart_result"
    /\ IF results[1].code = 0 THEN Finish ELSE ERR_EXIT
    /\ UNCHANGED <<argv, results, shown, done, names, memory, loop, reads, world, record>>

-----------------------------------------------------------------------------
(* The specification. *)

Step ==
    \/ /\ AppNext /\ UNCHANGED <<memory, loop, reads, world, record>>
    \/ services_module_parse_arguments \/ CheckRequiredState \/ LoadInfo
    \/ services_module_parse_diagnose_arguments \/ services_module_parse_contextual_arguments
    \/ PlayFile \/ services_module_confirm_execution \/ FindConflicts \/ Prompt
    \/ services_module_run \/ services_module_parametrized_subcommand
    \/ services_module_play_run_diag \/ services_module_run_test \/ PlayVerdict
    \/ SendRequest \/ PostDiag
    \/ services_module_diagnose_subcommand \/ DiagnoseTool \/ DiagnoseToolEnd \/ Failure
    \/ services_module_start_subcommand \/ services_module_stop_subcommand \/ SendStartOrStop
    \/ services_module_info_subcommand \/ services_module_list_subcommand
    \/ services_module_resources_subcommand \/ services_module_status_command
    \/ services_module_handle_results \/ services_module_run_with_args \/ AutostartResult

\* Another client of the backend deploys, undeploys, starts or stops the service.
OtherClient ==
    /\ ~meddled /\ at # "end"
    /\ command \in {"deploy", "undeploy", "configure", "start", "stop"}
    /\ service' \in Services \ {service}
    /\ meddled' = TRUE
    /\ UNCHANGED <<commonVars, memory, loop, reads, record>>

Ended == at = "end" /\ UNCHANGED vars

Next == Step \/ OtherClient \/ Ended

\* The process runs until it has ended.  This is WF_vars(Step) written out: a
\* step of the program is possible at every place but "end" (the runs check
\* for deadlock), and the other client makes one step at most.
Running == []<>(at = "end") \/ []<><<TRUE>>_vars

Spec == Init /\ [][Next]_vars /\ Running

-----------------------------------------------------------------------------
(* Properties. *)

StateFor(method) ==
    CASE method = "deploy" -> {"UNDEPLOYED"}
      [] method = "start"  -> {"DEPLOYED"}
      [] method = "stop"   -> {"DEPLOYED_AND_STARTED"}
      [] OTHER             -> Statuses \ {"UNDEPLOYED"}

\* A request is executed in the state of the service it is meant for: no
\* deployment over a deployed service and no other request on an undeployed
\* one, also when diagnostics run between the check of
\* parametrized_subcommand and the call, and also for a playfile, which
\* parse_arguments does not check.  Excepted are a forced deployment, a
\* change by another client, and a status text that was empty.
StateFits ==
    \A r \in done : r.method # "save log" /\ r.over \notin StateFor(r.method) =>
        meddled \/ r.misread \/ (r.method = "deploy" /\ effective_force)

\* A playfile that asks for diagnostics before the deployment gets them: when
\* Deploy is sent, every test that a tool called required has run, and each
\* test that ran has passed or the user said yes to go on
\* (services_module_play_run_diag).
DiagnosedFirst ==
    need_prediag /\ (\E i \in DOMAIN sent : sent[i].method = "deploy") =>
        /\ due # NULL
        /\ \A d \in due[1] : \E passed \in BOOLEAN : <<"PRE_DIAG", d[1], d[2], passed>> \in ran
        /\ overruled \/ ~\E r \in ran : r[1] = "PRE_DIAG" /\ ~r[4]

\* What is sent is what the user was shown and said yes to: the search for
\* conflicts, which writes into the JSON after the table was made, changes no
\* parameter and adds only parameters that were missing, each with the value
\* that the entry gives to its resource (services_module_confirm_execution).
SentIsOffered ==
    \A i \in DOMAIN sent : sent[i].method \notin {"start", "stop"} =>
        /\ consented
        /\ \A n \in DOMAIN Members(offered[1]) : Member(sent[i].json, n) = Member(offered[1], n)
        /\ \A n \in DOMAIN Members(sent[i].json) \ DOMAIN Members(offered[1]) :
              \E k \in DOMAIN Resources :
                 /\ Resources[k].parameter = n /\ Resources[k].value # <<>>
                 /\ Member(sent[i].json, n) = <<Written(Resources[k].value[1])>>

\* The parameters that the entry requires in the command are there, a string
\* with a text.
HasRequired(node) ==
    \A k \in DOMAIN Parameters :
        LET p == Parameters[k]
        IN /\ ~p.constant
           /\ p.context # <<>> /\ Context \in p.context[1]
           /\ p.required \cap {Context, "*"} # {}
           => /\ Member(node, p.name) \notin {<<>>, <<Null>>}
              /\ p.type = "string" => StrOf(Member(node, p.name)[1]) # ""

\* Every parameter that the entry requires in the command is in the request,
\* a required password with a text: asked for on the terminal or not, from a
\* playfile or from words (the two validations around
\* services_fill_missing_passwords).
RequiredIsSent ==
    \A i \in DOMAIN sent : sent[i].method \notin {"start", "stop"} => HasRequired(sent[i].json)

\* Exit code 0 after consent means that the request was executed, and with
\* autostart that the service was started, unless some call failed on the way
\* (is_dbus_call_error, which run_with_args takes for the result of the
\* command) or another client interfered.
SuccessMeansDone ==
    at = "end" /\ ret = 0 /\ consented /\ command # "diagnose" /\ ~is_dbus_call_error =>
        /\ \E r \in done : r.method = command
        /\ command = "deploy" /\ should_autostart => \E r \in done : r.method = "start"

Command == INSTANCE ServiceCommand
    WITH Methods  <- Contextual \ {"diagnose"},
         consent  <- consented,
         requests <- [i \in DOMAIN sent |-> [method |-> sent[i].method, ok |-> sent[i].reply = 0]],
         over     <- at = "end"

\* The program implements the abstract command: consent before the request,
\* one request, a start only after a successful deployment, and an end.
CommandKept == Command!CommandSpec

\* "Run all diagnostics tests in current mode" (the help of diagnose -a): at a
\* successful end every test of the current mode has run, of all the tools
\* that were found.
AllTestsRun ==
    at = "end" /\ ret = 0 /\ command = "diagnose" /\ due # NULL =>
        \A d \in due[1] : \E r \in ran : r[2] = d[1] /\ r[3] = d[2]

=============================================================================
