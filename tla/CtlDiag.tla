------------------------------- MODULE CtlDiag -------------------------------
(***************************************************************************)
(* The diag module of alteratorctl: diagnostic tools on the system bus and *)
(* on the session bus, their tests, and the reports they write.  A tool is *)
(* looked up anew for every call, on each bus, so that what one call found *)
(* need not be there for the next.                                         *)
(***************************************************************************)
EXTENDS CtlCommon

CONSTANTS
    Tests,         \* the tests a tool may have, in the order they run
    TestCodes      \* what a test may return: 0 pass, 2 warn, 102 skip, else fail

VARIABLES
    exit_code,     \* module->exit_code
    buses,         \* the buses whose tests still have to be run
    todo,          \* the tests that still have to be run on Head(buses)
    ran,           \* <<bus, test, code>>: what the tools really did
    files          \* reports that were written, by bus

diagVars == <<exit_code, buses, todo, ran, files>>

DiagInit ==
    /\ exit_code = 0 /\ buses = <<>> /\ todo = <<>>
    /\ ran = {} /\ files = {}

TestSet == {Tests[i] : i \in 1..Len(Tests)}

system_bus == "--system" \in argv.opts
session_bus == "--session" \in argv.opts
both_buses == system_bus <=> session_bus
is_root == "as root" \in argv.opts

OppositeDiagOptions ==
    {{"--name-only", "--path-only"}, {"--name-only", "--display-name-only"},
     {"--display-name-only", "--path-only"}, {"--display-name-only", "--no-display-name"},
     {"-v", "--display-name-only"}, {"-v", "--path-only"},
     {"--no-name", "--name-only"}, {"--no-name", "--no-display-name"}, {"-v", "--no-name"}}

\* Verbose output goes with --name-only in "run" only.
diag_module_parse_options ==
    /\ argv.opts \subseteq {"as root", "-v", "--name-only", "--no-name", "--path-only",
                            "--display-name-only", "--no-display-name", "--system",
                            "--session"}
    /\ \A pair \in OppositeDiagOptions : ~(pair \subseteq argv.opts)
    /\ argv.sub # "run" => ~({"-v", "--name-only"} \subseteq argv.opts)

\* A first word that is no command is the name of a tool whose tests are listed.
diag_subcommand ==
    CASE argv.sub = "info" /\ Len(argv.args) = 1   -> "info"
      [] argv.sub = "list" /\ argv.args = <<>>     -> "list_all"
      [] argv.sub = "list" /\ Len(argv.args) = 1   -> "list_tests"
      [] argv.sub = "report" /\ Len(argv.args) = 2 -> "report"
      [] argv.sub = "run" /\ Len(argv.args) = 1    -> "run_tool"
      [] argv.sub = "run" /\ Len(argv.args) = 2    -> "run_tool_test"
      [] argv.sub = "" /\ argv.args = <<>>         -> "list_all"
      [] argv.sub = "tool" /\ argv.args = <<>>     -> "list_tests"
      [] OTHER                                     -> "wrong"

diag_module_parse_arguments ==
    /\ In("diag", "parse_arguments")
    /\ IF help_flag \/ (diag_module_parse_options /\ diag_subcommand # "wrong")
         THEN Goto("diag_module_run") ELSE ERR_EXIT
    /\ UNCHANGED <<argv, results, shown, done, names>> /\ UNCHANGED diagVars

diag_module_run ==
    /\ In("diag", "diag_module_run")
    /\ Goto(IF help_flag THEN "diag_module_handle_results" ELSE diag_subcommand)
    /\ UNCHANGED <<argv, results, shown, done, names>> /\ UNCHANGED diagVars

ToolWord == IF argv.sub = "tool" THEN "tool" ELSE argv.args[1]

IsName == ToolWord # "/tool"

\* The object and its interface, on one bus.
diag_module_validate_object_and_iface == BOOLEAN

\* On which buses the tool is; root has no session bus.
ToolBuses == {f \in [{"system", "session"} -> diag_module_validate_object_and_iface] :
                is_root => ~f["session"]}

\* Those of them that the options select.
Selected(exists) ==
    (IF exists["system"] /\ (system_bus \/ both_buses) THEN {"system"} ELSE {})
      \cup (IF exists["session"] /\ (session_bus \/ both_buses) THEN {"session"} ELSE {})

diag_module_info_subcommand ==
    /\ In("diag", "info")
    /\ \E exists \in ToolBuses, failed \in SUBSET {"system", "session"} :
         IF Selected(exists) = {} \/ Selected(exists) \cap failed # {}
           THEN ERR_EXIT /\ UNCHANGED results
           ELSE results' = <<Selected(exists)>> /\ Goto("diag_module_handle_results")
    /\ UNCHANGED <<argv, shown, done, names>> /\ UNCHANGED diagVars

\* The List method.  The error of the call is not asked for, and without a
\* reply the list is read through a null pointer.
diag_module_get_list_of_tests ==
    [is : {"crash", "error"}, tests : {{}}] \cup [is : {"ok"}, tests : SUBSET TestSet]

diag_module_list_tests_subcommand ==
    /\ In("diag", "list_tests")
    /\ \E exists \in ToolBuses :
         IF exists["system"] \/ exists["session"]
           THEN \E lists \in [Selected(exists) -> diag_module_get_list_of_tests] :
                  \/ \E b \in DOMAIN lists : lists[b].is = "crash" /\ CRASH /\ UNCHANGED results
                  \/ \E b \in DOMAIN lists : lists[b].is = "error" /\ ERR_EXIT /\ UNCHANGED results
                  \/ /\ \A b \in DOMAIN lists : lists[b].is = "ok"
                     /\ results' = <<DOMAIN lists>>
                     /\ Goto("diag_module_handle_results")
           ELSE ERR_EXIT /\ UNCHANGED results
    /\ UNCHANGED <<argv, shown, done, names>> /\ UNCHANGED diagVars

\* The names of the tools on each bus that is asked; a bus without tools, or
\* whose tools cannot be read, has no entry.
diag_module_list_all_subcommand ==
    /\ In("diag", "list_all")
    /\ \E found \in [Selected([b \in {"system", "session"} |-> b = "session" => ~is_root])
                       -> 0..2] :
         results' = <<[b \in {c \in DOMAIN found : found[c] > 0} |-> found[b]]>>
    /\ Goto("diag_module_handle_results")
    /\ UNCHANGED <<argv, shown, done, names>> /\ UNCHANGED diagVars

\* The suffix of the file comes from the entry of the tool.
diag_module_get_file_suffix == BOOLEAN

\* The suffix, then the Report method; a name that is no longer known gives no
\* reply and no error, and the reply is packed without a check.
diag_module_get_report ==
    {IF ~suffix THEN "error"
     ELSE IF o.err # "none" THEN "error"
     ELSE IF o.res = NULL THEN "crash" ELSE "report" :
        suffix \in diag_module_get_file_suffix,
        o \in call({"report"}) \cup
              (IF IsName THEN {[err |-> "none", res |-> NULL]} ELSE {})}

diag_module_report_subcommand ==
    /\ In("diag", "report")
    /\ \E exists \in ToolBuses :
         IF exists["system"] \/ exists["session"]
           THEN \E got \in [Selected(exists) -> diag_module_get_report] :
                  \/ \E b \in DOMAIN got : got[b] = "crash" /\ CRASH /\ UNCHANGED results
                  \/ \E b \in DOMAIN got : got[b] = "error" /\ ERR_EXIT /\ UNCHANGED results
                  \/ /\ \A b \in DOMAIN got : got[b] = "report"
                     /\ IF is_root /\ "system" \notin DOMAIN got
                          THEN ERR_EXIT /\ UNCHANGED results
                          ELSE results' = <<DOMAIN got>> /\ Goto("diag_module_handle_results")
           ELSE ERR_EXIT /\ UNCHANGED results
    /\ UNCHANGED <<argv, shown, done, names>> /\ UNCHANGED diagVars

\* Which buses a run visits, in order.  With one bus option a tool that is not
\* on that bus is an error, and root with --session has no connection at all.
RunBuses ==
    IF both_buses
      THEN {SelectSeq(<<"system", "session">>, LAMBDA b : exists[b]) : exists \in ToolBuses}
      ELSE IF system_bus THEN {<<"system">>, <<>>} ELSE {<<"session">>, <<>>}

StartRun ==
    /\ \/ is_root /\ session_bus /\ ~both_buses /\ CRASH /\ UNCHANGED buses
       \/ /\ ~(is_root /\ session_bus /\ ~both_buses)
          /\ \E order \in RunBuses :
               IF order = <<>> THEN ERR_EXIT /\ UNCHANGED buses
                               ELSE buses' = order /\ Goto("diag_module_get_and_run_test")
    /\ UNCHANGED <<argv, results, shown, done, names>>
    /\ UNCHANGED <<exit_code, todo, ran, files>>

diag_module_run_tool_test_subcommand == In("diag", "run_tool_test") /\ StartRun

diag_module_run_tool_subcommand == In("diag", "run_tool") /\ StartRun

\* The tests of the tool on the next bus: all of them, sorted, or the one asked
\* for.  Every bus is visited in turn.
diag_module_get_and_run_test ==
    /\ In("diag", "diag_module_get_and_run_test")
    /\ \E list \in diag_module_get_list_of_tests :
         \/ list.is = "crash" /\ CRASH /\ UNCHANGED todo
         \/ list.is = "error" /\ ERR_EXIT /\ UNCHANGED todo
         \/ /\ list.is = "ok"
            /\ LET wanted == IF diag_subcommand = "run_tool" THEN list.tests
                             ELSE list.tests \cap {argv.args[2]}
               IN IF wanted = {} THEN ERR_EXIT /\ UNCHANGED todo
                  ELSE /\ todo' = SelectSeq(Tests, LAMBDA t : t \in wanted)
                       /\ Goto("diag_module_run_test")
    /\ UNCHANGED <<argv, results, shown, done, names>>
    /\ UNCHANGED <<exit_code, buses, ran, files>>

\* The Run method, with the output of the test as signals.  A single test is
\* run by the word the user typed: a name that is no longer known gives no
\* reply and no error, and the initial result, 0, stands.
diag_module_run_test(o) ==
    CASE o.err # "none" -> [failed |-> TRUE,  result |-> 0]
      [] o.res # NULL   -> [failed |-> FALSE, result |-> o.res[1]]
      [] OTHER          -> [failed |-> FALSE, result |-> 0]

\* Mutant: the last test decides.
LastResult(result) == result

\* A run of all tests keeps a result that is not 0, a single test overwrites it.
KeptResult(result) ==
    IF diag_subcommand = "run_tool" /\ result = 0 THEN exit_code ELSE result

RunNextTest ==
    /\ In("diag", "diag_module_run_test")
    /\ \E o \in call(TestCodes) \cup
                (IF IsName /\ diag_subcommand = "run_tool_test"
                   THEN {[err |-> "none", res |-> NULL]} ELSE {}) :
         LET outcome == diag_module_run_test(o)
         IN /\ ran' = IF o.res = NULL THEN ran
                      ELSE ran \cup {<<Head(buses), Head(todo), o.res[1]>>}
            /\ IF outcome.failed
                 THEN ERR_EXIT /\ UNCHANGED <<exit_code, buses, todo>>
                 ELSE /\ exit_code' = KeptResult(outcome.result)
                      /\ todo' = Tail(todo)
                      /\ buses' = IF Len(todo) > 1 THEN buses ELSE Tail(buses)
                      /\ Goto(IF Len(todo) > 1 THEN "diag_module_run_test"
                              ELSE IF Len(buses) > 1 THEN "diag_module_get_and_run_test"
                              ELSE "diag_module_handle_results")
    /\ UNCHANGED <<argv, results, shown, done, names, files>>

diag_module_handle_info_results == shown' = results[1] /\ at' = "end" /\ ret' = exit_code

\* The tool is looked up again, its entry read again, and the tests that are
\* printed are those of the entry.
diag_module_handle_list_tests_results ==
    \E exists \in ToolBuses, bad \in BOOLEAN :
        IF bad THEN ERR_EXIT /\ UNCHANGED shown
        ELSE shown' = Selected(exists) \cap results[1] /\ at' = "end" /\ ret' = exit_code

\* The tools are fetched again, and as many of them are read as there were
\* names before.
diag_module_handle_list_all_results ==
    \E again \in [DOMAIN results[1] -> 0..2] :
        IF \E b \in DOMAIN again : again[b] < results[1][b]
          THEN CRASH /\ UNCHANGED shown
          ELSE shown' = DOMAIN again /\ at' = "end" /\ ret' = exit_code

\* One file per report, the second one with "_session" in its name.
diag_module_handle_report_results ==
    \E ok \in [results[1] -> BOOLEAN] :
        /\ files' = {b \in results[1] : ok[b]}
        /\ IF \A b \in results[1] : ok[b] THEN at' = "end" /\ ret' = exit_code ELSE ERR_EXIT
        /\ UNCHANGED shown

diag_module_handle_results ==
    /\ In("diag", "diag_module_handle_results")
    /\ \/ help_flag /\ Finish /\ UNCHANGED <<shown, files>>
       \/ ~help_flag /\ diag_subcommand = "info"
             /\ diag_module_handle_info_results /\ UNCHANGED files
       \/ ~help_flag /\ diag_subcommand = "list_tests"
             /\ diag_module_handle_list_tests_results /\ UNCHANGED files
       \/ ~help_flag /\ diag_subcommand = "list_all"
             /\ diag_module_handle_list_all_results /\ UNCHANGED files
       \/ ~help_flag /\ diag_subcommand = "report" /\ diag_module_handle_report_results
       \/ ~help_flag /\ diag_subcommand \in {"run_tool", "run_tool_test"}
             /\ at' = "end" /\ ret' = exit_code /\ UNCHANGED <<shown, files>>
    /\ UNCHANGED <<argv, results, done, names>>
    /\ UNCHANGED <<exit_code, buses, todo, ran>>

DiagNext ==
    \/ diag_module_parse_arguments \/ diag_module_run
    \/ diag_module_info_subcommand \/ diag_module_list_tests_subcommand
    \/ diag_module_list_all_subcommand \/ diag_module_report_subcommand
    \/ diag_module_run_tool_test_subcommand \/ diag_module_run_tool_subcommand
    \/ diag_module_get_and_run_test \/ RunNextTest \/ diag_module_handle_results

-----------------------------------------------------------------------------
(* Properties. *)

\* The exit code of a run of all the tests of a tool is not 0 when one of them
\* did not pass, on whichever bus and however many passed after it
\* (diag_module_get_and_run_test keeps the last result that is not 0).
FailureIsRemembered ==
    at = "end" /\ ret = 0 /\ argv.module = "diag" /\ ~help_flag /\ diag_subcommand = "run_tool"
        => \A r \in ran : r[3] = 0

=============================================================================
