------------------------------ MODULE CtlProofs ------------------------------
(***************************************************************************)
(* The safety properties of alteratorctl, for any command line, any        *)
(* packages, any catalogue of components and any answers of the service.   *)
(*                                                                         *)
(* A command stays in one module, and its functions run in the order of    *)
(* "at", so the invariants say per module what is known before which       *)
(* function.  IInv is about what changes the machine: nothing is agreed or *)
(* lost before the user has answered, what was agreed is what the plan     *)
(* removes when ApplyAsync is called, and the words of the request are the *)
(* user's (packages) or the plan's (components).  ShowPlan is shared by    *)
(* the two modules: it is the one function that only "at" guards.          *)
(*                                                                         *)
(* ListInv, in the second half, is about the lists of components: sections *)
(* are printed after the statuses have been read and the statuses stay, so *)
(* every printed category has the summary of the components below it.  It  *)
(* rests on what the tree of a section is and on what the traversal of a   *)
(* tree computes.  The latter is proved from the least counterexample: of     *)
(* the elements with a wrong summary, one below which there is least.      *)
(***************************************************************************)
EXTENDS Ctl, TLAPS, FiniteSetTheorems, NaturalsInduction

AppFunctions == {"alterator_ctl_app_parse_args", "alterator_ctl_app_run"}

ShowsPlan == "packages_module_apt_check_apply_package_info"

-----------------------------------------------------------------------------
(* The inductive invariant. *)

\* All the tests of a tool are run.
RunsAll == argv.module = "diag" /\ ~help_flag /\ diag_subcommand = "run_tool"

AllPassed == \A r \in ran : r[3] = 0

\* The exit code is 0 only while everything has passed, and nothing else ends
\* such a run with 0 once a test has run.
DiagInv ==
  argv.module = "diag" =>
    /\ at # ShowsPlan
    /\ at \in AppFunctions => ran = {}
    /\ RunsAll /\ exit_code = 0 => AllPassed
    /\ RunsAll /\ at = "end" /\ ret = 0 => AllPassed

\* What parsing has made sure of before a subcommand runs.
Parsed ==
  /\ argv.sub \in {"rpm", "apt", "repo"}
  /\ argv.sub \in {"rpm", "apt"} /\ argv.args[1] \in {"install", "remove"} => HasWord

Typed == {argv.args[i] : i \in 1..Len(argv.args)}

OnScreen == plan[1].to_remove \cup plan[1].extra_remove

Agreement == lost = {} /\ agreed = <<OnScreen>>

PackagesInv ==
  argv.module = "packages" =>
    /\ at \notin {"ApplyAsync", "packages_module_handle_results", "end"}
         => agreed = NULL /\ lost = {}
    /\ at = "packages_module_run" /\ ~help_flag => Parsed
    /\ at \in {"rpm", "apt", "repo"} => Parsed /\ argv.sub = at
    /\ at \in {"get_check_apply_result", ShowsPlan, "ApplyAsync"}
         => packages_list.del \subseteq Typed
    /\ at = "ApplyAsync" => Agreement
    /\ ManualRemovalAgreed

ComponentsInv ==
  argv.module = "components" =>
    /\ at \notin {"ApplyAsync", "components_module_handle_results", "end"}
         => agreed = NULL /\ lost = {}
    /\ at \in {ShowsPlan, "ApplyAsync"} => packages_list.del \subseteq OnScreen
    /\ at = "ApplyAsync" => Agreement
    /\ at = "components_module_handle_results" /\ agreed # NULL
         => <<"apply", packages_list>> \in done
    /\ ManualRemovalAgreed
    /\ AcceptedIsApplied

\* The other commands have no transactions.
OthersInv == argv.module \notin {"packages", "components"} => lost = {}

\* apt-mark shows installed packages only.
MarkedIsInstalled == manual \subseteq installed

IInv == DiagInv /\ PackagesInv /\ ComponentsInv /\ OthersInv /\ MarkedIsInstalled

\* What is installed changes by an agreed transaction or by rpm, whatever the
\* command and whatever the service answers (ApplyAsync comes after the
\* question of packages_module_apt_check_apply_package_info only).
ChangeIsAgreed ==
  [][installed' # installed =>
       agreed # NULL \/ (argv.module = "packages" /\ argv.sub = "rpm")]_vars

-----------------------------------------------------------------------------
(* A command stays in its module: the invariant of the others is vacuous.  *)

LEMMA SameCommand ==
  ASSUME argv' = argv
  PROVE  /\ (RunsAll' <=> RunsAll) /\ (Parsed' <=> Parsed) /\ Typed' = Typed
         /\ (help_flag' <=> help_flag)
BY DEF RunsAll, Parsed, Typed, HasWord, help_flag, diag_subcommand

LEMMA OtherCommand ==
  ASSUME IInv, argv' = argv, argv.module \notin {"diag", "packages", "components"},
         UNCHANGED <<lost, installed, manual>>
  PROVE  IInv'
BY DEF IInv, DiagInv, PackagesInv, ComponentsInv, OthersInv, MarkedIsInstalled

LEMMA DiagCommand ==
  ASSUME IInv, argv' = argv, argv.module = "diag", UNCHANGED packagesVars, DiagInv'
  PROVE  IInv'
BY DEF IInv, PackagesInv, ComponentsInv, OthersInv, MarkedIsInstalled, packagesVars

LEMMA PackagesCommand ==
  ASSUME argv' = argv, argv.module = "packages", PackagesInv', MarkedIsInstalled'
  PROVE  IInv'
BY DEF IInv, DiagInv, ComponentsInv, OthersInv

LEMMA ComponentsCommand ==
  ASSUME argv' = argv, argv.module = "components", ComponentsInv', MarkedIsInstalled'
  PROVE  IInv'
BY DEF IInv, DiagInv, PackagesInv, OthersInv

-----------------------------------------------------------------------------
(* manager, editions and systeminfo. *)

LEMMA QueryModule ==
  ASSUME QueryNext
  PROVE  argv' = argv /\ argv.module \in {"manager", "editions", "systeminfo"}
<1>1. CASE ManagerNext
  BY <1>1 DEF ManagerNext, manager_module_parse_arguments, manager_module_run,
     manager_module_run_subcommand_getobjects, manager_module_run_subcommand_getifaces,
     manager_module_run_subcommand_getsignals, manager_module_handle_results, In
<1>2. CASE EditionsNext
  BY <1>2 DEF EditionsNext, editions_module_parse_arguments, editions_module_run,
     editions_module_description_subcommand, editions_module_license_subcommand,
     editions_module_info_subcommand, editions_module_list_subcommand,
     editions_module_set_current_subcommand, editions_module_get_subcommand,
     editions_module_handle_results, In
<1>3. ASSUME NEW p, NEW V, GetProperty(p, V)
      PROVE  argv' = argv /\ argv.module = "systeminfo"
  BY <1>3 DEF GetProperty, In
<1>4. CASE SysteminfoNext
  BY <1>3, <1>4 DEF SysteminfoNext, systeminfo_module_parse_arguments, systeminfo_module_run,
     systeminfo_module_get_hostname_subcommand,
     systeminfo_module_get_operation_system_name_subcommand,
     systeminfo_module_get_arch_subcommand, systeminfo_module_get_branch_subcommand,
     systeminfo_module_get_kernel_subcommand, systeminfo_module_get_cpu_subcommand,
     systeminfo_module_get_gpu_subcommand, systeminfo_module_get_memory_subcommand,
     systeminfo_module_get_drive_subcommand, systeminfo_module_get_monitor_subcommand,
     systeminfo_module_get_motherboard_subcommand, systeminfo_module_get_locales_subcommand,
     systeminfo_module_get_desktops_subcommand, systeminfo_module_handle_results, In
<1> QED BY <1>1, <1>2, <1>4 DEF QueryNext

LEMMA QueryInv ==
  ASSUME IInv, QueryNext, UNCHANGED packagesVars
  PROVE  IInv'
BY QueryModule, OtherCommand DEF packagesVars

-----------------------------------------------------------------------------
(* The application. *)

\* A step in which the process moves on to another function, or ends, and
\* changes neither the machine nor what is known about it.
Moves ==
  /\ argv' = argv /\ done' = done
  /\ UNCHANGED diagVars /\ UNCHANGED packagesVars

LEMMA AppInv ==
  ASSUME IInv, AppNext, UNCHANGED <<diagVars, packagesVars, componentsVars>>
  PROVE  IInv'
<1>1. Moves /\ at \in AppFunctions
  BY DEF Moves, AppNext, alterator_ctl_app_parse_args, alterator_ctl_app_run, AppFunctions
<1>2. \/ at' = "end"
      \/ at' \in {"alterator_ctl_app_run", "parse_arguments"}
  BY DEF AppNext, alterator_ctl_app_parse_args, alterator_ctl_app_run, ERR_EXIT, Finish, Goto,
     alterator_ctl_app_list_modules
<1>3. DiagInv'
  BY <1>1, <1>2, SameCommand DEF IInv, DiagInv, Moves, diagVars, AllPassed, AppFunctions, ShowsPlan
<1>4. PackagesInv'
  BY <1>1, <1>2 DEF IInv, PackagesInv, Moves, packagesVars, AppFunctions, ManualRemovalAgreed,
     ShowsPlan
<1>5. ComponentsInv'
  BY <1>1, <1>2 DEF IInv, ComponentsInv, Moves, packagesVars, AppFunctions, ManualRemovalAgreed,
     AcceptedIsApplied, ShowsPlan
<1>6. OthersInv' /\ MarkedIsInstalled'
  BY <1>1 DEF IInv, OthersInv, MarkedIsInstalled, Moves, packagesVars
<1> QED BY <1>3, <1>4, <1>5, <1>6 DEF IInv

\* The process dies while nothing else changes.
LEMMA CrashInv ==
  ASSUME IInv, names_use_after_free, UNCHANGED <<diagVars, packagesVars, componentsVars>>
  PROVE  IInv'
<1>1. Moves /\ at' = "end" /\ ret' # 0 /\ ~(at = "end")
  BY DEF Moves, names_use_after_free, CRASH
<1>2. DiagInv'
  BY <1>1, SameCommand DEF IInv, DiagInv, Moves, diagVars, AllPassed, AppFunctions, ShowsPlan
<1>3. PackagesInv'
  BY <1>1 DEF IInv, PackagesInv, Moves, packagesVars, ManualRemovalAgreed, ShowsPlan
<1>4. ComponentsInv'
  BY <1>1 DEF IInv, ComponentsInv, Moves, packagesVars, ManualRemovalAgreed, AcceptedIsApplied,
     ShowsPlan
<1>5. OthersInv' /\ MarkedIsInstalled'
  BY <1>1 DEF IInv, OthersInv, MarkedIsInstalled, Moves, packagesVars
<1> QED BY <1>2, <1>3, <1>4, <1>5 DEF IInv

-----------------------------------------------------------------------------
(* diag. *)

\* The functions before and after the tests: they end with the exit code, with
\* an error, or with the help.
DiagMoves ==
  /\ argv' = argv /\ argv.module = "diag"
  /\ UNCHANGED <<exit_code, ran>>
  /\ at' # ShowsPlan /\ at' \notin AppFunctions
  /\ RunsAll /\ at' = "end" => ret' \in {-1, 134, exit_code}

LEMMA DiagMovesInv ==
  ASSUME IInv, DiagMoves, UNCHANGED packagesVars
  PROVE  IInv'
<1>1. RunsAll' <=> RunsAll BY SameCommand DEF DiagMoves
<1>2. RunsAll /\ at' = "end" /\ ret' = 0 => exit_code = 0 BY DEF DiagMoves
<1>3. DiagInv' BY <1>1, <1>2 DEF IInv, DiagInv, DiagMoves, AllPassed
<1> QED BY <1>3, DiagCommand DEF DiagMoves

LEMMA DiagSubcommands ==
  diag_subcommand \in {"info", "list_all", "list_tests", "report", "run_tool", "run_tool_test",
                       "wrong"}
BY DEF diag_subcommand

LEMMA DiagNextMoves ==
  ASSUME DiagNext, ~RunNextTest
  PROVE  DiagMoves
<1> USE DEF DiagMoves, In, ERR_EXIT, CRASH, Finish, Goto, diagVars, ShowsPlan, AppFunctions
<1>1. CASE diag_module_parse_arguments BY <1>1 DEF diag_module_parse_arguments
<1>2. CASE diag_module_run BY <1>2, DiagSubcommands DEF diag_module_run
<1>3. CASE diag_module_info_subcommand BY <1>3 DEF diag_module_info_subcommand
<1>4. CASE diag_module_list_tests_subcommand BY <1>4 DEF diag_module_list_tests_subcommand
<1>5. CASE diag_module_list_all_subcommand BY <1>5 DEF diag_module_list_all_subcommand
<1>6. CASE diag_module_report_subcommand BY <1>6 DEF diag_module_report_subcommand
<1>7. CASE diag_module_run_tool_test_subcommand \/ diag_module_run_tool_subcommand
  BY <1>7 DEF diag_module_run_tool_test_subcommand, diag_module_run_tool_subcommand, StartRun
<1>8. CASE diag_module_get_and_run_test BY <1>8 DEF diag_module_get_and_run_test
<1>9. CASE diag_module_handle_results
  <2>1. UNCHANGED <<argv, exit_code, ran>> /\ argv.module = "diag"
    BY <1>9 DEF diag_module_handle_results
  <2>2. at' = "end" /\ (ret' \in {-1, 134, exit_code} \/ help_flag)
    BY <1>9 DEF diag_module_handle_results, diag_module_handle_info_results,
       diag_module_handle_list_tests_results, diag_module_handle_list_all_results,
       diag_module_handle_report_results
  <2> QED BY <2>1, <2>2 DEF RunsAll
<1> QED
  BY <1>1, <1>2, <1>3, <1>4, <1>5, <1>6, <1>7, <1>8, <1>9 DEF DiagNext

\* KeptResult forgets no failure.
LEMMA RunNextTestInv ==
  ASSUME IInv, RunNextTest, UNCHANGED packagesVars
  PROVE  IInv'
<1>1. argv' = argv /\ argv.module = "diag" /\ at' # ShowsPlan /\ at' \notin AppFunctions
  BY DEF RunNextTest, In, ERR_EXIT, Goto, ShowsPlan, AppFunctions
<1>2. at' = "end" => ret' = -1
  BY DEF RunNextTest, ERR_EXIT, Goto
<1>3. RunsAll' <=> RunsAll BY <1>1, SameCommand
<1>4. ASSUME RunsAll, exit_code' = 0 PROVE AllPassed'
  <2>1. PICK o \in call(TestCodes) :
          LET outcome == diag_module_run_test(o)
          IN /\ ran' = IF o.res = NULL THEN ran
                       ELSE ran \cup {<<Head(buses), Head(todo), o.res[1]>>}
             /\ outcome.failed => exit_code' = exit_code
             /\ ~outcome.failed => exit_code' = KeptResult(outcome.result)
    BY <1>4 DEF RunNextTest, RunsAll, ERR_EXIT
  <2>2. \/ o.err # "none" /\ o.res = NULL
        \/ o.err = "none" /\ o.res = <<o.res[1]>>
    BY DEF call, alterator_gdbus_source_callback
  <2>3. CASE o.err # "none" /\ o.res = NULL
    BY <1>4, <2>1, <2>3 DEF diag_module_run_test, AllPassed, IInv, DiagInv, RunsAll
  <2>4. CASE o.err = "none" /\ o.res = <<o.res[1]>>
    <3>1. o.res # NULL BY <2>4 DEF NULL
    <3>2. diag_module_run_test(o) = [failed |-> FALSE, result |-> o.res[1]]
      BY <2>4, <3>1 DEF diag_module_run_test
    <3>3. exit_code' = KeptResult(o.res[1]) BY <2>1, <3>2
    <3>4. o.res[1] = 0 /\ exit_code = 0 BY <1>4, <3>3 DEF KeptResult, RunsAll
    <3>5. AllPassed BY <1>4, <3>4 DEF IInv, DiagInv, RunsAll
    <3> QED BY <2>1, <3>1, <3>4, <3>5 DEF AllPassed
  <2> QED BY <2>2, <2>3, <2>4
<1>5. DiagInv' BY <1>1, <1>2, <1>3, <1>4 DEF DiagInv
<1> QED BY <1>1, <1>5, DiagCommand

-----------------------------------------------------------------------------
(* packages. *)

\* A step that leaves the machine, the words, the plan and the answer alone,
\* and does not lead to a function that something must be known for.
PackagesMoves ==
  /\ argv' = argv /\ argv.module = "packages"
  /\ UNCHANGED packagesVars
  /\ at \notin {"ApplyAsync", "end"}
  /\ at' \in {"packages_module_handle_results", "end", "reinstall", "update"}
  /\ at = "packages_module_handle_results" => at' = "end"

LEMMA PackagesMovesInv ==
  ASSUME IInv, PackagesMoves
  PROVE  IInv'
<1>1. MarkedIsInstalled' BY DEF IInv, MarkedIsInstalled, PackagesMoves, packagesVars
<1>2. PackagesInv'
  BY DEF IInv, PackagesInv, PackagesMoves, packagesVars, ManualRemovalAgreed, ShowsPlan
<1> QED BY <1>1, <1>2, PackagesCommand DEF PackagesMoves

LEMMA ParseInv ==
  ASSUME IInv, packages_module_parse_arguments \/ packages_module_run
  PROVE  IInv'
<1>1. argv' = argv /\ argv.module = "packages" /\ UNCHANGED packagesVars
  BY DEF packages_module_parse_arguments, packages_module_run, In
<1>2. (help_flag' <=> help_flag) /\ (Parsed' <=> Parsed) BY <1>1, SameCommand
<1>3. MarkedIsInstalled' BY <1>1 DEF IInv, MarkedIsInstalled, packagesVars
<1>4. agreed = NULL /\ lost = {}
  BY <1>1 DEF packages_module_parse_arguments, packages_module_run, In, IInv, PackagesInv
<1>5. CASE packages_module_parse_arguments
  <2>1. at' = "end" \/ (at' = "packages_module_run" /\ (help_flag \/ Parsed))
    BY <1>5 DEF packages_module_parse_arguments, Goto, ERR_EXIT, Parsed,
       packages_module_parse_rpm_arguments, packages_module_parse_apt_arguments,
       packages_module_parse_repo_arguments
  <2>2. PackagesInv'
    BY <1>1, <1>2, <1>4, <2>1
       DEF PackagesInv, packagesVars, ManualRemovalAgreed, ShowsPlan
  <2> QED BY <1>1, <1>3, <2>2, PackagesCommand
<1>6. CASE packages_module_run
  <2>1. at' = "packages_module_handle_results" \/ (at' = argv.sub /\ Parsed)
    BY <1>1, <1>6 DEF packages_module_run, In, Goto, IInv, PackagesInv
  <2>2. PackagesInv'
    BY <1>1, <1>2, <1>4, <2>1
       DEF PackagesInv, packagesVars, ManualRemovalAgreed, ShowsPlan, Parsed
  <2> QED BY <1>1, <1>3, <2>2, PackagesCommand
<1> QED BY <1>5, <1>6

\* The functions that neither change the machine nor come near a transaction.
LEMMA PackagesNextMoves ==
  ASSUME packages_module_repo_subcommand \/ apt_reinstall \/ apt_update
           \/ packages_module_handle_results
  PROVE  PackagesMoves
<1> USE DEF PackagesMoves, In, ERR_EXIT, Finish, Goto, Ask
<1>1. CASE packages_module_repo_subcommand BY <1>1 DEF packages_module_repo_subcommand
<1>2. CASE apt_reinstall BY <1>2 DEF apt_reinstall
<1>3. CASE apt_update BY <1>3 DEF apt_update
<1>4. CASE packages_module_handle_results
  BY <1>4 DEF packages_module_handle_results, packages_module_handle_rpm_results,
     packages_module_handle_rpm_files_results, packages_module_handle_rpm_info_results,
     packages_module_handle_rpm_install_results, packages_module_handle_rpm_list_results,
     packages_module_handle_rpm_package_info_results, packages_module_handle_rpm_remove_results,
     packages_module_handle_apt_results, packages_module_handle_apt_info_results,
     packages_module_handle_apt_list_all_packages_results,
     packages_module_handle_apt_search_results, packages_module_handle_apt_last_update_results,
     packages_module_handle_repo_results, packages_module_handle_repo_add_results,
     packages_module_handle_repo_info_results, packages_module_handle_repo_list_results,
     packages_module_handle_repo_remove_results, HandleInfo, PrintText, PrintNothing
<1> QED BY <1>1, <1>2, <1>3, <1>4

\* rpm removes the package that the user has typed.
LEMMA RpmInv ==
  ASSUME IInv, packages_module_rpm_subcommand
  PROVE  IInv'
<1>1. /\ argv' = argv /\ argv.module = "packages" /\ at = "rpm"
      /\ UNCHANGED <<packages_list, plan, agreed>>
      /\ at' \in {"packages_module_handle_results", "end"}
  BY DEF packages_module_rpm_subcommand, In, Ask, ERR_EXIT, Goto
<1>2. Parsed /\ argv.sub = "rpm" /\ agreed = NULL /\ lost = {} BY <1>1 DEF IInv, PackagesInv
<1>3. \/ UNCHANGED <<installed, manual, lost>>
      \/ /\ argv.args[1] \in {"install", "remove"}
         /\ \E was \in BOOLEAN : RpmEffect(was)
  BY DEF packages_module_rpm_subcommand, WasExecuted
<1>4. CASE UNCHANGED <<installed, manual, lost>>
  <2>1. MarkedIsInstalled' BY <1>4 DEF IInv, MarkedIsInstalled
  <2>2. PackagesInv' BY <1>1, <1>2, <1>4 DEF PackagesInv, ManualRemovalAgreed, ShowsPlan
  <2> QED BY <1>1, <2>1, <2>2, PackagesCommand
<1>5. CASE argv.args[1] \in {"install", "remove"} /\ \E was \in BOOLEAN : RpmEffect(was)
  <2>1. Word \in Typed BY <1>2, <1>5 DEF Parsed, HasWord, Word, Typed
  <2>2. MarkedIsInstalled' /\ lost' \subseteq {Word}
    BY <1>2, <1>5 DEF RpmEffect, IInv, MarkedIsInstalled
  <2>3. ManualRemovalAgreed'
    BY <1>1, <1>2, <2>1, <2>2 DEF ManualRemovalAgreed, Typed
  <2>4. PackagesInv' BY <1>1, <2>3 DEF PackagesInv, ShowsPlan
  <2> QED BY <1>1, <2>2, <2>4, PackagesCommand
<1> QED BY <1>3, <1>4, <1>5

\* The words of an apt request are the user's.
LEMMA AptInv ==
  ASSUME IInv, packages_module_apt_subcommand
  PROVE  IInv'
<1>1. /\ argv' = argv /\ argv.module = "packages" /\ at = "apt"
      /\ UNCHANGED <<installed, manual, plan, agreed, lost>>
  BY DEF packages_module_apt_subcommand, In
<1>2. Parsed /\ argv.sub = "apt" /\ agreed = NULL /\ lost = {} BY <1>1 DEF IInv, PackagesInv
<1>3. \/ at' \in {"packages_module_handle_results", "end", "reinstall", "update"}
      \/ /\ at' = "get_check_apply_result" /\ argv.args[1] \in {"install", "remove"}
         /\ packages_list' = AptWords
  BY DEF packages_module_apt_subcommand, Ask, ERR_EXIT, Goto
<1>4. MarkedIsInstalled' BY <1>1 DEF IInv, MarkedIsInstalled
<1>5. CASE at' \in {"packages_module_handle_results", "end", "reinstall", "update"}
  <2>1. PackagesInv' BY <1>1, <1>2, <1>5 DEF PackagesInv, ManualRemovalAgreed, ShowsPlan
  <2> QED BY <1>1, <1>4, <2>1, PackagesCommand
<1>6. CASE /\ at' = "get_check_apply_result" /\ argv.args[1] \in {"install", "remove"}
           /\ packages_list' = AptWords
  <2>1. Word \in Typed BY <1>2, <1>6 DEF Parsed, HasWord, Word, Typed
  <2>2. packages_list'.del \subseteq Typed BY <1>6, <2>1 DEF AptWords
  <2>3. Typed' = Typed BY <1>1, SameCommand
  <2>4. PackagesInv' BY <1>1, <1>2, <1>6, <2>2, <2>3 DEF PackagesInv, ManualRemovalAgreed, ShowsPlan
  <2> QED BY <1>1, <1>4, <2>4, PackagesCommand
<1> QED BY <1>3, <1>5, <1>6

LEMMA CheckApplyInv ==
  ASSUME IInv, CheckApply
  PROVE  IInv'
<1>1. /\ argv' = argv /\ argv.module = "packages" /\ at = "get_check_apply_result"
      /\ UNCHANGED <<installed, manual, packages_list, agreed, lost>>
      /\ at' \in {"end", ShowsPlan}
  BY DEF CheckApply, In, ERR_EXIT, Goto, ShowsPlan
<1>2. agreed = NULL /\ lost = {} /\ packages_list.del \subseteq Typed
  BY <1>1 DEF IInv, PackagesInv
<1>3. Typed' = Typed BY <1>1, SameCommand
<1>4. MarkedIsInstalled' BY <1>1 DEF IInv, MarkedIsInstalled
<1>5. PackagesInv' BY <1>1, <1>2, <1>3 DEF PackagesInv, ManualRemovalAgreed, ShowsPlan
<1> QED BY <1>1, <1>4, <1>5, PackagesCommand

-----------------------------------------------------------------------------
(* The question and the transaction, in either module. *)

\* What is on the screen is what the answer is about.
LEMMA ShowPlanInv ==
  ASSUME IInv, ShowPlan
  PROVE  IInv'
<1>1. /\ argv' = argv /\ at = ShowsPlan
      /\ UNCHANGED <<done, installed, manual, packages_list, plan, lost>>
  BY DEF ShowPlan, ShowsPlan
<1>2. \/ at' = "end" /\ ret' = -1 /\ agreed' = agreed
      \/ at' = "end" /\ agreed' = NULL
      \/ at' = "ApplyAsync" /\ agreed' = <<OnScreen>>
  BY DEF ShowPlan, ERR_EXIT, Finish, Goto, OnScreen
<1>3. OnScreen' = OnScreen /\ Typed' = Typed BY <1>1, SameCommand DEF OnScreen
<1>4. MarkedIsInstalled' BY <1>1 DEF IInv, MarkedIsInstalled
<1>5. CASE argv.module = "diag" BY <1>1, <1>5 DEF IInv, DiagInv
<1>6. CASE argv.module = "packages"
  <2>1. agreed = NULL /\ lost = {} /\ packages_list.del \subseteq Typed
    BY <1>1, <1>6 DEF IInv, PackagesInv, ShowsPlan
  <2>2. ManualRemovalAgreed' BY <1>1, <2>1 DEF ManualRemovalAgreed
  <2>3. at' = "ApplyAsync" => Agreement' BY <1>1, <1>2, <1>3, <2>1 DEF Agreement
  <2>4. at' \in {"end", "ApplyAsync"} BY <1>2
  <2>5. PackagesInv' BY <1>1, <1>3, <2>1, <2>2, <2>3, <2>4 DEF PackagesInv, ShowsPlan
  <2> QED BY <1>1, <1>4, <1>6, <2>5, PackagesCommand
<1>7. CASE argv.module = "components"
  <2>1. agreed = NULL /\ lost = {} /\ packages_list.del \subseteq OnScreen
    BY <1>1, <1>7 DEF IInv, ComponentsInv, ShowsPlan
  <2>2. ManualRemovalAgreed' BY <1>1, <2>1 DEF ManualRemovalAgreed
  <2>3. at' = "ApplyAsync" => Agreement' BY <1>1, <1>2, <1>3, <2>1 DEF Agreement
  <2>4. at' \in {"end", "ApplyAsync"} BY <1>2
  <2>5. AcceptedIsApplied' BY <1>2, <2>1 DEF AcceptedIsApplied
  <2>6. ComponentsInv'
    BY <1>1, <1>3, <2>1, <2>2, <2>3, <2>4, <2>5 DEF ComponentsInv, ShowsPlan
  <2> QED BY <1>1, <1>4, <1>7, <2>6, ComponentsCommand
<1>8. CASE argv.module \notin {"diag", "packages", "components"}
  BY <1>1, <1>8, OtherCommand
<1> QED BY <1>5, <1>6, <1>7, <1>8

\* apt-get with the wrapper's priorities: a manually installed package goes only
\* if it was excluded from them or is a word of the request, and what is marked
\* afterwards is installed.
LEMMA CommitKeeps ==
  ASSUME NEW exclude, NEW words, NEW t \in apply(exclude, words), Commit(t, words),
         MarkedIsInstalled
  PROVE  MarkedIsInstalled' /\ lost' \subseteq lost \cup exclude \cup words.del
<1>1. /\ t.install \subseteq Packages \ installed /\ t.remove \subseteq installed
      /\ words.add \ installed \subseteq t.install
      /\ t.remove \cap words.add = {}
      /\ t.remove \cap (manual \ (exclude \cup words.del)) = {}
  BY DEF apply, Transactions, create_pkgpriorities
<1>2. MarkedIsInstalled' BY <1>1 DEF Commit, MarkedIsInstalled
<1>3. t.remove \cap manual \subseteq exclude \cup words.del BY <1>1
<1> QED BY <1>2, <1>3 DEF Commit

LEMMA AptEffectKeeps ==
  ASSUME NEW was \in BOOLEAN, AptEffect(was), MarkedIsInstalled, lost = {}
  PROVE  /\ MarkedIsInstalled'
         /\ lost' \subseteq OnScreen \cup packages_list.del
         /\ was => <<"apply", packages_list>> \in done'
<1>1. Exclude \subseteq OnScreen BY DEF Exclude, OnScreen
<1>2. was => <<"apply", packages_list>> \in done' BY DEF AptEffect
<1>3. CASE was
  <2>1. PICK t \in apply(Exclude, packages_list) : Commit(t, packages_list)
    BY <1>3 DEF AptEffect
  <2>2. MarkedIsInstalled' /\ lost' \subseteq lost \cup Exclude \cup packages_list.del
    BY <2>1, CommitKeeps
  <2> QED BY <1>1, <1>2, <2>2
<1>4. CASE ~was
  BY <1>2, <1>4 DEF AptEffect, MarkedIsInstalled
<1> QED BY <1>3, <1>4

\* ApplyAsync of the packages module, with and without Ctrl-C.
LEMMA ApplyInv ==
  ASSUME IInv, apt_apply_async \/ packages_module_apt_sigint_handler
  PROVE  IInv'
<1>1. /\ argv' = argv /\ argv.module = "packages" /\ at = "ApplyAsync"
      /\ UNCHANGED <<packages_list, plan, agreed>>
      /\ at' \in {"packages_module_handle_results", "end"}
  BY DEF apt_apply_async, packages_module_apt_sigint_handler, In, ERR_EXIT, Goto
<1>2. PICK was \in BOOLEAN : AptEffect(was)
  BY DEF apt_apply_async, packages_module_apt_sigint_handler, WasExecuted
<1>3. Agreement /\ packages_list.del \subseteq Typed /\ MarkedIsInstalled
  BY <1>1 DEF IInv, PackagesInv
<1>4. MarkedIsInstalled' /\ lost' \subseteq OnScreen \cup Typed
  BY <1>2, <1>3, AptEffectKeeps DEF Agreement
<1>5. agreed' = <<OnScreen>> BY <1>1, <1>3 DEF Agreement
<1>6. ManualRemovalAgreed'
  BY <1>1, <1>4, <1>5 DEF ManualRemovalAgreed, Typed, NULL
<1>7. PackagesInv' BY <1>1, <1>6 DEF PackagesInv, ShowsPlan
<1> QED BY <1>1, <1>4, <1>7, PackagesCommand

\* ApplyAsync of the components module: an exit code of 0 means that the
\* transaction was made.
LEMMA ComponentsApplyInv ==
  ASSUME IInv, install_component_packages \/ remove_component_packages
  PROVE  IInv'
<1>1. /\ argv' = argv /\ argv.module = "components" /\ at = "ApplyAsync"
      /\ UNCHANGED <<packages_list, plan, agreed>>
  BY DEF install_component_packages, remove_component_packages, In
<1>2. PICK was \in BOOLEAN :
        /\ AptEffect(was)
        /\ \/ at' = "end" /\ ret' = -1
           \/ at' = "components_module_handle_results" /\ was
  <2>1. PICK o \in call([code : ExitCodes]) : \E was \in WasExecuted(o) :
          /\ AptEffect(was)
          /\ IF o.res = NULL THEN ERR_EXIT
             ELSE IF o.res[1].code # 0 THEN ERR_EXIT
             ELSE Goto("components_module_handle_results")
    BY DEF install_component_packages, remove_component_packages
  <2>2. PICK was \in WasExecuted(o) :
          /\ AptEffect(was)
          /\ IF o.res = NULL THEN ERR_EXIT
             ELSE IF o.res[1].code # 0 THEN ERR_EXIT
             ELSE Goto("components_module_handle_results")
    BY <2>1
  <2>3. was \in BOOLEAN BY DEF WasExecuted
  <2>4. o.res # NULL /\ o.res[1].code = 0 => was BY DEF WasExecuted
  <2> QED BY <2>2, <2>3, <2>4 DEF ERR_EXIT, Goto
<1>3. Agreement /\ packages_list.del \subseteq OnScreen /\ MarkedIsInstalled
  BY <1>1 DEF IInv, ComponentsInv
<1>4. /\ MarkedIsInstalled' /\ lost' \subseteq OnScreen
      /\ was => <<"apply", packages_list>> \in done'
  BY <1>2, <1>3, AptEffectKeeps DEF Agreement
<1>5. agreed' = <<OnScreen>> BY <1>1, <1>3 DEF Agreement
<1>6. ManualRemovalAgreed' BY <1>4, <1>5 DEF ManualRemovalAgreed, NULL
<1>7. AcceptedIsApplied' BY <1>2 DEF AcceptedIsApplied
<1>8. ComponentsInv' BY <1>1, <1>2, <1>4, <1>6, <1>7 DEF ComponentsInv, ShowsPlan
<1> QED BY <1>1, <1>4, <1>8, ComponentsCommand

-----------------------------------------------------------------------------
(* components. *)

\* A step of the components module that leaves the machine, the words and the
\* answer alone and does not come to the question.
ComponentsMoves ==
  /\ argv' = argv /\ argv.module = "components"
  /\ UNCHANGED <<installed, manual, packages_list, agreed, lost>>
  /\ at \notin {"ApplyAsync", "end", "components_module_handle_results"}
  /\ at' \notin {ShowsPlan, "ApplyAsync"}

LEMMA ComponentsMovesInv ==
  ASSUME IInv, ComponentsMoves
  PROVE  IInv'
<1>1. MarkedIsInstalled' BY DEF IInv, MarkedIsInstalled, ComponentsMoves
<1>2. agreed = NULL /\ lost = {} BY DEF IInv, ComponentsInv, ComponentsMoves
<1>3. ComponentsInv'
  BY <1>2 DEF ComponentsInv, ComponentsMoves, ManualRemovalAgreed, AcceptedIsApplied
<1> QED BY <1>1, <1>3, ComponentsCommand DEF ComponentsMoves

LEMMA CommandedWords ==
  ASSUME NEW w
  PROVE  Commanded(w) \in {"info", "install", "remove", "description", "search", "status", "list"}
BY DEF Commanded

LEMMA ComponentsNextMoves ==
  ASSUME ComponentsNext,
         ~print_affected_components, ~install_component_packages, ~remove_component_packages,
         ~components_module_handle_results
  PROVE  ComponentsMoves
<1> USE DEF ComponentsMoves, In, ERR_EXIT, Finish, Goto, packagesVars, ShowsPlan
<1>1. CASE components_module_parse_arguments BY <1>1 DEF components_module_parse_arguments
<1>2. CASE components_module_run BY <1>2, CommandedWords DEF components_module_run
<1>3. CASE components_module_list_subcommand BY <1>3 DEF components_module_list_subcommand
<1>4. CASE ChooseSections BY <1>4 DEF ChooseSections
<1>5. CASE print_components_section BY <1>5 DEF print_components_section
<1>6. CASE SectionsPrinted BY <1>6 DEF SectionsPrinted
<1>7. CASE components_module_info_subcommand BY <1>7 DEF components_module_info_subcommand
<1>8. CASE components_module_description_subcommand
  BY <1>8 DEF components_module_description_subcommand
<1>9. CASE components_module_search_subcommand BY <1>9 DEF components_module_search_subcommand
<1>10. CASE components_module_status_subcommand BY <1>10 DEF components_module_status_subcommand
<1>11. CASE components_module_install_subcommand \/ components_module_remove_subcommand
  BY <1>11 DEF components_module_install_subcommand, components_module_remove_subcommand, Prepared
<1>12. CASE apt_update_packages_list BY <1>12 DEF apt_update_packages_list
<1>13. CASE get_packages_of_component BY <1>13 DEF get_packages_of_component
<1>14. CASE components_module_remove_component BY <1>14 DEF components_module_remove_component
<1>15. CASE ComponentsCheckApply BY <1>15 DEF ComponentsCheckApply
<1> QED
  BY <1>1, <1>2, <1>3, <1>4, <1>5, <1>6, <1>7, <1>8, <1>9, <1>10, <1>11, <1>12, <1>13, <1>14,
     <1>15 DEF ComponentsNext

\* A removal is asked for with the removals of the plan, an installation with
\* none: the question that follows covers the words.
LEMMA AffectedInv ==
  ASSUME IInv, print_affected_components
  PROVE  IInv'
<1>1. /\ argv' = argv /\ argv.module = "components" /\ at = "affected"
      /\ UNCHANGED <<installed, manual, plan, agreed, lost>>
  BY DEF print_affected_components, In
<1>2. \/ at' = "end"
      \/ /\ at' = ShowsPlan
         /\ packages_list' = IF argv.sub = "install" THEN OwnWords
                             ELSE [add |-> {}, del |-> OnScreen]
  BY DEF print_affected_components, ERR_EXIT, Goto, ShowsPlan, OnScreen
<1>3. OnScreen' = OnScreen BY <1>1 DEF OnScreen
<1>4. at' = ShowsPlan => packages_list'.del \subseteq OnScreen BY <1>2 DEF OwnWords, ShowsPlan
<1>5. agreed = NULL /\ lost = {} BY <1>1 DEF IInv, ComponentsInv
<1>6. MarkedIsInstalled' BY <1>1 DEF IInv, MarkedIsInstalled
<1>7. at' \in {"end", ShowsPlan} BY <1>2
<1>8. ManualRemovalAgreed' /\ AcceptedIsApplied'
  BY <1>1, <1>5 DEF ManualRemovalAgreed, AcceptedIsApplied
<1>9. ComponentsInv' BY <1>1, <1>3, <1>4, <1>5, <1>7, <1>8 DEF ComponentsInv, ShowsPlan
<1> QED BY <1>1, <1>6, <1>9, ComponentsCommand

LEMMA ComponentsResultsInv ==
  ASSUME IInv, components_module_handle_results
  PROVE  IInv'
<1>1. /\ argv' = argv /\ argv.module = "components"
      /\ at = "components_module_handle_results" /\ at' = "end"
      /\ done' = done /\ UNCHANGED packagesVars
  BY DEF components_module_handle_results, components_module_handle_info_results,
     components_module_handle_description_results, PrintText, Finish, ERR_EXIT, In
<1>2. MarkedIsInstalled' BY <1>1 DEF IInv, MarkedIsInstalled, packagesVars
<1>3. ComponentsInv'
  BY <1>1 DEF IInv, ComponentsInv, packagesVars, ManualRemovalAgreed, AcceptedIsApplied, ShowsPlan
<1> QED BY <1>1, <1>2, <1>3, ComponentsCommand

-----------------------------------------------------------------------------
(* The theorems. *)

\* A mark set by another administrator takes nothing away.
LEMMA OtherAdministratorInv ==
  ASSUME IInv, OtherAdministrator, UNCHANGED diagVars
  PROVE  IInv'
<1>1. /\ UNCHANGED <<argv, at, ret, done, installed, packages_list, plan, agreed, lost>>
      /\ \E p \in installed \ manual : manual' = manual \cup {p}
  BY DEF OtherAdministrator, commonVars
<1>2. OnScreen' = OnScreen BY <1>1 DEF OnScreen
<1>3. MarkedIsInstalled' BY <1>1 DEF IInv, MarkedIsInstalled
<1>4. DiagInv' BY <1>1, SameCommand DEF IInv, DiagInv, diagVars, AllPassed
<1>5. ManualRemovalAgreed' <=> ManualRemovalAgreed BY <1>1 DEF ManualRemovalAgreed
<1>6. PackagesInv' BY <1>1, <1>2, <1>5, SameCommand DEF IInv, PackagesInv, Agreement
<1>7. ComponentsInv'
  BY <1>1, <1>2, <1>5 DEF IInv, ComponentsInv, Agreement, AcceptedIsApplied
<1>8. OthersInv' BY <1>1 DEF IInv, OthersInv
<1> QED BY <1>3, <1>4, <1>6, <1>7, <1>8 DEF IInv

LEMMA InitInv == Init => IInv
<1> SUFFICES ASSUME Init PROVE IInv OBVIOUS
<1>1. /\ at = "alterator_ctl_app_parse_args" /\ ran = {}
      /\ agreed = NULL /\ lost = {} /\ manual \in SUBSET installed
  BY DEF Init, CommonInit, DiagInit, PackagesInit
<1>2. DiagInv BY <1>1 DEF DiagInv, AllPassed, ShowsPlan
<1>3. PackagesInv BY <1>1 DEF PackagesInv, ManualRemovalAgreed, ShowsPlan
<1>4. ComponentsInv
  BY <1>1 DEF ComponentsInv, ManualRemovalAgreed, AcceptedIsApplied, ShowsPlan
<1> QED BY <1>1, <1>2, <1>3, <1>4 DEF IInv, OthersInv, MarkedIsInstalled

LEMMA StutterInv ==
  ASSUME IInv, UNCHANGED vars
  PROVE  IInv'
<1>1. UNCHANGED <<argv, at, ret, done, exit_code, ran>> /\ UNCHANGED packagesVars
  BY DEF vars, commonVars, diagVars
<1>2. DiagInv' BY <1>1, SameCommand DEF IInv, DiagInv, AllPassed
<1>3. ManualRemovalAgreed' <=> ManualRemovalAgreed BY <1>1 DEF ManualRemovalAgreed, packagesVars
<1>4. OnScreen' = OnScreen BY <1>1 DEF OnScreen, packagesVars
<1>5. PackagesInv' BY <1>1, <1>3, <1>4, SameCommand DEF IInv, PackagesInv, Agreement, packagesVars
<1>6. ComponentsInv'
  BY <1>1, <1>3, <1>4 DEF IInv, ComponentsInv, Agreement, AcceptedIsApplied, packagesVars
<1> QED BY <1>1, <1>2, <1>5, <1>6 DEF IInv, OthersInv, MarkedIsInstalled, packagesVars

LEMMA NextInv == IInv /\ [Next]_vars => IInv'
<1> SUFFICES ASSUME IInv, [Next]_vars PROVE IInv' OBVIOUS
<1>1. CASE /\ AppNext \/ names_use_after_free \/ QueryNext
           /\ UNCHANGED <<diagVars, packagesVars, componentsVars>>
  BY <1>1, AppInv, CrashInv, QueryInv
<1>2. CASE DiagNext /\ UNCHANGED <<packagesVars, componentsVars>>
  BY <1>2, DiagNextMoves, DiagMovesInv, RunNextTestInv
<1>3. CASE PackagesNext
  BY <1>3, ParseInv, RpmInv, AptInv, CheckApplyInv, ShowPlanInv, ApplyInv, PackagesNextMoves,
     PackagesMovesInv DEF PackagesNext
<1>4. CASE ComponentsNext
  BY <1>4, ComponentsNextMoves, ComponentsMovesInv, AffectedInv, ComponentsApplyInv,
     ComponentsResultsInv
<1>5. CASE OtherAdministrator /\ UNCHANGED <<diagVars, componentsVars>>
  BY <1>5, OtherAdministratorInv
<1>6. CASE Ended \/ UNCHANGED vars BY <1>6, StutterInv DEF Ended
<1> QED BY <1>1, <1>2, <1>3, <1>4, <1>5, <1>6 DEF Next, Step

\* The inductive invariant holds in every state.
THEOREM Invariance == Spec => []IInv
BY InitInv, NextInv, PTL DEF Spec

\* diag_module_get_and_run_test() keeps the last result that is not 0: a run of
\* all tests that exits with 0 saw every test pass.
THEOREM FailuresRemembered == Spec => []FailureIsRemembered
<1>1. IInv => FailureIsRemembered
  BY DEF IInv, DiagInv, RunsAll, AllPassed, FailureIsRemembered
<1> QED BY <1>1, Invariance, PTL

\* A manually installed package goes only if the user typed it or accepted a
\* list it was on, whatever apt resolves and whoever marks packages meanwhile.
THEOREM RemovalsAgreed == Spec => []ManualRemovalAgreed
<1>1. IInv => ManualRemovalAgreed
  BY DEF IInv, PackagesInv, ComponentsInv, OthersInv, ManualRemovalAgreed
<1> QED BY <1>1, Invariance, PTL

\* An accepted installation or removal of a component that exits with 0 was
\* carried out.
THEOREM AcceptedApplied == Spec => []AcceptedIsApplied
<1>1. IInv => AcceptedIsApplied BY DEF IInv, ComponentsInv, AcceptedIsApplied
<1> QED BY <1>1, Invariance, PTL

\* A transaction or a removal by rpm never leaves a mark on a package that is
\* not installed.
THEOREM MarksInstalled == Spec => []MarkedIsInstalled
<1>1. IInv => MarkedIsInstalled BY DEF IInv
<1> QED BY <1>1, Invariance, PTL

\* Nothing but rpm, and a transaction that the user has agreed to, changes what
\* is installed.
THEOREM ChangesAgreed == Spec => ChangeIsAgreed
<1>1. ASSUME IInv, [Next]_vars, installed' # installed
      PROVE  agreed # NULL \/ (argv.module = "packages" /\ argv.sub = "rpm")
  <2>1. ASSUME Agreement PROVE agreed # NULL BY <2>1 DEF Agreement, NULL
  <2>2. CASE packages_module_rpm_subcommand
    BY <1>1, <2>2 DEF packages_module_rpm_subcommand, In, IInv, PackagesInv
  <2>3. CASE apt_apply_async \/ packages_module_apt_sigint_handler
    BY <1>1, <2>1, <2>3 DEF apt_apply_async, packages_module_apt_sigint_handler, In, IInv,
       PackagesInv
  <2>4. CASE install_component_packages \/ remove_component_packages
    BY <1>1, <2>1, <2>4 DEF install_component_packages, remove_component_packages, In, IInv,
       ComponentsInv
  <2>5. CASE PackagesNext
    <3>1. \/ packages_module_rpm_subcommand \/ apt_apply_async
          \/ packages_module_apt_sigint_handler
      BY <1>1, <2>5, PackagesNextMoves DEF PackagesNext, PackagesMoves, packagesVars,
         packages_module_parse_arguments, packages_module_run, packages_module_apt_subcommand,
         CheckApply, ShowPlan
    <3> QED BY <2>2, <2>3, <3>1
  <2>6. CASE ComponentsNext
    <3>1. install_component_packages \/ remove_component_packages
      BY <1>1, <2>6, ComponentsNextMoves DEF ComponentsMoves, packagesVars,
         print_affected_components, components_module_handle_results
    <3> QED BY <2>4, <3>1
  <2> QED BY <1>1, <2>5, <2>6 DEF Next, Step, OtherAdministrator, Ended, packagesVars, vars
<1> QED BY <1>1, Invariance, PTL DEF Spec, ChangeIsAgreed

-----------------------------------------------------------------------------
(* The summary of statuses.                                                *)

\* What a set of statuses is summed up to.
Summary(V) ==
  IF "PARTIALLY_INSTALLED" \in V \/ {"INSTALLED", "NOT_INSTALLED"} \subseteq V
    THEN "PARTIALLY_INSTALLED"
  ELSE IF "INSTALLED" \in V THEN "INSTALLED"
  ELSE IF "NOT_INSTALLED" \in V THEN "NOT_INSTALLED"
  ELSE "NONE"

\* Finite sets have one among them that holds none of the others.
LEMMA SmallestSet ==
  ASSUME NEW D, D # {}, \A S \in D : IsFiniteSet(S)
  PROVE  \E S \in D : \A T \in D : T \subseteq S => T = S
<1> DEFINE Less == OpToRel(<, Nat)
           Sizes == {Cardinality(S) : S \in D}
<1>1. Sizes \subseteq Nat /\ Sizes # {}
  BY FS_CardinalityType
<1>2. IsWellFoundedOn(Less, Nat)
  BY NatLessThanWellFounded
<1> HIDE DEF Less
<1>3. PICK n \in Sizes : \A m \in Sizes : ~(<<m, n>> \in Less)
  BY <1>1, <1>2, WFMin
<1>4. \A m \in Sizes : n <= m
  <2>1. \A m \in Sizes : m \in Nat
    BY <1>1
  <2> HIDE DEF Sizes
  <2>2. \A m \in Sizes : ~(m < n)
    BY <1>3, <2>1 DEF Less, OpToRel
  <2> QED BY <2>1, <2>2
<1>5. PICK S \in D : Cardinality(S) = n
  OBVIOUS
<1>6. ASSUME NEW T \in D, T \subseteq S PROVE T = S
  <2>1. Cardinality(T) <= Cardinality(S) /\ (Cardinality(S) = Cardinality(T) => S = T)
    BY <1>6, FS_Subset
  <2>2. Cardinality(S) <= Cardinality(T)
    BY <1>4, <1>5
  <2>3. Cardinality(S) \in Nat /\ Cardinality(T) \in Nat
    BY FS_CardinalityType
  <2> QED BY <2>1, <2>2, <2>3
<1> QED BY <1>6

\* One more status counted.
LEMMA OneMore ==
  ASSUME NEW s \in SUBSET Statuses, NEW x \in s
  PROVE  update_tree_elem_is_installed(x, Summary(s \ {x})) = Summary(s)
<1>1. x \in {"NONE", "INSTALLED", "NOT_INSTALLED", "PARTIALLY_INSTALLED"}
  BY DEF Statuses
<1> DEFINE t == s \ {x}
<1>2. \A y : y \in t <=> y \in s /\ y # x
  OBVIOUS
<1>3. x \in s
  OBVIOUS
<1> HIDE DEF t
<1>4. CASE x = "NONE"
  BY <1>2, <1>3, <1>4 DEF update_tree_elem_is_installed, Summary
<1>5. CASE x = "PARTIALLY_INSTALLED"
  <2>1. Summary(s) = "PARTIALLY_INSTALLED" BY <1>3, <1>5 DEF Summary
  <2> QED BY <1>5, <2>1 DEF update_tree_elem_is_installed
<1>6. CASE x = "INSTALLED"
  <2>1. CASE "PARTIALLY_INSTALLED" \in t \/ "NOT_INSTALLED" \in t
    <3>1. Summary(s) = "PARTIALLY_INSTALLED"
      BY <1>2, <1>3, <1>6, <2>1 DEF Summary
    <3>2. Summary(t) \in {"PARTIALLY_INSTALLED", "NOT_INSTALLED"}
      BY <1>2, <1>6, <2>1 DEF Summary
    <3> QED BY <1>6, <3>1, <3>2 DEF update_tree_elem_is_installed, t
  <2>2. CASE "PARTIALLY_INSTALLED" \notin t /\ "NOT_INSTALLED" \notin t
    <3>1. Summary(s) = "INSTALLED"
      BY <1>2, <1>3, <1>6, <2>2 DEF Summary
    <3>2. Summary(t) = "NONE"
      BY <1>2, <1>6, <2>2 DEF Summary
    <3> QED BY <1>6, <3>1, <3>2 DEF update_tree_elem_is_installed, t
  <2> QED BY <2>1, <2>2
<1>7. CASE x = "NOT_INSTALLED"
  <2>1. CASE "PARTIALLY_INSTALLED" \in t \/ "INSTALLED" \in t
    <3>1. Summary(s) = "PARTIALLY_INSTALLED"
      BY <1>2, <1>3, <1>7, <2>1 DEF Summary
    <3>2. Summary(t) \in {"PARTIALLY_INSTALLED", "INSTALLED"}
      BY <1>2, <1>7, <2>1 DEF Summary
    <3> QED BY <1>7, <3>1, <3>2 DEF update_tree_elem_is_installed, t
  <2>2. CASE "PARTIALLY_INSTALLED" \notin t /\ "INSTALLED" \notin t
    <3>1. Summary(s) = "NOT_INSTALLED"
      BY <1>2, <1>3, <1>7, <2>2 DEF Summary
    <3>2. Summary(t) = "NONE"
      BY <1>2, <1>7, <2>2 DEF Summary
    <3> QED BY <1>7, <3>1, <3>2 DEF update_tree_elem_is_installed, t
  <2> QED BY <2>1, <2>2
<1> QED BY <1>1, <1>4, <1>5, <1>6, <1>7 DEF t

\* There are four statuses.
LEMMA StatusesAreFinite == \A V \in SUBSET Statuses : IsFiniteSet(V)
<1>1. IsFiniteSet({"NONE"}) /\ IsFiniteSet({"INSTALLED"}) /\ IsFiniteSet({"NOT_INSTALLED"})
      /\ IsFiniteSet({"PARTIALLY_INSTALLED"})
  BY FS_Singleton
<1>2. IsFiniteSet({"NONE"} \cup {"INSTALLED"})
  BY <1>1, FS_Union
<1>3. IsFiniteSet({"NOT_INSTALLED"} \cup {"PARTIALLY_INSTALLED"})
  BY <1>1, FS_Union
<1>4. IsFiniteSet(({"NONE"} \cup {"INSTALLED"}) \cup ({"NOT_INSTALLED"} \cup {"PARTIALLY_INSTALLED"}))
  BY <1>2, <1>3, FS_Union
<1>5. Statuses = ({"NONE"} \cup {"INSTALLED"}) \cup ({"NOT_INSTALLED"} \cup {"PARTIALLY_INSTALLED"})
  BY DEF Statuses
<1>6. IsFiniteSet(Statuses)
  BY <1>4, <1>5
<1> QED BY <1>6, FS_Subset

\* The loop over the statuses, whatever order it takes them in.
LEMMA SummedUp ==
  ASSUME NEW V \in SUBSET Statuses
  PROVE  summed_up(V) = Summary(V)
<1> DEFINE It(f) == f = [s \in SUBSET V |-> IF s = {} THEN "NONE"
                          ELSE LET x == CHOOSE x \in s : TRUE
                               IN update_tree_elem_is_installed(x, f[s \ {x}])]
           it == CHOOSE f : It(f)
           g == [s \in SUBSET V |-> Summary(s)]
<1>1. summed_up(V) = it[V]
  BY DEF summed_up, FoldSet, MapThenFoldSet
<1>2. Summary({}) = "NONE"
  BY DEF Summary
<1>3. ASSUME NEW s \in SUBSET V, s # {}, NEW x, x = CHOOSE y \in s : TRUE
      PROVE  x \in s /\ s \ {x} \in SUBSET V /\ s \ {x} # s
             /\ update_tree_elem_is_installed(x, Summary(s \ {x})) = Summary(s)
  BY <1>3, OneMore
<1>4. It(g)
  <2>1. ASSUME NEW s \in SUBSET V
        PROVE  g[s] = IF s = {} THEN "NONE"
                      ELSE LET x == CHOOSE x \in s : TRUE
                           IN update_tree_elem_is_installed(x, g[s \ {x}])
    <3>1. CASE s = {} BY <1>2, <3>1
    <3>2. CASE s # {}
      <4> DEFINE x == CHOOSE x \in s : TRUE
      <4>1. s \ {x} \in SUBSET V /\ update_tree_elem_is_installed(x, Summary(s \ {x})) = Summary(s)
        BY <1>3, <3>2
      <4>2. g[s \ {x}] = Summary(s \ {x}) BY <4>1
      <4> HIDE DEF x
      <4>3. g[s] = update_tree_elem_is_installed(x, g[s \ {x}]) BY <4>1, <4>2
      <4> QED BY <3>2, <4>3 DEF x
    <3> QED BY <3>1, <3>2
  <2> HIDE DEF g
  <2>2. g = [s \in SUBSET V |-> g[s]] BY DEF g
  <2> QED BY <2>1, <2>2
<1>5. It(it)
  <2> HIDE DEF It, g
  <2> QED BY <1>4
<1> HIDE DEF it, g
<1> DEFINE D == {s \in SUBSET V : it[s] # Summary(s)}
<1>6. D = {}
  <2> SUFFICES ASSUME D # {} PROVE FALSE OBVIOUS
  <2>1. \A S \in D : IsFiniteSet(S) BY StatusesAreFinite
  <2>2. PICK s \in D : \A t \in D : t \subseteq s => t = s
    <3> HIDE DEF D
    <3> QED BY <2>1, SmallestSet
  <2>3. s # {}
    BY <1>2, <1>5
  <2> DEFINE x == CHOOSE x \in s : TRUE
  <2>4. /\ x \in s /\ s \ {x} \in SUBSET V /\ s \ {x} # s
        /\ update_tree_elem_is_installed(x, Summary(s \ {x})) = Summary(s)
    BY <1>3, <2>3
  <2>5. it[s] = update_tree_elem_is_installed(x, it[s \ {x}])
    BY <1>5, <2>3
  <2> HIDE DEF x
  <2>6. it[s \ {x}] = Summary(s \ {x})
    BY <2>2, <2>4
  <2> QED BY <2>4, <2>5, <2>6
<1> QED BY <1>1, <1>6
-----------------------------------------------------------------------------
(* The tree: what is below what. *)

\* Only what is linked is below.
LEMMA BelowMember ==
  ASSUME NEW x, NEW linked
  PROVE  Below(x, linked) \subseteq linked
BY DEF Below

\* An element of a category that is x, or below x, is below x.
LEMMA BelowChild ==
  ASSUME NEW x, NEW linked, NEW e \in linked,
         CategoryOf[e] \in {x} \cup (Below(x, linked) \cap Categories)
  PROVE  e \in Below(x, linked)
<1> SUFFICES ASSUME NEW S \in SUBSET (linked \cap Categories),
                    \A k \in linked \cap Categories : CategoryOf[k] \in {x} \cup S => k \in S
             PROVE  CategoryOf[e] \in {x} \cup S
  BY DEF Below
<1>1. ASSUME CategoryOf[e] \in Below(x, linked) \cap Categories PROVE CategoryOf[e] \in S
  <2>1. CategoryOf[CategoryOf[e]] \in {x} \cup S
    BY <1>1 DEF Below
  <2>2. CategoryOf[e] \in linked \cap Categories
    BY <1>1, BelowMember
  <2> QED BY <2>1, <2>2
<1> QED BY <1>1

\* and so is everything below a category that is below x.
LEMMA BelowBelow ==
  ASSUME NEW x, NEW linked, NEW k \in Below(x, linked) \cap Categories, NEW e \in Below(k, linked)
  PROVE  e \in Below(x, linked)
<1>1. e \in linked
  BY BelowMember
<1> SUFFICES ASSUME NEW S \in SUBSET (linked \cap Categories),
                    \A c \in linked \cap Categories : CategoryOf[c] \in {x} \cup S => c \in S
             PROVE  CategoryOf[e] \in {x} \cup S
  BY <1>1 DEF Below
<1>2. k \in S
  <2>1. CategoryOf[k] \in {x} \cup S
    BY DEF Below
  <2> QED BY <2>1, BelowMember
<1>3. \A c \in linked \cap Categories : CategoryOf[c] \in {k} \cup S => c \in S
  BY <1>2
<1>4. CategoryOf[e] \in {k} \cup S
  BY <1>3 DEF Below
<1> QED BY <1>2, <1>4

\* There is no other way to be below x.
LEMMA BelowParent ==
  ASSUME NEW x, NEW linked, NEW e \in Below(x, linked)
  PROVE  CategoryOf[e] \in {x} \cup (Below(x, linked) \cap Categories)
<1> DEFINE S == Below(x, linked) \cap Categories
<1>1. \A c \in linked \cap Categories : CategoryOf[c] \in {x} \cup S => c \in S
  BY BelowChild
<1>2. S \in SUBSET (linked \cap Categories)
  BY BelowMember
<1> HIDE DEF S
<1>3. CategoryOf[e] \in {x} \cup S
  BY <1>1, <1>2 DEF Below
<1> QED BY <1>3 DEF S

\* Seen from x: a child of x, or below a child of x.
LEMMA BelowFirst ==
  ASSUME NEW x, NEW linked, NEW e \in Below(x, linked)
  PROVE  \/ CategoryOf[e] = x
         \/ \E k \in linked \cap Categories : CategoryOf[k] = x /\ e \in Below(k, linked)
<1> DEFINE Reached(y) == \/ CategoryOf[y] = x
                         \/ \E k \in linked \cap Categories :
                              CategoryOf[k] = x /\ y \in Below(k, linked)
           S == {y \in linked \cap Categories : Reached(y)}
<1>1. ASSUME NEW y \in linked, CategoryOf[y] \in {x} \cup S PROVE Reached(y)
  <2>1. CASE CategoryOf[y] = x BY <2>1
  <2>2. CASE CategoryOf[y] \in S /\ CategoryOf[CategoryOf[y]] = x
    BY <2>2, BelowChild
  <2>3. CASE \E k \in linked \cap Categories :
               CategoryOf[k] = x /\ CategoryOf[y] \in Below(k, linked) /\ CategoryOf[y] \in S
    BY <2>3, BelowChild
  <2> QED BY <1>1, <2>1, <2>2, <2>3
<1>2. \A c \in linked \cap Categories : CategoryOf[c] \in {x} \cup S => c \in S
  BY <1>1
<1>3. S \in SUBSET (linked \cap Categories)
  OBVIOUS
<1>4. e \in linked
  BY BelowMember
<1> HIDE DEF S
<1>5. CategoryOf[e] \in {x} \cup S
  BY <1>2, <1>3 DEF Below
<1> HIDE DEF Reached
<1>6. Reached(e)
  BY <1>1, <1>4, <1>5
<1> QED BY <1>6 DEF Reached

\* What hangs from the top has no cycle.
LEMMA NoCycle ==
  ASSUME NEW linked, NEW e \in section_result(linked) \cap Categories
  PROVE  e \notin Below(e, section_result(linked))
<1> DEFINE T == section_result(linked)
           Good(y) == y \notin Below(y, T)
           S == {k \in linked \cap Categories : Good(k)}
<1>1. ASSUME NEW y \in linked \cap Categories, CategoryOf[y] \in {""} \cup S PROVE Good(y)
  <2> SUFFICES ASSUME y \in Below(y, T) PROVE FALSE OBVIOUS
  <2>1. CategoryOf[y] \in {y} \cup (Below(y, T) \cap Categories)
    BY BelowParent
  <2>2. CategoryOf[y] # "" /\ CategoryOf[y] \in S
    BY <1>1, <2>1, TwoTables
  <2>3. CategoryOf[y] # y
    BY <2>2
  <2>4. y \in Below(CategoryOf[y], T)
    BY BelowMember, BelowChild
  <2>5. CategoryOf[y] \in Below(CategoryOf[y], T)
    BY <2>1, <2>3, <2>4, BelowBelow
  <2> QED BY <2>2, <2>5
<1>2. \A c \in linked \cap Categories : CategoryOf[c] \in {""} \cup S => c \in S
  BY <1>1
<1>3. S \in SUBSET (linked \cap Categories)
  OBVIOUS
<1>4. e \in linked
  BY BelowMember DEF section_result
<1> HIDE DEF S, Good
<1>5. CategoryOf[e] \in {""} \cup S
  BY <1>2, <1>3 DEF Below, section_result
<1>6. Good(e)
  BY <1>1, <1>4, <1>5
<1> QED BY <1>6 DEF Good
-----------------------------------------------------------------------------
(* The summaries of a tree. *)

\* A tree that was built by links, and the statuses of its components.
Tree(T) == T \subseteq Elements /\ \E linked : T = section_result(linked)

OwnStatuses == {"NONE", "INSTALLED", "NOT_INSTALLED"}

StatusOf(status, T) == \A c \in T \cap Components : status[c] \in OwnStatuses

\* The statuses of the components below an element.
StatusesBelow(e, T, status) == {status[c] : c \in Below(e, T) \cap Components}

SummaryOf(e, T, status) ==
  IF e \in Components THEN status[e] ELSE Summary(StatusesBelow(e, T, status))

ChildrenOf(e, T) == {x \in T : CategoryOf[x] = e}

\* The statuses below an element are those of components.
LEMMA StatusesBelowType ==
  ASSUME NEW T, NEW status, StatusOf(status, T), NEW e
  PROVE  StatusesBelow(e, T, status) \subseteq OwnStatuses
BY BelowMember DEF StatusOf, StatusesBelow

\* A summary is a status.
LEMMA SummaryType ==
  ASSUME NEW T, NEW status, StatusOf(status, T), NEW e \in T
  PROVE  SummaryOf(e, T, status) \in Statuses
BY DEF SummaryOf, Summary, StatusOf, OwnStatuses, Statuses

\* The summary of the children's summaries is the summary of the components.
LEMMA ChildrenSummary ==
  ASSUME NEW T \in SUBSET Elements, NEW status, StatusOf(status, T), NEW e
  PROVE  Summary({SummaryOf(c, T, status) : c \in ChildrenOf(e, T)})
           = Summary(StatusesBelow(e, T, status))
<1> DEFINE U == StatusesBelow(e, T, status)
           W == {SummaryOf(c, T, status) : c \in ChildrenOf(e, T)}
<1>1. "PARTIALLY_INSTALLED" \notin U
  BY StatusesBelowType DEF OwnStatuses
<1>2. ASSUME NEW st \in {"INSTALLED", "NOT_INSTALLED"}, st \in U
      PROVE  st \in W \/ "PARTIALLY_INSTALLED" \in W
  <2>1. PICK c \in Below(e, T) \cap Components : status[c] = st
    BY <1>2 DEF StatusesBelow
  <2>2. CASE CategoryOf[c] = e
    <3>1. c \in ChildrenOf(e, T)
      BY <2>2, BelowMember DEF ChildrenOf
    <3>2. SummaryOf(c, T, status) = st
      BY <2>1 DEF SummaryOf
    <3> QED BY <3>1, <3>2
  <2>3. CASE \E k \in T \cap Categories : CategoryOf[k] = e /\ c \in Below(k, T)
    <3>1. PICK k \in T \cap Categories : CategoryOf[k] = e /\ c \in Below(k, T)
      BY <2>3
    <3>2. st \in StatusesBelow(k, T, status)
      BY <2>1, <3>1 DEF StatusesBelow
    <3>3. Summary(StatusesBelow(k, T, status)) \in {st, "PARTIALLY_INSTALLED"}
      BY <1>2, <3>2 DEF Summary
    <3>4. SummaryOf(k, T, status) = Summary(StatusesBelow(k, T, status))
      BY TwoTables DEF SummaryOf
    <3>5. k \in ChildrenOf(e, T)
      BY <3>1 DEF ChildrenOf
    <3> QED BY <3>3, <3>4, <3>5
  <2> QED BY <2>2, <2>3, BelowFirst
<1>3. ASSUME NEW c \in ChildrenOf(e, T), NEW st, st \in StatusesBelow(c, T, status), c \in Categories
      PROVE  st \in U
  <2>1. c \in Below(e, T) \cap Categories
    BY <1>3, BelowChild DEF ChildrenOf
  <2>2. PICK d \in Below(c, T) \cap Components : status[d] = st
    BY <1>3 DEF StatusesBelow
  <2>3. d \in Below(e, T)
    BY <2>1, <2>2, BelowBelow
  <2> QED BY <2>2, <2>3 DEF StatusesBelow
<1>4. ASSUME NEW c \in ChildrenOf(e, T)
      PROVE  /\ SummaryOf(c, T, status) = "INSTALLED" => "INSTALLED" \in U
             /\ SummaryOf(c, T, status) = "NOT_INSTALLED" => "NOT_INSTALLED" \in U
             /\ SummaryOf(c, T, status) = "PARTIALLY_INSTALLED"
                  => {"INSTALLED", "NOT_INSTALLED"} \subseteq U
  <2>1. CASE c \in Components
    <3>1. c \in Below(e, T)
      BY BelowChild DEF ChildrenOf
    <3>2. status[c] \in U
      BY <2>1, <3>1 DEF StatusesBelow
    <3>3. SummaryOf(c, T, status) = status[c]
      BY <2>1 DEF SummaryOf
    <3> HIDE DEF U
    <3> QED BY <1>1, <3>2, <3>3
  <2>2. CASE c \notin Components
    <3>1. c \in Categories
      BY <2>2 DEF ChildrenOf, Elements
    <3>2. SummaryOf(c, T, status) = Summary(StatusesBelow(c, T, status))
      BY <2>2 DEF SummaryOf
    <3>3. "PARTIALLY_INSTALLED" \notin StatusesBelow(c, T, status)
      BY StatusesBelowType DEF OwnStatuses
    <3>4. \A st \in StatusesBelow(c, T, status) : st \in U
      BY <1>3, <3>1
    <3> HIDE DEF U
    <3> QED BY <3>2, <3>3, <3>4 DEF Summary
  <2> QED BY <2>1, <2>2
<1>5. /\ "INSTALLED" \in W => "INSTALLED" \in U
      /\ "NOT_INSTALLED" \in W => "NOT_INSTALLED" \in U
      /\ "PARTIALLY_INSTALLED" \in W => {"INSTALLED", "NOT_INSTALLED"} \subseteq U
  BY <1>4
<1>6. /\ "INSTALLED" \in U => "INSTALLED" \in W \/ "PARTIALLY_INSTALLED" \in W
      /\ "NOT_INSTALLED" \in U => "NOT_INSTALLED" \in W \/ "PARTIALLY_INSTALLED" \in W
  BY <1>2
<1> HIDE DEF U, W
<1>7. Summary(W) = Summary(U)
  BY <1>1, <1>5, <1>6 DEF Summary
<1> QED BY <1>7 DEF U, W

\* update_all_trees_elems_is_installed() computes it, whatever the shape.
LEMMA Summaries ==
  ASSUME NEW T, Tree(T), NEW status, StatusOf(status, T)
  PROVE  update_all_trees_elems_is_installed(T, status) = [e \in T |-> SummaryOf(e, T, status)]
<1> DEFINE Sum(f) == f = [e \in T |->
                       IF e \in Components THEN status[e]
                       ELSE summed_up({f[c] : c \in {x \in T : CategoryOf[x] = e}})]
           f == CHOOSE g : Sum(g)
           g == [e \in T |-> SummaryOf(e, T, status)]
<1>1. update_all_trees_elems_is_installed(T, status) = f
  BY DEF update_all_trees_elems_is_installed
<1>2. T \in SUBSET Elements
  BY DEF Tree
<1>3. ASSUME NEW e \in T, NEW h, \A c \in ChildrenOf(e, T) : h[c] = SummaryOf(c, T, status)
      PROVE  (IF e \in Components THEN status[e]
              ELSE summed_up({h[c] : c \in {x \in T : CategoryOf[x] = e}}))
               = SummaryOf(e, T, status)
  <2>1. CASE e \in Components BY <2>1 DEF SummaryOf
  <2>2. CASE e \notin Components
    <3> DEFINE W == {SummaryOf(c, T, status) : c \in ChildrenOf(e, T)}
    <3>1. {h[c] : c \in {x \in T : CategoryOf[x] = e}} = W
      BY <1>3 DEF ChildrenOf
    <3>2. W \in SUBSET Statuses
      BY SummaryType DEF ChildrenOf
    <3>3. summed_up(W) = Summary(W)
      <4> HIDE DEF W
      <4> QED BY <3>2, SummedUp
    <3>4. Summary(W) = Summary(StatusesBelow(e, T, status))
      BY <1>2, ChildrenSummary
    <3> HIDE DEF W
    <3> QED BY <2>2, <3>1, <3>3, <3>4 DEF SummaryOf
  <2> QED BY <2>1, <2>2
<1>4. Sum(g)
  <2>1. ASSUME NEW e \in T
        PROVE  g[e] = IF e \in Components THEN status[e]
                      ELSE summed_up({g[c] : c \in {x \in T : CategoryOf[x] = e}})
    <3>1. \A c \in ChildrenOf(e, T) : g[c] = SummaryOf(c, T, status)
      BY DEF ChildrenOf
    <3>2. g[e] = SummaryOf(e, T, status)
      OBVIOUS
    <3> HIDE DEF g
    <3> QED BY <1>3, <3>1, <3>2
  <2>2. g = [e \in T |-> g[e]]
    OBVIOUS
  <2> HIDE DEF g
  <2> QED BY <2>1, <2>2
<1>5. Sum(f)
  <2> HIDE DEF Sum, g
  <2> QED BY <1>4
<1> HIDE DEF f
<1>6. ASSUME NEW e \in T
      PROVE  f[e] = IF e \in Components THEN status[e]
                    ELSE summed_up({f[c] : c \in {x \in T : CategoryOf[x] = e}})
  BY <1>5
<1> DEFINE D == {e \in T : f[e] # SummaryOf(e, T, status)}
<1>7. ASSUME NEW e \in D PROVE \E c \in ChildrenOf(e, T) : c \in D
  <2>1. e \in T /\ f[e] # SummaryOf(e, T, status)
    OBVIOUS
  <2>2. \E c \in ChildrenOf(e, T) : f[c] # SummaryOf(c, T, status)
    <3> SUFFICES ASSUME \A c \in ChildrenOf(e, T) : f[c] = SummaryOf(c, T, status) PROVE FALSE
      OBVIOUS
    <3>1. (IF e \in Components THEN status[e]
           ELSE summed_up({f[c] : c \in {x \in T : CategoryOf[x] = e}})) = SummaryOf(e, T, status)
      BY <1>3, <2>1
    <3> HIDE DEF Sum
    <3> QED BY <1>6, <2>1, <3>1
  <2> QED BY <2>2 DEF ChildrenOf
<1>8. ASSUME NEW e \in D PROVE e \in Categories
  <2>1. e \in T /\ f[e] # SummaryOf(e, T, status)
    OBVIOUS
  <2>2. e \notin Components
    BY <1>6, <2>1 DEF SummaryOf
  <2> QED BY <1>2, <2>1, <2>2 DEF Elements
<1>9. D = {}
  <2> SUFFICES ASSUME D # {} PROVE FALSE OBVIOUS
  <2> HIDE DEF D
  <2> DEFINE F == {Below(e, T) : e \in D}
  <2>1. \A S \in F : IsFiniteSet(S)
    <3>1. IsFiniteSet(Elements) BY TwoTables, FS_Union DEF Elements
    <3>2. \A e \in D : Below(e, T) \in SUBSET Elements BY <1>2, BelowMember
    <3> QED BY <3>1, <3>2, FS_Subset
  <2>2. F # {} OBVIOUS
  <2>3. PICK S \in F : \A R \in F : R \subseteq S => R = S
    <3> HIDE DEF F
    <3> QED BY <2>1, <2>2, SmallestSet
  <2>4. PICK e \in D : S = Below(e, T) OBVIOUS
  <2>5. PICK c \in ChildrenOf(e, T) : c \in D BY <1>7
  <2>6. c \in Categories BY <1>8, <2>5
  <2>7. c \in Below(e, T) /\ c \in T BY BelowChild DEF ChildrenOf
  <2>8. Below(c, T) \subseteq Below(e, T) BY <2>6, <2>7, BelowBelow
  <2>9. Below(c, T) = Below(e, T) BY <2>3, <2>4, <2>5, <2>8
  <2>10. c \notin Below(c, T) BY <2>6, <2>7, NoCycle DEF Tree
  <2> QED BY <2>7, <2>9, <2>10
<1>10. f = [e \in T |-> f[e]]
  BY <1>5
<1>11. \A e \in T : f[e] = SummaryOf(e, T, status)
  BY <1>9
<1> HIDE DEF D, Sum
<1> QED BY <1>1, <1>10, <1>11
-----------------------------------------------------------------------------
(* What is printed of a tree. *)

\* The trees of the sections and the whole tree are trees.
LEMMA SectionTrees ==
  ASSUME DOMAIN tree \subseteq Elements, NEW s
  PROVE  Tree(SectionTree(s)) /\ SectionTree(s) \subseteq DOMAIN tree
<1>1. \A S : create_sections_categories_links(DOMAIN tree, S) \subseteq DOMAIN tree
  BY DEF create_sections_categories_links
<1>2. create_categories_links(DOMAIN tree) \subseteq DOMAIN tree
  BY DEF create_categories_links
<1>3. SectionLinks(s) \subseteq DOMAIN tree
  BY <1>1, <1>2 DEF SectionLinks
<1>4. SectionTree(s) \subseteq SectionLinks(s)
  BY BelowMember DEF SectionTree, section_result
<1> QED BY <1>3, <1>4 DEF Tree, SectionTree

\* The filters and a chosen category leave some elements out and change none.
LEMMA FilteredKeeps ==
  ASSUME NEW shape
  PROVE  /\ DOMAIN Filtered(shape) \subseteq DOMAIN shape
         /\ \A e \in DOMAIN Filtered(shape) : Filtered(shape)[e] = shape[e]
<1>1. CASE Filtered(shape) = shape BY <1>1
<1>2. ASSUME NEW cut, Filtered(shape) = Unlink(shape, cut)
      PROVE  /\ DOMAIN Filtered(shape) \subseteq DOMAIN shape
             /\ \A e \in DOMAIN Filtered(shape) : Filtered(shape)[e] = shape[e]
  BY <1>2 DEF Unlink
<1>3. \/ Filtered(shape) = shape
      \/ \E cut : Filtered(shape) = Unlink(shape, cut)
  BY DEF Filtered, unlink_uninstalled_tree_elem, unlink_installed_tree_elem
<1> QED BY <1>1, <1>2, <1>3

\* The tree of one category is a part of the tree.
LEMMA SubtreeKeeps ==
  ASSUME NEW shape, NEW c \in DOMAIN shape
  PROVE  /\ DOMAIN Subtree(shape, c) \subseteq DOMAIN shape
         /\ \A e \in DOMAIN Subtree(shape, c) : Subtree(shape, c)[e] = shape[e]
BY BelowMember DEF Subtree

\* A line of section s with a marker of the shape, or none.
LineOf(x, s, shape) ==
  x.section = s /\ (x.status # "" => x.elem \in DOMAIN shape /\ x.status = shape[x.elem])

\* Every printed line is one.
LEMMA PrintedLines ==
  ASSUME NEW s, NEW shape, NEW last
  PROVE  \A x \in print_list_with_filters(s, shape, last) : LineOf(x, s, shape)
<1> DEFINE Part(sh) == DOMAIN sh \subseteq DOMAIN shape /\ \A e \in DOMAIN sh : sh[e] = shape[e]
           Lines(sh) == {Line(s, "", "")} \cup
             (IF opt("--simple-tree") THEN print_subtree_buffered(s, sh)
              ELSE IF opt("--list") THEN print_sublist_buffered(s, sh)
              ELSE print_pseudo_graphic_subtree_buffered(s, sh))
           c == CHOOSE k \in printing_category_name : TRUE
<1> SUFFICES ASSUME NEW x \in print_list_with_filters(s, shape, last) PROVE LineOf(x, s, shape)
  OBVIOUS
<1>1. ASSUME NEW sh, Part(sh), NEW y \in Lines(sh) PROVE LineOf(y, s, shape)
  <2>1. \/ y = Line(s, "", "") \/ y \in print_subtree_buffered(s, sh)
        \/ y \in print_sublist_buffered(s, sh)
        \/ y \in print_pseudo_graphic_subtree_buffered(s, sh)
    OBVIOUS
  <2>2. ASSUME NEW e, y = Line(s, e, "") PROVE LineOf(y, s, shape)
    BY <2>2 DEF Line, LineOf
  <2>3. ASSUME NEW e \in DOMAIN sh, y = Line(s, e, sh[e]) PROVE LineOf(y, s, shape)
    <3>1. e \in DOMAIN shape /\ sh[e] = shape[e]
      BY <1>1
    <3> QED BY <2>3, <3>1 DEF Line, LineOf
  <2> QED BY <2>1, <2>2, <2>3 DEF print_subtree_buffered, print_sublist_buffered,
             print_pseudo_graphic_subtree_buffered
<1>2. ASSUME NEW sh, Part(sh) PROVE Part(Filtered(sh))
  <2>1. /\ DOMAIN Filtered(sh) \subseteq DOMAIN sh
        /\ \A e \in DOMAIN Filtered(sh) : Filtered(sh)[e] = sh[e]
    BY FilteredKeeps
  <2> QED BY <1>2, <2>1
<1>3. ASSUME c \in DOMAIN shape PROVE Part(Subtree(shape, c))
  <2> HIDE DEF c
  <2> QED BY <1>3, SubtreeKeeps
<1>4. get_tree_elem_by_name(shape, c) # <<>> => c \in DOMAIN shape
  BY DEF get_tree_elem_by_name
<1>5. \/ x \in Lines(Filtered(shape))
      \/ c \in DOMAIN shape /\ x \in Lines(Filtered(Subtree(shape, c)))
  BY <1>4 DEF print_list_with_filters
<1>6. Part(shape) OBVIOUS
<1> HIDE DEF Lines, Part, c
<1> QED BY <1>1, <1>2, <1>3, <1>5, <1>6

-----------------------------------------------------------------------------
(* The invariant of the lists. *)

\* What has been read of the components: no status is a summary yet.
TreeIsRead ==
  /\ DOMAIN tree \subseteq Elements
  /\ \A c \in DOMAIN tree \cap Components : tree[c] \in OwnStatuses

\* A command that lists components, and the functions that it goes through.
Listing ==
  /\ argv.module = "components" /\ app_command = "ALTERATORCTL_RUN_MODULE"
  /\ Commanded(argv.sub) = "list"

BeforePrinting ==
  AppFunctions \cup {"parse_arguments", "components_module_run", "list", "sections"}

ListFunctions ==
  BeforePrinting \cup {"print_components_section", "components_module_handle_results", "end"}

\* A printed category has the summary of what is below it.
LineSummary(x) ==
  x.elem \in Categories /\ x.status # ""
    => x.status = Summary(StatusesBelow(x.elem, SectionTree(x.section), tree))

\* Nothing is printed before the statuses have been read, and they stay as
\* they were read while sections are printed.
ListInv ==
  /\ argv.module = "components" /\ at \in {"sections", "print_components_section"} => TreeIsRead
  /\ Listing =>
       /\ at \in ListFunctions
       /\ at \in BeforePrinting => shown = {}
       /\ shown # {} => TreeIsRead
       /\ \A x \in shown : LineSummary(x)

-----------------------------------------------------------------------------
\* The marker that CategoryIsSummary asks for.
LEMMA MarkerIsSummary ==
  ASSUME NEW T, NEW status, StatusOf(status, T), NEW e,
         NEW seen, seen = {status[c] : c \in Below(e, T) \cap Components} \ {"NONE"}
  PROVE  Summary(StatusesBelow(e, T, status))
           = IF seen = {} THEN "NONE"
             ELSE IF Cardinality(seen) = 1 THEN CHOOSE st \in seen : TRUE
             ELSE "PARTIALLY_INSTALLED"
<1> DEFINE U == StatusesBelow(e, T, status)
<1>1. U \subseteq OwnStatuses BY StatusesBelowType
<1>2. seen = U \ {"NONE"} BY DEF StatusesBelow
<1> HIDE DEF U
<1>3. seen \subseteq {"INSTALLED", "NOT_INSTALLED"} BY <1>1, <1>2 DEF OwnStatuses
<1>4. CASE seen = {} BY <1>1, <1>2, <1>4 DEF Summary, OwnStatuses, U
<1>5. ASSUME NEW st \in {"INSTALLED", "NOT_INSTALLED"}, seen = {st} PROVE
         /\ Summary(U) = st /\ seen # {} /\ Cardinality(seen) = 1 /\ (CHOOSE x \in seen : TRUE) = st
  <2>1. Cardinality(seen) = 1 BY <1>5, FS_Singleton
  <2>2. Summary(U) = st BY <1>1, <1>2, <1>5 DEF Summary, OwnStatuses
  <2>3. (CHOOSE x \in seen : TRUE) = st BY <1>5
  <2> QED BY <1>5, <2>1, <2>2, <2>3
<1>6. ASSUME seen = {"INSTALLED", "NOT_INSTALLED"} PROVE
         Summary(U) = "PARTIALLY_INSTALLED" /\ seen # {} /\ Cardinality(seen) # 1
  <2>1. Cardinality(seen) # 1
    <3> SUFFICES ASSUME Cardinality(seen) = 1 PROVE FALSE OBVIOUS
    <3>1. IsFiniteSet({"INSTALLED"} \cup {"NOT_INSTALLED"}) BY FS_Singleton, FS_Union
    <3>2. seen = {"INSTALLED"} \cup {"NOT_INSTALLED"} BY <1>6
    <3>3. \E x : seen = {x} BY <3>1, <3>2, FS_Singleton
    <3> QED BY <1>6, <3>3
  <2>2. Summary(U) = "PARTIALLY_INSTALLED" BY <1>2, <1>6 DEF Summary
  <2> QED BY <1>6, <2>1, <2>2
<1>7. \/ seen = {} \/ seen = {"INSTALLED"} \/ seen = {"NOT_INSTALLED"}
      \/ seen = {"INSTALLED", "NOT_INSTALLED"}
  BY <1>3
<1> QED BY <1>4, <1>5, <1>6, <1>7 DEF U

\* What one section adds to the output has the summaries of its tree.
LEMMA SectionSummaries ==
  ASSUME TreeIsRead, NEW s, NEW last,
         NEW shape, shape = update_all_trees_elems_is_installed(SectionTree(s), tree)
  PROVE  \A x \in print_list_with_filters(s, shape, last) :
           /\ x.section = s
           /\ x.elem \in Categories /\ x.status # ""
                => x.status = Summary(StatusesBelow(x.elem, SectionTree(s), tree))
<1> SUFFICES ASSUME NEW x \in print_list_with_filters(s, shape, last)
             PROVE  /\ x.section = s
                    /\ x.elem \in Categories /\ x.status # ""
                         => x.status = Summary(StatusesBelow(x.elem, SectionTree(s), tree))
  OBVIOUS
<1>1. Tree(SectionTree(s)) /\ SectionTree(s) \subseteq DOMAIN tree
  BY SectionTrees DEF TreeIsRead
<1>2. StatusOf(tree, SectionTree(s))
  BY <1>1 DEF TreeIsRead, StatusOf
<1>3. shape = [e \in SectionTree(s) |-> SummaryOf(e, SectionTree(s), tree)]
  BY <1>1, <1>2, Summaries
<1>4. LineOf(x, s, shape)
  BY PrintedLines
<1>5. ASSUME x.elem \in Categories, x.status # ""
      PROVE  x.status = Summary(StatusesBelow(x.elem, SectionTree(s), tree))
  <2>1. x.elem \in SectionTree(s) /\ x.status = SummaryOf(x.elem, SectionTree(s), tree)
    BY <1>3, <1>4, <1>5 DEF LineOf
  <2>2. x.elem \notin Components BY <1>5, TwoTables
  <2> QED BY <2>1, <2>2 DEF SummaryOf
<1> QED BY <1>4, <1>5 DEF LineOf

\* The components that were asked for survive the filters.
LEMMA FilteredAsked ==
  ASSUME TreeIsRead, NEW s,
         NEW shape, shape = update_all_trees_elems_is_installed(SectionTree(s), tree),
         argv.opts \cap {"--installed", "--not-installed"} # {},
         NEW c \in SectionTree(s) \cap Components,
         tree[c] = IF opt("--installed") THEN "INSTALLED" ELSE "NOT_INSTALLED"
  PROVE  c \in DOMAIN Filtered(shape)
<1> DEFINE T == SectionTree(s)
           asked == IF opt("--installed") THEN "INSTALLED" ELSE "NOT_INSTALLED"
           other == IF opt("--installed") THEN "NOT_INSTALLED" ELSE "INSTALLED"
           cut == {e \in DOMAIN shape : shape[e] \in {other, "NONE"}}
<1>1. Tree(T) /\ T \subseteq DOMAIN tree
  BY SectionTrees DEF TreeIsRead
<1>2. StatusOf(tree, T)
  BY <1>1 DEF TreeIsRead, StatusOf
<1>3. shape = [e \in T |-> SummaryOf(e, T, tree)]
  BY <1>1, <1>2, Summaries
<1>4. Filtered(shape) = Unlink(shape, cut)
  BY DEF Filtered, opt, unlink_uninstalled_tree_elem, unlink_installed_tree_elem
<1>5. DOMAIN shape = T /\ shape[c] = tree[c]
  BY <1>3 DEF SummaryOf
<1>6. ASSUME NEW k \in cut PROVE c # k /\ c \notin Below(k, T)
  <2>1. k \in T /\ SummaryOf(k, T, tree) \in {other, "NONE"}
    BY <1>3
  <2>2. c # k
    BY <1>5, <1>6
  <2> SUFFICES ASSUME c \in Below(k, T) PROVE FALSE BY <2>2
  <2>3. k \in Categories
    <3>1. \E y \in T : CategoryOf[y] = k
      BY BelowFirst
    <3>2. PICK y \in T : CategoryOf[y] = k
      BY <3>1
    <3>3. PICK linked : T = Below("", linked)
      BY <1>1 DEF Tree, section_result
    <3>4. k = "" \/ k \in Categories
      <4>1. y \in Below("", linked)
        BY <3>2, <3>3
      <4>2. CategoryOf[y] \in {""} \cup (Below("", linked) \cap Categories)
        BY <4>1, BelowParent
      <4> QED BY <3>2, <4>2
    <3>5. k # ""
      BY <1>1, <2>1, TwoTables DEF Tree, Elements
    <3> QED BY <3>4, <3>5
  <2>4. asked \in StatusesBelow(k, T, tree)
    BY DEF StatusesBelow
  <2>5. SummaryOf(k, T, tree) = Summary(StatusesBelow(k, T, tree))
    BY <2>3, TwoTables DEF SummaryOf
  <2>6. Summary(StatusesBelow(k, T, tree)) \in {asked, "PARTIALLY_INSTALLED"}
    BY <2>4 DEF Summary
  <2> QED BY <2>1, <2>5, <2>6
<1> HIDE DEF cut, T
<1> QED BY <1>4, <1>5, <1>6 DEF Unlink, T

\* In every format a component that the filters keep has a line of its own.
LEMMA AskedLines ==
  ASSUME NEW s, NEW shape, NEW last, printing_category_name = {},
         NEW c \in DOMAIN Filtered(shape) \cap Components
  PROVE  \E x \in print_list_with_filters(s, shape, last) : x.section = s /\ x.elem = c
<1> DEFINE sh == Filtered(shape)
           Lines == {Line(s, "", "")} \cup
             (IF opt("--simple-tree") THEN print_subtree_buffered(s, sh)
              ELSE IF opt("--list") THEN print_sublist_buffered(s, sh)
              ELSE print_pseudo_graphic_subtree_buffered(s, sh))
<1>1. print_list_with_filters(s, shape, last) = Lines
  BY DEF print_list_with_filters
<1>2. Line(s, c, "") \in Lines \/ Line(s, c, sh[c]) \in Lines
  BY DEF print_subtree_buffered, print_sublist_buffered, print_pseudo_graphic_subtree_buffered
<1>3. \A m : Line(s, c, m).section = s /\ Line(s, c, m).elem = c
  BY DEF Line
<1> HIDE DEF Lines, sh
<1> QED BY <1>1, <1>2, <1>3

-----------------------------------------------------------------------------
(* Steps. *)

\* What a step leaves alone: the tree and all that depends on it.
LEMMA SameTree ==
  ASSUME tree' = tree
  PROVE  /\ TreeIsRead' <=> TreeIsRead
         /\ \A s : SectionTree(s)' = SectionTree(s)
         /\ \A x : LineSummary(x)' <=> LineSummary(x)
<1>1. TreeIsRead' <=> TreeIsRead BY DEF TreeIsRead
<1>2. \A s : SectionTree(s)' = SectionTree(s) BY DEF SectionTree, SectionLinks
<1>3. ASSUME NEW x PROVE LineSummary(x)' <=> LineSummary(x)
  <2>1. SectionTree(x.section)' = SectionTree(x.section) BY <1>2
  <2> QED BY <2>1 DEF LineSummary, StatusesBelow
<1> QED BY <1>1, <1>2, <1>3

\* A command stays a list.
LEMMA SameListing ==
  ASSUME argv' = argv
  PROVE  Listing' <=> Listing
BY DEF Listing, app_command

\* A step that prints nothing.
LEMMA ListKeeps ==
  ASSUME ListInv, UNCHANGED <<argv, shown, tree>>,
         at' \in {"sections", "print_components_section"} /\ argv.module = "components" => TreeIsRead,
         Listing => at' \in ListFunctions /\ (at' \in BeforePrinting => shown = {})
  PROVE  ListInv'
<1>1. (Listing' <=> Listing) /\ (TreeIsRead' <=> TreeIsRead)
  BY SameListing, SameTree
<1>2. ASSUME Listing, NEW x \in shown PROVE LineSummary(x)'
  BY <1>2, SameTree DEF ListInv
<1> QED BY <1>1, <1>2 DEF ListInv

\* A step of another command, that does not come to print sections.
LEMMA NotListing ==
  ASSUME argv' = argv, ~Listing,
         argv.module # "components" \/ at' \notin {"sections", "print_components_section"}
  PROVE  ListInv'
BY SameListing DEF ListInv

\* The application prints nothing before its module has run.
LEMMA AppList ==
  ASSUME ListInv, AppNext \/ names_use_after_free, UNCHANGED componentsVars
  PROVE  ListInv'
<1>1. argv' = argv /\ at' \in {"end", "alterator_ctl_app_run", "parse_arguments"}
  BY DEF AppNext, alterator_ctl_app_parse_args, alterator_ctl_app_run, ERR_EXIT, Finish, Goto,
     alterator_ctl_app_list_modules, names_use_after_free, CRASH
<1>2. CASE ~Listing BY <1>1, <1>2, NotListing
<1>3. CASE Listing
  <2>1. shown' = shown
    BY <1>3 DEF AppNext, alterator_ctl_app_parse_args, alterator_ctl_app_run, names_use_after_free,
       Listing
  <2>2. at' # "end" => at \in BeforePrinting
    BY DEF AppNext, alterator_ctl_app_parse_args, alterator_ctl_app_run, names_use_after_free,
       BeforePrinting, AppFunctions, CRASH
  <2>3. at' \in {"alterator_ctl_app_run", "parse_arguments"} => shown = {}
    BY <1>3, <2>2 DEF ListInv
  <2>4. at' \in ListFunctions /\ (at' \in BeforePrinting => shown = {})
    BY <1>1, <2>3 DEF ListFunctions, BeforePrinting, AppFunctions
  <2> QED BY <1>1, <2>1, <2>4, ListKeeps DEF componentsVars
<1> QED BY <1>2, <1>3

\* The packages module, whose question is the components module's as well.
LEMMA PackagesModule ==
  ASSUME PackagesNext
  PROVE  /\ argv' = argv
         /\ \/ argv.module = "packages"
            \/ at = ShowsPlan /\ at' \in {"ApplyAsync", "end"}
BY DEF PackagesNext, packages_module_parse_arguments, packages_module_run,
   packages_module_rpm_subcommand, packages_module_apt_subcommand, packages_module_repo_subcommand,
   CheckApply, ShowPlan, apt_apply_async, apt_reinstall, apt_update,
   packages_module_apt_sigint_handler, packages_module_handle_results, In, ShowsPlan, Goto, Finish,
   ERR_EXIT

\* A list is never asked about a plan.
LEMMA PackagesList ==
  ASSUME ListInv, PackagesNext
  PROVE  ListInv'
<1>1. ~Listing
  BY PackagesModule
     DEF ListInv, Listing, ListFunctions, BeforePrinting, AppFunctions, ShowsPlan
<1> QED BY <1>1, PackagesModule, NotListing

\* The functions of the other subcommands.
LEMMA OtherFunctionsList ==
  ASSUME ListInv, ComponentsNext,
         ~components_module_parse_arguments, ~components_module_run,
         ~components_module_list_subcommand, ~ChooseSections, ~print_components_section,
         ~SectionsPrinted, ~components_module_handle_results
  PROVE  ListInv'
<1>1. /\ argv' = argv /\ argv.module = "components"
      /\ at \in {"info", "description", "search", "status", "install", "remove", "apt update",
                 "get_packages_of_component", "remove_component", "CheckApply", "affected",
                 "ApplyAsync"}
  BY DEF ComponentsNext, components_module_info_subcommand,
     components_module_description_subcommand, components_module_search_subcommand,
     components_module_status_subcommand, components_module_install_subcommand,
     components_module_remove_subcommand, Prepared, apt_update_packages_list,
     get_packages_of_component, components_module_remove_component, ComponentsCheckApply,
     print_affected_components, install_component_packages, remove_component_packages, In
<1>2. at' \notin {"sections", "print_components_section"}
  <2> USE DEF ERR_EXIT, Goto
  <2>1. CASE components_module_info_subcommand \/ components_module_description_subcommand
    BY <2>1 DEF components_module_info_subcommand, components_module_description_subcommand
  <2>2. CASE components_module_search_subcommand \/ components_module_status_subcommand
    BY <2>2 DEF components_module_search_subcommand, components_module_status_subcommand
  <2>3. CASE components_module_install_subcommand \/ components_module_remove_subcommand
    BY <2>3 DEF components_module_install_subcommand, components_module_remove_subcommand, Prepared
  <2>4. CASE apt_update_packages_list
    BY <2>4 DEF apt_update_packages_list
  <2>5. CASE get_packages_of_component \/ components_module_remove_component
    BY <2>5 DEF get_packages_of_component, components_module_remove_component
  <2>6. CASE ComponentsCheckApply \/ print_affected_components
    BY <2>6 DEF ComponentsCheckApply, print_affected_components
  <2>7. CASE install_component_packages \/ remove_component_packages
    BY <2>7 DEF install_component_packages, remove_component_packages
  <2> QED BY <2>1, <2>2, <2>3, <2>4, <2>5, <2>6, <2>7 DEF ComponentsNext
<1>3. ~Listing
  BY <1>1 DEF ListInv, ListFunctions, BeforePrinting, AppFunctions
<1> QED BY <1>1, <1>2, <1>3, NotListing

\* What comes before the list and after it.
LEMMA FrameList ==
  ASSUME ListInv, components_module_parse_arguments \/ components_module_run \/ SectionsPrinted
  PROVE  ListInv'
<1>1. UNCHANGED <<argv, shown, tree>>
  BY DEF components_module_parse_arguments, components_module_run, SectionsPrinted, componentsVars
<1>2. at' \notin {"sections", "print_components_section"}
  BY CommandedWords DEF components_module_parse_arguments, components_module_run, SectionsPrinted,
     Goto, ERR_EXIT
<1>3. at' = "components_module_run" \/ at' = Commanded(argv.sub)
        \/ at' \in {"end", "components_module_handle_results"}
  BY DEF components_module_parse_arguments, components_module_run, SectionsPrinted, Goto, ERR_EXIT
<1>4. at' \notin {"end", "components_module_handle_results"} => at \in BeforePrinting
  BY DEF components_module_parse_arguments, components_module_run, SectionsPrinted, In, Goto,
     BeforePrinting
<1>5. ASSUME Listing PROVE at' \in ListFunctions /\ (at' \in BeforePrinting => shown = {})
  <2>1. Commanded(argv.sub) = "list" BY <1>5 DEF Listing
  <2>2. at' \in ListFunctions BY <1>3, <2>1 DEF ListFunctions, BeforePrinting
  <2>3. at' \in BeforePrinting => at \in BeforePrinting
    BY <1>4 DEF BeforePrinting, AppFunctions
  <2> QED BY <1>5, <2>2, <2>3 DEF ListInv
<1> QED BY <1>1, <1>2, <1>5, ListKeeps

\* Choosing the sections comes after the statuses and changes none.
LEMMA ChooseList ==
  ASSUME ListInv, ChooseSections
  PROVE  ListInv'
<1>1. /\ UNCHANGED <<argv, shown, tree>> /\ argv.module = "components" /\ at = "sections"
      /\ at' \in {"end", "print_components_section"}
  BY DEF ChooseSections, In, Goto, ERR_EXIT
<1>2. TreeIsRead BY <1>1 DEF ListInv
<1>3. at' \in ListFunctions /\ at' \notin BeforePrinting
  BY <1>1 DEF ListFunctions, BeforePrinting, AppFunctions
<1> QED BY <1>1, <1>2, <1>3, ListKeeps

\* The results of a list are the lines already printed.
LEMMA ResultsList ==
  ASSUME ListInv, components_module_handle_results
  PROVE  ListInv'
<1>1. argv' = argv /\ tree' = tree /\ at' = "end"
  BY DEF components_module_handle_results, components_module_handle_info_results,
     components_module_handle_description_results, PrintText, Finish, ERR_EXIT, componentsVars
<1>2. CASE ~Listing BY <1>1, <1>2, NotListing
<1>3. CASE Listing
  <2>1. argv.sub \notin {"info", "description"} BY <1>3 DEF Listing, Commanded
  <2>2. shown' = shown
    BY <2>1 DEF components_module_handle_results, components_module_handle_info_results,
       components_module_handle_description_results
  <2>3. at' \in ListFunctions /\ at' \notin BeforePrinting
    BY <1>1 DEF ListFunctions, BeforePrinting, AppFunctions
  <2> QED BY <1>1, <2>2, <2>3, ListKeeps
<1> QED BY <1>2, <1>3

\* The status of a component is never a summary.
LEMMA ComponentStatus ==
  ASSUME NEW c, NEW un, NEW e
  PROVE  get_component_status_by_uninstalled_packages_list(c, un, e) \in OwnStatuses \cup {"error"}
BY DEF get_component_status_by_uninstalled_packages_list, OwnStatuses

\* An answer to a batch call that is no error is the batch.
LEMMA Fetched ==
  ASSUME NEW S, NEW r \in Fetch({S}), r # NULL
  PROVE  r[1] = S
BY DEF Fetch, call, alterator_gdbus_source_callback

\* The statuses are read before the first line.
LEMMA ReadList ==
  ASSUME ListInv, components_module_list_subcommand
  PROVE  ListInv'
<1>1. argv' = argv /\ shown' = shown /\ argv.module = "components" /\ at = "list"
  BY DEF components_module_list_subcommand, In
<1>2. at' \in {"sections", "end"} /\ (at' = "sections" => TreeIsRead')
  <2>1. PICK cats \in get_categories_info, sec \in get_section_nodes,
          comps \in get_components_info, un \in get_components_uninstalled_packages,
          named \in get_display_name, e \in get_env :
         IF NULL \in {cats, comps, un, e} \/ ~named
           THEN ERR_EXIT /\ UNCHANGED <<env, tree, left>>
           ELSE LET status == [c \in Components |->
                      get_component_status_by_uninstalled_packages_list(c, un[1], e[1])]
                    known == NotDraft(cats[1] \cup comps[1])
                    sections == IF opt("--ignore-sections") THEN NULL ELSE sec
                IN /\ env' = e[1]
                   /\ IF \E c \in Components : status[c] = "error"
                        THEN ERR_EXIT /\ UNCHANGED <<tree, left>>
                        ELSE /\ tree' = [x \in known |-> IF x \in Components THEN status[x]
                                                         ELSE "NONE"]
                             /\ left' = IF sections = NULL THEN <<"all">> ELSE sections[1]
                             /\ Goto("sections")
    BY DEF components_module_list_subcommand
  <2> DEFINE known == NotDraft(cats[1] \cup comps[1])
             status == [c \in Components |->
                          get_component_status_by_uninstalled_packages_list(c, un[1], e[1])]
             read == NULL \notin {cats, comps, un, e} /\ named
                       /\ ~\E c \in Components : status[c] = "error"
  <2>2. CASE ~read BY <2>1, <2>2 DEF ERR_EXIT
  <2>3. CASE read
    <3>1. /\ tree' = [x \in known |-> IF x \in Components THEN status[x] ELSE "NONE"]
          /\ at' = "sections"
      BY <2>1, <2>3 DEF Goto
    <3>2. cats[1] = Categories /\ comps[1] = Components
      BY <2>3, Fetched DEF get_categories_info, get_components_info
    <3>3. known \subseteq Elements
      BY <3>2 DEF NotDraft, Elements
    <3>4. \A c \in Components : status[c] \in OwnStatuses
      BY <2>3, ComponentStatus
    <3> HIDE DEF known, status
    <3>5. DOMAIN tree' = known /\ \A c \in known \cap Components : tree'[c] = status[c]
      BY <3>1
    <3> QED BY <3>1, <3>3, <3>4, <3>5 DEF TreeIsRead
  <2> QED BY <2>2, <2>3
<1>3. Listing' => shown' = {}
  BY <1>1, SameListing DEF ListInv, BeforePrinting
<1>4. at' \in ListFunctions
  BY <1>2 DEF ListFunctions, BeforePrinting
<1>5. Listing' => \A x \in shown' : LineSummary(x)'
  BY <1>3
<1> QED BY <1>2, <1>3, <1>4, <1>5 DEF ListInv

\* What a printed section adds to the output.
LEMMA PrintedSection ==
  ASSUME print_components_section, at' = at
  PROVE  LET s == Head(left)
             shape == update_all_trees_elems_is_installed(SectionTree(s), tree)
         IN shown' = shown \cup print_list_with_filters(s, shape, Tail(left) = <<>>)
BY DEF print_components_section, In, ERR_EXIT

\* A section that is printed has the summaries of its own tree.
LEMMA PrintList ==
  ASSUME ListInv, print_components_section
  PROVE  ListInv'
<1>1. /\ argv' = argv /\ tree' = tree /\ argv.module = "components"
      /\ at = "print_components_section" /\ at' \in {"print_components_section", "end"}
      /\ at' = "end" => shown' = shown
  BY DEF print_components_section, In, ERR_EXIT, Goto
<1>2. TreeIsRead BY <1>1 DEF ListInv
<1>3. at' \in ListFunctions /\ at' \notin BeforePrinting
  BY <1>1 DEF ListFunctions, BeforePrinting, AppFunctions
<1>4. CASE at' = "end" BY <1>1, <1>2, <1>3, <1>4, ListKeeps
<1>5. CASE at' = at
  <2> DEFINE s == Head(left)
             shape == update_all_trees_elems_is_installed(SectionTree(s), tree)
             lines == print_list_with_filters(s, shape, Tail(left) = <<>>)
  <2>1. shown' = shown \cup lines BY <1>5, PrintedSection
  <2>2. \A x \in lines : x.section = s
          /\ (x.elem \in Categories /\ x.status # ""
                => x.status = Summary(StatusesBelow(x.elem, SectionTree(s), tree)))
    BY <1>2, SectionSummaries
  <2>3. \A x \in lines : LineSummary(x)
    <3> HIDE DEF lines, s
    <3> QED BY <2>2 DEF LineSummary
  <2> HIDE DEF lines
  <2>4. ASSUME Listing PROVE \A x \in shown' : LineSummary(x)
    BY <2>1, <2>3, <2>4 DEF ListInv
  <2> QED BY <1>1, <1>2, <1>3, <2>4, SameTree, SameListing DEF ListInv
<1> QED BY <1>1, <1>4, <1>5

\* Nothing is read and nothing printed at first.
LEMMA ListInit == Init => ListInv
BY DEF Init, CommonInit, ListInv, ListFunctions, BeforePrinting, AppFunctions

\* Every step of the program keeps the invariant of the lists.
LEMMA ListNext == ListInv /\ [Next]_vars => ListInv'
<1> SUFFICES ASSUME ListInv, [Next]_vars PROVE ListInv' OBVIOUS
<1>1. CASE /\ AppNext \/ names_use_after_free
           /\ UNCHANGED <<diagVars, packagesVars, componentsVars>>
  BY <1>1, AppList
<1>2. CASE QueryNext
  BY <1>2, QueryModule, NotListing DEF Listing
<1>3. CASE DiagNext
  <2>1. argv' = argv /\ argv.module = "diag"
    BY <1>3, DiagNextMoves DEF DiagMoves, RunNextTest, In
  <2> QED BY <2>1, NotListing DEF Listing
<1>4. CASE PackagesNext BY <1>4, PackagesList
<1>5. CASE ComponentsNext
  BY <1>5, OtherFunctionsList, FrameList, ChooseList, ResultsList, ReadList, PrintList
<1>6. CASE \/ OtherAdministrator /\ UNCHANGED <<diagVars, componentsVars>>
           \/ Ended \/ UNCHANGED vars
  <2>1. UNCHANGED <<argv, shown, tree, at>>
    BY <1>6 DEF OtherAdministrator, Ended, vars, commonVars, componentsVars
  <2> QED BY <2>1, ListKeeps DEF ListInv
<1> QED BY <1>1, <1>2, <1>3, <1>4, <1>5, <1>6 DEF Next, Step

\* The invariant of the lists holds in every state.
THEOREM ListInvariance == Spec => []ListInv
BY ListInit, ListNext, PTL DEF Spec

\* Every category that a list prints (print_list_with_filters) has the status that
\* sums up the components below it in its section's tree, whatever the shape of the
\* catalogue and the order in which update_tree_elem_is_installed() meets them.
THEOREM SummariesPrinted == Spec => []CategoryIsSummary
<1>1. ListInv => CategoryIsSummary
  <2> SUFFICES ASSUME ListInv, Listing,
                      NEW s \in {x.section : x \in shown},
                      NEW x \in shown, x.section = s, x.elem \in Categories, x.status # "",
                      NEW seen,
                      seen = {tree[c] : c \in Below(x.elem, SectionTree(s)) \cap Components} \ {"NONE"}
               PROVE  x.status = IF seen = {} THEN "NONE"
                                 ELSE IF Cardinality(seen) = 1 THEN CHOOSE st \in seen : TRUE
                                 ELSE "PARTIALLY_INSTALLED"
    BY DEF CategoryIsSummary, Listing
  <2>1. TreeIsRead /\ LineSummary(x) BY DEF ListInv
  <2>2. StatusOf(tree, SectionTree(s)) BY <2>1, SectionTrees DEF TreeIsRead, StatusOf
  <2>3. x.status = Summary(StatusesBelow(x.elem, SectionTree(s), tree)) BY <2>1 DEF LineSummary
  <2> QED BY <2>2, <2>3, MarkerIsSummary
<1> QED BY <1>1, ListInvariance, PTL

\* A printing step with a filter prints every component that was asked for.
LEMMA AskedNext ==
  ASSUME ListInv, [Next]_vars, In("components", "print_components_section"), at' = at, left # <<>>,
         printing_category_name = {}, argv.opts \cap {"--installed", "--not-installed"} # {},
         ~UNCHANGED <<commonVars, componentsVars>>,
         NEW c \in SectionTree(Head(left)) \cap Components,
         tree[c] = IF opt("--installed") THEN "INSTALLED" ELSE "NOT_INSTALLED"
  PROVE  \E x \in shown' : x.section = Head(left) /\ x.elem = c
<1>1. print_components_section
  <2>1. ~AppNext /\ ~QueryNext /\ ~names_use_after_free /\ ~DiagNext
    <3>1. ~AppNext /\ ~names_use_after_free
      BY DEF AppNext, alterator_ctl_app_parse_args, alterator_ctl_app_run, names_use_after_free,
         CRASH, In
    <3>2. ~QueryNext BY QueryModule DEF In
    <3>3. ~DiagNext BY DiagNextMoves DEF DiagMoves, RunNextTest, In
    <3> QED BY <3>1, <3>2, <3>3
  <2>2. ~PackagesNext BY PackagesModule DEF In, ShowsPlan
  <2>3. ~OtherAdministrator \/ ~UNCHANGED componentsVars BY DEF OtherAdministrator
  <2>4. ~Ended /\ ~UNCHANGED vars BY DEF Ended, vars
  <2>5. ComponentsNext BY <2>1, <2>2, <2>3, <2>4 DEF Next, Step
  <2>6. ASSUME ~print_components_section PROVE FALSE
    <3> USE DEF In
    <3>1. ~SectionsPrinted BY DEF SectionsPrinted
    <3> QED BY <2>5, <2>6, <3>1 DEF ComponentsNext,
     components_module_parse_arguments, components_module_run, components_module_list_subcommand,
     ChooseSections, components_module_info_subcommand,
     components_module_description_subcommand, components_module_search_subcommand,
     components_module_status_subcommand, components_module_install_subcommand,
     components_module_remove_subcommand, Prepared, apt_update_packages_list,
     get_packages_of_component, components_module_remove_component, ComponentsCheckApply,
     print_affected_components, install_component_packages, remove_component_packages,
     components_module_handle_results
  <2> QED BY <2>6
<1> DEFINE s == Head(left)
           shape == update_all_trees_elems_is_installed(SectionTree(s), tree)
           lines == print_list_with_filters(s, shape, Tail(left) = <<>>)
<1>2. shown' = shown \cup lines BY <1>1, PrintedSection
<1>3. TreeIsRead BY DEF ListInv, In
<1>4. c \in DOMAIN Filtered(shape) BY <1>3, FilteredAsked
<1>5. \E x \in lines : x.section = s /\ x.elem = c
  <2> HIDE DEF s, shape
  <2> QED BY <1>4, AskedLines
<1> HIDE DEF lines
<1> QED BY <1>2, <1>5

\* --installed and --not-installed cut whole branches of a tree after the statuses
\* have been summed up (unlink_uninstalled_tree_elem, unlink_installed_tree_elem):
\* no branch that holds a component that was asked for goes.
THEOREM AskedPrinted == Spec => FilterKeepsAsked
<1>1. ListInv /\ [Next]_vars =>
        [(/\ In("components", "print_components_section") /\ at' = at /\ left # <<>>
          /\ printing_category_name = {} /\ argv.opts \cap {"--installed", "--not-installed"} # {})
         => LET asked == IF opt("--installed") THEN "INSTALLED" ELSE "NOT_INSTALLED"
            IN \A c \in SectionTree(Head(left)) \cap Components : tree[c] = asked =>
                 \E x \in shown' : x.section = Head(left) /\ x.elem = c
        ]_<<commonVars, componentsVars>>
  BY AskedNext
<1> QED BY <1>1, ListInvariance, PTL DEF Spec, FilterKeepsAsked

=============================================================================
