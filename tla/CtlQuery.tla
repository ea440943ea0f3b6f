------------------------------ MODULE CtlQuery -------------------------------
(***************************************************************************)
(* The modules of alteratorctl that mostly ask: manager (objects,          *)
(* interfaces and signals of both buses), editions (which edition is       *)
(* installed, what the editions say of themselves, set the current one)    *)
(* and systeminfo (thirteen properties of the machine, one by one or all   *)
(* of them).                                                               *)
(***************************************************************************)
EXTENDS CtlCommon

CONSTANTS
    Objects,        \* D-Bus objects a bus may hold
    Ifaces,         \* interfaces they may have
    OddAnswers      \* how many of the answers of one description may be odd

-----------------------------------------------------------------------------
(* The manager module. *)

BusOptions == argv.opts \cap {"--system", "--session"}

\* One bus option, both, or none of them; another word with "--" is refused.
manager_module_initialize_getobject_ctx ==
    /\ Len(argv.args) + Cardinality(argv.opts) <= 2
    /\ Cardinality(argv.opts) <= 1
    /\ argv.opts \subseteq {"--system", "--session"}

\* Of two bus options the last one counts, so two are not refused here.
manager_module_initialize_getiface_ctx ==
    /\ Len(argv.args) + Cardinality(argv.opts) <= 2
    /\ argv.opts \subseteq {"--system", "--session"}

manager_module_initialize_getsignals_ctx ==
    /\ Len(argv.args) + Cardinality(argv.opts) = 4
    /\ BusOptions # {} /\ argv.opts \subseteq {"--system", "--session"}

manager_module_parse_arguments ==
    /\ In("manager", "parse_arguments")
    /\ \/ help_flag /\ Goto("manager_module_run")
       \/ /\ ~help_flag
          /\ IF \/ argv.sub = "getobjects" /\ manager_module_initialize_getobject_ctx
                \/ argv.sub = "getifaces" /\ manager_module_initialize_getiface_ctx
                \/ argv.sub = "getsignals" /\ manager_module_initialize_getsignals_ctx
               THEN Goto("manager_module_run") ELSE ERR_EXIT
    /\ UNCHANGED <<argv, results, shown, done, names>>

manager_module_run ==
    /\ In("manager", "manager_module_run")
    /\ IF help_flag THEN Goto("manager_module_handle_results") ELSE Goto(argv.sub)
    /\ UNCHANGED <<argv, results, shown, done, names>>

\* The buses that are asked: both when no option names one.  Of two options
\* either may be the last word.
AskedBuses ==
    IF BusOptions = {} THEN {{"--system", "--session"}}
    ELSE {{b} : b \in BusOptions}

\* What every asked bus returned, NULL where the call failed, as one list: a
\* bus that failed and a bus without objects look the same in it.
Gathered(Found) ==
    \E asked \in AskedBuses : \E found \in [asked -> Found] :
        results' = <<UNION {IF found[b] = NULL THEN {} ELSE found[b][1] : b \in asked}>>

manager_module_run_subcommand_getobjects ==
    /\ In("manager", "getobjects")
    /\ IF argv.args = <<>> THEN Gathered(get_all_objects(Objects))
                           ELSE Gathered(get_iface_objects(Objects))
    /\ Goto("manager_module_handle_results")
    /\ UNCHANGED <<argv, shown, done, names>>

manager_module_run_subcommand_getifaces ==
    /\ In("manager", "getifaces")
    /\ IF argv.args = <<>> THEN Gathered(get_all_ifaces(Ifaces))
                           ELSE Gathered(get_object_ifaces(Ifaces))
    /\ Goto("manager_module_handle_results")
    /\ UNCHANGED <<argv, shown, done, names>>

\* The object is checked, then its interface, then the signals are read.
get_signals(t, n, isPath) ==
    IF isPath THEN {[table |-> t, found |-> s] : s \in getsignals_priv({"signal"})}
    ELSE UNION {{[table |-> l.table, found |-> s] :
                   s \in IF l.found THEN getsignals_priv({"signal"}) ELSE {NULL}} :
                l \in get_path_by_name(t, n)}

manager_module_run_subcommand_getsignals ==
    /\ In("manager", "getsignals")
    /\ LET isPath == argv.args[1] = "/path"
       IN \E object \in check_object_by_path(isPath),
             iface \in check_object_by_iface(names, argv.args[1], isPath) :
            IF object = "present" /\ iface.is = "present"
              THEN \E s \in get_signals(iface.table, argv.args[1], isPath) :
                     /\ results' = s.found
                     /\ names' = s.table
                     /\ Goto("manager_module_handle_results")
              ELSE ERR_EXIT /\ UNCHANGED <<results, names>>
    /\ UNCHANGED <<argv, shown, done>>

manager_module_handle_getobjects_results == shown' = results[1] /\ Finish

manager_module_handle_getifaces_results == shown' = results[1] /\ Finish

manager_module_handle_getsignals_results ==
    IF results = NULL THEN ERR_EXIT /\ UNCHANGED shown
                      ELSE shown' = results[1] /\ Finish

manager_module_handle_results ==
    /\ In("manager", "manager_module_handle_results")
    /\ \/ help_flag /\ Finish /\ UNCHANGED shown
       \/ ~help_flag /\ argv.sub = "getobjects" /\ manager_module_handle_getobjects_results
       \/ ~help_flag /\ argv.sub = "getifaces" /\ manager_module_handle_getifaces_results
       \/ ~help_flag /\ argv.sub = "getsignals" /\ manager_module_handle_getsignals_results
    /\ UNCHANGED <<argv, results, done, names>>

ManagerNext ==
    \/ manager_module_parse_arguments \/ manager_module_run
    \/ manager_module_run_subcommand_getobjects
    \/ manager_module_run_subcommand_getifaces
    \/ manager_module_run_subcommand_getsignals
    \/ manager_module_handle_results

-----------------------------------------------------------------------------
(* The editions module. *)

OppositeEditionOptions ==
    {{"--name-only", "--path-only"}, {"--name-only", "--display-name-only"},
     {"--display-name-only", "--path-only"}, {"--display-name-only", "--no-display-name"},
     {"-v", "--display-name-only"}, {"-v", "--name-only"}, {"-v", "--path-only"},
     {"--no-name", "--name-only"}, {"--no-name", "--no-display-name"}, {"-v", "--no-name"}}

EditionOptions ==
    {"-v", "--name-only", "--no-name", "--path-only", "--display-name-only",
     "--no-display-name", "--hide-installation-markers"}

editions_module_parse_options ==
    /\ argv.opts \subseteq EditionOptions
    /\ \A pair \in OppositeEditionOptions : ~(pair \subseteq argv.opts)

editions_module_parse_arguments ==
    /\ In("editions", "parse_arguments")
    /\ IF \/ help_flag
          \/ /\ editions_module_parse_options
             /\ \/ argv.sub \in {"list", "get"} /\ argv.args = <<>>
                \/ argv.sub \in {"description", "license", "info"} /\ Len(argv.args) <= 1
                \/ argv.sub = "set" /\ Len(argv.args) = 1
                \/ argv.sub = "" /\ argv.args = <<>>
         THEN Goto("editions_module_run") ELSE ERR_EXIT
    /\ UNCHANGED <<argv, results, shown, done, names>>

editions_module_run ==
    /\ In("editions", "editions_module_run")
    /\ Goto(IF help_flag THEN "editions_module_handle_results"
            ELSE IF argv.sub = "" THEN "list" ELSE argv.sub)
    /\ UNCHANGED <<argv, results, shown, done, names>>

\* NULL is a failure, else the results, themselves NULL when there are none:
\* an error other than an unknown object is not looked at.
editions_module_get_current_subcommand ==
    {IF o.err # "none" /\ ~alterator_ctl_check_object_is_exist(o.err)
       THEN NULL ELSE <<o.res>> : o \in call(Answers({"", "e1"}))}

\* The exit code is returned, and every caller only tests for less than 0.
editions_module_handle_get_current_results(res) ==
    IF res = NULL THEN NULL ELSE <<res[1].val>>

\* Without an argument the current edition is meant, "" when none is set.
EditionMeant ==
    IF argv.args # <<>> THEN {<<argv.args[1]>>}
    ELSE {IF got = NULL THEN NULL ELSE editions_module_handle_get_current_results(got[1]) :
            got \in editions_module_get_current_subcommand}

NoEdition == ERR_EXIT /\ UNCHANGED <<results, names>>

\* A call on the edition, on the global object when it is "": the reply, or
\* NULL, becomes ctx->results; failed says whether an error is looked at.
EditionCall(id, t, failed) ==
    \E c \in call_by_name(t, id, id \in {"", "/path"}, Answers(Texts)) :
        IF failed /\ c.out.err # "none"
          THEN ERR_EXIT /\ names' = c.table /\ UNCHANGED results
          ELSE /\ results' = c.out.res
               /\ names' = c.table
               /\ Goto("editions_module_handle_results")

\* A failed existence check ends the command, an absent object is only
\* reported; the locale is handed over by SetEnvValue.
CheckedEditionCall(id, failed) ==
    \E is \in IF id = "" THEN {[table |-> names, is |-> "error"]}
              ELSE check_object_by_iface(names, id, id = "/path") :
        IF is.is = "error" THEN ERR_EXIT /\ names' = is.table /\ UNCHANGED results
                           ELSE EditionCall(id, is.table, failed)

editions_module_description_subcommand ==
    /\ In("editions", "description")
    /\ \E id \in EditionMeant :
         IF id = NULL THEN NoEdition ELSE CheckedEditionCall(id[1], TRUE)
    /\ UNCHANGED <<argv, shown, done>>

editions_module_license_subcommand ==
    /\ In("editions", "license")
    /\ \E id \in EditionMeant :
         IF id = NULL THEN NoEdition ELSE CheckedEditionCall(id[1], FALSE)
    /\ UNCHANGED <<argv, shown, done>>

editions_module_info_subcommand ==
    /\ In("editions", "info")
    /\ \E id \in EditionMeant :
         IF id = NULL THEN NoEdition ELSE EditionCall(id[1], names, FALSE)
    /\ UNCHANGED <<argv, shown, done>>

editions_module_validate_object_and_iface ==
    {object = "present" /\ iface = "present" : object \in Lookups, iface \in Lookups}

\* Every edition is printed with a marker when it is the current one.  The
\* current edition is asked anew for each; a failure only drops the marker.
editions_get_current ==
    IF "--hide-installation-markers" \in argv.opts THEN {""} ELSE {"", "e1"}

editions_module_print_list_with_filters(edition, current) ==
    IF edition = current THEN <<"* ", edition>> ELSE <<"  ", edition>>

editions_module_list_subcommand ==
    /\ In("editions", "list")
    /\ \E valid \in editions_module_validate_object_and_iface,
          data \in get_objects_data({"e1", "e2"}) :
         IF valid /\ data # NULL
           THEN /\ \E current \in [data[1] -> editions_get_current] :
                     shown' = {editions_module_print_list_with_filters(e, current[e]) :
                                 e \in data[1]}
                /\ Goto("editions_module_handle_results")
           ELSE ERR_EXIT /\ UNCHANGED shown
    /\ UNCHANGED <<argv, results, done, names>>

\* A path is first turned into a name, which never succeeds: the call is then
\* built from a null string.
editions_module_set_current_subcommand ==
    /\ In("editions", "set")
    /\ IF argv.args[1] = "/path" /\ get_name_by_path(names, argv.args[1]) = {NULL}
         THEN CRASH /\ UNCHANGED <<results, done>>
         ELSE \E o \in call([code : ExitCodes]) :
                /\ done' \in Executed(o, <<"SetCurrent", argv.args[1]>>)
                /\ IF o.err # "none" THEN ERR_EXIT /\ UNCHANGED results
                   ELSE results' = o.res /\ Goto("editions_module_handle_results")
    /\ UNCHANGED <<argv, shown, names>>

editions_module_get_subcommand ==
    /\ In("editions", "get")
    /\ \E got \in editions_module_get_current_subcommand :
         IF got = NULL THEN NoEdition
         ELSE /\ results' = got[1]
              /\ Goto("editions_module_handle_results")
              /\ UNCHANGED names
    /\ UNCHANGED <<argv, shown, done>>

\* The text is printed whatever the exit code, and the handler's result, the
\* exit code, is only tested for less than 0.
editions_module_handle_description_results ==
    IF results = NULL THEN ERR_EXIT /\ UNCHANGED shown
                      ELSE shown' = {results[1].val} /\ Finish

editions_module_handle_license_results ==
    IF results = NULL THEN ERR_EXIT /\ UNCHANGED shown
                      ELSE shown' = {results[1].val} /\ Finish

\* The exit code is not read.
editions_module_handle_info_results ==
    IF results = NULL THEN ERR_EXIT /\ UNCHANGED shown
                      ELSE shown' = {results[1].val} /\ Finish

editions_module_handle_set_current_results ==
    /\ IF results # NULL /\ results[1].code = 0 THEN Finish ELSE ERR_EXIT
    /\ UNCHANGED shown

editions_module_handle_list_results == Finish /\ UNCHANGED shown

editions_module_handle_results ==
    /\ In("editions", "editions_module_handle_results")
    /\ \/ help_flag /\ Finish /\ UNCHANGED shown
       \/ ~help_flag /\ argv.sub = "description" /\ editions_module_handle_description_results
       \/ ~help_flag /\ argv.sub = "license" /\ editions_module_handle_license_results
       \/ ~help_flag /\ argv.sub \in {"", "list"} /\ editions_module_handle_list_results
       \/ ~help_flag /\ argv.sub = "info" /\ editions_module_handle_info_results
       \/ ~help_flag /\ argv.sub = "set" /\ editions_module_handle_set_current_results
       \/ /\ ~help_flag /\ argv.sub = "get"
          /\ IF results = NULL THEN ERR_EXIT /\ UNCHANGED shown
                               ELSE shown' = {results[1].val} /\ Finish
    /\ UNCHANGED <<argv, results, done, names>>

EditionsNext ==
    \/ editions_module_parse_arguments \/ editions_module_run
    \/ editions_module_description_subcommand \/ editions_module_license_subcommand
    \/ editions_module_info_subcommand \/ editions_module_list_subcommand
    \/ editions_module_set_current_subcommand \/ editions_module_get_subcommand
    \/ editions_module_handle_results

-----------------------------------------------------------------------------
(* The systeminfo module. *)

\* The order in which "description" asks for the properties.
Properties ==
    <<"hostname", "name", "arch", "branch", "kernel", "cpu", "gpu", "memory",
      "drive", "monitor", "motherboard", "locales", "desktops">>

PropertySet == {Properties[i] : i \in 1..Len(Properties)}

Describing == argv.sub \in {"", "description"}

systeminfo_module_parse_arguments ==
    /\ In("systeminfo", "parse_arguments")
    /\ IF help_flag \/ (argv.args = <<>> /\ (Describing \/ argv.sub \in PropertySet))
         THEN Goto("systeminfo_module_run") ELSE ERR_EXIT
    /\ UNCHANGED <<argv, results, shown, done, names>>

\* For a description ctx->results is first an empty table.
systeminfo_module_get_description_subcommand ==
    results' = <<[p \in {} |-> [val |-> "", code |-> 0]]>> /\ Goto(Properties[1])

systeminfo_module_run ==
    /\ In("systeminfo", "systeminfo_module_run")
    /\ \/ help_flag /\ Goto("systeminfo_module_handle_results") /\ UNCHANGED results
       \/ ~help_flag /\ Describing /\ systeminfo_module_get_description_subcommand
       \/ ~help_flag /\ ~Describing /\ Goto(argv.sub) /\ UNCHANGED results
    /\ UNCHANGED <<argv, shown, done, names>>

Odd(answer) == answer.code # 0 \/ answer.val # "text"

\* One call.  An error ends the command.  The reply is the result, or in a
\* description one more entry of the table, and the next property follows.
GetProperty(p, Vals) ==
    /\ In("systeminfo", p)
    /\ \E o \in call(Answers(Vals)) :
         IF o.err # "none" THEN ERR_EXIT /\ UNCHANGED results
         ELSE LET i == CHOOSE j \in 1..Len(Properties) : Properties[j] = p
                  dict == IF Describing THEN results[1] ELSE [q \in {} |-> 0]
              IN /\ results' = <<[q \in DOMAIN dict \cup {p} |->
                                    IF q = p THEN o.res[1] ELSE dict[q]]>>
                 /\ Goto(IF Describing /\ i < Len(Properties) THEN Properties[i + 1]
                         ELSE "systeminfo_module_handle_results")
    /\ results' # NULL /\ Describing =>
         Cardinality({q \in DOMAIN results'[1] : Odd(results'[1][q])}) <= OddAnswers
    /\ UNCHANGED <<argv, shown, done, names>>

systeminfo_module_get_hostname_subcommand == GetProperty("hostname", Texts)
systeminfo_module_get_operation_system_name_subcommand == GetProperty("name", Texts)
systeminfo_module_get_arch_subcommand == GetProperty("arch", Texts)
systeminfo_module_get_branch_subcommand == GetProperty("branch", Texts)
systeminfo_module_get_kernel_subcommand == GetProperty("kernel", Texts)
\* The processor is an array that may have the wrong length.
systeminfo_module_get_cpu_subcommand == GetProperty("cpu", Texts \cup {"not three"})
systeminfo_module_get_gpu_subcommand == GetProperty("gpu", Texts)
systeminfo_module_get_memory_subcommand == GetProperty("memory", Texts)
systeminfo_module_get_drive_subcommand == GetProperty("drive", Texts)
systeminfo_module_get_monitor_subcommand == GetProperty("monitor", Texts)
systeminfo_module_get_motherboard_subcommand == GetProperty("motherboard", Texts)
systeminfo_module_get_locales_subcommand == GetProperty("locales", Texts)
systeminfo_module_get_desktops_subcommand == GetProperty("desktops", Texts)

\* What a handler makes of the answer for its property: the answer is printed,
\* hidden (in a description) or an error (on its own).
Usable(p) == results[1][p].val # "" /\ results[1][p].code = 0

systeminfo_module_get_hostname_handle_result == Usable("hostname")
systeminfo_module_get_operation_system_name_handle_result == Usable("name")
systeminfo_module_get_arch_handle_result == Usable("arch")
systeminfo_module_get_branch_handle_result == Usable("branch")
systeminfo_module_get_kernel_handle_result == Usable("kernel")
systeminfo_module_get_cpu_handle_result ==
    Usable("cpu") /\ results[1]["cpu"].val # "not three"
systeminfo_module_get_gpu_handle_result == Usable("gpu")
systeminfo_module_get_memory_handle_result == Usable("memory")
systeminfo_module_get_drive_handle_result == Usable("drive")
systeminfo_module_get_monitor_handle_result == Usable("monitor")
systeminfo_module_get_motherboard_handle_result == Usable("motherboard")
systeminfo_module_get_locales_handle_result == Usable("locales")
systeminfo_module_get_desktops_handle_result == Usable("desktops")

Handled(p) ==
    CASE p = "hostname"    -> systeminfo_module_get_hostname_handle_result
      [] p = "name"        -> systeminfo_module_get_operation_system_name_handle_result
      [] p = "arch"        -> systeminfo_module_get_arch_handle_result
      [] p = "branch"      -> systeminfo_module_get_branch_handle_result
      [] p = "kernel"      -> systeminfo_module_get_kernel_handle_result
      [] p = "cpu"         -> systeminfo_module_get_cpu_handle_result
      [] p = "gpu"         -> systeminfo_module_get_gpu_handle_result
      [] p = "memory"      -> systeminfo_module_get_memory_handle_result
      [] p = "drive"       -> systeminfo_module_get_drive_handle_result
      [] p = "monitor"     -> systeminfo_module_get_monitor_handle_result
      [] p = "motherboard" -> systeminfo_module_get_motherboard_handle_result
      [] p = "locales"     -> systeminfo_module_get_locales_handle_result
      [] p = "desktops"    -> systeminfo_module_get_desktops_handle_result

\* A description prints the properties that can be printed and ends well
\* whatever the others answered.
systeminfo_module_get_description_handle_result ==
    shown' = {p \in PropertySet : Handled(p)} /\ Finish

systeminfo_module_handle_results ==
    /\ In("systeminfo", "systeminfo_module_handle_results")
    /\ \/ help_flag /\ Finish /\ UNCHANGED shown
       \/ ~help_flag /\ Describing /\ systeminfo_module_get_description_handle_result
       \/ /\ ~help_flag /\ ~Describing
          /\ IF Handled(argv.sub) THEN shown' = {argv.sub} /\ Finish
                                  ELSE ERR_EXIT /\ UNCHANGED shown
    /\ UNCHANGED <<argv, results, done, names>>

SysteminfoNext ==
    \/ systeminfo_module_parse_arguments \/ systeminfo_module_run
    \/ systeminfo_module_get_hostname_subcommand
    \/ systeminfo_module_get_operation_system_name_subcommand
    \/ systeminfo_module_get_arch_subcommand \/ systeminfo_module_get_branch_subcommand
    \/ systeminfo_module_get_kernel_subcommand \/ systeminfo_module_get_cpu_subcommand
    \/ systeminfo_module_get_gpu_subcommand \/ systeminfo_module_get_memory_subcommand
    \/ systeminfo_module_get_drive_subcommand \/ systeminfo_module_get_monitor_subcommand
    \/ systeminfo_module_get_motherboard_subcommand
    \/ systeminfo_module_get_locales_subcommand
    \/ systeminfo_module_get_desktops_subcommand
    \/ systeminfo_module_handle_results

QueryNext == ManagerNext \/ EditionsNext \/ SysteminfoNext

=============================================================================
