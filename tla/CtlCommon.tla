------------------------------ MODULE CtlCommon ------------------------------
(***************************************************************************)
(* alteratorctl: the frame in which every command of the program runs.     *)
(* One process parses its argument vector, finds a module, and the module  *)
(* goes through parse_arguments, run, one function per subcommand, and     *)
(* handle_results.  All of it talks to the D-Bus service through the       *)
(* blocking calls of alteratorctlgdbussource.c.  A function of the source  *)
(* is an action here; "at" names the function that runs next.  Every D-Bus *)
(* answer is chosen when the call is made: the service may be restarted    *)
(* or changed by another client between any two calls.                     *)
(*                                                                         *)
(* A pointer is a sequence of length at most one: NULL or <<what it        *)
(* points to>>.                                                            *)
(***************************************************************************)
EXTENDS Integers, Sequences, FiniteSets

CONSTANT Commands      \* the argument vectors that are explored

VARIABLES
    argv,      \* [module, sub, args, opts]: what the user typed
    at,        \* the function of the module that runs next
    ret,       \* the exit code the process is going to return
    results,   \* ctx->results
    shown,     \* what has been printed on standard output
    done,      \* the requests that changed the system and were executed
    names      \* info_parser->names_by_dbus_paths

commonVars == <<argv, at, ret, results, shown, done, names>>

NULL == <<>>

\* Positional words and options of an argument vector.
Argv(module, sub, args, opts) ==
    [module |-> module, sub |-> sub, args |-> args, opts |-> opts]

Modules == {"manager", "packages", "components", "editions", "diag",
            "systeminfo", "services"}

ERR_EXIT == at' = "end" /\ ret' = -1

Finish == at' = "end" /\ ret' = 0

\* The process dies of a signal (g_critical on a bad pointer, use after free).
CRASH == at' = "end" /\ ret' = 134

Goto(f) == at' = f /\ ret' = ret

In(module, f) == argv.module = module /\ at = f

CommonInit ==
    /\ argv \in Commands
    /\ at = "alterator_ctl_app_parse_args"
    /\ ret = 0
    /\ results = NULL
    /\ shown = {}
    /\ done = {}
    /\ names = [state |-> "none", known |-> {}]

-----------------------------------------------------------------------------
(* The application: options before the module, dispatch to the module. *)

help_flag == argv.opts \cap {"-h", "-h first"} # {}

\* g_option_context_parse knows -v, --version, -m and -h and leaves the rest.
alterator_ctl_app_parse_args ==
    /\ at = "alterator_ctl_app_parse_args"
    /\ IF argv.module = "" /\ argv.opts = {} THEN ERR_EXIT
                                             ELSE Goto("alterator_ctl_app_run")
    /\ UNCHANGED <<argv, results, shown, done, names>>

app_command ==
    IF "-h first" \in argv.opts THEN "none"
    ELSE IF "--version" \in argv.opts THEN "ALTERATORCTL_GET_VERSION"
    ELSE IF "-m" \in argv.opts THEN "ALTERATORCTL_LIST_MODULES"
    ELSE IF argv.module # "" THEN "ALTERATORCTL_RUN_MODULE" ELSE "none"

alterator_ctl_app_list_modules == shown' = shown \cup Modules /\ Finish

alterator_ctl_app_find_module(m) == m \in Modules

alterator_ctl_app_run ==
    /\ at = "alterator_ctl_app_run"
    /\ \/ app_command = "none" /\ Finish /\ UNCHANGED shown
       \/ app_command = "ALTERATORCTL_GET_VERSION" /\ Finish /\ UNCHANGED shown
       \/ app_command = "ALTERATORCTL_LIST_MODULES" /\ alterator_ctl_app_list_modules
       \/ /\ app_command = "ALTERATORCTL_RUN_MODULE"
          /\ IF alterator_ctl_app_find_module(argv.module)
               THEN Goto("parse_arguments") ELSE ERR_EXIT
          /\ UNCHANGED shown
    /\ UNCHANGED <<argv, results, done, names>>

AppNext == alterator_ctl_app_parse_args \/ alterator_ctl_app_run

-----------------------------------------------------------------------------
(* D-Bus calls. *)

ExitCodes == {0, 1}

\* A reply "(ayi)" or "(asi)": a text or an array, empty or not, and the exit
\* code of the backend's program.
Answers(Vals) == [val : Vals, code : ExitCodes]

Texts == {"", "text"}

\* The error is "unknown" when the object, interface or method does not exist.
alterator_ctl_check_object_is_exist(err) == err # "unknown"

\* A call comes back with an error or with a reply.
alterator_gdbus_source_callback(Replies) ==
    {[err |-> e, res |-> NULL] : e \in {"unknown", "failed"}}
        \cup {[err |-> "none", res |-> <<r>>] : r \in Replies}

call(Replies) == alterator_gdbus_source_callback(Replies)

\* Whether a request was executed.  The backend's program does what it is asked
\* exactly when it exits with 0; after an error the caller cannot tell whether
\* the request was executed (a lost or late answer) or never arrived.
WasExecuted(outcome) ==
    IF outcome.res # NULL THEN {outcome.res[1].code = 0}
    ELSE IF outcome.err = "failed" THEN BOOLEAN ELSE {FALSE}

Executed(outcome, request) ==
    {IF was THEN done \cup {request} ELSE done : was \in WasExecuted(outcome)}

\* A lookup on the bus that can fail, or find nothing.
Lookups == {"error", "absent", "present"}

\* GetAllObjects, GetObjects: NULL on any error.
getobjets_priv(Objects) == {NULL} \cup {<<S>> : S \in SUBSET Objects}

get_all_objects(Objects) == getobjets_priv(Objects)

get_iface_objects(Objects) == getobjets_priv(Objects)

\* GetAllInterfaces, GetInterfaces: NULL on any error.
getifaces_priv(Ifaces) == {NULL} \cup {<<S>> : S \in SUBSET Ifaces}

get_all_ifaces(Ifaces) == getifaces_priv(Ifaces)

get_object_ifaces(Ifaces) == getifaces_priv(Ifaces)

\* GetSignals: NULL on any error.
getsignals_priv(Signals) == {NULL} \cup {<<S>> : S \in SUBSET Signals}

\* A word that is not a path is not looked up (the answer is 2).
check_object_by_path(isPath) == IF isPath THEN Lookups ELSE {"present"}

\* The objects of an interface whose entries could be read; one object whose
\* entry cannot be read fails the whole list only when it is the only object.
get_objects_data(Objects) ==
    {NULL} \cup {<<S>> : S \in SUBSET Objects \ {{}}}

\* The names table after a fetch of the entries of an interface: a failed
\* fetch leaves the table of the previous interface; an entry without a name
\* destroys the table and keeps the pointer.
create_names_by_dbus_paths_table(t, n) ==
    IF t.state = "freed" THEN {t}
    ELSE {t} \cup {[state |-> "table", known |-> S] : S \in SUBSET {n}}
             \cup {[state |-> "freed", known |-> {}]}

get_path_by_name(t, n) ==
    {o \in [table : create_names_by_dbus_paths_table(t, n), found : BOOLEAN] :
        CASE o.table.state = "none"  -> ~o.found
          [] o.table.state = "table" -> o.found <=> n \in o.table.known
          [] OTHER                   -> TRUE}

\* By name: an unknown name is an error.  By path: the object, then its
\* interfaces.
check_object_by_iface(t, n, isPath) ==
    IF isPath THEN {[table |-> t, is |-> l] : l \in Lookups}
    ELSE {[table |-> o.table, is |-> IF o.found THEN "present" ELSE "error"] :
            o \in get_path_by_name(t, n)}

\* A lookup in the freed table may also kill the process.
names_use_after_free ==
    /\ names.state = "freed" /\ at # "end"
    /\ CRASH
    /\ UNCHANGED <<argv, results, shown, done, names>>

\* The names table is a map from names to paths, asked for the word "name".
get_name_by_path(t, n) == {NULL}

\* SetEnvValue: the answer, an error included, is not looked at.
set_env_value == 0

\* A call on an object given by name: an unknown name returns without a reply
\* and without an error.
call_by_name(t, n, isPath, Replies) ==
    IF isPath THEN {[table |-> t, out |-> o] : o \in call(Replies)}
    ELSE UNION {IF l.found
                  THEN {[table |-> l.table, out |-> o] : o \in call(Replies)}
                  ELSE {[table |-> l.table, out |-> [err |-> "none", res |-> NULL]]} :
                l \in get_path_by_name(t, n)}

=============================================================================
