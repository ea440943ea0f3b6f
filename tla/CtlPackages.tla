----------------------------- MODULE CtlPackages -----------------------------
(***************************************************************************)
(* The packages module of alteratorctl (rpm, apt and repo) together with   *)
(* the apt-wrapper program of its backend.  An apt transaction is computed *)
(* twice: once by CheckApply, for the user to see and accept, and once     *)
(* more by ApplyAsync.  In between other programs may change the marks of  *)
(* the manually installed packages, so the wrapper is given the packages   *)
(* that may go and protects every other manually installed one.  What apt  *)
(* itself resolves is external: any transaction that does what is asked.   *)
(***************************************************************************)
EXTENDS CtlCommon

CONSTANT Packages      \* the packages that can be installed or removed

VARIABLES
    installed,      \* packages of the machine
    manual,         \* those of them that apt-mark shows as manually installed
    packages_list,  \* [add, del]: the words of a request, "p" and "p-"
    plan,           \* check_apply_result
    agreed,         \* the removals that were on the screen when the user accepted
    lost            \* manually installed packages a transaction has removed

packagesVars == <<installed, manual, packages_list, plan, agreed, lost>>

NoWords == [add |-> {}, del |-> {}]

PackagesInit ==
    /\ installed \in SUBSET Packages
    /\ manual \in SUBSET installed
    /\ packages_list = NoWords
    /\ plan = NULL
    /\ agreed = NULL
    /\ lost = {}

apt_allow_remove_manually == "--allow-remove-manually" \in argv.opts

apt_force_transaction_commit == "--force-yes" \in argv.opts

-----------------------------------------------------------------------------
(* The apt-wrapper. *)

\* What apt may decide to do: at least what it is asked for.
Transactions(words) ==
    {t \in [install : SUBSET (Packages \ installed), remove : SUBSET installed] :
        /\ words.add \ installed \subseteq t.install
        /\ words.del \cap installed \subseteq t.remove
        /\ t.install \cap words.del = {} /\ t.remove \cap words.add = {}}

\* Mutant: no package is manual.
PrioritiesOfNone(exclude) == {}

\* The manually installed packages that the transaction must keep.
create_pkgpriorities(exclude) == manual \ exclude

check_apply(words) ==
    {[install |-> t.install, remove |-> t.remove,
      extra |-> t.remove \cap create_pkgpriorities(words.del)] : t \in Transactions(words)}

\* apt-get -y refuses to remove a required package.
apply(exclude, words) ==
    {t \in Transactions(words) :
        t.remove \cap create_pkgpriorities(exclude \cup words.del) = {}}

\* The machine after a transaction.
Commit(t, words) ==
    /\ installed' = (installed \ t.remove) \cup t.install
    /\ manual' = (manual \ t.remove) \cup words.add
    /\ lost' = lost \cup (t.remove \cap manual)

\* Another administrator marks a package between the check and the transaction.
OtherAdministrator ==
    /\ plan # NULL /\ at # "end"
    /\ \E p \in installed \ manual : manual' = manual \cup {p}
    /\ UNCHANGED commonVars
    /\ UNCHANGED <<installed, packages_list, plan, agreed, lost>>

-----------------------------------------------------------------------------
(* Arguments. *)

Word == argv.args[2]

HasWord == Len(argv.args) = 2

packages_apt_module_parse_options ==
    argv.opts \subseteq {"-h", "--allow-remove-manually", "--force-yes"}

packages_module_parse_rpm_arguments ==
    /\ argv.sub = "rpm" /\ argv.args # <<>>
    /\ \/ argv.args[1] \in {"info", "list"}
       \/ argv.args[1] \in {"files", "install", "packageinfo", "remove"} /\ HasWord

\* The locale is handed over by SetEnvValue; SIGINT gets a handler.
packages_module_parse_apt_arguments ==
    /\ argv.sub = "apt" /\ argv.args # <<>>
    /\ \/ argv.args[1] \in {"info", "listall", "update", "lastupdate"}
       \/ argv.args[1] \in {"install", "reinstall", "remove", "search"} /\ HasWord
    /\ set_env_value = 0

packages_module_parse_repo_arguments ==
    /\ argv.sub = "repo" /\ argv.args # <<>>
    /\ \/ argv.args[1] \in {"info", "list"}
       \/ argv.args[1] \in {"add", "remove"} /\ HasWord

packages_module_parse_arguments ==
    /\ In("packages", "parse_arguments")
    /\ IF \/ help_flag /\ argv.sub = ""
          \/ help_flag /\ packages_apt_module_parse_options
                       /\ argv.sub \in {"rpm", "apt", "repo"}
          \/ /\ ~help_flag /\ packages_apt_module_parse_options /\ Len(argv.args) <= 2
             /\ \/ packages_module_parse_rpm_arguments
                \/ packages_module_parse_apt_arguments
                \/ packages_module_parse_repo_arguments
         THEN Goto("packages_module_run") ELSE ERR_EXIT
    /\ UNCHANGED <<argv, results, shown, done, names>> /\ UNCHANGED packagesVars

packages_module_run ==
    /\ In("packages", "packages_module_run")
    /\ Goto(IF help_flag THEN "packages_module_handle_results" ELSE argv.sub)
    /\ UNCHANGED <<argv, results, shown, done, names>> /\ UNCHANGED packagesVars

packages_module_validate_object_and_iface ==
    {object = "present" /\ iface = "present" : object \in Lookups, iface \in Lookups}

\* The text of the entry of the submodule, NULL when it cannot be read.
InfoText == {NULL, <<[val |-> "text", code |-> 0]>>}

Ask(Outcomes) ==
    \E o \in Outcomes :
        IF o.res = NULL THEN ERR_EXIT /\ UNCHANGED results
                        ELSE results' = o.res /\ Goto("packages_module_handle_results")

-----------------------------------------------------------------------------
(* rpm. *)

\* rpm installs or removes exactly the package it is given.
RpmEffect(was) ==
    LET p == {Word}
    IN CASE was /\ argv.args[1] = "install" ->
              /\ installed' = installed \cup p /\ manual' = manual \cup p
              /\ UNCHANGED lost
         [] was /\ argv.args[1] = "remove" ->
              /\ installed' = installed \ p /\ manual' = manual \ p
              /\ lost' = lost \cup (manual \cap p)
         [] OTHER -> UNCHANGED <<installed, manual, lost>>

packages_module_rpm_subcommand ==
    /\ In("packages", "rpm")
    /\ \E valid \in packages_module_validate_object_and_iface :
         \/ /\ ~valid /\ ERR_EXIT
            /\ UNCHANGED <<results, installed, manual, lost, done>>
         \/ /\ valid /\ argv.args[1] = "info"
            /\ Ask({[res |-> r] : r \in InfoText})
            /\ UNCHANGED <<installed, manual, lost, done>>
         \/ /\ valid /\ argv.args[1] \in {"files", "list", "packageinfo"}
            /\ Ask(call(Answers(Texts)))
            /\ UNCHANGED <<installed, manual, lost, done>>
         \/ /\ valid /\ argv.args[1] \in {"install", "remove"}
            /\ \E o \in call(Answers({""})) : \E was \in WasExecuted(o) :
                 /\ Ask({o}) /\ RpmEffect(was)
                 /\ done' = IF was THEN done \cup {argv.args} ELSE done
    /\ UNCHANGED <<argv, shown, names, packages_list, plan, agreed>>

-----------------------------------------------------------------------------
(* apt. *)

\* Install takes the words as they are, remove appends "-" to each.
AptWords ==
    IF argv.args[1] = "install" THEN [add |-> {Word}, del |-> {}]
                                ELSE [add |-> {}, del |-> {Word}]

\* An error of a plain query is only printed, as a handler without results.
packages_module_apt_subcommand ==
    /\ In("packages", "apt")
    /\ \E valid \in packages_module_validate_object_and_iface :
         \/ ~valid /\ ERR_EXIT /\ UNCHANGED <<results, packages_list>>
         \/ /\ valid /\ argv.args[1] = "info"
            /\ Ask({[res |-> r] : r \in InfoText}) /\ UNCHANGED packages_list
         \/ /\ valid /\ argv.args[1] \in {"listall", "search", "lastupdate"}
            /\ \E o \in call(Answers(Texts)) : results' = o.res
            /\ Goto("packages_module_handle_results") /\ UNCHANGED packages_list
         \/ /\ valid /\ argv.args[1] \in {"install", "remove"}
            /\ packages_list' = AptWords
            /\ Goto("get_check_apply_result") /\ UNCHANGED results
         \/ /\ valid /\ argv.args[1] \in {"reinstall", "update"}
            /\ Goto(argv.args[1]) /\ UNCHANGED <<results, packages_list>>
    /\ UNCHANGED <<argv, shown, done, names, installed, manual, plan, agreed, lost>>

\* CheckApply; a reply with an exit code, or one that is no JSON, is an error.
\* An extra removal is taken out of the plain ones.
get_check_apply_result(words) ==
    UNION {IF o.res = NULL \/ words = NoWords \/ o.res[1].code # 0 \/ ~o.res[1].json
             THEN {NULL}
             ELSE {<<[to_install |-> reply.install,
                      to_remove |-> reply.remove \ reply.extra,
                      extra_remove |-> reply.extra]>> : reply \in check_apply(words)} :
           o \in call([code : ExitCodes, json : BOOLEAN])}

CheckApply ==
    /\ In("packages", "get_check_apply_result")
    /\ \E p \in get_check_apply_result(packages_list) :
         IF p = NULL THEN ERR_EXIT /\ UNCHANGED plan
         ELSE plan' = p /\ Goto("packages_module_apt_check_apply_package_info")
    /\ UNCHANGED <<argv, results, shown, done, names>>
    /\ UNCHANGED <<installed, manual, packages_list, agreed, lost>>

\* What the user answers; a removal of manually installed packages takes the
\* whole phrase, with force-yes nothing is asked.
Accepted(p) ==
    IF apt_force_transaction_commit THEN {TRUE}
    ELSE IF p.extra_remove # {} THEN {apt_allow_remove_manually, FALSE}
    ELSE BOOLEAN

\* An extra removal that is not allowed is an error, nothing to do a refusal.
packages_module_apt_check_apply_package_info(p) ==
    IF p.extra_remove # {} /\ ~apt_allow_remove_manually THEN {"error"}
    ELSE IF p.to_install \cup p.to_remove \cup p.extra_remove = {} THEN {"refused"}
    ELSE {IF yes THEN "accepted" ELSE "refused" : yes \in Accepted(p)}

ShowPlan ==
    /\ at = "packages_module_apt_check_apply_package_info"
    /\ \E answer \in packages_module_apt_check_apply_package_info(plan[1]) :
         \/ answer = "error" /\ ERR_EXIT /\ UNCHANGED agreed
         \/ answer = "refused" /\ Finish /\ agreed' = NULL
         \/ /\ answer = "accepted" /\ Goto("ApplyAsync")
            /\ agreed' = <<plan[1].to_remove \cup plan[1].extra_remove>>
    /\ UNCHANGED <<argv, results, shown, done, names>>
    /\ UNCHANGED <<installed, manual, packages_list, plan, lost>>

\* Manually installed packages may go only if the plan showed them.
Exclude == IF apt_allow_remove_manually THEN plan[1].extra_remove ELSE {}

AptEffect(was) ==
    /\ IF was THEN \E t \in apply(Exclude, packages_list) : Commit(t, packages_list)
              ELSE UNCHANGED <<installed, manual, lost>>
    /\ done' = IF was THEN done \cup {<<"apply", packages_list>>} ELSE done

\* The exit code of apt-get is returned, and only tested for less than 0.
apt_apply_async ==
    /\ In("packages", "ApplyAsync")
    /\ \E o \in call([code : ExitCodes]) : \E was \in WasExecuted(o) :
         /\ AptEffect(was)
         /\ IF o.res = NULL THEN ERR_EXIT /\ UNCHANGED results
                            ELSE results' = o.res /\ Goto("packages_module_handle_results")
    /\ UNCHANGED <<argv, shown, names, packages_list, plan, agreed>>

\* CheckReinstall, its question, and ReinstallAsync: nothing to install or to
\* remove is accepted without a question.
packages_module_apt_check_reinstall_package ==
    UNION {IF o.res = NULL THEN {"error"}
           ELSE IF o.res[1].code # 0 THEN {"error"}
           ELSE IF o.res[1].val = "" THEN {"accepted"}
           ELSE {"accepted", "refused"} : o \in call(Answers(Texts))}

apt_reinstall ==
    /\ In("packages", "reinstall")
    /\ \E answer \in packages_module_apt_check_reinstall_package :
         \/ answer = "error" /\ ERR_EXIT /\ UNCHANGED <<results, done>>
         \/ answer = "refused" /\ Finish /\ UNCHANGED <<results, done>>
         \/ /\ answer = "accepted"
            /\ \E o \in call([code : ExitCodes]) :
                 Ask({o}) /\ done' \in Executed(o, argv.args)
    /\ UNCHANGED <<argv, shown, names>> /\ UNCHANGED packagesVars

apt_update ==
    /\ In("packages", "update")
    /\ \E o \in call([code : ExitCodes]) : Ask({o}) /\ done' \in Executed(o, argv.args)
    /\ UNCHANGED <<argv, shown, names>> /\ UNCHANGED packagesVars

\* Ctrl-C ends this process; apt-get goes on.
packages_module_apt_sigint_handler ==
    /\ In("packages", "ApplyAsync")
    /\ \E was \in BOOLEAN : AptEffect(was)
    /\ at' = "end" /\ ret' = 130
    /\ UNCHANGED <<argv, results, shown, names, packages_list, plan, agreed>>

-----------------------------------------------------------------------------
(* repo. *)

packages_module_repo_subcommand ==
    /\ In("packages", "repo")
    /\ \/ argv.args[1] = "info" /\ Ask({[res |-> r] : r \in InfoText}) /\ UNCHANGED done
       \/ argv.args[1] = "list" /\ Ask(call(Answers(Texts))) /\ UNCHANGED done
       \/ /\ argv.args[1] \in {"add", "remove"}
          /\ \E o \in call(Answers({""})) : Ask({o}) /\ done' \in Executed(o, argv.args)
    /\ UNCHANGED <<argv, shown, names>> /\ UNCHANGED packagesVars

-----------------------------------------------------------------------------
(* Results: what came back is printed whatever the exit code, which is only *)
(* tested for less than 0.                                                  *)

PrintText == IF results = NULL THEN ERR_EXIT /\ UNCHANGED shown
                               ELSE shown' = {results[1].val} /\ Finish

PrintNothing == IF results = NULL THEN ERR_EXIT /\ UNCHANGED shown
                                  ELSE Finish /\ UNCHANGED shown

\* The entry is read again and must have a type and a name.
packages_module_validate_alterator_entry == BOOLEAN

HandleInfo ==
    \E valid \in packages_module_validate_alterator_entry :
        IF valid THEN PrintText ELSE ERR_EXIT /\ UNCHANGED shown

packages_module_handle_rpm_files_results == argv.args[1] = "files" /\ PrintText
packages_module_handle_rpm_info_results == argv.args[1] = "info" /\ HandleInfo
packages_module_handle_rpm_install_results == argv.args[1] = "install" /\ PrintNothing
packages_module_handle_rpm_list_results == argv.args[1] = "list" /\ PrintText
packages_module_handle_rpm_package_info_results == argv.args[1] = "packageinfo" /\ PrintText
packages_module_handle_rpm_remove_results == argv.args[1] = "remove" /\ PrintNothing

packages_module_handle_rpm_results ==
    /\ argv.sub = "rpm"
    /\ \/ packages_module_handle_rpm_files_results
       \/ packages_module_handle_rpm_info_results
       \/ packages_module_handle_rpm_install_results
       \/ packages_module_handle_rpm_list_results
       \/ packages_module_handle_rpm_package_info_results
       \/ packages_module_handle_rpm_remove_results

packages_module_handle_apt_info_results == argv.args[1] = "info" /\ HandleInfo
packages_module_handle_apt_list_all_packages_results == argv.args[1] = "listall" /\ PrintText
packages_module_handle_apt_search_results == argv.args[1] = "search" /\ PrintText
packages_module_handle_apt_last_update_results == argv.args[1] = "lastupdate" /\ PrintText

\* Transactions have no results to print: their output came as signals.
packages_module_handle_apt_results ==
    /\ argv.sub = "apt"
    /\ \/ packages_module_handle_apt_info_results
       \/ packages_module_handle_apt_list_all_packages_results
       \/ packages_module_handle_apt_search_results
       \/ packages_module_handle_apt_last_update_results
       \/ argv.args[1] \in {"install", "remove", "reinstall", "update"}
             /\ Finish /\ UNCHANGED shown

packages_module_handle_repo_add_results == argv.args[1] = "add" /\ PrintNothing
packages_module_handle_repo_info_results == argv.args[1] = "info" /\ HandleInfo
packages_module_handle_repo_list_results == argv.args[1] = "list" /\ PrintText
packages_module_handle_repo_remove_results == argv.args[1] = "remove" /\ PrintNothing

packages_module_handle_repo_results ==
    /\ argv.sub = "repo"
    /\ \/ packages_module_handle_repo_add_results
       \/ packages_module_handle_repo_info_results
       \/ packages_module_handle_repo_list_results
       \/ packages_module_handle_repo_remove_results

packages_module_handle_results ==
    /\ In("packages", "packages_module_handle_results")
    /\ \/ help_flag /\ Finish /\ UNCHANGED shown
       \/ ~help_flag /\ packages_module_handle_rpm_results
       \/ ~help_flag /\ packages_module_handle_apt_results
       \/ ~help_flag /\ packages_module_handle_repo_results
    /\ UNCHANGED <<argv, results, done, names>> /\ UNCHANGED packagesVars

PackagesNext ==
    \/ packages_module_parse_arguments \/ packages_module_run
    \/ packages_module_rpm_subcommand \/ packages_module_apt_subcommand
    \/ packages_module_repo_subcommand
    \/ CheckApply \/ ShowPlan \/ apt_apply_async \/ apt_reinstall \/ apt_update
    \/ packages_module_apt_sigint_handler \/ packages_module_handle_results


-----------------------------------------------------------------------------
(* Properties. *)

\* A manually installed package never goes without the user having asked for
\* its removal or having accepted a list it was on, whatever apt resolves and
\* whatever is marked between CheckApply and ApplyAsync (the wrapper's
\* pkgpriorities and the exclude list of packages_module_apt_subcommand).
ManualRemovalAgreed ==
    lost \subseteq (IF agreed = NULL THEN {} ELSE agreed[1])
                    \cup (IF argv.module = "packages" THEN {argv.args[i] : i \in 1..Len(argv.args)}
                                                      ELSE {})

=============================================================================
