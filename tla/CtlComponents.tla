---------------------------- MODULE CtlComponents ----------------------------
(***************************************************************************)
(* The components module of alteratorctl: lists, queries, and the          *)
(* installation and removal of a component, which is an apt transaction    *)
(* over the component's packages made through the packages module.         *)
(***************************************************************************)
EXTENDS CtlPackages, ComponentCatalog

CONSTANTS
    Archs, Languages, Desktops,   \* what systeminfo may answer
    SectionOption,   \* section -> the option that chooses it
    CategoryOption   \* name -> the option "-c name"

VARIABLES
    env,       \* [arch, locales, desktops] that the base section was read with
    own,       \* packages of the component that the command is about
    base,      \* packages of the base section, NULL without an edition
    tree,      \* element -> status, what is being printed
    left,      \* sections still to print
    has_edition    \* whether the machine has a current edition

componentsVars == <<env, own, base, tree, left, has_edition>>

NoEnv == [arch |-> "", locales |-> {}, desktops |-> NULL]

ComponentsInit ==
    /\ env = NoEnv
    /\ own = {}
    /\ base = NULL
    /\ tree = <<>>
    /\ left = <<>>
    /\ has_edition \in BOOLEAN

Component == argv.args[1]

opt(o) == o \in argv.opts

chosen_sections == {s \in DOMAIN SectionOption : opt(SectionOption[s])}

printing_category_name == {c \in DOMAIN CategoryOption : opt(CategoryOption[c])}

-----------------------------------------------------------------------------
(* Arguments. *)

\* Pairs of options that are refused together.
Opposite ==
    {{"--installed", "--not-installed"}, {"--name-only", "--path-only"},
     {"--name-only", "--display-name-only"}, {"--display-name-only", "--path-only"},
     {"--display-name-only", "--no-display-name"}, {"-v", "--display-name-only"},
     {"-v", "--name-only"}, {"-v", "--path-only"}, {"--no-name", "--name-only"},
     {"--no-name", "--no-display-name"}, {"-v", "--no-name"},
     {"--graphic-tree", "--simple-tree"}, {"--graphic-tree", "--list"},
     {"--simple-tree", "--list"}, {"--ignore-sections", "--show-other"}}

components_module_parse_options ==
    /\ \A pair \in Opposite : ~(pair \subseteq argv.opts)
    /\ ~(opt("--ignore-sections") /\ chosen_sections # {})
    /\ opt("--enable-display-name") =>
         /\ opt("--list")
         /\ argv.opts \cap {"--no-display-name", "--name-only", "--path-only"} = {}

\* A first word that is no command means list.
Commanded(f) ==
    IF f \in {"info", "install", "remove", "description", "search", "status"} THEN f
    ELSE "list"

components_module_parse_arguments ==
    /\ In("components", "parse_arguments")
    /\ IF \/ help_flag
          \/ /\ components_module_parse_options
             /\ Commanded(argv.sub) # "list" => Len(argv.args) = 1
         THEN Goto("components_module_run") ELSE ERR_EXIT
    /\ UNCHANGED <<argv, results, shown, done, names>>
    /\ UNCHANGED packagesVars /\ UNCHANGED componentsVars

\* description, remove and install hand over the locale first.
components_module_run ==
    /\ In("components", "components_module_run")
    /\ set_env_value = 0
    /\ Goto(IF help_flag THEN "components_module_handle_results"
            ELSE Commanded(argv.sub))
    /\ UNCHANGED <<argv, results, shown, done, names>>
    /\ UNCHANGED packagesVars /\ UNCHANGED componentsVars

-----------------------------------------------------------------------------
(* Answers of the service. *)

validate_object_and_iface ==
    {object = "present" /\ iface = "present" : object \in Lookups, iface \in Lookups}

\* Arch, Locales and Desktops of systeminfo; NULL when the call fails.
get_arch == {NULL} \cup {<<a>> : a \in Archs}
get_locales == {NULL} \cup {<<{l}>> : l \in Languages}
get_desktop_environments == {NULL} \cup {<<{d}>> : d \in Desktops}

\* The three together; without an architecture or locales the command fails.
get_env ==
    {NULL} \cup {<<[arch |-> a[1], locales |-> l[1], desktops |-> d]>> :
        a \in get_arch \ {NULL}, l \in get_locales \ {NULL}, d \in get_desktop_environments}

\* A call whose error ends the command whatever it is.
Fetch(Replies) == {o.res : o \in call(Replies)}

\* Entries that cannot be read are missing from a batch answer.
get_categories_info == Fetch({Categories})

get_components_info == Fetch({Components})

\* The exit code is not looked at: a backend that fails answers with an empty
\* list, which means that everything is installed.
get_components_uninstalled_packages ==
    Fetch({Packages \ installed, {}})

\* Sections of the current edition; any failure reads as no edition.
get_section_nodes == {NULL} \cup (IF has_edition THEN {<<Sections>>} ELSE {})

\* Status: 0 when all packages of the component are installed.
get_component_status(c) ==
    LET mine == {PackagesOf[c][i] : i \in 1..Len(PackagesOf[c])}
    IN {NULL} \cup {<<[status |-> IF mine \subseteq installed THEN 0 ELSE 1,
                       installed |-> mine \cap installed]>>}

\* The parsed entry of a component, its texts and its packages table.
get_specified_object_data == BOOLEAN

get_display_name == BOOLEAN

get_section_display_name == BOOLEAN

-----------------------------------------------------------------------------
(* list. *)

\* Drafts are left out unless they are asked for.
NotDraft(S) == IF opt("--draft") THEN S ELSE S \ Drafts

\* Categories, sections, components, uninstalled packages and the environment
\* are asked for in this order; the first failure ends the command.
components_module_list_subcommand ==
    /\ In("components", "list")
    /\ \E cats \in get_categories_info, sec \in get_section_nodes,
          comps \in get_components_info, un \in get_components_uninstalled_packages,
          named \in get_display_name, e \in get_env :
         IF NULL \in {cats, comps, un, e} \/ ~named
           THEN ERR_EXIT /\ UNCHANGED <<env, tree, left>>
           ELSE LET status == [c \in Components |->
                      get_component_status_by_uninstalled_packages_list(c, un[1], e[1])]
                    known == NotDraft(cats[1] \cup comps[1])
                    sections == IF opt("--ignore-sections") THEN NULL ELSE sec
                IN /\ env' = e[1]
                   /\ IF \E c \in Components : status[c] = "error"
                        THEN ERR_EXIT /\ UNCHANGED <<tree, left>>
                        ELSE /\ tree' = [x \in known |-> IF x \in Components THEN status[x]
                                                         ELSE "NONE"]
                             /\ left' = IF sections = NULL THEN <<"all">> ELSE sections[1]
                             /\ Goto("sections")
    /\ UNCHANGED <<argv, results, shown, done, names, own, base, has_edition>>
    /\ UNCHANGED packagesVars

\* The sections that were chosen, then the other components when asked for.
print_other == opt("--show-other") \/ "other" \in chosen_sections

ChooseSections ==
    /\ In("components", "sections")
    /\ IF left = <<"all">> THEN Goto("print_components_section") /\ UNCHANGED left
       ELSE IF chosen_sections \ {"other"} \subseteq {left[i] : i \in 1..Len(left)}
         THEN /\ left' = SelectSeq(left, LAMBDA s : chosen_sections = {} \/ s \in chosen_sections)
                         \o (IF print_other THEN <<"other">> ELSE <<>>)
              /\ Goto("print_components_section")
         ELSE ERR_EXIT /\ UNCHANGED left
    /\ UNCHANGED <<argv, results, shown, done, names, env, own, base, tree, has_edition>>
    /\ UNCHANGED packagesVars

\* The other section holds every component, the ones of sections as well.
SectionLinks(s) ==
    LET known == DOMAIN tree
    IN CASE s = "all"   -> create_categories_links(known)
         [] s = "other" -> create_sections_categories_links(known, Components)
         [] OTHER       -> create_sections_categories_links(known, SectionOf[s])

SectionTree(s) == section_result(SectionLinks(s))

Filtered(shape) ==
    IF opt("--installed") THEN unlink_uninstalled_tree_elem(shape)
    ELSE IF opt("--not-installed") THEN unlink_installed_tree_elem(shape)
    ELSE shape

\* A printed line: [section, elem, status], the status "" without a marker.
Line(s, e, marker) ==
    [section |-> s, elem |-> e,
     status |-> IF opt("--hide-installation-markers") THEN "" ELSE marker]

\* The default: every element of the tree, with its marker.
print_pseudo_graphic_subtree_buffered(s, shape) == {Line(s, e, shape[e]) : e \in DOMAIN shape}

\* The test for a marker is inverted: none is ever printed.
print_subtree_buffered(s, shape) == {Line(s, e, "") : e \in DOMAIN shape}

\* One line per component; its categories are part of the line.
print_sublist_buffered(s, shape) ==
    {Line(s, e, shape[e]) : e \in DOMAIN shape \cap Components}

\* What one section adds to the output, its heading included.  With a category
\* only its tree is printed, and only for the first section that has it and
\* for the last one; a component in place of a category, or an unknown one, is
\* reported and the exit code stays 0.
print_list_with_filters(s, shape, last) ==
    LET Lines(sh) ==
          {Line(s, "", "")} \cup
          (IF opt("--simple-tree") THEN print_subtree_buffered(s, sh)
           ELSE IF opt("--list") THEN print_sublist_buffered(s, sh)
           ELSE print_pseudo_graphic_subtree_buffered(s, sh))
        before == shown # {}
        c == CHOOSE k \in printing_category_name : TRUE
    IN IF printing_category_name = {} THEN Lines(Filtered(shape))
       ELSE IF \/ get_tree_elem_by_name(shape, c) = <<>>
               \/ ~before /\ c \in Components
               \/ before /\ ~last
         THEN {} ELSE Lines(Filtered(Subtree(shape, c)))

\* Mutant: the section is printed and stays in the list.
PrintSectionAgain ==
    /\ In("components", "print_components_section") /\ left # <<>>
    /\ \E named \in get_section_display_name, s \in {Head(left)} :
         IF named \/ s \in {"all", "other"}
           THEN \E linked \in {SectionTree(s)} :
                \E shape \in {update_all_trees_elems_is_installed(linked, tree)} :
                  /\ shown' = shown \cup print_list_with_filters(s, shape, Tail(left) = <<>>)
                  /\ left' = left /\ Goto("print_components_section")
           ELSE ERR_EXIT /\ UNCHANGED <<shown, left>>
    /\ UNCHANGED <<argv, results, done, names, env, own, base, tree, has_edition>>
    /\ UNCHANGED packagesVars

print_components_section ==
    /\ In("components", "print_components_section") /\ left # <<>>
    /\ \E named \in get_section_display_name, s \in {Head(left)} :
         IF named \/ s \in {"all", "other"}
           THEN \E linked \in {SectionTree(s)} :
                \E shape \in {update_all_trees_elems_is_installed(linked, tree)} :
                  /\ shown' = shown \cup print_list_with_filters(s, shape, Tail(left) = <<>>)
                  /\ left' = Tail(left) /\ Goto("print_components_section")
           ELSE ERR_EXIT /\ UNCHANGED <<shown, left>>
    /\ UNCHANGED <<argv, results, done, names, env, own, base, tree, has_edition>>
    /\ UNCHANGED packagesVars

SectionsPrinted ==
    /\ In("components", "print_components_section") /\ left = <<>>
    /\ Goto("components_module_handle_results")
    /\ UNCHANGED <<argv, results, shown, done, names>>
    /\ UNCHANGED packagesVars /\ UNCHANGED componentsVars

-----------------------------------------------------------------------------
(* Queries. *)

components_module_info_subcommand ==
    /\ In("components", "info")
    /\ \E valid \in validate_object_and_iface, text \in InfoText :
         IF valid /\ text # NULL
           THEN results' = text /\ Goto("components_module_handle_results")
           ELSE ERR_EXIT /\ UNCHANGED results
    /\ UNCHANGED <<argv, shown, done, names>>
    /\ UNCHANGED packagesVars /\ UNCHANGED componentsVars

components_module_description_subcommand ==
    /\ In("components", "description")
    /\ \E o \in call(Answers(Texts)) :
         IF o.res # NULL THEN results' = o.res /\ Goto("components_module_handle_results")
                         ELSE ERR_EXIT /\ UNCHANGED results
    /\ UNCHANGED <<argv, shown, done, names>>
    /\ UNCHANGED packagesVars /\ UNCHANGED componentsVars

\* The word is a regular expression; an invalid one matches nothing.
components_module_search_subcommand ==
    /\ In("components", "search")
    /\ \E paths \in get_iface_objects(Components), match \in SUBSET Components :
         IF paths \in {NULL, <<{}>>} THEN ERR_EXIT /\ UNCHANGED shown
         ELSE /\ shown' = paths[1] \cap match
              /\ Goto("components_module_handle_results")
    /\ UNCHANGED <<argv, results, done, names>>
    /\ UNCHANGED packagesVars /\ UNCHANGED componentsVars

\* The packages of the component with a mark for each, or the complaint that
\* none applies; the status is the backend's.
components_module_status_subcommand ==
    /\ In("components", "status")
    /\ \E valid \in validate_object_and_iface, read \in get_specified_object_data,
          st \in get_component_status(Component), named \in get_display_name, e \in get_env :
         IF ~valid \/ ~read \/ ~named \/ NULL \in {st, e} THEN ERR_EXIT /\ UNCHANGED <<shown, own>>
         ELSE IF Contradicts(Component, e[1]) THEN ERR_EXIT /\ UNCHANGED <<shown, own>>
         ELSE /\ own' = ApplicablePackages(Component, e[1], TRUE)
              /\ shown' = {[package |-> p, mark |-> p \in st[1].installed] : p \in own'}
              /\ Goto("components_module_handle_results")
    /\ UNCHANGED <<argv, results, done, names, env, base, tree, left, has_edition>>
    /\ UNCHANGED packagesVars

-----------------------------------------------------------------------------
(* install and remove. *)

\* The component is on the bus, in the list of components, and its backend
\* says that it is in the wanted state.
Prepared(wanted) ==
    /\ \E valid \in validate_object_and_iface, list \in get_iface_objects({Component}),
          st \in get_component_status(Component) :
         IF valid /\ list = <<{Component}>> /\ st # NULL /\ wanted = (st[1].status = 0)
           THEN Goto(IF opt("--no-update") THEN "get_packages_of_component" ELSE "apt update")
           ELSE ERR_EXIT
    /\ UNCHANGED <<argv, results, shown, done, names>>
    /\ UNCHANGED packagesVars /\ UNCHANGED componentsVars

components_module_install_subcommand == In("components", "install") /\ Prepared(FALSE)

components_module_remove_subcommand == In("components", "remove") /\ Prepared(TRUE)

\* The packages module's update; here its exit code is looked at.
apt_update_packages_list ==
    /\ In("components", "apt update")
    /\ \E o \in call([code : ExitCodes]) :
         /\ done' \in Executed(o, <<"update">>)
         /\ IF o.res = NULL THEN ERR_EXIT
            ELSE IF o.res[1].code # 0 THEN ERR_EXIT
            ELSE Goto("get_packages_of_component")
    /\ UNCHANGED <<argv, results, shown, names>>
    /\ UNCHANGED packagesVars /\ UNCHANGED componentsVars

\* The packages that apply and are (remove) or are not (install) installed.
\* Arch and locales are asked for again, and an unknown desktop lets every
\* package of a desktop in.
get_packages_of_component ==
    /\ In("components", "get_packages_of_component")
    /\ \E valid \in validate_object_and_iface, read \in get_specified_object_data,
          st \in get_component_status(Component), un \in get_components_uninstalled_packages,
          e \in get_env :
         IF ~valid \/ ~read \/ NULL \in {st, e} \/ (argv.sub = "install" /\ un = NULL)
           THEN ERR_EXIT /\ UNCHANGED own
           ELSE LET some == ApplicablePackages(Component, e[1], FALSE)
                IN IF Contradicts(Component, e[1]) \/ (some = {} /\ PackagesOf[Component] # <<>>)
                     THEN ERR_EXIT /\ UNCHANGED own
                     ELSE /\ own' = some \cap (IF argv.sub = "install" THEN un[1]
                                               ELSE st[1].installed)
                          /\ Goto(IF argv.sub = "install" THEN "CheckApply"
                                  ELSE "remove_component")
    /\ UNCHANGED <<argv, results, shown, done, names, env, base, tree, left, has_edition>>
    /\ UNCHANGED packagesVars

\* The packages of the components of the section base.
BasePackages(e) ==
    UNION {ApplicablePackages(c, e, e.desktops # NULL) : c \in SectionOf["base"]}

\* Without sections there is no base; a missing section base is an error, as
\* is every failure after it.
get_base_section_packages ==
    {IF sec = NULL THEN [err |-> FALSE, env |-> env, base |-> NULL]
     ELSE IF \/ "base" \notin {sec[1][i] : i \in 1..Len(sec[1])} \/ NULL \in {info, e}
             \/ \E c \in SectionOf["base"] : Contradicts(c, e[1])
       THEN [err |-> TRUE, env |-> env, base |-> base]
     ELSE [err |-> FALSE, env |-> e[1], base |-> <<BasePackages(e[1])>>] :
       sec \in get_section_nodes, info \in get_components_info, e \in get_env}

allow_remove_base_components == opt("--allow-remove-base")

components_module_remove_component ==
    /\ In("components", "remove_component")
    /\ \E got \in get_base_section_packages :
         /\ env' = got.env /\ base' = got.base
         /\ IF \/ got.err
               \/ got.base # NULL /\ ~allow_remove_base_components /\ got.base[1] \cap own # {}
              THEN ERR_EXIT ELSE Goto("CheckApply")
    /\ UNCHANGED <<argv, results, shown, done, names, own, tree, left, has_edition>>
    /\ UNCHANGED packagesVars

OwnWords ==
    IF argv.sub = "install" THEN [add |-> own, del |-> {}] ELSE [add |-> {}, del |-> own]

\* An empty list of packages is refused by CheckApply.
ComponentsCheckApply ==
    /\ In("components", "CheckApply")
    /\ \E p \in get_check_apply_result(OwnWords) :
         IF p = NULL THEN ERR_EXIT /\ UNCHANGED plan ELSE plan' = p /\ Goto("affected")
    /\ UNCHANGED <<argv, results, shown, done, names>> /\ UNCHANGED componentsVars
    /\ UNCHANGED <<installed, manual, packages_list, agreed, lost>>

\* Components that share a package with the plan.  Installing concerns those
\* that are not installed yet, removing those that are.
calculate_affected_components(pkgs, action, uninstalled, e) ==
    LET status(c) == get_component_status_by_uninstalled_packages_list(c, uninstalled, e)
        skip == IF action = "INSTALL" THEN {"INSTALLED"} ELSE {"NOT_INSTALLED"}
    IN {c \in Components \ Drafts :
          status(c) \notin skip /\ ApplicablePackages(c, e, TRUE) \cap pkgs # {}}

\* An empty plan is an error.  What is removed is the whole plan, not only
\* what the component asked for.
print_affected_components ==
    /\ In("components", "affected")
    /\ LET all == plan[1].to_remove \cup plan[1].extra_remove
       IN \E un \in get_components_uninstalled_packages, info \in get_components_info,
             e \in get_env :
         IF all \cup plan[1].to_install = {} \/ NULL \in {un, info, e}
           THEN ERR_EXIT /\ UNCHANGED <<shown, packages_list>>
         ELSE IF \E c \in Components : Contradicts(c, e[1])
           THEN ERR_EXIT /\ UNCHANGED <<shown, packages_list>>
         ELSE /\ shown' = calculate_affected_components(plan[1].to_install, "INSTALL", un[1], e[1])
                            \cup calculate_affected_components(all, "REMOVE", un[1], e[1])
              /\ packages_list' = IF argv.sub = "install" THEN OwnWords
                                  ELSE [add |-> {}, del |-> all]
              /\ Goto("packages_module_apt_check_apply_package_info")
    /\ UNCHANGED <<argv, results, done, names>> /\ UNCHANGED componentsVars
    /\ UNCHANGED <<installed, manual, plan, agreed, lost>>

\* Mutant: the exit code of the transaction is not looked at.
InstallIgnoringCode ==
    /\ In("components", "ApplyAsync") /\ argv.sub = "install"
    /\ \E o \in call([code : ExitCodes]) : \E was \in WasExecuted(o) :
         /\ AptEffect(was)
         /\ IF o.res = NULL THEN ERR_EXIT ELSE Goto("components_module_handle_results")
    /\ UNCHANGED <<argv, results, shown, names, packages_list, plan, agreed>>
    /\ UNCHANGED componentsVars

\* An exit code of apt-get is an error here.
install_component_packages ==
    /\ In("components", "ApplyAsync") /\ argv.sub = "install"
    /\ \E o \in call([code : ExitCodes]) : \E was \in WasExecuted(o) :
         /\ AptEffect(was)
         /\ IF o.res = NULL THEN ERR_EXIT
            ELSE IF o.res[1].code # 0 THEN ERR_EXIT
            ELSE Goto("components_module_handle_results")
    /\ UNCHANGED <<argv, results, shown, names, packages_list, plan, agreed>>
    /\ UNCHANGED componentsVars

remove_component_packages ==
    /\ In("components", "ApplyAsync") /\ argv.sub = "remove"
    /\ \E o \in call([code : ExitCodes]) : \E was \in WasExecuted(o) :
         /\ AptEffect(was)
         /\ IF o.res = NULL THEN ERR_EXIT
            ELSE IF o.res[1].code # 0 THEN ERR_EXIT
            ELSE Goto("components_module_handle_results")
    /\ UNCHANGED <<argv, results, shown, names, packages_list, plan, agreed>>
    /\ UNCHANGED componentsVars

-----------------------------------------------------------------------------
(* Results. *)

\* The entry is read again and must have a type and a name.
components_module_validate_alterator_entry == BOOLEAN

components_module_handle_info_results ==
    /\ argv.sub = "info"
    /\ \E valid \in components_module_validate_alterator_entry :
         IF valid THEN PrintText ELSE ERR_EXIT /\ UNCHANGED shown

\* The exit code is only tested for less than 0.
components_module_handle_description_results ==
    argv.sub = "description" /\ PrintText

components_module_handle_results ==
    /\ In("components", "components_module_handle_results")
    /\ \/ ~help_flag /\ components_module_handle_info_results
       \/ ~help_flag /\ components_module_handle_description_results
       \/ (help_flag \/ argv.sub \notin {"info", "description"}) /\ Finish /\ UNCHANGED shown
    /\ UNCHANGED <<argv, results, done, names>>
    /\ UNCHANGED packagesVars /\ UNCHANGED componentsVars

ComponentsNext ==
    \/ components_module_parse_arguments \/ components_module_run
    \/ components_module_list_subcommand \/ ChooseSections
    \/ print_components_section \/ SectionsPrinted
    \/ components_module_info_subcommand \/ components_module_description_subcommand
    \/ components_module_search_subcommand \/ components_module_status_subcommand
    \/ components_module_install_subcommand \/ components_module_remove_subcommand
    \/ apt_update_packages_list
    \/ get_packages_of_component \/ components_module_remove_component
    \/ ComponentsCheckApply \/ print_affected_components
    \/ install_component_packages \/ remove_component_packages
    \/ components_module_handle_results

-----------------------------------------------------------------------------
(* Properties. *)

\* The summary of a category says "installed" or "not installed" exactly when
\* all components under it (those with a status) are, and "partially" when they
\* differ, whatever the order in which update_tree_elem_is_installed meets them
\* and whatever was printed for the sections before.
CategoryIsSummary ==
    argv.module = "components" /\ app_command = "ALTERATORCTL_RUN_MODULE"
      /\ Commanded(argv.sub) = "list" =>
    \A s \in {x.section : x \in shown} :
      LET linked == SectionTree(s)
      IN \A x \in {y \in shown : y.section = s /\ y.elem \in Categories /\ y.status # ""} :
           LET below == Below(x.elem, linked) \cap Components
               seen == {tree[c] : c \in below} \ {"NONE"}
           IN x.status = IF seen = {} THEN "NONE"
                         ELSE IF Cardinality(seen) = 1 THEN CHOOSE st \in seen : TRUE
                         ELSE "PARTIALLY_INSTALLED"

\* With --installed no installed component of a printed section is missing,
\* with --not-installed no uninstalled one: the filters, which cut whole
\* branches of the tree, never cut a branch that holds what was asked for
\* (unlink_uninstalled_tree_elem after update_all_trees_elems_is_installed).
FilterKeepsAsked ==
    [][(/\ In("components", "print_components_section") /\ at' = at /\ left # <<>>
        /\ printing_category_name = {} /\ argv.opts \cap {"--installed", "--not-installed"} # {})
       => LET asked == IF opt("--installed") THEN "INSTALLED" ELSE "NOT_INSTALLED"
          IN \A c \in SectionTree(Head(left)) \cap Components : tree[c] = asked =>
               \E x \in shown' : x.section = Head(left) /\ x.elem = c
      ]_<<commonVars, componentsVars>>

\* An accepted installation or removal of a component that exits with 0 has
\* been carried out: neither an error of the bus nor an exit code of apt-get
\* gets lost on the way through the packages module.
AcceptedIsApplied ==
    argv.module = "components" /\ at = "end" /\ ret = 0 /\ agreed # NULL
        => <<"apply", packages_list>> \in done

=============================================================================
