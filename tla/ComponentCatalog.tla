--------------------------- MODULE ComponentCatalog ---------------------------
(***************************************************************************)
(* What the components module of alteratorctl computes from the entries of *)
(* components, categories and sections: which packages of a component      *)
(* apply to this machine, whether a component is installed, the tree of    *)
(* categories that is printed and the summary status of a category.        *)
(***************************************************************************)
EXTENDS Integers, Sequences, FiniteSets, FiniteSetsExt

CONSTANTS
    Components,     \* names of components
    Categories,     \* names of categories
    CategoryOf,     \* component or category -> its category, "" at the top
    PackagesOf,     \* component -> the sequence of its packages
    Rules,          \* package -> [arch, exclude_arch, language, desktop]
    Drafts,         \* components and categories that are drafts
    Sections,       \* names of the edition's sections, in the order they are printed (sorted)
    SectionOf       \* section -> the components it lists

Statuses == {"NONE", "INSTALLED", "NOT_INSTALLED", "PARTIALLY_INSTALLED"}

\* The names of components and of categories are the keys of two tables, so an
\* element is a key of one of them; no key is the empty name, which stands for
\* the top.
ASSUME TwoTables ==
    /\ IsFiniteSet(Components) /\ IsFiniteSet(Categories)
    /\ Components \cap Categories = {}
    /\ "" \notin Components \cup Categories

Elements == Components \cup Categories

-----------------------------------------------------------------------------
(* Which packages apply.  An absent key of the entry is NULL, written <<>>; *)
(* env is [arch, locales, desktops] with desktops <<>> when unknown.        *)

\* The comment in the code speaks of a package that is both allowed and
\* excluded; the test is on one that is not allowed.
is_ignore_package_by_arch(p, arch) ==
    LET allowed == Rules[p].arch = <<>> \/ arch \in Rules[p].arch[1]
        exclude == Rules[p].exclude_arch # <<>> /\ arch \in Rules[p].exclude_arch[1]
    IN IF exclude /\ ~allowed THEN "error"
       ELSE IF exclude \/ ~allowed THEN "ignore" ELSE "use"

is_ignore_package_by_language(p, locales) ==
    Rules[p].language # <<>> /\ Rules[p].language[1] \notin locales

\* Unknown environments exclude every package that names one, unless the
\* function had to ask for the environments itself.
is_ignore_package_by_desktop_env(p, desktops, given) ==
    /\ Rules[p].desktop # <<>>
    /\ IF desktops = <<>> THEN given ELSE Rules[p].desktop[1] \cap desktops[1] = {}

Applies(p, env, given) ==
    /\ is_ignore_package_by_arch(p, env.arch) = "use"
    /\ ~is_ignore_package_by_language(p, env.locales)
    /\ ~is_ignore_package_by_desktop_env(p, env.desktops, given)

\* A package with contradicting architectures ends the whole operation.
Contradicts(c, env) ==
    \E i \in 1..Len(PackagesOf[c]) :
        is_ignore_package_by_arch(PackagesOf[c][i], env.arch) = "error"

ApplicablePackages(c, env, given) ==
    {PackagesOf[c][i] : i \in {j \in 1..Len(PackagesOf[c]) :
                                  Applies(PackagesOf[c][j], env, given)}}

\* One uninstalled package settles the status before the rest is looked at.
get_component_status_by_uninstalled_packages_list(c, uninstalled, env) ==
    LET pkgs == PackagesOf[c]
        Missing(i) == Applies(pkgs[i], env, TRUE) /\ pkgs[i] \in uninstalled
        Bad(i) == is_ignore_package_by_arch(pkgs[i], env.arch) = "error"
    IN IF pkgs = <<>> THEN "NONE"
       ELSE IF \E i \in 1..Len(pkgs) : Bad(i) /\ \A j \in 1..i : ~Missing(j) THEN "error"
       ELSE IF \/ \E i \in 1..Len(pkgs) : Missing(i)
               \/ ApplicablePackages(c, env, TRUE) = {} THEN "NOT_INSTALLED"
       ELSE "INSTALLED"

-----------------------------------------------------------------------------
(* The tree. *)

\* What hangs below x when these elements are linked to their categories: the
\* elements whose category is x or one of the least set of categories that has
\* the children of x and the children of its own.  A chain that breaks off at
\* a category that is not there does not reach the top, nor does a cycle.
Below(x, linked) ==
    LET categories == linked \cap Categories
        closed == {S \in SUBSET categories :
                      \A k \in categories : CategoryOf[k] \in {x} \cup S => k \in S}
    IN {e \in linked : \A S \in closed : CategoryOf[e] \in {x} \cup S}

\* The links of a section: its components, and the categories that hold at
\* least one of them.  A component without a category is never linked.
create_sections_categories_links(known, section) ==
    LET inside == {c \in known \cap Components : c \in section /\ CategoryOf[c] # ""}
        categories == known \cap Categories
    IN inside \cup {k \in categories : Below(k, inside \cup categories) \cap inside # {}}

\* Without sections all categories are linked.
create_categories_links(known) == {e \in known : e \in Categories \/ CategoryOf[e] # ""}

\* What is printed hangs from a category at the top.
section_result(linked) == Below("", linked)

\* Mutant: a partly installed child counts as an installed one.
UpdateElemRoundingUp(child, parent) ==
    IF child = "NONE" THEN parent
    ELSE IF parent = "NONE" THEN IF child = "PARTIALLY_INSTALLED" THEN "INSTALLED" ELSE child
    ELSE IF parent # child THEN "PARTIALLY_INSTALLED" ELSE parent

\* One step of the traversal: what a child makes of its parent's status.
update_tree_elem_is_installed(child, parent) ==
    IF child = "NONE" THEN parent
    ELSE IF child = "PARTIALLY_INSTALLED" THEN "PARTIALLY_INSTALLED"
    ELSE IF parent = "NONE" THEN child
    ELSE IF parent # child THEN "PARTIALLY_INSTALLED" ELSE parent

\* A category starts with NONE (reset_all_trees_category_installed_status) and
\* is visited after children with these statuses.
summed_up(statuses) == FoldSet(update_tree_elem_is_installed, "NONE", statuses)

\* Post-order: children are summed up before their parent.
update_all_trees_elems_is_installed(tree, status) ==
    LET summary[e \in tree] ==
          IF e \in Components THEN status[e]
          ELSE summed_up({summary[c] : c \in {x \in tree : CategoryOf[x] = e}})
    IN summary

\* A tree without these elements and everything below them.
Unlink(shape, cut) ==
    [e \in {x \in DOMAIN shape : \A k \in cut : x # k /\ x \notin Below(k, DOMAIN shape)}
       |-> shape[e]]

\* Mutant: only what is installed as a whole is kept.
UnlinkPartly(shape) == Unlink(shape, {e \in DOMAIN shape : shape[e] # "INSTALLED"})

\* The filters cut an element with everything below it.
unlink_uninstalled_tree_elem(shape) ==
    Unlink(shape, {e \in DOMAIN shape : shape[e] \in {"NOT_INSTALLED", "NONE"}})

unlink_installed_tree_elem(shape) ==
    Unlink(shape, {e \in DOMAIN shape : shape[e] \in {"INSTALLED", "NONE"}})

get_tree_elem_by_name(shape, name) == IF name \in DOMAIN shape THEN <<name>> ELSE <<>>

\* The tree of one category.
Subtree(shape, e) == [x \in {e} \cup Below(e, DOMAIN shape) |-> shape[x]]

=============================================================================
