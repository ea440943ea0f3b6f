-------------------------------- MODULE MCCtl --------------------------------
(* The instance of Ctl that TLC checks. *)
EXTENDS Ctl

MCRules ==
    [p1 |-> [arch |-> <<>>, exclude_arch |-> <<>>, language |-> <<>>, desktop |-> <<>>],
     p2 |-> [arch |-> <<>>, exclude_arch |-> <<>>, language |-> <<"ru">>, desktop |-> <<{"kde"}>>],
     p3 |-> [arch |-> <<{"x86_64"}>>, exclude_arch |-> <<{"aarch64"}>>,
             language |-> <<>>, desktop |-> <<>>]]

MCCategoryOf ==
    [c1 |-> "k1", c2 |-> "k2", c3 |-> "k2", c4 |-> "", k1 |-> "", k2 |-> "k1", k3 |-> "gone"]

MCPackagesOf ==
    [c1 |-> <<"p1">>, c2 |-> <<"p1", "p2">>, c3 |-> <<"p3">>, c4 |-> <<>>]

MCSections == <<"base", "extra">>

MCSectionOf == [base |-> {"c1"}, extra |-> {"c2", "c3"}]

MCSectionOption == [base |-> "-s base", nosuch |-> "-s nosuch", other |-> "-s other"]

MCCategoryOption == [k2 |-> "-c k2", c1 |-> "-c c1", nosuch |-> "-c nosuch"]

MCTests == <<"t1", "t2">>

AppCommands ==
    {Argv("", "", <<>>, {}), Argv("", "", <<>>, {"--version"}), Argv("", "", <<>>, {"-m"}),
     Argv("manager", "", <<>>, {"-h first"}), Argv("nosuch", "", <<>>, {})}

HelpCommands == {Argv(m, "", <<>>, {"-h"}) : m \in Modules \ {"services"}}

ManagerCommands ==
    {Argv("manager", "getobjects", a, o) : a \in {<<>>, <<"iface">>}, o \in {{}, {"--system"}}}
      \cup {Argv("manager", "getifaces", <<>>, o) : o \in {{}, {"--system", "--session"}}}
      \cup {Argv("manager", "getifaces", <<"/path">>, {"--session"}),
            Argv("manager", "getobjects", <<>>, {"--wrong"}),
            Argv("manager", "getsignals", <<"/path", "iface", "s">>, {"--system"}),
            Argv("manager", "getsignals", <<"name", "iface", "s">>, {"--system"})}

EditionsCommands ==
    {Argv("editions", s, a, {}) : s \in {"description", "license", "info"},
                                  a \in {<<>>, <<"e1">>, <<"/path">>}}
      \cup {Argv("editions", s, <<>>, {}) : s \in {"", "list", "get"}}
      \cup {Argv("editions", "set", <<"e1">>, {}), Argv("editions", "set", <<"/path">>, {}),
            Argv("editions", "set", <<>>, {}),
            Argv("editions", "list", <<>>, {"--hide-installation-markers"}),
            Argv("editions", "list", <<>>, {"-v", "--name-only"})}

SysteminfoCommands ==
    {Argv("systeminfo", s, <<>>, {}) : s \in PropertySet \cup {"", "nosuch"}}

DiagCommands ==
    {Argv("diag", "run", a, o) : a \in {<<"tool">>, <<"/tool">>, <<"tool", "t1">>, <<"/tool", "t1">>},
                                 o \in {{}, {"--system"}}}
      \cup {Argv("diag", s, <<"tool">>, {}) : s \in {"info", "list"}}
      \cup {Argv("diag", "report", <<"tool", "file">>, {}),
            Argv("diag", "report", <<"/tool", "file">>, {"as root"}),
            Argv("diag", "list", <<>>, {}), Argv("diag", "", <<>>, {"--session"}),
            Argv("diag", "tool", <<>>, {}), Argv("diag", "report", <<>>, {}),
            Argv("diag", "run", <<"tool">>, {"as root", "--session"})}

PackagesCommands ==
    {Argv("packages", "apt", <<c, "p1">>, o) : c \in {"install", "remove"},
        o \in {{}, {"--allow-remove-manually"}, {"--allow-remove-manually", "--force-yes"}}}
      \cup {Argv("packages", "apt", <<c, "p1">>, {}) : c \in {"reinstall", "search"}}
      \cup {Argv("packages", "apt", <<c>>, {}) : c \in {"info", "listall", "update", "lastupdate"}}
      \cup {Argv("packages", "rpm", <<c, "p1">>, {}) :
              c \in {"files", "install", "packageinfo", "remove"}}
      \cup {Argv("packages", "rpm", <<c>>, {}) : c \in {"info", "list", "nosuch"}}
      \cup {Argv("packages", "repo", <<c, "r1">>, {}) : c \in {"add", "remove"}}
      \cup {Argv("packages", "repo", <<c>>, {}) : c \in {"info", "list", "add"}}
      \cup {Argv("packages", "apt", <<"info">>, {"-h"})}

ComponentsCommands ==
    {Argv("components", "list", <<>>, o) :
        o \in {{}, {"--installed"}, {"--not-installed"}, {"--ignore-sections"}, {"--show-other"},
               {"--draft"}, {"-s base"}, {"-s nosuch"}, {"-s other"}, {"-c k2"}, {"-c c1"},
               {"-c nosuch"}, {"--installed", "--not-installed"},
               {"--list", "--installed"}, {"--simple-tree"}, {"-c k2", "--not-installed"},
               {"--list", "--hide-installation-markers"}, {"--installed", "--show-other"}, {"--ignore-sections", "--not-installed"}}}
      \cup {Argv("components", s, <<"c2">>, {}) : s \in {"info", "description", "search", "status"}}
      \cup {Argv("components", s, <<c>>, o) : s \in {"install", "remove"}, c \in {"c1", "c2", "c3"},
              o \in {{}, {"--no-update", "--force-yes"}, {"--allow-remove-manually"},
                     {"--allow-remove-base"}}}
      \cup {Argv("components", "install", <<>>, {})}

MCCommands ==
    AppCommands \cup HelpCommands \cup ManagerCommands \cup EditionsCommands
      \cup SysteminfoCommands \cup DiagCommands \cup PackagesCommands \cup ComponentsCommands

=============================================================================
