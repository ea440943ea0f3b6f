---------------------------- MODULE MCCtlServices ----------------------------
(* The instance of CtlServices that TLC checks. *)
EXTENDS CtlServices, ServiceParams

\* One parameter of each type that the commands below set; "port" stands for a
\* resource, "pw" is a password, "mode" an enum with a variant that has properties.
MCParameters ==
    <<[Param("port", "integer") EXCEPT !.context = <<{"deploy", "configure", "status", "diag"}>>,
         !.required = {"deploy"}, !.min = <<1>>, !.max = <<9>>],
      [Param("pw", "string") EXCEPT !.context = <<{"deploy"}>>, !.required = {"deploy"},
         !.password = TRUE],
      [Param("mode", "enum") EXCEPT !.context = <<{"deploy", "configure", "status"}>>,
         !.required = {"deploy", "configure"}, !.default = <<Str("plain")>>,
         !.values = <<Param("plain", ""),
                      [Param("tls", "") EXCEPT !.properties =
                         <<<<[Param("cert", "string") EXCEPT !.required = {"deploy", "configure"}]>>>>]>>],
      [Param("names", "array") EXCEPT !.context = <<{"deploy", "configure"}>>,
         !.array_type = "string", !.array_max = <<1>>],
      [Param("limits", "object") EXCEPT !.context = <<{"deploy"}>>, !.properties =
         <<<<[Param("cpu", "integer") EXCEPT !.max = <<5>>]>>>>],
      [Param("admin", "integer") EXCEPT !.context = <<{"deploy", "configure"}>>],
      [Param("backup_id", "string") EXCEPT !.context = <<{"restore"}>>, !.required = {"restore"},
         !.pattern = <<{"b1"}>>],
      [Param("kind", "string") EXCEPT !.context = <<{"deploy", "status"}>>, !.constant = TRUE,
         !.default = <<Str("k")>>]>>

MCResources ==
    <<[name |-> "tcp", value |-> <<Num(3)>>, parameter |-> "port"],
      [name |-> "web", value |-> <<>>, parameter |-> "admin"],
      [name |-> "dir", value |-> <<Str("/var")>>, parameter |-> ""]>>

MCNumerals == ("0" :> 0) @@ ("3" :> 3) @@ ("4" :> 4) @@ ("6" :> 6) @@ ("99" :> 99)

Plain == Obj("plain" :> EmptyObject)

Params1 == Obj("port" :> Num(3) @@ "mode" :> Plain @@ "admin" :> Num(6))

\* A service may report null for what is not set, and may report nothing.
MCDeployments == {Params1, SetMember(Params1, "admin", Null), EmptyObject}

MCOtherServices ==
    <<[resources |-> <<[name |-> "tcp", value |-> <<Num(4)>>, parameter |-> ""]>>,
       json |-> EmptyObject],
      [resources |-> <<[name |-> "web", value |-> <<Num(8)>>, parameter |-> "port"]>>,
       json |-> Obj("port" :> Num(6))]>>

MCServiceTools ==
    "d1" :> ("t1" :> [modes |-> {"pre"}, required |-> TRUE]
             @@ "t2" :> [modes |-> {"pre", "post"}, required |-> FALSE])
    @@ "d2" :> ("t3" :> [modes |-> {"pre", "post"}, required |-> FALSE])

\* Two tools with a test of the same name.
SharedTools ==
    "d1" :> ("t1" :> [modes |-> {"pre", "post"}, required |-> FALSE])
    @@ "d2" :> ("t1" :> [modes |-> {"pre", "post"}, required |-> FALSE]
                @@ "t2" :> [modes |-> {"pre", "post"}, required |-> FALSE])

MCTestNames == <<"t1", "t2", "t3">>

MCOptionWords ==
    "port=4"        :> [path |-> <<"port">>, value |-> "4"]
    @@ "port=99"    :> [path |-> <<"port">>, value |-> "99"]
    @@ "port=0"     :> [path |-> <<"port">>, value |-> "0"]
    @@ "admin=6"    :> [path |-> <<"admin">>, value |-> "6"]
    @@ "admin=3"    :> [path |-> <<"admin">>, value |-> "3"]
    @@ "pw=secret"  :> [path |-> <<"pw">>, value |-> "secret"]
    @@ "mode=tls"   :> [path |-> <<"mode">>, value |-> "tls"]
    @@ "mode=none"  :> [path |-> <<"mode">>, value |-> "none"]
    @@ "cert=c"     :> [path |-> <<"mode", "tls", "cert">>, value |-> "c"]
    @@ "names.0=n"  :> [path |-> <<"names", "0">>, value |-> "n"]
    @@ "names.x=n"  :> [path |-> <<"names", "x">>, value |-> "n"]
    @@ "names="     :> [path |-> <<"names">>, value |-> ""]
    @@ "cpu=3"      :> [path |-> <<"limits", "cpu">>, value |-> "3"]
    @@ "backup=b1"  :> [path |-> <<"backup_id">>, value |-> "b1"]
    @@ "port="      :> [path |-> <<"port">>, value |-> ""]
    @@ "nosuch=1"   :> [path |-> <<"nosuch">>, value |-> "4"]

Section(tests) == <<[enable |-> TRUE, tests |-> tests]>>

NoOptions == [prediag |-> <<>>, postdiag |-> <<>>, autostart |-> <<>>, force |-> <<>>]

GoodFile ==
    [stdin |-> FALSE, is_object |-> TRUE, service |-> TRUE, action |-> "deploy", version |-> <<1>>,
     parameters |-> <<Obj("pw" :> Str("secret") @@ "mode" :> Plain @@ "port" :> Num(5) @@ "admin" :> Num(6))>>,
     options |-> <<>>]

MCPlayFiles ==
    "plain"    :> GoodFile
    @@ "nopw"  :> [GoodFile EXCEPT !.stdin = TRUE, !.version = <<>>,
                     !.parameters = <<Obj("mode" :> Plain @@ "port" :> Num(5) @@ "admin" :> Num(6))>>]
    @@ "noport" :> [GoodFile EXCEPT !.parameters = <<Obj("pw" :> Str("secret") @@ "mode" :> Plain)>>,
                     !.options = <<[NoOptions EXCEPT !.prediag = Section(<<>>)]>>]
    @@ "pre"   :> [GoodFile EXCEPT !.options =
                     <<[NoOptions EXCEPT !.prediag = Section(<<>>), !.autostart = <<TRUE>>]>>]
    @@ "pre t2" :> [GoodFile EXCEPT !.options =
                     <<[NoOptions EXCEPT !.prediag = Section(<<"d1" :> {"t2", "nosuch"}>>)]>>]
    @@ "post"  :> [GoodFile EXCEPT !.options =
                     <<[NoOptions EXCEPT !.postdiag = Section(<<"d2" :> {"t3"}>>), !.autostart = <<FALSE>>]>>]
    @@ "force" :> [GoodFile EXCEPT !.options =
                     <<[NoOptions EXCEPT !.prediag = Section(<<>>), !.force = <<TRUE>>]>>]
    @@ "off"   :> [GoodFile EXCEPT !.options =
                     <<[NoOptions EXCEPT !.prediag = <<[enable |-> FALSE, tests |-> <<>>]>>]>>]
    @@ "configure" :> [GoodFile EXCEPT !.action = "configure",
                     !.parameters = <<Obj("mode" :> Obj("tls" :> Obj("cert" :> Str("c"))))>>,
                     !.options = <<[NoOptions EXCEPT !.postdiag = Section(<<>>)]>>]
    @@ "bad enum" :> [GoodFile EXCEPT !.parameters =
                     <<Obj("pw" :> Str("secret") @@ "mode" :> Obj("none" :> EmptyObject) @@ "port" :> Num(5) @@ "admin" :> Num(6))>>]
    @@ "null"  :> [GoodFile EXCEPT !.parameters =
                     <<Obj("pw" :> Str("secret") @@ "mode" :> Plain @@ "port" :> Arr(<<Null>>))>>]
    @@ "bad action" :> [GoodFile EXCEPT !.action = "diagnose"]
    @@ "new"   :> [GoodFile EXCEPT !.version = <<2>>]
    @@ "array" :> [GoodFile EXCEPT !.is_object = FALSE]

Cmd(sub, words, opts) == Argv("services", sub, <<"s">> \o words, opts)

DeployCommands ==
    {Cmd("deploy", <<"admin=6">> \o w, o) : w \in {<<>>, <<"admin=3">>, <<"port=4", "pw=secret">>, <<"port=99">>, <<"mode=tls", "cert=c">>,
                                   <<"mode=tls">>, <<"mode=none">>, <<"names.0=n", "cpu=3">>, <<"names.x=n">>,
                                   <<"nosuch=1">>, <<"word">>},
                           o \in {{"-y"}}}
      \cup {Cmd("deploy", <<"admin=6">>, o) : o \in {{}, {"-f", "-s"}, {"-s", "-y"}, {"not a tty"}}}
      \cup {Cmd("deploy", <<>>, o) : o \in {{"-y"}, {"--no-default"}, {"-h"}}}

OtherRequests ==
    {Cmd("configure", w, {"-y"}) : w \in {<<>>, <<"port=4">>, <<"port=">>, <<"names=">>, <<"mode=tls", "cert=c">>}}
      \cup {Cmd("undeploy", <<>>, o) : o \in {{}, {"-h"}}}
      \cup {Cmd("backup", <<>>, {"-y"}), Cmd("restore", <<"backup=b1">>, {"-y"}), Cmd("restore", <<>>, {"-y"})}
      \cup {Cmd(s, <<>>, {}) : s \in {"start", "stop"}}

ReadCommands ==
    {Cmd(s, <<>>, {}) : s \in {"info", "resources", "status"}}
      \cup {Argv("services", s, <<>>, o) : s \in {"", "list"}, o \in {{}, {"-E"}, {"-n", "-p"}, {"-h"}}}
      \cup {Argv("services", s, <<>>, {}) : s \in {"play", "nosuch"}}
      \cup {Argv("services", "list", <<"s">>, {}), Cmd("status", <<>>, {"-E"}), Cmd("start", <<>>, {"-h"})}

DiagnoseCommands ==
    {Cmd("diagnose", w, {"-y"}) : w \in {<<>>, <<"d1">>, <<"d1", "t2">>, <<"d1", "t2", "d2">>, <<"t2">>,
                                          <<"d2", "d2">>, <<"d1", "port=4">>, <<"port=4", "d1">>}}
      \cup {Cmd("diagnose", <<>>, o) : o \in {{"-a", "-y"}, {"-h"}, {"-a", "-n"}}}

PlayCommands ==
    {Argv("services", "play", <<w>>, {"-y"}) : w \in DOMAIN MCPlayFiles}
      \cup {Argv("services", "play", <<w>>, {}) : w \in {"pre", "pre t2", "post"}}

AllTestsCommands == {Cmd("diagnose", <<>>, {"-a", "-y"})}

MCCommands == DeployCommands \cup OtherRequests \cup ReadCommands \cup DiagnoseCommands \cup PlayCommands

=============================================================================
