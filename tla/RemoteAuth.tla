------------------------------ MODULE RemoteAuth ------------------------------
(***************************************************************************)
(* An established connection to a remote machine: method calls that are    *)
(* forwarded to it, and the authentication dialogue they lead to.  Polkit  *)
(* of the remote machine asks remote-polkit-agent; the agent writes JSON   *)
(* lines to the local service and waits for lines on its standard input;   *)
(* remote.c reads them in the loop of the connection's thread, asks the    *)
(* user through the password agent, and writes its answers.                *)
(*                                                                         *)
(* The agent serves polkit in one thread, and while it waits for a line in *)
(* getc() nothing else is served.  An authentication is named by the call  *)
(* it is for.  Texts are reduced to what the code tells apart: whether a   *)
(* user's name has a comma, and whether a text has bytes outside ASCII.    *)
(***************************************************************************)
EXTENDS Naturals, Sequences, FiniteSets

CONSTANTS
  Calls,       \* method calls of local clients
  ObjectOf,    \* call -> the node of the remote object, Root for the manager's own
  Root,        \* ROOT_NODE
  UserLists,   \* the lists of users polkit may offer
  Strangers,   \* answers of the password agent that are on no list
  Passwords,   \* what the user may type
  Right,       \* the password that polkit takes
  Commas,      \* names with a comma, as the full name of a passwd entry has
  Wide,        \* names and passwords with characters outside ASCII
  MaxTalk      \* bound: requests and messages of PAM in one authentication

ASSUME AuthAssumption ==
  /\ MaxTalk \in Nat
  /\ Right \in Passwords \ Wide
  /\ "" \notin UNION {{l[i] : i \in DOMAIN l} : l \in UserLists}

VARIABLES
  nodes,      \* nodes_info: the objects whose introspection was received
  call,       \* forwarded calls, as their client sees them
  remote,     \* the same calls on the remote machine
  queue,      \* authentications polkit has asked the agent for
  at,         \* where the agent's thread is
  current,    \* the authentication it is about, a sequence of length at most one
  offered,    \* its list of users
  asked,      \* what PAM has asked for: "password" or "other"
  given,      \* the response PAM got, a sequence of length at most one
  talk,       \* requests and messages of PAM so far
  link,       \* the ssh process that carries the agent runs
  toAgent,    \* lines on their way to the agent: [auth, text, whole]
  toService,  \* lines on their way to the service: [auth, kind, users]
  local,      \* what the connection's thread does: "read", "ask", "answer", "show", "done"
  line,       \* the line it handles, a sequence of length at most one
  password,   \* handlers_data->password, with its authentication: length at most one
  typed,      \* ghost: what the user typed for each call, length at most one
  spent       \* ghost: authentications in which a message or a request of PAM came
              \* before the request that is answered

callVars == <<nodes, call, remote>>
agentVars == <<queue, at, current, offered, asked, given, talk>>
serviceVars == <<local, line, password, typed>>
vars == <<callVars, agentVars, link, toAgent, toService, serviceVars, spent>>

Null == <<>>

\* receive_introspections(): the root's introspection must arrive, that of any
\* other object may fail, and each may turn out not to be XML.
receive_introspections == SUBSET {ObjectOf[c] : c \in Calls}

Init ==
  /\ nodes \in receive_introspections
  /\ call = [c \in Calls |-> "new"]
  /\ remote = [c \in Calls |-> "none"]
  /\ queue = <<>>
  /\ at = "idle"
  /\ current = Null
  /\ offered = <<>>
  /\ asked = "none"
  /\ given = Null
  /\ talk = 0
  /\ link = TRUE
  /\ toAgent = <<>>
  /\ toService = <<>>
  /\ local = "read"
  /\ line = Null
  /\ password = Null
  /\ typed = [c \in Calls |-> Null]
  /\ spent = {}

-----------------------------------------------------------------------------
(* Forwarded calls: the main thread of the service.                        *)

\* subtree_enumerate(): the root is not given out, it needs no node.
subtrees_info_table_get_node_names == nodes \ {Root}

\* GDBus asks for the nodes, then for the interfaces of the one that is meant.
IsKnown(object) ==
  object \in subtrees_info_table_get_node_names \cup (nodes \cap {Root})

\* The call goes to the remote bus, where polkit lets it pass, refuses it, or
\* asks the agent.
remote_handle_method_call(c) ==
  /\ call[c] = "new" /\ local # "done"
  /\ IF IsKnown(ObjectOf[c])
     THEN /\ call' = [call EXCEPT ![c] = "sent"]
          /\ \E r \in {"executed", "denied", "auth"} :
               /\ remote' = [remote EXCEPT ![c] = r]
               /\ queue' = IF r = "auth" THEN Append(queue, c) ELSE queue
     ELSE /\ call' = [call EXCEPT ![c] = "error"]
          /\ UNCHANGED <<remote, queue>>
  /\ UNCHANGED <<nodes, at, current, offered, asked, given, talk>>
  /\ UNCHANGED <<link, toAgent, toService, serviceVars, spent>>

\* The answer of the remote machine, or the timeout of GDBus; the call may be
\* executed after that.
remote_method_call_cb(c) ==
  /\ call[c] = "sent"
  /\ call' = [call EXCEPT ![c] = IF remote[c] = "executed" THEN "value" ELSE "error"]
  /\ UNCHANGED <<nodes, remote, agentVars, link, toAgent, toService, serviceVars, spent>>

-----------------------------------------------------------------------------
(* The agent.  Its thread is "idle" or in a "session", where its loop runs, *)
(* or waits in getc() for the "select"ed user or for the response to a      *)
(* "request"; "stuck" in a lock, or "dead".                                 *)

Msg(kind) == [auth |-> current[1], kind |-> kind, users |-> <<>>]

\* A write on a broken pipe ends the agent.
Say(lines, next) ==
  IF link THEN toService' = toService \o lines /\ at' = next
          ELSE UNCHANGED toService /\ at' = "dead"

Deny(c) == remote' = [remote EXCEPT ![c] = "denied"]

\* A second authentication is refused while a session is active.
polkit_agent_remote_listener_initiate_authentication ==
  /\ queue # <<>>
  /\ queue' = Tail(queue)
  /\ \/ /\ at = "session"
        /\ Deny(Head(queue))
        /\ UNCHANGED <<at, current, offered, toService>>
     \/ /\ at = "idle"
        /\ current' = <<Head(queue)>>
        /\ offered' \in UserLists
        /\ Say(<<[auth |-> Head(queue), kind |-> "list", users |-> offered']>>, "select")
        /\ UNCHANGED remote
  /\ UNCHANGED <<nodes, call, asked, given, talk, link, toAgent, serviceVars, spent>>

\* The line that getc() has read to its end.  There is never more than one in
\* the pipe, since the service writes only in answer to the agent.
LineHasCome == toAgent # <<>> /\ Head(toAgent).whole

\* A user that is on the list starts a session; any other text is invalid and
\* cancels the authentication.
get_selected_identity ==
  /\ at = "select" /\ LineHasCome
  /\ toAgent' = Tail(toAgent)
  /\ asked' = "none" /\ given' = Null /\ talk' = 0
  /\ IF Head(toAgent).text \in {offered[i] : i \in DOMAIN offered}
     THEN at' = "session" /\ UNCHANGED <<current, remote, toService>>
     ELSE /\ Say(<<Msg("invalid response"), Msg("result")>>, "idle")
          /\ Deny(current[1])
          /\ current' = Null
  /\ UNCHANGED <<nodes, call, queue, offered, link, serviceVars, spent>>

\* PAM asks; it is a request for a password if its text begins with "password:".
on_request(what) ==
  /\ at = "session" /\ talk < MaxTalk
  /\ talk' = talk + 1
  /\ asked' = what
  /\ Say(<<Msg(IF what = "password" THEN "request" ELSE "request other")>>, "request")
  /\ spent' = IF asked # "none" THEN spent \cup {current[1]} ELSE spent
  /\ UNCHANGED <<callVars, queue, current, offered, given, link, toAgent, serviceVars>>

\* The rest of on_request(): the response goes to PAM, and a line end is
\* written for no reason.
ReadResponse ==
  /\ at = "request" /\ LineHasCome
  /\ toAgent' = Tail(toAgent)
  /\ given' = <<Head(toAgent).text>>
  /\ Say(<<Msg("blank")>>, "session")
  /\ UNCHANGED <<callVars, queue, current, offered, asked, talk, link, serviceVars, spent>>

\* on_show_info() and on_show_error().
on_show_info ==
  /\ at = "session" /\ talk < MaxTalk
  /\ talk' = talk + 1
  /\ Say(<<Msg("info")>>, "session")
  /\ spent' = IF given = Null THEN spent \cup {current[1]} ELSE spent
  /\ UNCHANGED <<callVars, queue, current, offered, asked, given, link, toAgent, serviceVars>>

\* PAM has decided, or its helper has failed.
on_completed ==
  /\ at = "session"
  /\ Say(<<Msg("result")>>, "idle")
  /\ remote' = [remote EXCEPT ![current[1]] = IF given = <<Right>> THEN "executed" ELSE "denied"]
  /\ current' = Null
  /\ UNCHANGED <<nodes, call, queue, offered, asked, given, talk, link, toAgent, serviceVars, spent>>

\* Polkit takes its request back, since who had asked it is gone.  The session
\* is completed from within the handler, and on_completed() disconnects that
\* very handler: g_cancellable_disconnect() waits for it to return.
on_cancelled ==
  /\ at = "session"
  /\ Say(<<Msg("result"), Msg("result")>>, "stuck")
  /\ Deny(current[1])
  /\ UNCHANGED <<nodes, call, queue, current, offered, asked, given, talk>>
  /\ UNCHANGED <<link, toAgent, serviceVars, spent>>

\* getc() returns EOF before the line has ended: g_error() aborts.
UnexpectedEof ==
  /\ ~ link /\ ~ LineHasCome
  /\ at \in {"select", "request"}
  /\ at' = "dead"
  /\ UNCHANGED <<callVars, queue, current, offered, asked, given, talk>>
  /\ UNCHANGED <<link, toAgent, toService, serviceVars, spent>>

\* Polkit (external) refuses what an agent that died was asked for.
AgentIsGone ==
  /\ at = "dead"
  /\ \E c \in Calls : remote[c] = "auth" /\ Deny(c)
  /\ UNCHANGED <<nodes, call, agentVars, link, toAgent, toService, serviceVars, spent>>

\* The ssh process ends or Disconnect kills it (external): what was on its way
\* to the agent may be lost.
LinkBreaks ==
  /\ link /\ link' = FALSE
  /\ toAgent' \in {toAgent, <<>>}
  /\ UNCHANGED <<callVars, agentVars, toService, serviceVars, spent>>

-----------------------------------------------------------------------------
(* The service: read_pkstdout() in the loop of the connection's thread.     *)

\* As many bytes are written as the text has characters: the end of the line is
\* cut off one that has others than ASCII.  A write on a broken pipe fails.
write_string_to_fd(auth, text) ==
  toAgent' = IF link THEN Append(toAgent, [auth |-> auth, text |-> text,
                                           whole |-> text \notin Wide])
                     ELSE toAgent

\* The list is split at every comma, and a part without both quotes spoils it.
get_json_value_arr_str(users) ==
  IF \E i \in DOMAIN users : users[i] \in Commas THEN <<>> ELSE users

\* A line is taken from the channel, and what follows is chosen by its key.
read_pkstdout ==
  /\ local = "read" /\ toService # <<>>
  /\ toService' = Tail(toService)
  /\ local' = CASE Head(toService).kind = "list" -> "ask"
                [] Head(toService).kind = "request" -> "answer"
                [] Head(toService).kind \in {"result", "info", "invalid response"} -> "show"
                [] OTHER -> "read"
  /\ line' = <<Head(toService)>>
  /\ UNCHANGED <<callVars, agentVars, link, toAgent, password, typed, spent>>

\* SelectUser of the password agent: an answer, or an error or a timeout.
select_user_ask_pass(users) ==
  {Null} \cup
  IF users = <<>> THEN {}
  ELSE {<<[user |-> u, pass |-> p]>> :
          u \in {users[i] : i \in DOMAIN users} \cup Strangers, p \in Passwords}

\* Mutant: nothing is written when the user could not be asked.
ListUsersSilent ==
  /\ local = "ask"
  /\ \E answer \in select_user_ask_pass(get_json_value_arr_str(line[1].users)) :
       IF answer = Null
       THEN password' = Null /\ UNCHANGED <<typed, toAgent>>
       ELSE /\ password' = <<[auth |-> line[1].auth, text |-> answer[1].pass]>>
            /\ typed' = [typed EXCEPT ![line[1].auth] = <<answer[1].pass>>]
            /\ write_string_to_fd(line[1].auth, answer[1].user)
  /\ local' = "read"
  /\ UNCHANGED <<callVars, agentVars, link, toService, line, spent>>

\* The user and the password come together; the password is kept until it is
\* asked for.
processing_json_list_users ==
  /\ local = "ask"
  /\ \E answer \in select_user_ask_pass(get_json_value_arr_str(line[1].users)) :
       IF answer = Null
       THEN /\ password' = Null
            /\ write_string_to_fd(line[1].auth, "")
            /\ UNCHANGED typed
       ELSE /\ password' = <<[auth |-> line[1].auth, text |-> answer[1].pass]>>
            /\ typed' = [typed EXCEPT ![line[1].auth] = <<answer[1].pass>>]
            /\ write_string_to_fd(line[1].auth, answer[1].user)
  /\ local' = "read"
  /\ UNCHANGED <<callVars, agentVars, link, toService, line, spent>>

\* Mutant: the password is forgotten before it is written.
RequestAnsweredEmpty ==
  /\ local = "answer"
  /\ write_string_to_fd(line[1].auth, "")
  /\ password' = Null
  /\ local' = "read"
  /\ UNCHANGED <<callVars, agentVars, link, toService, line, typed, spent>>

\* A request for anything but a password is not answered (see read_pkstdout).
processing_json_request_pass_or_other ==
  /\ local = "answer"
  /\ write_string_to_fd(line[1].auth, IF password = Null THEN "" ELSE password[1].text)
  /\ password' = Null
  /\ local' = "read"
  /\ UNCHANGED <<callVars, agentVars, link, toService, line, typed, spent>>

\* Mutant: the password is kept.
ResultKeepingPassword ==
  /\ local = "show"
  /\ local' = "read"
  /\ UNCHANGED <<callVars, agentVars, link, toAgent, toService, line, password, typed, spent>>

\* ShowResult of the password agent, whether it succeeds or not; then the
\* password is forgotten, also if the line was but a message of PAM.
processing_json_result ==
  /\ local = "show"
  /\ local' = "read"
  /\ password' = Null
  /\ UNCHANGED <<callVars, agentVars, link, toAgent, toService, line, typed, spent>>

\* End of file: the loop is quit and handlers_data are freed (see Remote).
ReadEof ==
  /\ local = "read" /\ toService = <<>> /\ ~ link
  /\ local' = "done"
  /\ password' = Null
  /\ UNCHANGED <<callVars, agentVars, link, toAgent, toService, line, typed, spent>>

-----------------------------------------------------------------------------
ServiceStep ==
  \/ read_pkstdout \/ processing_json_list_users \/ processing_json_request_pass_or_other
  \/ processing_json_result \/ ReadEof

AgentStep ==
  \/ polkit_agent_remote_listener_initiate_authentication \/ get_selected_identity
  \/ ReadResponse \/ UnexpectedEof

Pam == on_request("password") \/ on_request("other") \/ on_show_info \/ on_completed

Next ==
  \/ \E c \in Calls : remote_handle_method_call(c) \/ remote_method_call_cb(c)
  \/ ServiceStep \/ AgentStep \/ Pam
  \/ on_cancelled \/ AgentIsGone \/ LinkBreaks

\* The two threads run, the calls of the password agent return or time out,
\* and PAM comes to a decision.
Spec ==
  /\ Init /\ [][Next]_vars
  /\ WF_vars(ServiceStep) /\ WF_vars(AgentStep) /\ WF_vars(Pam) /\ WF_vars(AgentIsGone)

-----------------------------------------------------------------------------
(* Properties.                                                             *)

\* What PAM gets is what the user typed for this very authentication, and
\* nothing only after an earlier request, or a message, which makes
\* processing_json_result forget the password: never the password of another
\* authentication, and never none by accident.
PasswordArrives ==
  at = "session" /\ given # Null =>
    \/ given = typed[current[1]]
    \/ given = <<"">> /\ current[1] \in spent

\* The service keeps a password only as long as the authentication it was
\* typed for is under way, or a line of it has still to be read: whatever way
\* the authentication ends, by a result, a refusal, a cancellation or a crash.
PasswordForgotten ==
  password # Null =>
    \/ current = <<password[1].auth>> /\ at \notin {"idle", "stuck"}
    \/ \E i \in DOMAIN toService : toService[i].auth = password[1].auth
    \/ local = "show" /\ line[1].auth = password[1].auth
    \/ ~ link /\ local # "done"

\* The agent and the service wait for each other: for the end of a line that
\* was cut off, for the answer to a request that is not about a password, or
\* the agent for itself.
WaitForEachOther ==
  \/ at = "stuck"
  \/ at = "request" /\ asked = "other"
  \/ toAgent # <<>> /\ ~ Head(toAgent).whole

\* But for these cases every authentication ends, and with it the call that
\* waits for it on the remote machine, also when users cannot be asked, lists
\* cannot be read or the connection breaks.
AuthenticationEnds ==
  \A c \in Calls : remote[c] = "auth" ~> (remote[c] # "auth" \/ WaitForEachOther)
=============================================================================
