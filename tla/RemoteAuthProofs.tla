--------------------------- MODULE RemoteAuthProofs ---------------------------
(***************************************************************************)
(* What PAM is given is what the user typed for this authentication, and   *)
(* the service forgets a password: proved for any calls, lists of users    *)
(* and passwords, and for any number of messages of PAM.                   *)
(*                                                                         *)
(* Both rest on the discipline of the two pipes.  The agent asks a         *)
(* question, for a user or for a response, and then reads: until the       *)
(* answer comes it writes nothing.  So a question is the last line of its  *)
(* pipe, and at most one line is on its way back.  The messages that make  *)
(* the service forget a password are read in the order in which they were  *)
(* written, before the list of the next authentication is.                 *)
(***************************************************************************)
EXTENDS RemoteAuth, TLAPS

Forgetful == {"result", "info", "invalid response"}
Questions == {"list", "request"}
Kinds == Forgetful \cup Questions \cup {"request other", "blank"}
Line == [auth : Calls, kind : Kinds, users : UserLists \cup {<<>>}]

Names(l) == {l[i] : i \in DOMAIN l}
Texts == {""} \cup Strangers \cup Passwords \cup UNION {Names(l) : l \in UserLists \cup {<<>>}}
Reply == [auth : Calls, text : Texts, whole : BOOLEAN]

\* The types of all variables.
TypeOK ==
  /\ nodes \subseteq {ObjectOf[c] : c \in Calls}
  /\ call \in [Calls -> {"new", "sent", "value", "error"}]
  /\ remote \in [Calls -> {"none", "auth", "executed", "denied"}]
  /\ queue \in Seq(Calls)
  /\ at \in {"idle", "select", "session", "request", "stuck", "dead"}
  /\ current = Null \/ \E c \in Calls : current = <<c>>
  /\ offered \in UserLists \cup {<<>>}
  /\ asked \in {"none", "password", "other"}
  /\ given = Null \/ \E t \in Texts : given = <<t>>
  /\ talk \in Nat
  /\ link \in BOOLEAN
  /\ toAgent = <<>> \/ \E l \in Reply : toAgent = <<l>>
  /\ toService \in Seq(Line)
  /\ local \in {"read", "ask", "answer", "show", "done"}
  /\ line = Null \/ \E l \in Line : line = <<l>>
  /\ password = Null \/ \E c \in Calls, t \in Passwords : password = <<[auth |-> c, text |-> t]>>
  /\ typed \in [Calls -> {Null} \cup {<<t>> : t \in Passwords}]
  /\ spent \subseteq Calls

\* The agent has a call while it works on one, and dies only with the link.
AgentHasCall ==
  /\ at \in {"select", "session", "request", "stuck"} => current # Null
  /\ at = "dead" => ~ link
  /\ at = "select" => offered \in UserLists

\* The state of the agent that has asked the question.
AskedIn(kind) == IF kind = "list" THEN "select" ELSE "request"

\* A question is the last line of the pipe: the agent that asked it still
\* waits, or has died of the end of the file.
QuestionIsLast ==
  \A i \in DOMAIN toService : toService[i].kind \in Questions =>
    /\ i = Len(toService)
    /\ toAgent = <<>> /\ local \notin {"ask", "answer"}
    /\ current = <<toService[i].auth>>
    /\ at \in {AskedIn(toService[i].kind), "dead"}

\* While the service works on the answer both pipes are empty.
QuestionIsHandled ==
  /\ local \in {"ask", "answer", "show"} => line # Null
  /\ local \in {"ask", "answer"} =>
       /\ toService = <<>> /\ toAgent = <<>>
       /\ current = <<line[1].auth>>
       /\ at \in {AskedIn(IF local = "ask" THEN "list" ELSE "request"), "dead"}

\* A line to the agent answers its question, and the service then waits.
AnswerIsAwaited ==
  toAgent # <<>> =>
    /\ at \in {"select", "request", "dead"}
    /\ toService = <<>> /\ local \in {"read", "done"}

\* The password that is kept is the one the user typed for the call.
Keeps(c) == password # Null /\ password[1].auth = c /\ typed[c] = <<password[1].text>>

\* No line that makes the service forget the password is under way.
NothingForgets ==
  local # "show" /\ \A i \in DOMAIN toService : toService[i].kind \notin Forgetful

\* From the answer of the user to PAM's first request the password is kept.
PasswordIsKept ==
  /\ asked = "none" => at # "request" /\ (at = "session" => given = Null)
  /\ link /\ at = "select" /\ toAgent # <<>> =>
       toAgent[1].text = "" \/ Keeps(current[1])
  /\ link /\ at \in {"session", "request"} => password = Null \/ Keeps(current[1])
  /\ link /\ current # Null /\ current[1] \notin spent
     /\ \/ at = "session" /\ given = Null
        \/ at = "request" /\ toAgent = <<>>
     => Keeps(current[1]) /\ NothingForgets

\* The response on its way to PAM.
ResponseIsTyped ==
  at = "request" /\ toAgent # <<>> =>
    \/ <<toAgent[1].text>> = typed[current[1]]
    \/ toAgent[1].text = "" /\ current[1] \in spent

\* A password of an authentication that is over waits for a line that makes
\* the service forget it.
WillBeForgotten ==
  /\ local = "done" => ~ link /\ password = Null
  /\ link /\ password # Null =>
       \/ current = <<password[1].auth>> /\ at \in {"select", "session", "request"}
       \/ \E i \in DOMAIN toService :
            toService[i].auth = password[1].auth /\ toService[i].kind \in Forgetful
       \/ local = "show" /\ line[1].auth = password[1].auth

IInv ==
  /\ TypeOK
  /\ AgentHasCall
  /\ QuestionIsLast
  /\ QuestionIsHandled
  /\ AnswerIsAwaited
  /\ PasswordIsKept
  /\ ResponseIsTyped
  /\ WillBeForgotten
  /\ PasswordArrives

-----------------------------------------------------------------------------
(* Sequences.                                                              *)

\* What the agent writes comes after what is there.
LEMMA OneMore ==
  ASSUME NEW S, NEW s \in Seq(S), NEW a \in S
  PROVE  /\ s \o <<a>> \in Seq(S)
         /\ DOMAIN (s \o <<a>>) = 1..(Len(s) + 1)
         /\ DOMAIN s = 1..Len(s) /\ Len(s) \in Nat
         /\ \A i \in 1..Len(s) : (s \o <<a>>)[i] = s[i]
         /\ (s \o <<a>>)[Len(s) + 1] = a
         /\ Len(s \o <<a>>) = Len(s) + 1
OBVIOUS

LEMMA TwoMore ==
  ASSUME NEW S, NEW s \in Seq(S), NEW a \in S, NEW b \in S
  PROVE  /\ s \o <<a, b>> \in Seq(S)
         /\ DOMAIN (s \o <<a, b>>) = 1..(Len(s) + 2)
         /\ DOMAIN s = 1..Len(s) /\ Len(s) \in Nat
         /\ \A i \in 1..Len(s) : (s \o <<a, b>>)[i] = s[i]
         /\ (s \o <<a, b>>)[Len(s) + 1] = a
         /\ (s \o <<a, b>>)[Len(s) + 2] = b
         /\ Len(s \o <<a, b>>) = Len(s) + 2
OBVIOUS

\* What is left when the first line was read.
LEMMA OneLess ==
  ASSUME NEW S, NEW s \in Seq(S), s # <<>>
  PROVE  /\ Head(s) = s[1] /\ Head(s) \in S
         /\ Tail(s) \in Seq(S)
         /\ Len(s) \in Nat \ {0} /\ Len(Tail(s)) = Len(s) - 1
         /\ DOMAIN s = 1..Len(s) /\ DOMAIN Tail(s) = 1..(Len(s) - 1)
         /\ \A i \in 1..(Len(s) - 1) : Tail(s)[i] = s[i + 1]
         /\ Len(s) = 1 => Tail(s) = <<>>
<1>1. /\ Head(s) = s[1] /\ Head(s) \in S
      /\ Tail(s) \in Seq(S)
      /\ Len(s) \in Nat \ {0} /\ Len(Tail(s)) = Len(s) - 1
      /\ DOMAIN s = 1..Len(s) /\ DOMAIN Tail(s) = 1..(Len(s) - 1)
      /\ \A i \in 1..(Len(s) - 1) : Tail(s)[i] = s[i + 1]
  OBVIOUS
<1>2. ASSUME NEW t \in Seq(S), Len(t) = 0 PROVE t = <<>> BY <1>2
<1>3. Len(s) = 1 => Len(Tail(s)) = 0 BY <1>1
<1> QED BY <1>1, <1>2, <1>3

LEMMA FirstOne == ASSUME NEW a PROVE Append(<<>>, a) = <<a>> /\ <<a>> # <<>> /\ <<a>>[1] = a
OBVIOUS

-----------------------------------------------------------------------------
(* The steps.                                                              *)

dialogue == <<at, current, offered, asked, given, link, toAgent, toService, serviceVars, spent>>

\* Calls come and go without touching the dialogue.
LEMMA DialogueKept ==
  IInv /\ UNCHANGED dialogue /\ TypeOK' => IInv'
<1> SUFFICES ASSUME IInv, UNCHANGED dialogue, TypeOK' PROVE IInv' OBVIOUS
<1> USE DEF dialogue, serviceVars
<1>1. AgentHasCall' BY DEF IInv, AgentHasCall
<1>2. QuestionIsLast' BY DEF IInv, QuestionIsLast
<1>3. QuestionIsHandled' BY DEF IInv, QuestionIsHandled
<1>4. AnswerIsAwaited' BY DEF IInv, AnswerIsAwaited
<1>5. PasswordIsKept' BY DEF IInv, PasswordIsKept, Keeps, NothingForgets
<1>6. ResponseIsTyped' BY DEF IInv, ResponseIsTyped
<1>7. WillBeForgotten' BY DEF IInv, WillBeForgotten
<1>8. PasswordArrives' BY DEF IInv, PasswordArrives
<1> QED BY <1>1, <1>2, <1>3, <1>4, <1>5, <1>6, <1>7, <1>8 DEF IInv

LEMMA CallStep ==
  ASSUME IInv, NEW c \in Calls, remote_handle_method_call(c) \/ remote_method_call_cb(c)
  PROVE  IInv'
<1>1. UNCHANGED dialogue
  BY DEF remote_handle_method_call, remote_method_call_cb, dialogue, agentVars, serviceVars
<1>2. TypeOK'
  <2>1. queue' \in Seq(Calls)
    <3>1. queue \in Seq(Calls) BY DEF IInv, TypeOK
    <3>2. Append(queue, c) \in Seq(Calls) BY <3>1
    <3>3. queue' = queue \/ queue' = Append(queue, c)
      BY DEF remote_handle_method_call, remote_method_call_cb, agentVars
    <3> QED BY <3>1, <3>2, <3>3
  <2>2. /\ call' \in [Calls -> {"new", "sent", "value", "error"}]
        /\ remote' \in [Calls -> {"none", "auth", "executed", "denied"}]
        /\ nodes' = nodes /\ talk' = talk
    BY DEF remote_handle_method_call, remote_method_call_cb, IInv, TypeOK, agentVars
  <2> QED BY <1>1, <2>1, <2>2 DEF dialogue, serviceVars, IInv, TypeOK
<1> QED BY <1>1, <1>2, DialogueKept

LEMMA GoneStep == ASSUME IInv, AgentIsGone PROVE IInv'
<1>1. UNCHANGED dialogue BY DEF AgentIsGone, dialogue, agentVars
<1>2. TypeOK' BY <1>1 DEF AgentIsGone, Deny, dialogue, agentVars, serviceVars, IInv, TypeOK
<1> QED BY <1>1, <1>2, DialogueKept

\* What a line of the agent says.
LEMMA MsgIsLine ==
  ASSUME IInv, current # Null, NEW kind \in Kinds
  PROVE  Msg(kind) \in Line /\ Msg(kind).kind = kind /\ current = <<Msg(kind).auth>>
<1>1. PICK c \in Calls : current = <<c>> BY DEF IInv, TypeOK
<1> QED BY <1>1 DEF Msg, Line

LEMMA InitiateStep ==
  ASSUME IInv, polkit_agent_remote_listener_initiate_authentication
  PROVE  IInv'
<1> USE DEF polkit_agent_remote_listener_initiate_authentication
<1>1. queue # <<>> /\ queue \in Seq(Calls) BY DEF IInv, TypeOK
<1>2. Head(queue) \in Calls /\ Tail(queue) \in Seq(Calls) BY <1>1
<1>3. CASE at = "session" /\ Deny(Head(queue))
  <2>1. UNCHANGED dialogue BY <1>3 DEF dialogue, serviceVars
  <2>2. TypeOK' BY <1>2, <1>3, <2>1 DEF Deny, dialogue, serviceVars, IInv, TypeOK
  <2> QED BY <2>1, <2>2, DialogueKept
<1>4. CASE at = "idle"
  <2> DEFINE c == Head(queue)
             l == [auth |-> c, kind |-> "list", users |-> offered']
  <2>1. /\ current' = <<c>> /\ offered' \in UserLists /\ queue' = Tail(queue)
        /\ Say(<<l>>, "select")
        /\ UNCHANGED <<nodes, call, remote, asked, given, talk, link, toAgent, serviceVars, spent>>
    BY <1>4
  <2>2. l \in Line BY <1>2, <2>1 DEF Line, Kinds, Questions
  <2>3. l.kind = "list" /\ l.auth = c OBVIOUS
  <2>4. c \in Calls /\ Tail(queue) \in Seq(Calls) BY <1>2
  <2> HIDE DEF c, l
  <2> USE DEF serviceVars
  <2>5. toAgent = <<>> /\ local \notin {"ask", "answer"}
    BY <1>4 DEF IInv, AnswerIsAwaited, QuestionIsHandled, AskedIn
  <2>6. \A i \in DOMAIN toService : toService[i].kind \notin Questions
    BY <1>4 DEF IInv, QuestionIsLast, AskedIn, Questions
  <2>7. CASE link
    <3>1. toService' = toService \o <<l>> /\ at' = "select" BY <2>1, <2>7 DEF Say
    <3>2. toService \in Seq(Line) BY DEF IInv, TypeOK
    <3>3. TypeOK' BY <2>1, <2>2, <2>4, <3>1, <3>2, OneMore DEF IInv, TypeOK
    <3>4. AgentHasCall' BY <2>1, <3>1 DEF AgentHasCall, Null
    <3>5. QuestionIsLast' BY <2>1, <2>2, <2>3, <2>5, <2>6, <3>1, <3>2, OneMore DEF QuestionIsLast, AskedIn
    <3>6. QuestionIsHandled' BY <2>1, <2>5 DEF IInv, QuestionIsHandled
    <3>7. AnswerIsAwaited' BY <2>1, <2>5 DEF AnswerIsAwaited
    <3>8. PasswordIsKept' BY <2>1, <2>5, <3>1 DEF PasswordIsKept
    <3>9. ResponseIsTyped' BY <3>1 DEF ResponseIsTyped
    <3>10. WillBeForgotten'
      <4>1. \A i \in DOMAIN toService : i \in DOMAIN toService' /\ toService'[i] = toService[i]
        BY <2>2, <3>1, <3>2, OneMore
      <4> QED BY <1>4, <2>1, <4>1 DEF IInv, WillBeForgotten
    <3>11. PasswordArrives' BY <3>1 DEF PasswordArrives
    <3> QED BY <3>3, <3>4, <3>5, <3>6, <3>7, <3>8, <3>9, <3>10, <3>11 DEF IInv
  <2>8. CASE ~ link
    <3>1. toService' = toService /\ at' = "dead" BY <2>1, <2>8 DEF Say
    <3>3. TypeOK' BY <2>1, <2>4, <3>1 DEF IInv, TypeOK
    <3>4. AgentHasCall' BY <2>1, <2>8, <3>1 DEF AgentHasCall, Null
    <3>5. QuestionIsLast' BY <2>6, <3>1 DEF QuestionIsLast
    <3>6. QuestionIsHandled' BY <2>1, <2>5 DEF IInv, QuestionIsHandled
    <3>7. AnswerIsAwaited' BY <2>1, <2>5 DEF AnswerIsAwaited
    <3>8. PasswordIsKept' BY <3>1 DEF PasswordIsKept
    <3>9. ResponseIsTyped' BY <3>1 DEF ResponseIsTyped
    <3>10. WillBeForgotten' BY <2>1, <2>8, <3>1 DEF IInv, WillBeForgotten
    <3>11. PasswordArrives' BY <3>1 DEF PasswordArrives
    <3> QED BY <3>3, <3>4, <3>5, <3>6, <3>7, <3>8, <3>9, <3>10, <3>11 DEF IInv
  <2> QED BY <2>7, <2>8
<1> QED BY <1>3, <1>4

\* The agent dies of a broken pipe in what it wanted to say, or of the end of
\* the file.
LEMMA DeadStep ==
  ASSUME IInv, ~ link, at' = "dead", TypeOK',
         UNCHANGED <<link, toService, local, line, password>>,
         \/ UNCHANGED <<toAgent, current>>
         \/ toAgent' = <<>> /\ (at = "session" \/ toAgent # <<>>)
         \/ toAgent' = toAgent /\ at = "session"
  PROVE  IInv'
<1>4. AgentHasCall' BY DEF AgentHasCall
<1>5. QuestionIsLast' BY DEF IInv, QuestionIsLast, AnswerIsAwaited, AskedIn
<1>6. QuestionIsHandled' BY DEF IInv, QuestionIsHandled, AnswerIsAwaited, AskedIn
<1>7. AnswerIsAwaited' BY DEF IInv, AnswerIsAwaited
<1>8. PasswordIsKept' BY DEF PasswordIsKept
<1>9. ResponseIsTyped' BY DEF ResponseIsTyped
<1>10. WillBeForgotten' BY DEF IInv, WillBeForgotten
<1>11. PasswordArrives' BY DEF PasswordArrives
<1> QED BY <1>4, <1>5, <1>6, <1>7, <1>8, <1>9, <1>10, <1>11 DEF IInv

\* The agent goes on from a session, having said what is no question.
LEMMA SessionSays ==
  ASSUME IInv, link, at = "session", TypeOK',
         UNCHANGED <<link, toAgent, local, line, password, typed>>,
         \/ \E l \in Line : l.kind \notin Questions /\ toService' = toService \o <<l>>
         \/ \E l, m \in Line : l.kind \notin Questions /\ m.kind \notin Questions
                               /\ toService' = toService \o <<l, m>>
  PROVE  /\ QuestionIsLast' /\ QuestionIsHandled' /\ AnswerIsAwaited'
         /\ \A i \in DOMAIN toService : i \in DOMAIN toService' /\ toService'[i] = toService[i]
<1>1. toService \in Seq(Line) BY DEF IInv, TypeOK
<1>2. \A i \in DOMAIN toService : toService[i].kind \notin Questions
  BY DEF IInv, QuestionIsLast, AskedIn, Questions
<1>3. toAgent = <<>> /\ local \notin {"ask", "answer"}
  BY DEF IInv, AnswerIsAwaited, QuestionIsHandled, AskedIn
<1>4. /\ \A i \in DOMAIN toService' : toService'[i].kind \notin Questions
      /\ \A i \in DOMAIN toService : i \in DOMAIN toService' /\ toService'[i] = toService[i]
  <2>1. ASSUME NEW l \in Line, l.kind \notin Questions, toService' = toService \o <<l>>
        PROVE  <1>4
    BY <1>1, <1>2, <2>1, OneMore
  <2>2. ASSUME NEW l \in Line, NEW m \in Line, l.kind \notin Questions, m.kind \notin Questions,
               toService' = toService \o <<l, m>>
        PROVE  <1>4
    BY <1>1, <1>2, <2>2, TwoMore
  <2> QED BY <2>1, <2>2
<1>5. QuestionIsLast' BY <1>4 DEF QuestionIsLast
<1>6. QuestionIsHandled' BY <1>3 DEF IInv, QuestionIsHandled
<1>7. AnswerIsAwaited' BY <1>3 DEF AnswerIsAwaited
<1> QED BY <1>4, <1>5, <1>6, <1>7

LEMMA RequestStep ==
  ASSUME IInv, NEW what \in {"password", "other"}, on_request(what)
  PROVE  IInv'
<1> USE DEF serviceVars, callVars
<1> DEFINE k == IF what = "password" THEN "request" ELSE "request other"
           l == Msg(k)
<1>1. /\ at = "session" /\ talk' = talk + 1 /\ asked' = what
      /\ Say(<<l>>, "request")
      /\ spent' = IF asked # "none" THEN spent \cup {current[1]} ELSE spent
      /\ UNCHANGED <<callVars, queue, current, offered, given, link, toAgent, serviceVars>>
  BY DEF on_request
<1>2. current # Null BY <1>1 DEF IInv, AgentHasCall
<1>3. k \in Kinds BY DEF Kinds, Questions
<1>4. l \in Line /\ l.kind = k /\ current = <<l.auth>> BY <1>2, <1>3, MsgIsLine
<1>5. current[1] \in Calls BY <1>2 DEF IInv, TypeOK
<1>6. k \notin Forgetful BY DEF Forgetful
<1>7. k \in Questions => AskedIn(k) = "request" BY DEF Questions, AskedIn
<1> HIDE DEF k, l
<1>8. toAgent = <<>> /\ local \notin {"ask", "answer"}
  BY <1>1 DEF IInv, AnswerIsAwaited, QuestionIsHandled, AskedIn
<1>9. \A i \in DOMAIN toService : toService[i].kind \notin Questions
  BY <1>1 DEF IInv, QuestionIsLast, AskedIn, Questions
<1>10. CASE link
  <2>1. toService' = toService \o <<l>> /\ at' = "request" BY <1>1, <1>10 DEF Say
  <2>2. toService \in Seq(Line) BY DEF IInv, TypeOK
  <2>3. TypeOK' BY <1>1, <1>4, <1>5, <2>1, <2>2, OneMore DEF IInv, TypeOK
  <2>4. AgentHasCall' BY <1>1, <1>2, <1>10, <2>1 DEF AgentHasCall
  <2>5. QuestionIsLast'
    BY <1>1, <1>4, <1>7, <1>8, <1>9, <2>1, <2>2, OneMore DEF QuestionIsLast
  <2>6. QuestionIsHandled' BY <1>1, <1>8 DEF IInv, QuestionIsHandled
  <2>7. AnswerIsAwaited' BY <1>1, <1>8 DEF AnswerIsAwaited
  <2>8. PasswordIsKept'
    <3>1. NothingForgets => NothingForgets'
      BY <1>1, <1>4, <1>6, <2>1, <2>2, OneMore DEF NothingForgets
    <3>2. \A c : Keeps(c) => Keeps(c)' BY <1>1 DEF Keeps
    <3>3. current[1] \notin spent' => given = Null /\ current[1] \notin spent
      BY <1>1 DEF IInv, PasswordIsKept
    <3> QED BY <1>1, <1>2, <1>10, <2>1, <3>1, <3>2, <3>3 DEF IInv, PasswordIsKept
  <2>9. ResponseIsTyped' BY <1>1, <1>8 DEF ResponseIsTyped
  <2>10. WillBeForgotten' BY <1>1, <1>10, <2>1, <2>2, <1>4, OneMore DEF IInv, WillBeForgotten
  <2>11. PasswordArrives' BY <2>1 DEF PasswordArrives
  <2> QED BY <2>3, <2>4, <2>5, <2>6, <2>7, <2>8, <2>9, <2>10, <2>11 DEF IInv
<1>11. CASE ~ link
  <2>1. toService' = toService /\ at' = "dead" BY <1>1, <1>11 DEF Say
  <2>2. TypeOK' BY <1>1, <1>5, <2>1 DEF IInv, TypeOK
  <2> QED BY <1>1, <1>11, <2>1, <2>2, DeadStep
<1> QED BY <1>10, <1>11

LEMMA InfoStep == ASSUME IInv, on_show_info PROVE IInv'
<1> USE DEF serviceVars, callVars
<1> DEFINE l == Msg("info")
<1>1. /\ at = "session" /\ talk' = talk + 1
      /\ Say(<<l>>, "session")
      /\ spent' = IF given = Null THEN spent \cup {current[1]} ELSE spent
      /\ UNCHANGED <<callVars, queue, current, offered, asked, given, link, toAgent, serviceVars>>
  BY DEF on_show_info
<1>2. current # Null BY <1>1 DEF IInv, AgentHasCall
<1>3. "info" \in Kinds /\ "info" \notin Questions BY DEF Kinds, Questions, Forgetful
<1>4. l \in Line /\ l.kind = "info" BY <1>2, <1>3, MsgIsLine
<1>5. current[1] \in Calls BY <1>2 DEF IInv, TypeOK
<1> HIDE DEF l
<1>6. CASE link
  <2>1. toService' = toService \o <<l>> /\ at' = "session" BY <1>1, <1>6 DEF Say
  <2>2. toService \in Seq(Line) BY DEF IInv, TypeOK
  <2>3. TypeOK' BY <1>1, <1>4, <1>5, <2>1, <2>2, OneMore DEF IInv, TypeOK
  <2>4. AgentHasCall' BY <1>1, <1>2, <1>6, <2>1 DEF AgentHasCall
  <2>5. /\ QuestionIsLast' /\ QuestionIsHandled' /\ AnswerIsAwaited'
        /\ \A i \in DOMAIN toService : i \in DOMAIN toService' /\ toService'[i] = toService[i]
    BY <1>1, <1>3, <1>4, <1>6, <2>1, <2>3, SessionSays
  <2>8. PasswordIsKept'
    BY <1>1, <2>1 DEF IInv, PasswordIsKept, Keeps
  <2>9. ResponseIsTyped' BY <2>1 DEF ResponseIsTyped
  <2>10. WillBeForgotten' BY <1>1, <1>6, <2>1, <2>5 DEF IInv, WillBeForgotten
  <2>11. PasswordArrives' BY <1>1, <2>1 DEF IInv, PasswordArrives
  <2> QED BY <2>3, <2>4, <2>5, <2>8, <2>9, <2>10, <2>11 DEF IInv
<1>7. CASE ~ link
  <2>1. toService' = toService /\ at' = "dead" BY <1>1, <1>7 DEF Say
  <2>2. TypeOK' BY <1>1, <1>5, <2>1 DEF IInv, TypeOK
  <2> QED BY <1>1, <1>7, <2>1, <2>2, DeadStep
<1> QED BY <1>6, <1>7

\* The session is over: the line that says so makes the service forget.
LEMMA CompletedStep == ASSUME IInv, on_completed PROVE IInv'
<1> USE DEF serviceVars
<1> DEFINE l == Msg("result")
<1>1. /\ at = "session" /\ Say(<<l>>, "idle") /\ current' = Null
      /\ remote' = [remote EXCEPT ![current[1]] = IF given = <<Right>> THEN "executed" ELSE "denied"]
      /\ UNCHANGED <<nodes, call, queue, offered, asked, given, talk, link, toAgent, serviceVars, spent>>
  BY DEF on_completed
<1>2. current # Null BY <1>1 DEF IInv, AgentHasCall
<1>3. "result" \in Kinds /\ "result" \notin Questions BY DEF Kinds, Questions, Forgetful
<1>4. l \in Line /\ l.kind = "result" /\ current = <<l.auth>> BY <1>2, <1>3, MsgIsLine
<1>5. remote' \in [Calls -> {"none", "auth", "executed", "denied"}] BY <1>1 DEF IInv, TypeOK
<1> HIDE DEF l
<1>6. CASE link
  <2>1. toService' = toService \o <<l>> /\ at' = "idle" BY <1>1, <1>6 DEF Say
  <2>2. toService \in Seq(Line) BY DEF IInv, TypeOK
  <2>3. TypeOK' BY <1>1, <1>4, <1>5, <2>1, <2>2, OneMore DEF IInv, TypeOK
  <2>4. AgentHasCall' BY <1>1, <2>1 DEF AgentHasCall
  <2>5. /\ QuestionIsLast' /\ QuestionIsHandled' /\ AnswerIsAwaited'
        /\ \A i \in DOMAIN toService : i \in DOMAIN toService' /\ toService'[i] = toService[i]
    BY <1>1, <1>3, <1>4, <1>6, <2>1, <2>3, SessionSays
  <2>8. PasswordIsKept' BY <2>1 DEF PasswordIsKept
  <2>9. ResponseIsTyped' BY <2>1 DEF ResponseIsTyped
  <2>10. WillBeForgotten'
    <3>1. \E i \in DOMAIN toService' : toService'[i] = l
      <4>1. /\ Len(toService) + 1 \in DOMAIN toService'
            /\ toService'[Len(toService) + 1] = l
        BY <1>4, <2>1, <2>2, OneMore
      <4> QED BY ONLY <4>1
    <3>2. "result" \in Forgetful BY DEF Forgetful
    <3>3. password # Null => current = <<password[1].auth>>
      BY <1>1, <1>2, <1>6 DEF IInv, TypeOK, PasswordIsKept, Keeps
    <3> QED BY <1>1, <1>4, <1>6, <3>1, <3>2, <3>3 DEF IInv, WillBeForgotten
  <2>11. PasswordArrives' BY <2>1 DEF PasswordArrives
  <2> QED BY <2>3, <2>4, <2>5, <2>8, <2>9, <2>10, <2>11 DEF IInv
<1>7. CASE ~ link
  <2>1. toService' = toService /\ at' = "dead" BY <1>1, <1>7 DEF Say
  <2>2. TypeOK' BY <1>1, <1>5, <2>1 DEF IInv, TypeOK
  <2> QED BY <1>1, <1>7, <2>1, <2>2, DeadStep
<1> QED BY <1>6, <1>7

LEMMA CancelledStep == ASSUME IInv, on_cancelled PROVE IInv'
<1> USE DEF serviceVars
<1> DEFINE l == Msg("result")
<1>1. /\ at = "session" /\ Say(<<l, l>>, "stuck")
      /\ Deny(current[1])
      /\ UNCHANGED <<nodes, call, queue, current, offered, asked, given, talk>>
      /\ UNCHANGED <<link, toAgent, serviceVars, spent>>
  BY DEF on_cancelled
<1>2. current # Null BY <1>1 DEF IInv, AgentHasCall
<1>3. "result" \in Kinds /\ "result" \notin Questions BY DEF Kinds, Questions, Forgetful
<1>4. l \in Line /\ l.kind = "result" /\ current = <<l.auth>> BY <1>2, <1>3, MsgIsLine
<1>5. remote' \in [Calls -> {"none", "auth", "executed", "denied"}] BY <1>1 DEF Deny, IInv, TypeOK
<1> HIDE DEF l
<1>6. CASE link
  <2>1. toService' = toService \o <<l, l>> /\ at' = "stuck" BY <1>1, <1>6 DEF Say
  <2>2. toService \in Seq(Line) BY DEF IInv, TypeOK
  <2>3. TypeOK' BY <1>1, <1>4, <1>5, <2>1, <2>2, TwoMore DEF IInv, TypeOK
  <2>4. AgentHasCall' BY <1>1, <1>2, <2>1 DEF AgentHasCall
  <2>5. /\ QuestionIsLast' /\ QuestionIsHandled' /\ AnswerIsAwaited'
        /\ \A i \in DOMAIN toService : i \in DOMAIN toService' /\ toService'[i] = toService[i]
    BY <1>1, <1>3, <1>4, <1>6, <2>1, <2>3, SessionSays
  <2>8. PasswordIsKept' BY <2>1 DEF PasswordIsKept
  <2>9. ResponseIsTyped' BY <2>1 DEF ResponseIsTyped
  <2>10. WillBeForgotten'
    <3>1. \E i \in DOMAIN toService' : toService'[i] = l
      <4>1. /\ Len(toService) + 1 \in DOMAIN toService'
            /\ toService'[Len(toService) + 1] = l
        BY <1>4, <2>1, <2>2, TwoMore
      <4> QED BY ONLY <4>1
    <3>2. "result" \in Forgetful BY DEF Forgetful
    <3>3. password # Null => current = <<password[1].auth>>
      BY <1>1, <1>2, <1>6 DEF IInv, TypeOK, PasswordIsKept, Keeps
    <3> QED BY <1>1, <1>4, <1>6, <3>1, <3>2, <3>3 DEF IInv, WillBeForgotten
  <2>11. PasswordArrives' BY <2>1 DEF PasswordArrives
  <2> QED BY <2>3, <2>4, <2>5, <2>8, <2>9, <2>10, <2>11 DEF IInv
<1>7. CASE ~ link
  <2>1. toService' = toService /\ at' = "dead" BY <1>1, <1>7 DEF Say
  <2>2. TypeOK' BY <1>1, <1>5, <2>1 DEF IInv, TypeOK
  <2> QED BY <1>1, <1>7, <2>1, <2>2, DeadStep
<1> QED BY <1>6, <1>7

\* The agent reads the line it waits for: no other is on its way, in either pipe.
LEMMA ReadsTheAnswer ==
  ASSUME IInv, LineHasCome
  PROVE  /\ toAgent # <<>> /\ Head(toAgent) = toAgent[1] /\ Tail(toAgent) = <<>>
         /\ Head(toAgent) \in Reply
         /\ toService = <<>> /\ local \in {"read", "done"}
<1>1. PICK l \in Reply : toAgent = <<l>> BY DEF LineHasCome, IInv, TypeOK
<1>2. Head(toAgent) = l /\ Tail(toAgent) = <<>> BY <1>1
<1> QED BY <1>1, <1>2 DEF IInv, AnswerIsAwaited

LEMMA SelectStep == ASSUME IInv, get_selected_identity PROVE IInv'
<1> USE DEF serviceVars
<1>1. /\ at = "select" /\ LineHasCome
      /\ toAgent' = Tail(toAgent)
      /\ asked' = "none" /\ given' = Null /\ talk' = 0
      /\ UNCHANGED <<nodes, call, queue, offered, link, serviceVars, spent>>
  BY DEF get_selected_identity
<1>2. /\ toAgent # <<>> /\ Head(toAgent) = toAgent[1] /\ toAgent' = <<>>
      /\ toService = <<>> /\ local \in {"read", "done"}
  BY <1>1, ReadsTheAnswer
<1>3. current # Null BY <1>1 DEF IInv, AgentHasCall
<1>4. CASE Head(toAgent).text \in {offered[i] : i \in DOMAIN offered}
  <2>1. at' = "session" /\ UNCHANGED <<current, remote, toService>>
    BY <1>4 DEF get_selected_identity
  <2>2. TypeOK' BY <1>1, <1>2, <2>1 DEF IInv, TypeOK
  <2>3. AgentHasCall' BY <1>3, <2>1 DEF AgentHasCall
  <2>4. QuestionIsLast' BY <1>2, <2>1 DEF QuestionIsLast
  <2>5. QuestionIsHandled' BY <1>1, <1>2 DEF IInv, QuestionIsHandled
  <2>6. AnswerIsAwaited' BY <1>2 DEF AnswerIsAwaited
  <2>7. toAgent[1].text # ""
    BY <1>1, <1>2, <1>4, AuthAssumption DEF IInv, AgentHasCall
  <2>8. PasswordIsKept'
    <3>1. link => Keeps(current[1]) BY <1>1, <1>2, <2>7 DEF IInv, PasswordIsKept
    <3>2. \A c : Keeps(c) => Keeps(c)' BY <1>1 DEF Keeps
    <3>3. NothingForgets' BY <1>1, <1>2, <2>1 DEF NothingForgets
    <3> QED BY <1>1, <2>1, <3>1, <3>2, <3>3 DEF PasswordIsKept
  <2>9. ResponseIsTyped' BY <1>2 DEF ResponseIsTyped
  <2>10. WillBeForgotten' BY <1>1, <1>2, <2>1 DEF IInv, WillBeForgotten
  <2>11. PasswordArrives' BY <1>1 DEF PasswordArrives
  <2> QED BY <2>2, <2>3, <2>4, <2>5, <2>6, <2>8, <2>9, <2>10, <2>11 DEF IInv
<1>5. CASE Head(toAgent).text \notin {offered[i] : i \in DOMAIN offered}
  <2> DEFINE l == Msg("invalid response")
             m == Msg("result")
  <2>1. /\ Say(<<l, m>>, "idle") /\ Deny(current[1]) /\ current' = Null
    BY <1>5 DEF get_selected_identity
  <2>2. {"invalid response", "result"} \subseteq Kinds \cap Forgetful BY DEF Kinds, Forgetful
  <2>3. /\ l \in Line /\ l.kind \in Forgetful /\ current = <<l.auth>>
        /\ m \in Line /\ m.kind \in Forgetful
    BY <1>3, <2>2, MsgIsLine
  <2>4. Forgetful \cap Questions = {} BY DEF Forgetful, Questions
  <2>5. remote' \in [Calls -> {"none", "auth", "executed", "denied"}] BY <2>1 DEF Deny, IInv, TypeOK
  <2> HIDE DEF l, m
  <2>6. CASE link
    <3>1. toService' = toService \o <<l, m>> /\ at' = "idle" BY <2>1, <2>6 DEF Say
    <3>2. toService \in Seq(Line) BY DEF IInv, TypeOK
    <3>3. toService' \in Seq(Line) /\ toService'[1] = l /\ toService'[2] = m
          /\ DOMAIN toService' = 1..2 /\ Len(toService') = 2
      BY <1>2, <2>3, <3>1, <3>2, TwoMore
    <3>4. TypeOK' BY <1>1, <1>2, <2>1, <2>5, <3>1, <3>3 DEF IInv, TypeOK
    <3>5. AgentHasCall' BY <3>1 DEF AgentHasCall
    <3>6. QuestionIsLast' BY <2>3, <2>4, <3>3 DEF QuestionIsLast
    <3>7. QuestionIsHandled' BY <1>1, <1>2 DEF IInv, QuestionIsHandled
    <3>8. AnswerIsAwaited' BY <1>2 DEF AnswerIsAwaited
    <3>9. PasswordIsKept' BY <3>1 DEF PasswordIsKept
    <3>10. ResponseIsTyped' BY <3>1 DEF ResponseIsTyped
    <3>11. WillBeForgotten'
      <4>1. password # Null => current = <<password[1].auth>>
        BY <1>1, <1>2, <1>3, <2>6 DEF IInv, TypeOK, WillBeForgotten
      <4> QED BY <1>1, <2>3, <2>6, <3>3, <4>1 DEF IInv, WillBeForgotten
    <3>12. PasswordArrives' BY <3>1 DEF PasswordArrives
    <3> QED BY <3>4, <3>5, <3>6, <3>7, <3>8, <3>9, <3>10, <3>11, <3>12 DEF IInv
  <2>7. CASE ~ link
    <3>1. toService' = toService /\ at' = "dead" BY <2>1, <2>7 DEF Say
    <3>2. TypeOK' BY <1>1, <1>2, <2>1, <2>5, <3>1 DEF IInv, TypeOK
    <3> QED BY <1>1, <1>2, <2>7, <3>1, <3>2, DeadStep
  <2> QED BY <2>6, <2>7
<1> QED BY <1>4, <1>5

LEMMA ResponseStep == ASSUME IInv, ReadResponse PROVE IInv'
<1> USE DEF serviceVars, callVars
<1> DEFINE l == Msg("blank")
<1>1. /\ at = "request" /\ LineHasCome
      /\ toAgent' = Tail(toAgent)
      /\ given' = <<Head(toAgent).text>>
      /\ Say(<<l>>, "session")
      /\ UNCHANGED <<callVars, queue, current, offered, asked, talk, link, serviceVars, spent>>
  BY DEF ReadResponse
<1>2. /\ toAgent # <<>> /\ Head(toAgent) = toAgent[1] /\ toAgent' = <<>>
      /\ Head(toAgent) \in Reply
      /\ toService = <<>> /\ local \in {"read", "done"}
  BY <1>1, ReadsTheAnswer
<1>3. current # Null BY <1>1 DEF IInv, AgentHasCall
<1>4. "blank" \in Kinds /\ "blank" \notin Questions BY DEF Kinds, Questions
<1>5. l \in Line /\ l.kind = "blank" BY <1>3, <1>4, MsgIsLine
<1>6. given' # Null /\ \E t \in Texts : given' = <<t>> BY <1>1, <1>2 DEF Reply, Null
<1> HIDE DEF l
<1>7. CASE link
  <2>1. toService' = toService \o <<l>> /\ at' = "session" BY <1>1, <1>7 DEF Say
  <2>2. toService \in Seq(Line) BY DEF IInv, TypeOK
  <2>3. /\ toService' \in Seq(Line) /\ toService'[1] = l
        /\ DOMAIN toService' = 1..1 /\ Len(toService') = 1
    BY <1>2, <1>5, <2>1, <2>2, OneMore
  <2>4. TypeOK' BY <1>1, <1>2, <1>6, <2>1, <2>3 DEF IInv, TypeOK
  <2>5. AgentHasCall' BY <1>1, <1>3, <2>1 DEF AgentHasCall
  <2>6. QuestionIsLast' BY <1>4, <1>5, <2>3 DEF QuestionIsLast
  <2>7. QuestionIsHandled' BY <1>1, <1>2 DEF IInv, QuestionIsHandled
  <2>8. AnswerIsAwaited' BY <1>2 DEF AnswerIsAwaited
  <2>9. PasswordIsKept' BY <1>1, <1>6, <2>1 DEF IInv, PasswordIsKept, Keeps
  <2>10. ResponseIsTyped' BY <2>1 DEF ResponseIsTyped
  <2>11. WillBeForgotten' BY <1>1, <1>2, <2>1 DEF IInv, WillBeForgotten
  <2>12. PasswordArrives' BY <1>1, <1>2 DEF IInv, ResponseIsTyped, PasswordArrives
  <2> QED BY <2>4, <2>5, <2>6, <2>7, <2>8, <2>9, <2>10, <2>11, <2>12 DEF IInv
<1>8. CASE ~ link
  <2>1. toService' = toService /\ at' = "dead" BY <1>1, <1>8 DEF Say
  <2>2. TypeOK' BY <1>1, <1>2, <1>6, <2>1 DEF IInv, TypeOK
  <2> QED BY <1>1, <1>2, <1>8, <2>1, <2>2, DeadStep
<1> QED BY <1>7, <1>8

LEMMA EofStep == ASSUME IInv, UnexpectedEof PROVE IInv'
<1>1. TypeOK' BY DEF UnexpectedEof, callVars, serviceVars, IInv, TypeOK
<1> QED BY <1>1, DeadStep DEF UnexpectedEof, serviceVars

LEMMA BreakStep == ASSUME IInv, LinkBreaks PROVE IInv'
<1> USE DEF LinkBreaks, callVars, agentVars, serviceVars
<1>1. TypeOK'
  <2>1. toAgent' = <<>> \/ \E l \in Reply : toAgent' = <<l>> BY DEF IInv, TypeOK
  <2>2. link' \in BOOLEAN OBVIOUS
  <2> QED BY <2>1, <2>2 DEF IInv, TypeOK
<1>2. AgentHasCall' BY DEF IInv, AgentHasCall
<1>3. QuestionIsLast' BY DEF IInv, QuestionIsLast
<1>4. QuestionIsHandled' BY DEF IInv, QuestionIsHandled
<1>5. AnswerIsAwaited' BY DEF IInv, AnswerIsAwaited
<1>6. PasswordIsKept' BY DEF IInv, PasswordIsKept
<1>7. ResponseIsTyped' BY DEF IInv, ResponseIsTyped
<1>8. WillBeForgotten' BY DEF IInv, WillBeForgotten
<1>9. PasswordArrives' BY DEF IInv, PasswordArrives
<1> QED BY <1>1, <1>2, <1>3, <1>4, <1>5, <1>6, <1>7, <1>8, <1>9 DEF IInv

LEMMA ReadStep == ASSUME IInv, read_pkstdout PROVE IInv'
<1> USE DEF callVars, agentVars
<1> DEFINE l == Head(toService)
<1>1. /\ local = "read" /\ toService # <<>>
      /\ toService' = Tail(toService)
      /\ line' = <<l>>
      /\ UNCHANGED <<callVars, agentVars, link, toAgent, password, typed, spent>>
  BY DEF read_pkstdout
<1>2. toService \in Seq(Line) BY DEF IInv, TypeOK
<1>3. /\ l = toService[1] /\ l \in Line
      /\ Tail(toService) \in Seq(Line)
      /\ Len(toService) \in Nat \ {0} /\ Len(Tail(toService)) = Len(toService) - 1
      /\ DOMAIN toService = 1..Len(toService)
      /\ DOMAIN Tail(toService) = 1..(Len(toService) - 1)
      /\ \A i \in 1..(Len(toService) - 1) : Tail(toService)[i] = toService[i + 1]
      /\ Len(toService) = 1 => Tail(toService) = <<>>
  BY <1>1, <1>2, OneLess
<1>4. /\ l.kind = "list" => local' = "ask"
      /\ l.kind = "request" => local' = "answer"
      /\ l.kind \in Forgetful => local' = "show"
      /\ l.kind \notin Questions \cup Forgetful => local' = "read"
  BY DEF read_pkstdout, Forgetful, Questions
<1>5. /\ local' = "ask" => l.kind = "list"
      /\ local' = "answer" => l.kind = "request"
      /\ local' = "show" <=> l.kind \in Forgetful
      /\ local' \in {"read", "ask", "answer", "show"}
  BY <1>4 DEF Questions, Forgetful
<1> HIDE DEF l
<1>6. TypeOK' BY <1>1, <1>3, <1>5 DEF IInv, TypeOK
<1>7. AgentHasCall' BY <1>1 DEF IInv, AgentHasCall
<1>8. QuestionIsLast'
  <2>1. ASSUME NEW i \in DOMAIN toService', toService'[i].kind \in Questions
        PROVE  /\ i = Len(toService') /\ toAgent = <<>> /\ local' \notin {"ask", "answer"}
               /\ current = <<toService'[i].auth>> /\ at \in {AskedIn(toService'[i].kind), "dead"}
    <3>1. i + 1 \in DOMAIN toService /\ toService'[i] = toService[i + 1] BY <1>1, <1>3
    <3>2. i + 1 = Len(toService) BY <2>1, <3>1 DEF IInv, QuestionIsLast
    <3>3. l.kind \notin Questions BY <1>1, <1>3, <3>1, <3>2 DEF IInv, QuestionIsLast
    <3> QED BY <1>1, <1>3, <1>5, <2>1, <3>1, <3>2, <3>3 DEF IInv, QuestionIsLast, Questions
  <2> QED BY <1>1, <2>1 DEF QuestionIsLast
<1>9. QuestionIsHandled'
  <2>1. local' \in {"ask", "answer"} => l.kind \in Questions BY <1>5 DEF Questions
  <2>2. l.kind \in Questions => /\ Len(toService) = 1 /\ toAgent = <<>> /\ current = <<l.auth>>
                                /\ at \in {AskedIn(l.kind), "dead"}
    BY <1>3 DEF IInv, QuestionIsLast
  <2>3. line' # Null /\ line'[1] = l BY <1>1 DEF Null
  <2> QED BY <1>1, <1>3, <1>5, <2>1, <2>2, <2>3 DEF QuestionIsHandled
<1>10. AnswerIsAwaited' BY <1>1 DEF IInv, AnswerIsAwaited
<1>11. PasswordIsKept'
  <2>1. \A c : Keeps(c) => Keeps(c)' BY <1>1 DEF Keeps
  <2>2. NothingForgets => NothingForgets' BY <1>1, <1>3, <1>5 DEF NothingForgets
  <2> QED BY <1>1, <2>1, <2>2 DEF IInv, PasswordIsKept
<1>12. ResponseIsTyped' BY <1>1 DEF IInv, ResponseIsTyped
<1>13. WillBeForgotten'
  <2>1. ASSUME NEW i \in DOMAIN toService, toService[i].kind \in Forgetful
        PROVE  \/ local' = "show" /\ line'[1].auth = toService[i].auth
               \/ \E j \in DOMAIN toService' : toService'[j] = toService[i]
    <3>1. CASE i = 1 BY <1>1, <1>3, <1>5, <2>1, <3>1
    <3>2. CASE i # 1
      <4>1. i - 1 \in DOMAIN toService' /\ toService'[i - 1] = toService[i] BY <1>1, <1>3, <3>2
      <4> QED BY <4>1
    <3> QED BY <3>1, <3>2
  <2> QED BY <1>1, <1>5, <2>1 DEF IInv, WillBeForgotten
<1>14. PasswordArrives' BY <1>1 DEF IInv, PasswordArrives
<1> QED BY <1>6, <1>7, <1>8, <1>9, <1>10, <1>11, <1>12, <1>13, <1>14 DEF IInv

\* What the password agent may answer for a list of the agent.
LEMMA AnswerOfUser ==
  ASSUME NEW l \in Line,
         NEW answer \in select_user_ask_pass(get_json_value_arr_str(l.users)), answer # Null
  PROVE  answer[1].pass \in Passwords /\ answer[1].user \in Texts
<1> DEFINE us == get_json_value_arr_str(l.users)
<1>1. us \in UserLists \cup {<<>>} BY DEF Line, get_json_value_arr_str
<1>2. PICK u \in {us[i] : i \in DOMAIN us} \cup Strangers, p \in Passwords :
        answer = <<[user |-> u, pass |-> p]>>
  BY DEF select_user_ask_pass
<1>3. u \in Texts
  <2>1. CASE u \in Strangers BY <2>1 DEF Texts
  <2>2. CASE u \in Names(us)
    <3>1. u \in UNION {Names(n) : n \in UserLists \cup {<<>>}} BY <1>1, <2>2
    <3> QED BY <3>1 DEF Texts
  <2> QED BY <2>1, <2>2 DEF Names
<1> QED BY <1>2, <1>3

\* The agent that has asked still waits, and reads the answer if it gets one.
LEMMA ListStep == ASSUME IInv, processing_json_list_users PROVE IInv'
<1> USE DEF callVars, agentVars
<1>1. local = "ask" /\ local' = "read"
      /\ UNCHANGED <<callVars, agentVars, link, toService, line, spent>>
  BY DEF processing_json_list_users
<1>2. PICK l \in Line : line = <<l>> BY <1>1 DEF IInv, TypeOK, QuestionIsHandled
<1>3. /\ line[1] = l /\ l.auth \in Calls /\ current = <<l.auth>> /\ current # Null
      /\ toService = <<>> /\ toAgent = <<>> /\ at \in {"select", "dead"}
  BY <1>1, <1>2 DEF IInv, QuestionIsHandled, AskedIn, Line, Null
<1>4. PICK answer \in select_user_ask_pass(get_json_value_arr_str(line[1].users)) :
        IF answer = Null
        THEN /\ password' = Null
             /\ write_string_to_fd(line[1].auth, "")
             /\ UNCHANGED typed
        ELSE /\ password' = <<[auth |-> line[1].auth, text |-> answer[1].pass]>>
             /\ typed' = [typed EXCEPT ![line[1].auth] = <<answer[1].pass>>]
             /\ write_string_to_fd(line[1].auth, answer[1].user)
  BY DEF processing_json_list_users
<1>5. typed \in [Calls -> {Null} \cup {<<t>> : t \in Passwords}] BY DEF IInv, TypeOK
\* Either nobody could be asked, or the service has the password for the call.
<1>6. /\ password' = Null \/ \E t \in Passwords : password' = <<[auth |-> l.auth, text |-> t]>>
      /\ typed' \in [Calls -> {Null} \cup {<<t>> : t \in Passwords}]
      /\ toAgent' # <<>> => toAgent'[1].text = "" \/ Keeps(l.auth)'
      /\ toAgent' = <<>> \/ \E r \in Reply : toAgent' = <<r>>
  <2>1. CASE answer = Null
    <3> DEFINE r == [auth |-> l.auth, text |-> "", whole |-> "" \notin Wide]
    <3>1. password' = Null /\ typed' = typed /\ write_string_to_fd(l.auth, "")
      BY <1>3, <1>4, <2>1
    <3>2. r \in Reply /\ r.text = ""
      <4>1. ("" \notin Wide) \in BOOLEAN OBVIOUS
      <4> QED BY <1>3, <4>1 DEF Reply, Texts
    <3>3. toAgent' = <<>> \/ toAgent' = <<r>>
      BY <1>3, <3>1, FirstOne DEF write_string_to_fd
    <3> HIDE DEF r
    <3>4. typed' \in [Calls -> {Null} \cup {<<t>> : t \in Passwords}] BY <1>5, <3>1
    <3>5. toAgent' # <<>> => toAgent'[1].text = ""
      <4>1. toAgent' # <<>> => toAgent'[1] = r BY <3>3
      <4>2. r.text = "" BY <3>2
      <4> QED BY <4>1, <4>2
    <3>6. toAgent' = <<>> \/ \E x \in Reply : toAgent' = <<x>> BY <3>2, <3>3
    <3> QED BY <3>1, <3>4, <3>5, <3>6
  <2>2. CASE answer # Null
    <3> DEFINE p == answer[1].pass
               u == answer[1].user
               r == [auth |-> l.auth, text |-> u, whole |-> u \notin Wide]
    <3>1. /\ password' = <<[auth |-> l.auth, text |-> p]>>
          /\ typed' = [typed EXCEPT ![l.auth] = <<p>>]
          /\ write_string_to_fd(l.auth, u)
      BY <1>3, <1>4, <2>2
    <3>2. p \in Passwords /\ u \in Texts BY <1>3, <2>2, AnswerOfUser
    <3>3. r \in Reply
      <4>1. (u \notin Wide) \in BOOLEAN OBVIOUS
      <4> QED BY <1>3, <3>2, <4>1 DEF Reply
    <3>4. toAgent' = <<>> \/ toAgent' = <<r>> BY <1>3, <3>1, FirstOne DEF write_string_to_fd
    <3> HIDE DEF p, u, r
    <3>5. Keeps(l.auth)' BY <1>3, <1>5, <3>1 DEF Keeps, Null
    <3>6. typed' \in [Calls -> {Null} \cup {<<t>> : t \in Passwords}] BY <1>3, <1>5, <3>1, <3>2
    <3> QED BY <3>1, <3>2, <3>3, <3>4, <3>5, <3>6
  <2> QED BY <2>1, <2>2
<1>7. TypeOK' BY <1>1, <1>3, <1>6 DEF IInv, TypeOK
<1>8. AgentHasCall' BY <1>1 DEF IInv, AgentHasCall
<1>9. QuestionIsLast' BY <1>1, <1>3 DEF QuestionIsLast
<1>10. QuestionIsHandled' BY <1>1 DEF QuestionIsHandled
<1>11. AnswerIsAwaited' BY <1>1, <1>3 DEF AnswerIsAwaited
<1>12. PasswordIsKept' BY <1>1, <1>3, <1>6 DEF IInv, PasswordIsKept
<1>13. ResponseIsTyped' BY <1>1, <1>3 DEF ResponseIsTyped
<1>14. WillBeForgotten'
  <2>1. link => at = "select" BY <1>3 DEF IInv, AgentHasCall
  <2>2. ASSUME NEW t, password' = <<[auth |-> l.auth, text |-> t]>>
        PROVE  password'[1].auth = l.auth
    BY <2>2
  <2>3. password' # Null => password'[1].auth = l.auth BY <1>6, <2>2
  <2> QED BY <1>1, <1>3, <2>1, <2>3 DEF WillBeForgotten
<1>15. PasswordArrives' BY <1>1, <1>3 DEF PasswordArrives
<1> QED BY <1>7, <1>8, <1>9, <1>10, <1>11, <1>12, <1>13, <1>14, <1>15 DEF IInv

\* The password is written, if there is one, to the agent that waits for it.
LEMMA AnswerStep == ASSUME IInv, processing_json_request_pass_or_other PROVE IInv'
<1> USE DEF callVars, agentVars
<1> DEFINE t == IF password = Null THEN "" ELSE password[1].text
<1>1. /\ local = "answer" /\ local' = "read" /\ password' = Null
      /\ write_string_to_fd(line[1].auth, t)
      /\ UNCHANGED <<callVars, agentVars, link, toService, line, typed, spent>>
  BY DEF processing_json_request_pass_or_other
<1>2. PICK l \in Line : line = <<l>> BY <1>1 DEF IInv, TypeOK, QuestionIsHandled
<1>3. /\ line[1] = l /\ l.auth \in Calls /\ current = <<l.auth>> /\ current # Null
      /\ toService = <<>> /\ toAgent = <<>> /\ at \in {"request", "dead"}
  <2>1. AskedIn("request") = "request" BY DEF AskedIn
  <2> HIDE DEF t
  <2> QED BY <1>1, <1>2, <2>1 DEF IInv, QuestionIsHandled, Line, Null
<1>4. t \in Texts
  <2>1. CASE password = Null BY <2>1 DEF Texts
  <2>2. CASE password # Null
    <3>1. PICK c \in Calls, x \in Passwords : password = <<[auth |-> c, text |-> x]>>
      BY <2>2 DEF IInv, TypeOK
    <3>2. t = x BY <2>2, <3>1
    <3> QED BY <3>2 DEF Texts
  <2> QED BY <2>1, <2>2
<1>5. link => at = "request" BY <1>3 DEF IInv, AgentHasCall
<1>6. link => \/ <<t>> = typed[l.auth]
              \/ t = "" /\ l.auth \in spent
  <2>1. link /\ password = Null => l.auth \in spent
    BY <1>3, <1>5 DEF IInv, PasswordIsKept, Keeps
  <2>2. link /\ password # Null => typed[l.auth] = <<password[1].text>>
    BY <1>3, <1>5 DEF IInv, PasswordIsKept, Keeps
  <2>3. password = Null => t = "" OBVIOUS
  <2>4. password # Null => t = password[1].text OBVIOUS
  <2> HIDE DEF t
  <2> QED BY <2>1, <2>2, <2>3, <2>4
<1>7. [auth |-> l.auth, text |-> t, whole |-> t \notin Wide] \in Reply
  <2>1. (t \notin Wide) \in BOOLEAN OBVIOUS
  <2> QED BY <1>3, <1>4, <2>1 DEF Reply
<1> HIDE DEF t
<1>8. \/ toAgent' = <<>>
      \/ link /\ toAgent' = <<[auth |-> l.auth, text |-> t, whole |-> t \notin Wide]>>
  BY <1>1, <1>3, FirstOne DEF write_string_to_fd
<1>9. TypeOK' BY <1>1, <1>3, <1>7, <1>8 DEF IInv, TypeOK
<1>10. AgentHasCall' BY <1>1 DEF IInv, AgentHasCall
<1>11. QuestionIsLast' BY <1>1, <1>3 DEF QuestionIsLast
<1>12. QuestionIsHandled' BY <1>1 DEF QuestionIsHandled
<1>13. AnswerIsAwaited' BY <1>1, <1>3 DEF AnswerIsAwaited
<1>14. link => toAgent' # <<>>
  BY <1>1, <1>3 DEF write_string_to_fd
<1>15. PasswordIsKept' BY <1>1, <1>3, <1>5, <1>14 DEF IInv, PasswordIsKept
<1>16. ResponseIsTyped'
  <2>1. toAgent' # <<>> => link /\ toAgent'[1].text = t BY <1>8
  <2> QED BY <1>1, <1>3, <1>6, <2>1 DEF ResponseIsTyped
<1>17. WillBeForgotten' BY <1>1 DEF WillBeForgotten
<1>18. PasswordArrives' BY <1>1, <1>3 DEF PasswordArrives
<1> QED BY <1>9, <1>10, <1>11, <1>12, <1>13, <1>15, <1>16, <1>17, <1>18 DEF IInv

LEMMA ResultStep == ASSUME IInv, processing_json_result PROVE IInv'
<1> USE DEF processing_json_result, callVars, agentVars
<1>1. TypeOK' BY DEF IInv, TypeOK
<1>2. AgentHasCall' BY DEF IInv, AgentHasCall
<1>3. QuestionIsLast' BY DEF IInv, QuestionIsLast
<1>4. QuestionIsHandled' BY DEF QuestionIsHandled
<1>5. AnswerIsAwaited' BY DEF IInv, AnswerIsAwaited
<1>6. PasswordIsKept' BY DEF IInv, PasswordIsKept, AnswerIsAwaited, NothingForgets
<1>7. ResponseIsTyped' BY DEF IInv, ResponseIsTyped
<1>8. WillBeForgotten' BY DEF WillBeForgotten
<1>9. PasswordArrives' BY DEF IInv, PasswordArrives
<1> QED BY <1>1, <1>2, <1>3, <1>4, <1>5, <1>6, <1>7, <1>8, <1>9 DEF IInv

LEMMA ReadEofStep == ASSUME IInv, ReadEof PROVE IInv'
<1> USE DEF ReadEof, callVars, agentVars
<1>1. TypeOK' BY DEF IInv, TypeOK
<1>2. AgentHasCall' BY DEF IInv, AgentHasCall
<1>3. QuestionIsLast' BY DEF QuestionIsLast
<1>4. QuestionIsHandled' BY DEF QuestionIsHandled
<1>5. AnswerIsAwaited' BY DEF IInv, AnswerIsAwaited
<1>6. PasswordIsKept' BY DEF IInv, PasswordIsKept
<1>7. ResponseIsTyped' BY DEF IInv, ResponseIsTyped
<1>8. WillBeForgotten' BY DEF WillBeForgotten
<1>9. PasswordArrives' BY DEF IInv, PasswordArrives
<1> QED BY <1>1, <1>2, <1>3, <1>4, <1>5, <1>6, <1>7, <1>8, <1>9 DEF IInv

-----------------------------------------------------------------------------
(* The theorems.                                                           *)

LEMMA InitInv == Init => IInv
<1> SUFFICES ASSUME Init PROVE IInv OBVIOUS
<1> USE DEF Init, Null
<1>1. TypeOK BY DEF TypeOK, receive_introspections
<1>2. AgentHasCall BY DEF AgentHasCall
<1>3. QuestionIsLast BY DEF QuestionIsLast
<1>4. QuestionIsHandled BY DEF QuestionIsHandled
<1>5. AnswerIsAwaited BY DEF AnswerIsAwaited
<1>6. PasswordIsKept BY DEF PasswordIsKept
<1>7. ResponseIsTyped BY DEF ResponseIsTyped
<1>8. WillBeForgotten BY DEF WillBeForgotten
<1>9. PasswordArrives BY DEF PasswordArrives
<1> QED BY <1>1, <1>2, <1>3, <1>4, <1>5, <1>6, <1>7, <1>8, <1>9 DEF IInv

LEMMA NextInv == IInv /\ [Next]_vars => IInv'
<1> SUFFICES ASSUME IInv, [Next]_vars PROVE IInv' OBVIOUS
<1>1. CASE ServiceStep
  BY <1>1, ReadStep, ListStep, AnswerStep, ResultStep, ReadEofStep DEF ServiceStep
<1>2. CASE AgentStep
  BY <1>2, InitiateStep, SelectStep, ResponseStep, EofStep DEF AgentStep
<1>3. CASE Pam BY <1>3, RequestStep, InfoStep, CompletedStep DEF Pam
<1>4. CASE \E c \in Calls : remote_handle_method_call(c) \/ remote_method_call_cb(c)
  BY <1>4, CallStep
<1>5. CASE on_cancelled \/ AgentIsGone \/ LinkBreaks
  BY <1>5, CancelledStep, GoneStep, BreakStep
<1>6. CASE UNCHANGED vars
  <2>1. UNCHANGED dialogue BY <1>6 DEF vars, agentVars, dialogue
  <2>2. TypeOK' BY <1>6 DEF vars, callVars, agentVars, serviceVars, IInv, TypeOK
  <2> QED BY <2>1, <2>2, DialogueKept
<1> QED BY <1>1, <1>2, <1>3, <1>4, <1>5, <1>6 DEF Next

\* The discipline of the dialogue holds in every state.
THEOREM Invariance == Spec => []IInv
BY InitInv, NextInv, PTL DEF Spec

\* Every variable has its type; at most one line is on its way to the agent.
THEOREM TypeCorrect == Spec => []TypeOK
<1>1. IInv => TypeOK BY DEF IInv
<1> QED BY <1>1, Invariance, PTL

\* What on_request() gives to PAM is what the user typed for this very
\* authentication, or nothing after a message or an earlier request.
THEOREM PasswordsArrive == Spec => []PasswordArrives
<1>1. IInv => PasswordArrives BY DEF IInv
<1> QED BY <1>1, Invariance, PTL

\* handlers_data->password outlives no authentication but by the lines that
\* have still to be read.
THEOREM PasswordsForgotten == Spec => []PasswordForgotten
<1>1. IInv => PasswordForgotten
  <2> SUFFICES ASSUME IInv, password # Null PROVE PasswordForgotten
    BY DEF PasswordForgotten
  <2>1. CASE link BY <2>1 DEF IInv, WillBeForgotten, PasswordForgotten
  <2>2. CASE ~ link BY <2>2 DEF IInv, WillBeForgotten, PasswordForgotten
  <2> QED BY <2>1, <2>2
<1> QED BY <1>1, Invariance, PTL
=============================================================================
