-------------------------- MODULE ExecutorCallProofs --------------------------
(***************************************************************************)
(* Proofs about ExecutorCall: its safety properties, for any configuration *)
(* of the method, any pipe capacity, block size and amount of output.      *)
(***************************************************************************)
EXTENDS ExecutorCall, TLAPS

\* What a stream's counter has seen covers what was kept of it.
CounterCovers == \A s \in Streams : got[s] <= counter[s]

\* As long as a stream has met neither its limit nor an error, nothing of it is
\* lost: each unit is kept, in a read in progress, or in the pipe.
Conservation ==
  \A s \in Streams : Enabled(s) /\ ~ limited[s] /\ ~ readError[s] =>
    /\ counter[s] = got[s]
    /\ wrote[s] = got[s] + buf[s] + Len(pipe[s])

\* Such a stream is done only at its end, when nobody can write any more.
DrainedWhenDone ==
  \A s \in Streams : Enabled(s) /\ done[s] /\ ~ limited[s] /\ ~ readError[s] =>
    pipe[s] = <<>> /\ buf[s] = 0 /\ ~ Writers

\* The answer is what return_value_and_free_child_data() computed, and nothing
\* it was computed from changes any more.
ReplyIsStatus ==
  /\ reply # "none" => pc \in {"after", "end"}
  /\ pc \in {"after", "end"} => reply = ReturnStatus(limited, exit)

\* The inductive invariant.
IInv ==
  /\ TypeOK
  /\ NoUseAfterFree
  /\ CounterCovers
  /\ LimitRespected
  /\ Conservation
  /\ DrainedWhenDone
  /\ ReplyIsStatus

-----------------------------------------------------------------------------
\* The configuration is a record of the expected type.
LEMMA ConfigTyped ==
  ASSUME TypeOK
  PROVE  /\ cfg \in ConfigType
         /\ \A s \in Streams : cfg.limit[s] \in Nat
  BY ConfigsAssumption DEF TypeOK, ConfigType

\* The status answered is one of the known ones.
LEMMA StatusTyped ==
  ASSUME NEW lim \in [Streams -> BOOLEAN], NEW how \in {"none", "ok", "error", "killed"}
  PROVE  ReturnStatus(lim, how) \in {"none", "ok", "error", "killed", "stdout limit", "stderr limit"}
  BY DEF ReturnStatus

\* Adding to a pipe and taking from it.
LEMMA PipeLengths ==
  ASSUME NEW q \in Seq(Units)
  PROVE  /\ Len(q) \in Nat
         /\ \A u \in Units : Append(q, u) \in Seq(Units) /\ Len(Append(q, u)) = Len(q) + 1
         /\ q # <<>> => Tail(q) \in Seq(Units) /\ Len(Tail(q)) = Len(q) - 1
  OBVIOUS

\* A write by the child keeps the types and adds as much to the pipe as to the
\* units written.
LEMMA WriteEffect ==
  ASSUME TypeOK, NEW s \in Streams, NEW u \in Units, Write(s, u)
  PROVE  /\ pipe' \in [Streams -> Seq(Units)]
         /\ wrote' \in [Streams -> Nat]
         /\ \A t \in Streams : wrote'[t] = wrote[t] + Len(pipe'[t]) - Len(pipe[t])
<1>1. pipe' = [pipe EXCEPT ![s] = Append(pipe[s], u)] /\ wrote' = [wrote EXCEPT ![s] = wrote[s] + 1]
  BY DEF Write
<1>2. pipe \in [Streams -> Seq(Units)] /\ wrote \in [Streams -> Nat]
  BY DEF TypeOK
<1>3. Append(pipe[s], u) \in Seq(Units) /\ Len(Append(pipe[s], u)) = Len(pipe[s]) + 1
  <2>1. pipe[s] \in Seq(Units)
    BY <1>2
  <2> QED
    BY <2>1, PipeLengths
<1>4. pipe' \in [Streams -> Seq(Units)] /\ wrote' \in [Streams -> Nat]
  <2>1. pipe' \in [Streams -> Seq(Units)]
    BY <1>1, <1>2, <1>3
  <2>2. wrote' \in [Streams -> Nat]
    BY <1>1, <1>2
  <2> QED
    BY <2>1, <2>2
<1>5. ASSUME NEW t \in Streams
      PROVE  wrote'[t] = wrote[t] + Len(pipe'[t]) - Len(pipe[t])
  <2>1. Len(pipe[t]) \in Nat
    BY <1>2, PipeLengths
  <2>2. CASE t = s
    <3>1. pipe'[t] = Append(pipe[s], u) /\ wrote'[t] = wrote[t] + 1 /\ wrote[t] \in Nat
      BY <1>1, <1>2, <2>2
    <3> QED
      BY <1>3, <2>1, <2>2, <3>1
  <2>3. CASE t # s
    BY <1>1, <1>2, <2>3
  <2> QED
    BY <2>2, <2>3
<1> QED
  BY <1>4, <1>5
-----------------------------------------------------------------------------
(* Steps that read no stream and do not answer.                            *)

\* What the child's steps, the writes to stdin, the timeout and the beginning
\* of a read have in common.
OutsideStep ==
  /\ UNCHANGED <<cfg, buf, counter, got, done, source, limited, readError, reply>>
  /\ pc' \in {"after", "end"} <=> pc \in {"after", "end"}
  /\ child = "reaped" => UNCHANGED <<child, exit>>
  /\ ~ Writers => ~ Writers' /\ UNCHANGED pipe
  /\ \A s \in Streams : wrote'[s] = wrote[s] + Len(pipe'[s]) - Len(pipe[s])

\* They keep the invariant.
LEMMA OutsideKeeps ==
  ASSUME IInv, TypeOK', OutsideStep
  PROVE  IInv'
<1>1. NoUseAfterFree'
  BY DEF IInv, NoUseAfterFree, OutsideStep
<1>2. CounterCovers' /\ LimitRespected'
  BY DEF IInv, CounterCovers, LimitRespected, OutsideStep
<1>3. Conservation'
  <2> SUFFICES ASSUME NEW s \in Streams, Enabled(s)', ~ limited'[s], ~ readError'[s]
               PROVE  counter'[s] = got'[s] /\ wrote'[s] = got'[s] + buf'[s] + Len(pipe'[s])
    BY DEF Conservation
  <2>1. counter[s] = got[s] /\ wrote[s] = got[s] + buf[s] + Len(pipe[s])
    BY DEF IInv, Conservation, OutsideStep, Enabled
  <2>2. /\ pipe \in [Streams -> Seq(Units)] /\ pipe' \in [Streams -> Seq(Units)]
        /\ got \in [Streams -> Nat] /\ buf \in [Streams -> Nat]
        /\ wrote \in [Streams -> Nat] /\ wrote' \in [Streams -> Nat]
    BY DEF IInv, TypeOK
  <2>3. wrote'[s] = wrote[s] + Len(pipe'[s]) - Len(pipe[s])
    BY DEF OutsideStep
  <2>4. counter'[s] = counter[s] /\ got'[s] = got[s] /\ buf'[s] = buf[s]
    BY DEF OutsideStep
  <2>5. wrote'[s] = got[s] + buf[s] + Len(pipe'[s])
    BY <2>1, <2>2, <2>3
  <2> QED
    BY <2>1, <2>4, <2>5
<1>4. DrainedWhenDone'
  BY DEF IInv, DrainedWhenDone, OutsideStep, Enabled
<1>5. ReplyIsStatus'
  BY DEF IInv, NoUseAfterFree, ReplyIsStatus, OutsideStep
<1> QED
  BY <1>1, <1>2, <1>3, <1>4, <1>5 DEF IInv

\* A step that touches no pipe.
LEMMA PipesKept ==
  ASSUME TypeOK, UNCHANGED <<pipe, wrote>>
  PROVE  \A s \in Streams : wrote'[s] = wrote[s] + Len(pipe'[s]) - Len(pipe[s])
<1>1. pipe \in [Streams -> Seq(Units)] /\ wrote \in [Streams -> Nat]
  BY DEF TypeOK
<1>2. ASSUME NEW s \in Streams
      PROVE  wrote[s] = wrote[s] + Len(pipe[s]) - Len(pipe[s])
  BY <1>1
<1> QED
  BY <1>2

\* The child and its descendants.
LEMMA ChildStepKeeps ==
  ASSUME IInv, ChildStep
  PROVE  IInv'
<1> USE DEF ioVars, childVars
<1>0. TypeOK
  BY DEF IInv
<1>1. ASSUME NEW s \in Streams, NEW u \in Units, ChildWrite(s, u) PROVE IInv'
  <2>1. Write(s, u) /\ Writers /\ UNCHANGED <<cfg, pc, child, exit, holder, stdin, timer, reply>>
    BY <1>1 DEF ChildWrite, Writers, Alive
  <2>2. TypeOK'
    <3>1. /\ pipe' \in [Streams -> Seq(Units)] /\ wrote' \in [Streams -> Nat]
          /\ UNCHANGED <<buf, counter, got, done, source, limited, readError>>
      BY <1>0, <2>1, WriteEffect DEF Write
    <3> QED
      BY <1>0, <2>1, <3>1 DEF TypeOK
  <2>3. OutsideStep
    BY <1>0, <2>1, WriteEffect DEF OutsideStep, Write
  <2> QED
    BY <2>2, <2>3, OutsideKeeps
<1>2. ASSUME NEW s \in Streams, ChildBlock(s) PROVE IInv'
  <2>1. TypeOK'
    BY <1>0, <1>2 DEF TypeOK, ChildBlock
  <2>2. OutsideStep
    BY <1>0, <1>2, PipesKept DEF OutsideStep, ChildBlock, Writers, Alive
  <2> QED
    BY <2>1, <2>2, OutsideKeeps
<1>3. ASSUME NEW s \in Streams, ChildUnblock(s) PROVE IInv'
  <2>1. PICK u \in Units : Write(s, u)
    BY <1>3 DEF ChildUnblock
  <2>2. /\ Writers /\ child # "reaped" /\ child' = "running"
        /\ UNCHANGED <<cfg, pc, exit, holder, stdin, timer, reply>>
    BY <1>3 DEF ChildUnblock, Writers, Alive, Streams
  <2>3. TypeOK'
    <3>1. /\ pipe' \in [Streams -> Seq(Units)] /\ wrote' \in [Streams -> Nat]
          /\ UNCHANGED <<buf, counter, got, done, source, limited, readError>>
      BY <1>0, <2>1, WriteEffect DEF Write
    <3> QED
      BY <1>0, <2>2, <3>1 DEF TypeOK
  <2>4. OutsideStep
    BY <1>0, <2>1, <2>2, WriteEffect DEF OutsideStep, Write
  <2> QED
    BY <2>3, <2>4, OutsideKeeps
<1>4. CASE ChildReadStdin
  <2>1. stdin' \in [left : Nat, pipe : Nat]
    <3>1. stdin \in [left : Nat, pipe : Nat] /\ stdin.pipe > 0
      BY <1>0, <1>4 DEF TypeOK, ChildReadStdin
    <3>2. stdin.pipe - 1 \in Nat
      BY <3>1
    <3> QED
      BY <1>4, <3>1, <3>2 DEF ChildReadStdin
  <2>2. TypeOK'
    BY <1>0, <1>4, <2>1 DEF TypeOK, ChildReadStdin
  <2>3. OutsideStep
    BY <1>0, <1>4, PipesKept DEF OutsideStep, ChildReadStdin, Writers, Alive
  <2> QED
    BY <2>2, <2>3, OutsideKeeps
<1>5. CASE ChildExit
  <2>1. TypeOK'
    BY <1>0, <1>5 DEF TypeOK, ChildExit, Die
  <2>2. OutsideStep
    BY <1>0, <1>5, PipesKept DEF OutsideStep, ChildExit, Die, Writers, Alive
  <2> QED
    BY <2>1, <2>2, OutsideKeeps
<1>6. CASE HolderExit
  <2>1. TypeOK'
    BY <1>0, <1>6 DEF TypeOK, HolderExit
  <2>2. OutsideStep
    BY <1>0, <1>6, PipesKept DEF OutsideStep, HolderExit, Writers, Alive
  <2> QED
    BY <2>1, <2>2, OutsideKeeps
<1> QED
  BY <1>1, <1>2, <1>3, <1>4, <1>5, <1>6 DEF ChildStep
\* The writes to stdin, the timeout, the beginning of a read and the end of the
\* loop.
LEMMA QuietThreadKeeps ==
  ASSUME IInv,
         \/ WriteStdin \/ CloseStdin \/ ExitByTimeout \/ End
         \/ \E s \in Streams : BeginRead(s)
  PROVE  IInv'
<1> USE DEF ioVars, childVars
<1>0. TypeOK
  BY DEF IInv
<1>1. CASE WriteStdin
  <2>1. stdin' \in [left : Nat, pipe : Nat]
    <3>1. stdin \in [left : Nat, pipe : Nat] /\ stdin.left > 0
      BY <1>0, <1>1 DEF TypeOK, WriteStdin
    <3>2. stdin.left - 1 \in Nat /\ stdin.pipe + 1 \in Nat
      BY <3>1
    <3> QED
      BY <1>1, <3>2 DEF WriteStdin
  <2>2. TypeOK'
    BY <1>0, <1>1, <2>1 DEF TypeOK, WriteStdin
  <2>3. OutsideStep
    BY <1>0, <1>1, PipesKept DEF OutsideStep, WriteStdin, Writers, Alive
  <2> QED
    BY <2>2, <2>3, OutsideKeeps
<1>2. CASE CloseStdin
  <2>1. stdin' \in [left : Nat, pipe : Nat]
    BY <1>0, <1>2 DEF TypeOK, CloseStdin
  <2>2. TypeOK'
    BY <1>0, <1>2, <2>1 DEF TypeOK, CloseStdin
  <2>3. OutsideStep
    BY <1>0, <1>2, PipesKept DEF OutsideStep, CloseStdin, Writers, Alive
  <2> QED
    BY <2>2, <2>3, OutsideKeeps
<1>3. CASE ExitByTimeout
  <2>1. TypeOK'
    BY <1>0, <1>3 DEF TypeOK, ExitByTimeout, Die
  <2>2. OutsideStep
    BY <1>0, <1>3, PipesKept DEF OutsideStep, ExitByTimeout, Die, Writers, Alive, Streams
  <2> QED
    BY <2>1, <2>2, OutsideKeeps
<1>4. CASE End
  <2>1. TypeOK'
    BY <1>0, <1>4 DEF TypeOK, End
  <2>2. OutsideStep
    BY <1>0, <1>4, PipesKept DEF OutsideStep, End, Writers, Alive
  <2> QED
    BY <2>1, <2>2, OutsideKeeps
<1>5. ASSUME NEW s \in Streams, BeginRead(s) PROVE IInv'
  <2>1. TypeOK'
    BY <1>0, <1>5 DEF TypeOK, BeginRead
  <2>2. OutsideStep
    BY <1>0, <1>5, PipesKept DEF OutsideStep, BeginRead, Writers, Alive, Streams
  <2> QED
    BY <2>1, <2>2, OutsideKeeps
<1> QED
  BY <1>1, <1>2, <1>3, <1>4, <1>5

-----------------------------------------------------------------------------
(* Callbacks.                                                              *)

\* The end of a callback: it answers only when the child is reaped and both
\* streams are done, and with the status it has computed.
LEMMA ReturnKeeps ==
  ASSUME IInv, NEW exited \in BOOLEAN, ReturnIfDone(exited),
         exited => child' = "reaped",
         UNCHANGED exit, pc \notin {"after", "end"},
         done' \in [Streams -> BOOLEAN], limited' \in [Streams -> BOOLEAN],
         \A s \in Streams : source'[s] = ~ done'[s]
  PROVE  /\ NoUseAfterFree'
         /\ ReplyIsStatus'
         /\ pc' \in {"loop", "after"}
         /\ reply' \in {"none", "ok", "error", "killed", "stdout limit", "stderr limit"}
<1>1. reply = "none" /\ exit \in {"none", "ok", "error", "killed"}
  BY DEF IInv, ReplyIsStatus, TypeOK
<1>2. CASE exited /\ done'["out"] /\ done'["err"]
  <2>1. pc' = "after" /\ reply' = ReturnStatus(limited', exit)
    BY <1>2 DEF ReturnIfDone
  <2>2. \A s \in Streams : ~ source'[s]
    BY <1>2 DEF Streams
  <2> QED
    BY <1>1, <1>2, <2>1, <2>2, StatusTyped DEF NoUseAfterFree, ReplyIsStatus
<1>3. CASE ~ (exited /\ done'["out"] /\ done'["err"])
  <2>1. pc' = "loop" /\ reply' = reply
    BY <1>3 DEF ReturnIfDone
  <2> QED
    BY <1>1, <2>1 DEF NoUseAfterFree, ReplyIsStatus
<1> QED
  BY <1>2, <1>3
\* on_child_exited().
LEMMA ChildExitedKeeps ==
  ASSUME IInv, OnChildExited
  PROVE  IInv'
<1> USE DEF ioVars
<1>0. TypeOK
  BY DEF IInv
<1>1. /\ child' = "reaped" /\ pc = "loop" /\ child = "zombie" /\ ReturnIfDone(TRUE)
      /\ UNCHANGED <<cfg, exit, holder, stdin, pipe, wrote, buf, counter, got, done, source,
                     limited, readError, timer>>
  BY DEF OnChildExited
<1>2. /\ NoUseAfterFree' /\ ReplyIsStatus' /\ pc' \in {"loop", "after"}
      /\ reply' \in {"none", "ok", "error", "killed", "stdout limit", "stderr limit"}
  BY <1>0, <1>1, ReturnKeeps DEF TypeOK
<1>3. TypeOK'
  BY <1>0, <1>1, <1>2 DEF TypeOK
<1>4. CounterCovers' /\ LimitRespected' /\ Conservation'
  BY <1>1 DEF IInv, CounterCovers, LimitRespected, Conservation, Enabled
<1>5. DrainedWhenDone'
  BY <1>1 DEF IInv, DrainedWhenDone, Enabled, Writers, Alive, Streams
<1> QED
  BY <1>2, <1>3, <1>4, <1>5 DEF IInv

\* The rest of a stream's callback after a read that took length units from the
\* pipe or the read in progress; at end of file there was nothing to take.
LEMMA TakeKeeps ==
  ASSUME IInv, NEW s \in Streams, pc = s, NEW length \in Nat, NEW last \in BOOLEAN,
         Take(s, length, last),
         pipe' \in [Streams -> Seq(Units)],
         \A t \in Streams : t # s => pipe'[t] = pipe[t],
         length = buf[s] + Len(pipe[s]) - Len(pipe'[s]),
         last => pipe'[s] = <<>> /\ ~ Writers
  PROVE  IInv'
<1> DEFINE over == counter[s] + length > cfg.limit[s]
<1>0. TypeOK
  BY DEF IInv
<1>1. /\ counter' = [counter EXCEPT ![s] = counter[s] + length]
      /\ limited' = [limited EXCEPT ![s] = limited[s] \/ over]
      /\ got' = [got EXCEPT ![s] = IF over THEN got[s] ELSE got[s] + length]
      /\ done' = [done EXCEPT ![s] = last \/ over]
      /\ source' = [source EXCEPT ![s] = ~ (last \/ over)]
      /\ buf' = [buf EXCEPT ![s] = 0]
      /\ UNCHANGED <<cfg, child, exit, holder, stdin, wrote, readError, timer>>
      /\ ReturnIfDone(child = "reaped")
  BY DEF Take, childVars
<1>2. /\ counter \in [Streams -> Nat] /\ got \in [Streams -> Nat] /\ buf \in [Streams -> Nat]
      /\ wrote \in [Streams -> Nat] /\ pipe \in [Streams -> Seq(Units)]
      /\ \A t \in Streams : cfg.limit[t] \in Nat
  BY <1>0, ConfigTyped DEF TypeOK
<1>3. counter' \in [Streams -> Nat] /\ got' \in [Streams -> Nat] /\ buf' \in [Streams -> Nat]
  <2>1. counter' \in [Streams -> Nat]
    BY <1>1, <1>2
  <2>2. got' \in [Streams -> Nat]
    BY <1>1, <1>2
  <2>3. buf' \in [Streams -> Nat]
    BY <1>1, <1>2
  <2> QED
    BY <2>1, <2>2, <2>3
<1>4. /\ limited' \in [Streams -> BOOLEAN] /\ done' \in [Streams -> BOOLEAN]
      /\ source' \in [Streams -> BOOLEAN]
      /\ \A t \in Streams : source'[t] = ~ done'[t]
  <2> HIDE DEF over
  <2>1. /\ limited \in [Streams -> BOOLEAN] /\ done \in [Streams -> BOOLEAN]
        /\ source \in [Streams -> BOOLEAN]
        /\ \A t \in Streams : source[t] = ~ done[t]
    BY <1>0 DEF TypeOK
  <2>2. limited' \in [Streams -> BOOLEAN] /\ done' \in [Streams -> BOOLEAN]
    BY <1>1, <2>1
  <2>3. source' \in [Streams -> BOOLEAN]
    BY <1>1, <2>1
  <2>4. \A t \in Streams : source'[t] = ~ done'[t]
    BY <1>1, <2>1
  <2> QED
    BY <2>2, <2>3, <2>4
<1>5. /\ NoUseAfterFree' /\ ReplyIsStatus' /\ pc' \in {"loop", "after"}
      /\ reply' \in {"none", "ok", "error", "killed", "stdout limit", "stderr limit"}
  <2>1. pc \notin {"after", "end"} /\ (child = "reaped") \in BOOLEAN
    BY DEF Streams
  <2> QED
    BY <1>1, <1>4, <2>1, ReturnKeeps
<1>6. TypeOK'
  BY <1>0, <1>1, <1>3, <1>4, <1>5 DEF TypeOK
<1>7. CounterCovers' /\ LimitRespected'
  <2>1. ASSUME NEW t \in Streams PROVE got'[t] <= counter'[t] /\ got'[t] <= cfg'.limit[t]
    <3>1. got[t] <= counter[t] /\ got[t] <= cfg.limit[t] /\ cfg' = cfg
      BY <1>1 DEF IInv, CounterCovers, LimitRespected
    <3>2. CASE t # s
      BY <1>1, <1>2, <3>1, <3>2
    <3>3. CASE t = s
      <4>1. counter'[t] = counter[t] + length
        BY <1>1, <1>2, <3>3
      <4>2. got'[t] = IF over THEN got[t] ELSE got[t] + length
        BY <1>1, <1>2, <3>3
      <4> QED
        BY <1>2, <3>1, <3>3, <4>1, <4>2
    <3> QED
      BY <3>2, <3>3
  <2> QED
    BY <2>1 DEF CounterCovers, LimitRespected
<1>8. Conservation'
  <2> SUFFICES ASSUME NEW t \in Streams, Enabled(t), ~ limited'[t], ~ readError[t]
               PROVE  counter'[t] = got'[t] /\ wrote[t] = got'[t] + buf'[t] + Len(pipe'[t])
    BY <1>1 DEF Conservation, Enabled
  <2>1. CASE t # s
    <3>1. /\ limited'[t] = limited[t] /\ counter'[t] = counter[t] /\ got'[t] = got[t]
          /\ buf'[t] = buf[t] /\ pipe'[t] = pipe[t]
      BY <1>0, <1>1, <2>1 DEF TypeOK
    <3> QED
      BY <3>1 DEF IInv, Conservation
  <2>2. CASE t = s
    <3>1. ~ limited[t] /\ ~ over
      BY <1>0, <1>1, <2>2 DEF TypeOK
    <3>2. counter[t] = got[t] /\ wrote[t] = got[t] + buf[t] + Len(pipe[t])
      BY <3>1 DEF IInv, Conservation
    <3>3. counter'[t] = counter[t] + length /\ got'[t] = got[t] + length /\ buf'[t] = 0
      BY <1>1, <1>2, <2>2, <3>1
    <3>4. wrote[t] = got[t] + length + Len(pipe'[t])
      BY <1>2, <2>2, <3>2
    <3> QED
      BY <1>2, <2>2, <3>2, <3>3, <3>4
  <2> QED
    BY <2>1, <2>2
<1>9. DrainedWhenDone'
  <2> SUFFICES ASSUME NEW t \in Streams, Enabled(t), done'[t], ~ limited'[t], ~ readError[t]
               PROVE  pipe'[t] = <<>> /\ buf'[t] = 0 /\ ~ Writers
    BY <1>1 DEF DrainedWhenDone, Enabled, Writers, Alive
  <2>1. CASE t # s
    <3>1. limited'[t] = limited[t] /\ done'[t] = done[t] /\ buf'[t] = buf[t] /\ pipe'[t] = pipe[t]
      BY <1>0, <1>1, <2>1 DEF TypeOK
    <3> QED
      BY <3>1 DEF IInv, DrainedWhenDone
  <2>2. CASE t = s
    <3>1. last /\ buf'[t] = 0
      BY <1>0, <1>1, <2>2 DEF TypeOK
    <3> QED
      BY <2>2, <3>1
  <2> QED
    BY <2>1, <2>2
<1> QED
  BY <1>5, <1>6, <1>7, <1>8, <1>9 DEF IInv
\* Taking the first unit from a pipe.
LEMMA ConsumeEffect ==
  ASSUME TypeOK, NEW s \in Streams, pipe[s] # <<>>, Consume(s)
  PROVE  /\ pipe' \in [Streams -> Seq(Units)]
         /\ \A t \in Streams : t # s => pipe'[t] = pipe[t]
         /\ Len(pipe[s]) \in Nat
         /\ Len(pipe'[s]) = Len(pipe[s]) - 1
<1>1. pipe \in [Streams -> Seq(Units)] /\ pipe' = [pipe EXCEPT ![s] = Tail(pipe[s])]
  BY DEF TypeOK, Consume
<1>2. /\ Len(pipe[s]) \in Nat
      /\ Tail(pipe[s]) \in Seq(Units) /\ Len(Tail(pipe[s])) = Len(pipe[s]) - 1
  <2>1. pipe[s] \in Seq(Units)
    BY <1>1
  <2> QED
    BY <2>1, PipeLengths
<1>3. pipe'[s] = Tail(pipe[s])
  BY <1>1
<1>4. pipe' \in [Streams -> Seq(Units)]
  BY <1>1, <1>2
<1> QED
  BY <1>1, <1>2, <1>3, <1>4

\* The reads that succeed.
LEMMA ReadStepKeeps ==
  ASSUME IInv, NEW s \in Streams, ReadStep(s)
  PROVE  IInv'
<1>0. TypeOK /\ buf \in [Streams -> Nat] /\ pipe \in [Streams -> Seq(Units)]
  BY DEF IInv, TypeOK
<1>1. CASE ReadMore(s)
  <2>1. /\ pc = s /\ pipe[s] # <<>> /\ Consume(s)
        /\ buf' = [buf EXCEPT ![s] = buf[s] + 1]
        /\ UNCHANGED <<cfg, pc, child, exit, holder, stdin, wrote, counter, got, done, source,
                       limited, readError, timer, reply>>
    BY <1>1 DEF ReadMore, childVars
  <2>2. /\ pipe' \in [Streams -> Seq(Units)]
        /\ \A t \in Streams : t # s => pipe'[t] = pipe[t]
        /\ Len(pipe[s]) \in Nat
        /\ Len(pipe'[s]) = Len(pipe[s]) - 1
    BY <1>0, <2>1, ConsumeEffect
  <2>3. buf' \in [Streams -> Nat]
    BY <1>0, <2>1
  <2>4. TypeOK'
    BY <1>0, <2>1, <2>2, <2>3 DEF TypeOK
  <2>5. NoUseAfterFree' /\ CounterCovers' /\ LimitRespected' /\ ReplyIsStatus'
    BY <2>1 DEF IInv, NoUseAfterFree, CounterCovers, LimitRespected, ReplyIsStatus
  <2>6. Conservation'
    <3> SUFFICES ASSUME NEW t \in Streams, Enabled(t), ~ limited[t], ~ readError[t]
                 PROVE  counter[t] = got[t] /\ wrote[t] = got[t] + buf'[t] + Len(pipe'[t])
      BY <2>1 DEF Conservation, Enabled
    <3>1. counter[t] = got[t] /\ wrote[t] = got[t] + buf[t] + Len(pipe[t])
      BY DEF IInv, Conservation
    <3>2. CASE t # s
      BY <1>0, <2>1, <2>2, <3>1, <3>2
    <3>3. CASE t = s
      <4>1. buf'[t] = buf[t] + 1 /\ Len(pipe'[t]) = Len(pipe[t]) - 1
        BY <1>0, <2>1, <2>2, <3>3
      <4>2. got \in [Streams -> Nat] /\ wrote \in [Streams -> Nat]
        BY <1>0 DEF TypeOK
      <4>3. wrote[t] = got[t] + (buf[t] + 1) + (Len(pipe[t]) - 1)
        BY <1>0, <3>1, <4>2
      <4> QED
        BY <3>1, <4>1, <4>3
    <3> QED
      BY <3>2, <3>3
  <2>7. DrainedWhenDone'
    BY <1>0, <2>1, <2>2 DEF IInv, DrainedWhenDone, Enabled, Writers, Alive
  <2> QED
    BY <2>4, <2>5, <2>6, <2>7 DEF IInv
<1>2. CASE ReadData(s)
  <2>1. pc = s /\ pipe[s] # <<>> /\ Consume(s) /\ Take(s, buf[s] + 1, FALSE)
    BY <1>2 DEF ReadData
  <2>2. /\ pipe' \in [Streams -> Seq(Units)]
        /\ \A t \in Streams : t # s => pipe'[t] = pipe[t]
        /\ Len(pipe[s]) \in Nat
        /\ Len(pipe'[s]) = Len(pipe[s]) - 1
    BY <1>0, <2>1, ConsumeEffect
  <2>3. buf[s] + 1 \in Nat /\ buf[s] + 1 = buf[s] + Len(pipe[s]) - Len(pipe'[s])
    BY <1>0, <2>2
  <2> QED
    BY <2>1, <2>2, <2>3, TakeKeeps
<1>3. CASE ReadEof(s)
  <2>1. pc = s /\ pipe[s] = <<>> /\ ~ Writers /\ pipe' = pipe /\ Take(s, buf[s], buf[s] = 0)
    BY <1>3 DEF ReadEof, Eof
  <2>2. buf[s] \in Nat /\ buf[s] = buf[s] + Len(pipe[s]) - Len(pipe'[s])
    BY <1>0, <2>1
  <2>3. (buf[s] = 0) \in BOOLEAN
    OBVIOUS
  <2> QED
    BY <1>0, <2>1, <2>2, <2>3, TakeKeeps
<1> QED
  BY <1>1, <1>2, <1>3 DEF ReadStep

\* The reads that fail: the stream's units are not accounted for any more.
LEMMA ReadErrorKeeps ==
  ASSUME IInv, NEW s \in Streams, NEW overLimit \in BOOLEAN, FailRead(s, overLimit),
         ReturnIfDone(child = "reaped") \/ (pc' = "crashed" /\ UNCHANGED reply)
  PROVE  IInv'
<1>0. TypeOK
  BY DEF IInv
<1>1. /\ pc = s /\ pipe[s] # <<>> /\ Consume(s)
      /\ buf' = [buf EXCEPT ![s] = 0]
      /\ done' = [done EXCEPT ![s] = TRUE]
      /\ source' = [source EXCEPT ![s] = FALSE]
      /\ limited' = [limited EXCEPT ![s] = limited[s] \/ overLimit]
      /\ readError' = [readError EXCEPT ![s] = TRUE]
      /\ UNCHANGED <<cfg, child, exit, holder, stdin, wrote, counter, got, timer>>
  BY DEF FailRead, childVars
<1>2. /\ pipe' \in [Streams -> Seq(Units)]
      /\ \A t \in Streams : t # s => pipe'[t] = pipe[t]
  BY <1>0, <1>1, ConsumeEffect
<1>3. buf' \in [Streams -> Nat]
  BY <1>0, <1>1 DEF TypeOK
<1>4. /\ limited' \in [Streams -> BOOLEAN] /\ done' \in [Streams -> BOOLEAN]
      /\ source' \in [Streams -> BOOLEAN] /\ readError' \in [Streams -> BOOLEAN]
      /\ \A t \in Streams : source'[t] = ~ done'[t]
  BY <1>0, <1>1 DEF TypeOK
<1>5. /\ NoUseAfterFree' /\ ReplyIsStatus' /\ pc' \in {"loop", "after", "crashed"}
      /\ reply' \in {"none", "ok", "error", "killed", "stdout limit", "stderr limit"}
  <2>1. pc \notin {"after", "end"} /\ (child = "reaped") \in BOOLEAN
    BY <1>1 DEF Streams
  <2>2. CASE ReturnIfDone(child = "reaped")
    BY <1>1, <1>4, <2>1, <2>2, ReturnKeeps
  <2>3. CASE pc' = "crashed" /\ UNCHANGED reply
    BY <2>1, <2>3 DEF IInv, NoUseAfterFree, ReplyIsStatus, TypeOK
  <2> QED
    BY <2>2, <2>3
<1>6. TypeOK'
  BY <1>0, <1>1, <1>2, <1>3, <1>4, <1>5 DEF TypeOK
<1>7. CounterCovers' /\ LimitRespected'
  BY <1>1 DEF IInv, CounterCovers, LimitRespected
<1>8. ASSUME NEW t \in Streams, ~ readError'[t]
      PROVE  /\ t # s
             /\ limited'[t] = limited[t] /\ readError'[t] = readError[t] /\ done'[t] = done[t]
             /\ buf'[t] = buf[t] /\ pipe'[t] = pipe[t]
  BY <1>0, <1>1, <1>2, <1>8 DEF TypeOK
<1>9. Conservation' /\ DrainedWhenDone'
  BY <1>1, <1>8 DEF IInv, Conservation, DrainedWhenDone, Enabled, Writers, Alive
<1> QED
  BY <1>5, <1>6, <1>7, <1>9 DEF IInv

-----------------------------------------------------------------------------
(* The inductive invariant.                                                *)

\* The initial states: nothing written, nothing answered.
LEMMA InvInit == Init => IInv
<1> SUFFICES ASSUME Init PROVE IInv
  OBVIOUS
<1>1. cfg \in Configs /\ cfg \in ConfigType
  BY ConfigsAssumption DEF Init
<1>2. stdin \in [left : Nat, pipe : Nat]
  BY BoundsAssumption DEF Init
<1>3. pipe \in [Streams -> Seq(Units)]
  BY DEF Init
<1>4. /\ wrote \in [Streams -> Nat] /\ buf \in [Streams -> Nat] /\ counter \in [Streams -> Nat]
      /\ got \in [Streams -> Nat]
  BY DEF Init
<1>5. \A s \in Streams : Enabled(s) \in BOOLEAN
  BY <1>1 DEF Enabled, ConfigType
<1>6. /\ done \in [Streams -> BOOLEAN] /\ source \in [Streams -> BOOLEAN]
      /\ \A s \in Streams : source[s] = ~ done[s] /\ source[s] = Enabled(s)
  BY <1>5 DEF Init
<1>7. limited \in [Streams -> BOOLEAN] /\ readError \in [Streams -> BOOLEAN]
  BY DEF Init
<1>8. TypeOK
  BY <1>1, <1>2, <1>3, <1>4, <1>6, <1>7 DEF Init, TypeOK
<1>9. NoUseAfterFree /\ ReplyIsStatus
  BY DEF Init, NoUseAfterFree, ReplyIsStatus
<1>10. \A s \in Streams : /\ got[s] = 0 /\ counter[s] = 0 /\ wrote[s] = 0 /\ buf[s] = 0
                          /\ Len(pipe[s]) = 0
  BY DEF Init
<1>11. CounterCovers /\ LimitRespected /\ Conservation
  BY <1>8, <1>10, ConfigTyped DEF CounterCovers, LimitRespected, Conservation
<1>12. DrainedWhenDone
  BY <1>6 DEF DrainedWhenDone
<1> QED
  BY <1>8, <1>9, <1>11, <1>12 DEF IInv

\* The inductive step.
LEMMA InvStep == IInv /\ [Next]_vars => IInv'
<1> SUFFICES ASSUME IInv, [Next]_vars PROVE IInv'
  OBVIOUS
<1>1. CASE ChildStep
  BY <1>1, ChildStepKeeps
<1>2. CASE \/ WriteStdin \/ CloseStdin \/ ExitByTimeout \/ End
           \/ \E s \in Streams : BeginRead(s)
  BY <1>2, QuietThreadKeeps
<1>3. CASE OnChildExited
  BY <1>3, ChildExitedKeeps
<1>4. ASSUME NEW s \in Streams, ReadStep(s) PROVE IInv'
  BY <1>4, ReadStepKeeps
<1>5. CASE ReadErrorStdout \/ ReadErrorStderr
  <2>1. "out" \in Streams /\ "err" \in Streams
    BY DEF Streams
  <2> QED
    BY <1>5, <2>1, ReadErrorKeeps DEF ReadErrorStdout, ReadErrorStderr
<1>6. CASE UNCHANGED vars
  BY <1>6 DEF vars, ioVars, childVars, IInv, TypeOK, NoUseAfterFree, CounterCovers, LimitRespected,
              Conservation, DrainedWhenDone, ReplyIsStatus, Enabled, Writers, Alive
<1> QED
  BY <1>1, <1>2, <1>3, <1>4, <1>5, <1>6 DEF Next, ThreadStep

\* The invariant holds in every reachable state.
THEOREM Invariance == Spec => []IInv
  BY InvInit, InvStep, PTL DEF Spec

\* Type correctness; a stream's watch is attached exactly until it is done.
THEOREM TypeCorrect == Spec => []TypeOK
<1>1. IInv => TypeOK
  BY DEF IInv
<1> QED
  BY <1>1, Invariance, PTL

\* After the parameters of a call are freed, no callback that uses them can run.
THEOREM NeverUsedAfterFree == Spec => []NoUseAfterFree
<1>1. IInv => NoUseAfterFree
  BY DEF IInv
<1> QED
  BY <1>1, Invariance, PTL

\* The data kept for a reply never exceeds the configured limit.
THEOREM LimitsRespected == Spec => []LimitRespected
<1>1. IInv => LimitRespected
  BY DEF IInv
<1> QED
  BY <1>1, Invariance, PTL

\* A reply that reports no limit carries the exit status and all of the output,
\* up to a failed read.
THEOREM OutputComplete == Spec => []CompleteOutput
<1>1. IInv => CompleteOutput
  <2> SUFFICES ASSUME IInv, reply \in {"ok", "error", "killed"} PROVE
               /\ reply = exit
               /\ \A s \in Streams :
                    Enabled(s) /\ ~ readError[s] => got[s] = wrote[s] /\ wrote[s] <= cfg.limit[s]
    BY DEF CompleteOutput
  <2>1. pc \in {"after", "end"} /\ reply = ReturnStatus(limited, exit)
    BY DEF IInv, ReplyIsStatus
  <2>2. reply = exit /\ ~ limited["out"] /\ ~ limited["err"]
    BY <2>1 DEF ReturnStatus
  <2>3. ASSUME NEW s \in Streams, Enabled(s), ~ readError[s]
        PROVE  got[s] = wrote[s] /\ wrote[s] <= cfg.limit[s]
    <3>1. ~ limited[s] /\ done[s]
      BY <2>1, <2>2 DEF Streams, IInv, NoUseAfterFree, TypeOK
    <3>2. buf[s] = 0 /\ pipe[s] = <<>>
      BY <2>3, <3>1 DEF IInv, DrainedWhenDone
    <3>3. wrote[s] = got[s] + buf[s] + Len(pipe[s]) /\ got[s] <= cfg.limit[s]
      BY <2>3, <3>1 DEF IInv, Conservation, LimitRespected
    <3>4. got \in [Streams -> Nat] /\ wrote \in [Streams -> Nat] /\ Len(pipe[s]) = 0
      BY <3>2 DEF IInv, TypeOK
    <3> QED
      BY <3>2, <3>3, <3>4
  <2> QED
    BY <2>2, <2>3
<1> QED
  BY <1>1, Invariance, PTL
===============================================================================
