----------------------------- MODULE ExecutorCall -----------------------------
(***************************************************************************)
(* One call of an executor method after its child process was spawned: the *)
(* thread of execute_command_line() writes the stdin string, runs a main   *)
(* loop of its own with a child watch, a timeout and a watch per enabled   *)
(* stream, and answers from whichever callback comes last.                 *)
(*                                                                         *)
(* The pipes are blocking and a callback reads through a GIOChannel, so a  *)
(* callback that has begun to read returns only with a whole line (or a    *)
(* whole 1024-byte block), at end of file, or with an error. Meanwhile no  *)
(* other source of the loop is served.                                     *)
(*                                                                         *)
(* Output is counted in units: a "piece" of a line, the "line" end, or     *)
(* "bad" bytes that are not UTF-8. The child, its descendants, the pipes   *)
(* and the GLib reads are external and modelled from how executor.c uses   *)
(* them.                                                                   *)
(***************************************************************************)
EXTENDS Naturals, Sequences

CONSTANTS
  Configs,   \* the MethodInfo records to consider
  Units,     \* kinds of output the child may write
  PipeCap,   \* units a pipe holds
  Block,     \* units of one g_io_channel_read_chars() block
  MaxOut,    \* bound: units written to a stream
  StdinLen,  \* units of the stdin string
  MayFork    \* whether the child may leave descendants that hold its streams

Streams == {"out", "err"}

\* The fields of MethodInfo that steer the thread. out: "none", "bytes" (bytes,
\* byte arrays, string array, json) or "lines" (strings and signals).
ConfigType == [out : {"none", "bytes", "lines"}, err : BOOLEAN,
               stdin : BOOLEAN, timeout : BOOLEAN, limit : [Streams -> Nat]]

ASSUME ConfigsAssumption == Configs \subseteq ConfigType

ASSUME BoundsAssumption ==
  /\ Units \subseteq {"piece", "line", "bad"}
  /\ PipeCap \in Nat \ {0}
  /\ Block \in Nat \ {0}
  /\ MaxOut \in Nat
  /\ StdinLen \in Nat
  /\ MayFork \in BOOLEAN

VARIABLES
  cfg,        \* the method's configuration; it never changes
  pc,         \* "stdin", "loop", the stream being read, "after", "end", "crashed"
  child,      \* "running", the stream it is blocked on, "zombie" or "reaped"
  exit,       \* how the child ended: "none", "ok", "error" or "killed"
  holder,     \* a descendant of the child holds its streams
  stdin,      \* units still to be written, and units in the stdin pipe
  pipe,       \* units in each output pipe
  wrote,      \* units written to each stream so far
  buf,        \* units a read of each stream has buffered so far
  counter,    \* stdout_byte_counter or stdout_strings_counter, stderr_...
  got,        \* units kept for the reply (or sent as signals)
  done,       \* stdout_done, stderr_done
  source,     \* the watch of the stream is attached to the loop
  limited,    \* stdout_exit_status = 2, stderr_exit_status = 3
  readError,  \* a read of the stream failed
  timer,      \* the timeout source: "off", "armed" or "fired"
  reply       \* "none", or the status answered

ioVars == <<pipe, wrote, buf, counter, got, done, source, limited, readError>>
childVars == <<child, exit, holder>>
vars == <<cfg, pc, childVars, stdin, ioVars, timer, reply>>

Enabled(s) == IF s = "out" THEN cfg.out # "none" ELSE cfg.err
ByLine(s) == s = "err" \/ cfg.out = "lines"

\* The state right after g_spawn_async_with_pipes(): the flags of child_data,
\* the sources attached, and the string to be written to stdin.
Init ==
  /\ cfg \in Configs
  /\ pc = "stdin"
  /\ child = "running"
  /\ exit = "none"
  /\ holder = FALSE
  /\ stdin = [left |-> IF cfg.stdin THEN StdinLen ELSE 0, pipe |-> 0]
  /\ pipe = [s \in Streams |-> <<>>]
  /\ wrote = [s \in Streams |-> 0]
  /\ buf = [s \in Streams |-> 0]
  /\ counter = [s \in Streams |-> 0]
  /\ got = [s \in Streams |-> 0]
  /\ done = [s \in Streams |-> ~ Enabled(s)]
  /\ source = [s \in Streams |-> Enabled(s)]
  /\ limited = [s \in Streams |-> FALSE]
  /\ readError = [s \in Streams |-> FALSE]
  /\ timer = IF cfg.timeout THEN "armed" ELSE "off"
  /\ reply = "none"

-----------------------------------------------------------------------------
(* The child and its descendants (external).                               *)

Alive == child \in {"running"} \cup Streams
Writers == Alive \/ holder

\* The read ends are open until the call is answered.
Open == pc \notin {"after", "end", "crashed"}

Write(s, u) ==
  /\ pipe' = [pipe EXCEPT ![s] = Append(@, u)]
  /\ wrote' = [wrote EXCEPT ![s] = @ + 1]
  /\ UNCHANGED <<buf, counter, got, done, source, limited, readError>>

\* The child or a descendant writes where there is room.
ChildWrite(s, u) ==
  /\ child = "running" \/ holder
  /\ Open /\ Enabled(s)
  /\ wrote[s] < MaxOut
  /\ Len(pipe[s]) < PipeCap
  /\ Write(s, u)
  /\ UNCHANGED <<cfg, pc, childVars, stdin, timer, reply>>

\* The child writes to a full pipe and is put to sleep ...
ChildBlock(s) ==
  /\ child = "running"
  /\ Open /\ Enabled(s)
  /\ wrote[s] < MaxOut
  /\ Len(pipe[s]) = PipeCap
  /\ child' = s
  /\ UNCHANGED <<cfg, pc, exit, holder, stdin, ioVars, timer, reply>>

\* ... until the thread has made room.
ChildUnblock(s) ==
  /\ child = s
  /\ Len(pipe[s]) < PipeCap
  /\ child' = "running"
  /\ \E u \in Units : Write(s, u)
  /\ UNCHANGED <<cfg, pc, exit, holder, stdin, timer, reply>>

ChildReadStdin ==
  /\ child = "running"
  /\ stdin.pipe > 0
  /\ stdin' = [stdin EXCEPT !.pipe = @ - 1]
  /\ UNCHANGED <<cfg, pc, childVars, ioVars, timer, reply>>

\* The child is gone; it may leave a descendant behind.
Die(how) ==
  /\ child' = "zombie"
  /\ exit' = how
  /\ \E h \in BOOLEAN : (h => MayFork) /\ holder' = h

ChildExit ==
  /\ child = "running"
  /\ \E how \in {"ok", "error"} : Die(how)
  /\ UNCHANGED <<cfg, pc, stdin, ioVars, timer, reply>>

HolderExit ==
  /\ holder
  /\ holder' = FALSE
  /\ UNCHANGED <<cfg, pc, child, exit, stdin, ioVars, timer, reply>>

-----------------------------------------------------------------------------
(* The thread: the stdin string, before the loop runs.                     *)

\* One write() to the blocking stdin pipe.
WriteStdin ==
  /\ pc = "stdin"
  /\ stdin.left > 0
  /\ Writers
  /\ stdin.pipe < PipeCap
  /\ stdin' = [left |-> stdin.left - 1, pipe |-> stdin.pipe + 1]
  /\ UNCHANGED <<cfg, pc, childVars, ioVars, timer, reply>>

\* Everything is written, or write() failed since nobody can read any more:
\* the pipe is closed and the loop runs.
CloseStdin ==
  /\ pc = "stdin"
  /\ stdin.left = 0 \/ ~ Writers
  /\ pc' = "loop"
  /\ stdin' = [stdin EXCEPT !.left = 0]
  /\ UNCHANGED <<cfg, childVars, ioVars, timer, reply>>

-----------------------------------------------------------------------------
(* The callbacks of the loop.                                              *)

\* return_value_and_free_child_data(): a limit outranks the exit status, and
\* stdout outranks stderr.
ReturnStatus(lim, how) ==
  IF lim["out"] THEN "stdout limit" ELSE IF lim["err"] THEN "stderr limit" ELSE how

\* Mutant: stderr is not waited for.
ReturnIfStdoutDone(exited) ==
  IF exited /\ done'["out"]
  THEN pc' = "after" /\ reply' = ReturnStatus(limited', exit)
  ELSE pc' = "loop" /\ UNCHANGED reply

\* The end of every callback: the last one answers, quits the loop, lowers the
\* counters, frees the parameters and closes the pipes.
ReturnIfDone(exited) ==
  IF exited /\ done'["out"] /\ done'["err"]
  THEN pc' = "after" /\ reply' = ReturnStatus(limited', exit)
  ELSE pc' = "loop" /\ UNCHANGED reply

\* Mutant: the child watch leaves the answer to the stream callbacks.
OnChildExitedSilent ==
  /\ pc = "loop"
  /\ child = "zombie"
  /\ child' = "reaped"
  /\ UNCHANGED <<cfg, pc, exit, holder, stdin, ioVars, timer, reply>>

\* on_child_exited(): the child is reaped here.
OnChildExited ==
  /\ pc = "loop"
  /\ child = "zombie"
  /\ child' = "reaped"
  /\ UNCHANGED <<cfg, exit, holder, stdin, ioVars, timer>>
  /\ ReturnIfDone(TRUE)

\* exit_by_timeout(): in the loop, or in the iteration that has just quit it.
\* SIGKILL after the child's end does nothing to the call (the process id may
\* be another process's by then, when on_child_exited() has reaped the child).
ExitByTimeout ==
  /\ pc \in {"loop", "after"}
  /\ timer = "armed"
  /\ timer' = "fired"
  /\ \/ Alive /\ Die("killed")
     \/ ~ Alive /\ UNCHANGED childVars
  /\ UNCHANGED <<cfg, pc, stdin, ioVars, reply>>

Eof(s) == pipe[s] = <<>> /\ ~ Writers

\* The loop dispatches on_child_stdout() or on_child_stderr(): there is data
\* or a hang-up, and the callback begins to read.
BeginRead(s) ==
  /\ pc = "loop"
  /\ source[s]
  /\ pipe[s] # <<>> \/ Eof(s)
  /\ pc' = s
  /\ UNCHANGED <<cfg, childVars, stdin, ioVars, timer, reply>>

\* What the next unit of the pipe does to the read in progress.
Completes(s) == IF ByLine(s) THEN Head(pipe[s]) = "line" ELSE buf[s] + 1 = Block
Spoils(s) == ByLine(s) /\ Head(pipe[s]) = "bad"

Consume(s) == pipe' = [pipe EXCEPT ![s] = Tail(@)]

\* The read goes on: the line or the block is not complete.
ReadMore(s) ==
  /\ pc = s
  /\ pipe[s] # <<>>
  /\ ~ Completes(s) /\ ~ Spoils(s)
  /\ Consume(s)
  /\ buf' = [buf EXCEPT ![s] = @ + 1]
  /\ UNCHANGED <<cfg, pc, childVars, stdin, wrote, counter, got, done, source, limited,
                 readError, timer, reply>>

\* Mutant: the watch is kept (G_SOURCE_CONTINUE) when the limit is reached.
TakeKeepingWatch(s, length, last) ==
  LET over == counter[s] + length > cfg.limit[s]
  IN  /\ counter' = [counter EXCEPT ![s] = @ + length]
      /\ limited' = [limited EXCEPT ![s] = @ \/ over]
      /\ got' = [got EXCEPT ![s] = IF over THEN @ ELSE @ + length]
      /\ done' = [done EXCEPT ![s] = last \/ over]
      /\ source' = [source EXCEPT ![s] = ~ last]
      /\ buf' = [buf EXCEPT ![s] = 0]
      /\ UNCHANGED <<cfg, childVars, stdin, wrote, readError, timer>>
      /\ ReturnIfDone(child = "reaped")

\* Mutant: the data is kept before the limit is checked.
TakeUnchecked(s, length, last) ==
  LET over == counter[s] + length > cfg.limit[s]
  IN  /\ counter' = [counter EXCEPT ![s] = @ + length]
      /\ limited' = [limited EXCEPT ![s] = @ \/ over]
      /\ got' = [got EXCEPT ![s] = @ + length]
      /\ done' = [done EXCEPT ![s] = last \/ over]
      /\ source' = [source EXCEPT ![s] = ~ (last \/ over)]
      /\ buf' = [buf EXCEPT ![s] = 0]
      /\ UNCHANGED <<cfg, childVars, stdin, wrote, readError, timer>>
      /\ ReturnIfDone(child = "reaped")

\* The rest of the callback after a read of length units: the counter, the
\* limit, and the list, string or signal the units go to. last: end of file.
Take(s, length, last) ==
  LET over == counter[s] + length > cfg.limit[s]
  IN  /\ counter' = [counter EXCEPT ![s] = @ + length]
      /\ limited' = [limited EXCEPT ![s] = @ \/ over]
      /\ got' = [got EXCEPT ![s] = IF over THEN @ ELSE @ + length]
      /\ done' = [done EXCEPT ![s] = last \/ over]
      /\ source' = [source EXCEPT ![s] = ~ (last \/ over)]
      /\ buf' = [buf EXCEPT ![s] = 0]
      /\ UNCHANGED <<cfg, childVars, stdin, wrote, readError, timer>>
      /\ ReturnIfDone(child = "reaped")

ReadData(s) ==
  /\ pc = s
  /\ pipe[s] # <<>>
  /\ Completes(s)
  /\ Consume(s)
  /\ Take(s, buf[s] + 1, FALSE)

\* End of file: what is buffered is returned first, the next read gets EOF.
ReadEof(s) ==
  /\ pc = s
  /\ Eof(s)
  /\ UNCHANGED pipe
  /\ Take(s, buf[s], buf[s] = 0)

\* A read that fails ends the stream. overLimit: the limit is reported as well.
FailRead(s, overLimit) ==
  /\ pc = s
  /\ pipe[s] # <<>>
  /\ Spoils(s)
  /\ Consume(s)
  /\ buf' = [buf EXCEPT ![s] = 0]
  /\ done' = [done EXCEPT ![s] = TRUE]
  /\ source' = [source EXCEPT ![s] = FALSE]
  /\ limited' = [limited EXCEPT ![s] = @ \/ overLimit]
  /\ readError' = [readError EXCEPT ![s] = TRUE]
  /\ UNCHANGED <<cfg, childVars, stdin, wrote, counter, got, timer>>

\* on_child_stdout() goes to out: after a failed read.
ReadErrorStdout == FailRead("out", FALSE) /\ ReturnIfDone(child = "reaped")

\* on_child_stderr() goes on with a length that was never set and str = NULL:
\* zero is harmless; anything else makes str[length-1] a wild access, and if the
\* service survives it the counter is off and the limit may seem reached.
ReadErrorStderr ==
  \/ \E overLimit \in BOOLEAN : FailRead("err", overLimit) /\ ReturnIfDone(child = "reaped")
  \/ FailRead("err", FALSE) /\ pc' = "crashed" /\ UNCHANGED reply

\* g_main_loop_run() returns and the context with its sources is dropped.
End ==
  /\ pc = "after"
  /\ pc' = "end"
  /\ UNCHANGED <<cfg, childVars, stdin, ioVars, timer, reply>>

-----------------------------------------------------------------------------
ChildStep ==
  \/ \E s \in Streams : ChildBlock(s) \/ ChildUnblock(s) \/ \E u \in Units : ChildWrite(s, u)
  \/ ChildReadStdin
  \/ ChildExit
  \/ HolderExit

ReadStep(s) == ReadMore(s) \/ ReadData(s) \/ ReadEof(s)

ThreadStep ==
  \/ WriteStdin
  \/ CloseStdin
  \/ OnChildExited
  \/ \E s \in Streams : BeginRead(s) \/ ReadStep(s)
  \/ ReadErrorStdout
  \/ ReadErrorStderr
  \/ End

Next == ChildStep \/ ThreadStep \/ ExitByTimeout

Spec == Init /\ [][Next]_vars

\* The thread is scheduled, its loop serves what is ready and its timer runs
\* out. (The child's output is bounded, so no source can starve another one for
\* ever and weak fairness of each is what the loop gives.)
ThreadFairness ==
  /\ WF_vars(WriteStdin) /\ WF_vars(CloseStdin)
  /\ WF_vars(OnChildExited)
  /\ WF_vars(ExitByTimeout)
  /\ \A s \in Streams : WF_vars(BeginRead(s)) /\ WF_vars(ReadStep(s))
  /\ WF_vars(ReadErrorStdout) /\ WF_vars(ReadErrorStderr)
  /\ WF_vars(End)

\* A child that ends by itself unless it is kept waiting in a write, and so do
\* its descendants.
ChildFairness ==
  /\ WF_vars(ChildExit)
  /\ WF_vars(HolderExit)
  /\ \A s \in Streams : WF_vars(ChildUnblock(s))

FairSpec == Spec /\ ThreadFairness
CooperativeSpec == FairSpec /\ ChildFairness

-----------------------------------------------------------------------------
(* Properties.                                                             *)

\* Every variable keeps its type; the watch of a stream is attached exactly as
\* long as the stream is not done.
TypeOK ==
  /\ cfg \in Configs
  /\ pc \in {"stdin", "loop", "after", "end", "crashed"} \cup Streams
  /\ child \in {"running", "zombie", "reaped"} \cup Streams
  /\ exit \in {"none", "ok", "error", "killed"}
  /\ holder \in BOOLEAN
  /\ stdin \in [left : Nat, pipe : Nat]
  /\ pipe \in [Streams -> Seq(Units)]
  /\ wrote \in [Streams -> Nat]
  /\ buf \in [Streams -> Nat]
  /\ counter \in [Streams -> Nat]
  /\ got \in [Streams -> Nat]
  /\ done \in [Streams -> BOOLEAN]
  /\ source \in [Streams -> BOOLEAN]
  /\ \A s \in Streams : source[s] = ~ done[s]
  /\ limited \in [Streams -> BOOLEAN]
  /\ readError \in [Streams -> BOOLEAN]
  /\ timer \in {"off", "armed", "fired"}
  /\ reply \in {"none", "ok", "error", "killed", "stdout limit", "stderr limit"}

\* return_value_and_free_child_data() frees the ThreadFuncParam that three of
\* the four callbacks use: when it has run, none of these can be dispatched
\* again, not even in the same iteration of the loop.
NoUseAfterFree ==
  pc \in {"after", "end"} => child = "reaped" /\ \A s \in Streams : ~ source[s]

\* What the callers are told is true: a reply that reports no limit carries all
\* that was written to the streams it covers, by the child or a descendant,
\* unless reading failed; and no output beyond a limit is passed off as whole.
CompleteOutput ==
  reply \in {"ok", "error", "killed"} =>
    /\ reply = exit
    /\ \A s \in Streams :
         Enabled(s) /\ ~ readError[s] => got[s] = wrote[s] /\ wrote[s] <= cfg.limit[s]

\* The data kept for a reply never exceeds the configured limit.
LimitRespected == \A s \in Streams : got[s] <= cfg.limit[s]

\* Methods whose answer cannot be kept back by the blocking reads: at most one
\* stream, no stdin, and a timeout or room for all output.
Served ==
  /\ ~ (Enabled("out") /\ Enabled("err"))
  /\ ~ cfg.stdin
  /\ cfg.timeout \/ \A s \in Streams : cfg.limit[s] >= MaxOut

\* A call of such a method is answered if its child does not hang by itself:
\* whichever of the callbacks comes last, one of them answers. A failed read is
\* excused where it may crash the service, and where no timeout ends a child
\* that goes on writing to the stream nobody reads any more.
AnswerArrives ==
  Served => <>(\/ reply # "none"
               \/ pc = "crashed"
               \/ ~ cfg.timeout /\ \E s \in Streams : readError[s])

\* executor.md: "The `timeout` field sets the time interval after which the
\* SIGKILL signal will be sent to the process spawned to execute this method."
\* A timeout that was set fires, unless the call is over.
TimeoutFires == (timer = "armed") ~> (timer = "fired" \/ reply # "none")

=============================================================================
