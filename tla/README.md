# A TLA+ verification of the Alterator services

The repository is the Alterator monorepo: a D-Bus service (`alterator-manager`)
with loadable modules that turn method calls into child processes, the agents
and clients around it, and many backends (scripts) it runs. This directory
models the service and its modules, where threads, callbacks, child processes,
timers and restarts meet, and `alteratorctl`, the client through which an
administrator changes the machine; TLC checks the models on small instances and
TLAPS proves the central ones for all instances.

All paths below are relative to `src/subprojects/`.

## The system

| part | state | operations | meets |
|---|---|---|---|
| service process (`alterator-manager/src/main.c`, `..._backend_monitor.c`, `..._interface.c`) | main loop, `backends_changed` | dispatch of calls, one-second timer, exit, restart by systemd | modules (`is_module_busy`), bus, file monitor |
| manager interface (`..._default_interfaces.c`) | none | `GetObjects` and its kin, `Get/Set/UnsetEnvironment`, one thread per call | sender environment, polkit |
| sender environment (`..._sender_environment.c`) | `sender_environment_data`: a table per D-Bus client | lookup/creation, removal of absent clients every ten minutes | handler threads, executor (`make_environment`), `ListNames` |
| executor (`alterator-module-executor/executor.c`) | `methods_table` with thread counters and limits | one thread and one child process per call, reply | polkit, child process, pipes, timer |
| remote (`alterator-module-remote/remote.c`) | `subtrees_info_table`: loop and polkit agent of each connection | `Connect`, `Disconnect`, `GetConnections`, forwarded calls, password dialogue | ssh, remote bus, remote-polkit-agent |
| backend3 (`alterator-module-backend3/backend3.c`) | `backend3_table`: one child per legacy backend | one call at a time per child (try-lock), timeout | child process, pipes |
| backend files (`..._backends.c`, `make_and_save_introspection` of the modules) | tables built at start-up | load, validate, precedence | modules |
| remote-polkit-agent | an authentication session | JSON dialogue on stdin and stdout | remote module, polkit |
| `alteratorctl`: application (`alteratorctlapp.c`, `...gdbussource.c`, `...moduleinfoparser.c`, `...common.c`) | `names_by_dbus_paths`, exit code | dispatch to a module, D-Bus calls, lookup of names and paths | service, its own modules |
| `alteratorctl`: manager, editions, systeminfo | none that lasts | queries, `editions set` | application |
| `alteratorctl`: diag | exit code, list of tests | lists, runs and reports on two buses | diagnostic tools |
| `alteratorctl`: packages, and `apt-wrapper` of the backend | `check_apply_result`, the exclude list | rpm, apt, repo; plan, question, transaction | apt, other administrators |
| `alteratorctl`: components | catalogue, trees, base section | lists, status, install, remove | packages, editions, systeminfo |
| `alteratorctl`: services | `json`, `play_plan`, status, selected tests | deploy, configure, start, ..., diagnose, playfiles | service backends, diag, other clients |
| graphical clients (`adt`, `alt-*`, `alterator-explorer`) | what they show | calls over D-Bus | service |
| backends, services, diagnostics, data | files of the system | scripts run by the executor | executor |

What is hard here: every executor call is a thread that races with the main
thread over the counters; the thread of a call has a loop of its own whose
callbacks read *blocking* pipes; the reply, the counters and the freeing of the
parameters happen in whichever callback comes last; the process ends by itself
when backend files change; the environment table is shared without a lock; the
threads of the remote module check a name and use it much later; the calls of a
legacy backend share one child process with a thread and a loop of its own.

The client is a single thread, and hard for other reasons: every one of its
calls may fail, and each failure takes a path of its own to the exit code; what
a call has read (a status, a plan, a list of tests, a path) is used after later
calls, when another client or administrator may have changed it; a transaction
is computed once for the user to accept and once more to be executed; and the
JSON the user accepts is still written to before it is sent.

## Modules

### `ExecutorThreads` - the process and its threads

State: whether the process is up, its main loop has quit (and which handlers
were ready in that last iteration), the flag of the backend monitor, the
position and the reply of every call, and the three thread counters of the
executor. `uncounted` is the call whose thread `handle_method_call()` has
started (executor.c:1474) but not yet counted (1476-1482).

One action per stretch of code between two points at which another thread can
be seen: `RejectCall`/`StartThread`/`CountThread` are `handle_method_call()`,
`Authorize`, `ParseArgv`, `Spawn`, `ReturnValue` and `Release` the exits of
`execute_command_line()`, `ChangeFlag` and `BackendsChanged` the monitor,
`Exit` the end of `main()`, `Restart` systemd's `Restart=on-success`. Calls of
the manager interface (`StartHandler`, `HandlerReply`) have threads nobody
counts. Other modules' busy tests are left out here: all they may do is postpone
the exit, but the one of backend3 does more (see `Backend3`).

The making of the command line, the lookup of the method and the contents of a
reply are abstracted; the thread's work while its child runs is the next module.

### `ExecutorService` - what the threads promise

The service as its callers see it: no main loop, no threads, no counters. A call
is idle, asked, served or over (`state`); it is refused only while as many calls
as a limit allows are served, gets one answer, and takes its place until
some time after that answer (`Reply`, `Leave`). The service stops at a moment
when it serves no call with limits, settles at that moment which calls it may
still begin (`last`), and takes only these along (`End`). `ExecutorThreads`
instantiates it: a call is "asked" until its thread starts (`StateOf`), the
process is "stopping" once its loop has quit, and `last` is the batch of that
iteration. `ServiceKept` says that the threads implement it.

### `ExecutorCall` - one call of a method

From `g_spawn_async_with_pipes()` to the end of the thread. State: the child
(running, blocked on a full pipe, zombie, reaped), a descendant that may hold
its streams, the pipes, the data read and kept, the `done` flags, the watches,
the timer, the reply. Output is counted in units: a piece of a line, a line end,
bytes that are not UTF-8. A read in progress is a state of its own (`pc` is the
stream): GLib's `read_line`/`read_chars` come back only with a whole line or
block, at end of file or with an error, and until then nothing else in the loop
is served. `Take` is what both stream callbacks do with data they have read.
After a failed read of stderr `length` is uninitialized and `str` NULL:
`ReadErrorStderr` chooses among what may follow, a crash included.

### `SenderEnvironment` - variables of D-Bus clients

The two-level table (`table` points into `heap`, as the hash table holds
references), one handler thread per call with the steps lookup, creation and
operation, and the ten-minute check: ask (`CheckSenders`), the bus answers with
the names of that moment (`AnswerListNames`), removal (`RemoveAbsentSenders`).
In system mode the answer and the method calls come through one connection, so
they share the `inbox` and keep their order; with `--user` the answer comes
from the system bus, whose names have nothing to do with the senders.

### `Remote` - connections to other machines

A thread per `Connect` and `Disconnect`, the table by name, the registered
subtrees and the agent of each connection. Every step that may fail on the
network is an action with both outcomes. `RunLoop` forgets a quit that came
before it, as `g_main_loop_run()` does. A double free, and a failed read of the
agent's output, may crash the service or go unnoticed. `raced` is a ghost: names
two Connects have tried to use at once, between the check of the name
(remote.c:1510) and its entry (1664).

### `RemoteAuth` - forwarded calls and the password dialogue

A connection that is established (how it comes and goes is `Remote`). A client's
call is forwarded to the remote machine (`remote_handle_method_call`), where
polkit lets it pass, refuses it or asks remote-polkit-agent. The agent has one
thread (`at`): its loop, or `getc()` on a line the service has still to send,
during which nothing else is served. On the service's side the thread of the
connection reads a line (`local` is "read"), asks the user ("ask"), answers a
request ("answer") or shows a result ("show"). Lines travel in `toAgent` and
`toService`; each carries the authentication it is for, which the real ones do
not, so that the properties can tell whose password arrives where. The link may
break at any time, PAM may ask and tell in any order, polkit may take its
request back.

Texts are reduced to two traits: a comma in a name, at which the list of users
is split, and characters outside ASCII, for which `write_string_to_fd()` writes
too few bytes and cuts off the end of the line. Ghosts: `typed` is what the user
typed for each call, `spent` the authentications in which something came before
the request that is answered.

### `Backend3` - legacy backends

The main thread (`handle_method_call()` and the timer with `is_module_busy()`),
a thread per call (`run_method()`), a child process per backend with the thread
of its loop (`backend3_thread()` and the callbacks), all over `backend3_table`,
the child's mutex and its `method_data`. A ChildData is named by the call that
created it. The critical sections the main thread and the child's thread hold
for a moment are single steps; a try-lock may meet them (`MaybeLocked`).

Two facts about GLib carry the module. `g_main_loop_run()` forgets an earlier
quit (`RunLoop`), and quitting a loop does not stop the iteration in progress:
after `on_child_exited()` the output callback of the same iteration may still
run (`last`). Use of freed memory goes on with the old contents, and the process
may crash at any time after it.

Ghosts: `lost` are calls whose loop was quit before it ran, `missed` calls that
entered a child whose loop had quit or not signalled yet, `uaf` the children of
which freed memory was used. The properties say that nothing goes wrong outside
these races. The child (external) answers the oldest request, whole or in two
parts, and sends only well-formed replies.

### `CtlCommon` - the frame of alteratorctl

A behaviour is one run of the program with one argument vector (`argv`). `at`
names the function that runs next, `ret` is the exit code on its way, `results`
is `ctx->results`, `shown` what was printed and `done` what was changed. A
function of the source is an action; a function that only computes is an
operator. A D-Bus call is answered when it is made, by any of its outcomes, so
that two calls of one command may see two different services. The table of
names (`names`) may be missing, filled or dangling: an entry without a name
frees it and keeps the pointer (`names_use_after_free`).

### `CtlQuery`, `CtlDiag`, `CtlPackages` - four kinds of commands

`CtlQuery` has the modules manager, editions and systeminfo. `CtlDiag` runs the
tests of a tool on both buses (`buses`, `todo` are its two loops, `ran` what the
tools really did). `CtlPackages` has the plan that the user sees (`plan`,
`agreed`), the words of the request, and the wrapper's protection of manually
installed packages; what apt resolves is any transaction that does what is
asked, and `OtherAdministrator` may change the marks once in between. `lost`
are the manually installed packages that a transaction has removed.

### `ComponentCatalog`, `CtlComponents` - components

`ComponentCatalog` is what the code computes from the entries: which packages
of a component apply to this architecture, language and desktop, the status of
a component, the tree of categories and the summary of a category. Links are data here: an
element is linked or not, `Below` is what hangs under an element through linked
categories, `section_result` what hangs from a category at the top. `Below` is
the least closed set and not a walk over parents, so that chains that break off
and cycles, which entries may contain, have a meaning and proofs need no
recursion.
`CtlComponents` has the commands: `env`, `own` and `base` are what was read for
an installation or a removal, `tree` and `left` the loop over the sections. An
installation goes through the actions of `CtlPackages`, as in the code.

### `Ctl` - the program

Composes the modules above into one next-state relation.

### `ServiceJson`, `ServiceParams`, `CtlServices` - services

The parameters of a service, as functions. `ServiceJson` has the values and the
schema of the entry, and what looks at one level of them: contexts, validation,
passwords, cells of the table, resources and their conflicts. `ServiceParams` has
what follows the nesting, with RECURSIVE operators: initial values, merging of
the deployed parameters, filtering by context, reading of `--path=value` words,
the inside of a value that is validated, the table that is shown. A JSON value is
a record with one field, named after its kind; words are model values with the
number they stand for (`Numerals`).
The operators of `ServiceParams` that `CtlServices` and `ServiceJson` use
(`ValidateInside` there) are CONSTANT operators, to which `CtlServices.cfg` gives
their definitions: what is proved of the commands then holds whatever these do.

`CtlServices` has the commands and playfiles. `json`, `play_plan`, `status` and
`is_dbus_call_error` are fields of the module; `todo` and `phase` are the loop
over tests that runs, before or after the deployment or for `diagnose`;
`service` is the service itself, which another client may change once
(`OtherClient`, `meddled`). Ghosts: `offered` is the JSON of which the user was
shown a table, `consented` and `overruled` are the two answers, `sent` the
requests, `ran` and `due` the tests that ran and those that ought to.

### `ServiceCommand` - what a command promises

An abstract specification of three variables: consent, the requests made, and
whether the process is over. A request with parameters needs consent, there is
one at most, only a start may follow it, and only after a deployment that
succeeded (`CommandSafety`); the command ends (`CommandSpec` adds `<>over`).
`CtlServices` instantiates it (`consent` is `consented`, `requests` are method
and success of `sent`, `over` is `at = "end"`) and has `CommandSpec` as the
property `CommandKept`.

### MC modules and proofs

`MCExecutorThreads`, `MCExecutorCall`, `MCRemote`, `MCRemoteAuth`, `MCBackend3`,
`MCCtl` and `MCCtlServices` define instances. The theorems are in
`ExecutorThreadsProofs`, `ExecutorCallProofs`, `SenderEnvironmentProofs`,
`RemoteProofs`, `RemoteAuthProofs`, `Backend3Proofs`, `CtlProofs` and
`CtlServicesProofs`, each of which extends the module it is named after.
Definitions commented "Mutant" are wrong on purpose: each is a plausible slip
in the code, put in place of the definition below it to see that a property
notices.

## Runs

| run | instance | checks |
|---|---|---|
| ExecutorThreads | 3 calls, 2 methods (limits 1 and 2) of one interface (limit 2), 1 manager call, 1 change; fair | types, counters, limits, stop only when idle, no accepted call lost, refusals justified; refinement of `ExecutorService`; every call ends, a change stops the service |
| ExecutorCall | all 48 configurations, pipes of 1 unit, blocks of 2, 3 units per stream, stdin of 2, forks | types, no use after free, whole output, limit; the answer arrives |
| ExecutorCallTimeout | configurations with a timeout and no stdin | *violated*: the timeout fires |
| SenderEnvironment | 2 senders, 2 calls, 2 values, a valid and an invalid name, the bus name may vanish once, both modes; fair | acknowledged is visible, present are kept, absent are removed |
| Remote | 3 Connects and a Disconnect of one name, a Disconnect of a bad name; fair | the entry is the served connection, no stale entry, dead connections are taken down |
| RemoteFree | the same | *violated*: one free |
| RemoteAuth | 2 calls, 3 lists of users (plain, one name outside ASCII, one with a comma), 3 passwords (right, wrong, outside ASCII), 2 requests or messages of PAM; fair | what PAM gets was typed for it, passwords are forgotten, authentications end |
| Backend3 | 2 calls of one backend, 1 call of an unknown one, 1 change; fair | one process per backend, own reply, second answers and freed memory only at a child's end, calls end |
| Backend3Stop | the same | *violated*: a change stops the service |
| Ctl | some 90 argument vectors, 3 packages, 4 components (one a draft, one without packages), 3 categories (nested, one dangling), 2 sections, 2 tests on 2 buses; fair | manual packages go only when agreed, failed tests are remembered, categories are summaries, filters keep what is asked, accepted is applied; every command ends |
| CtlServices | 8 parameters of every type, 3 resources, 2 tools, commands of all subcommands, playfiles; fair | requests meet the state they are for, diagnostics come first, what is sent was offered, required is sent, success means done; refinement of `ServiceCommand` |
| CtlServicesAll | `diagnose -a` with two tools | *violated*: all tests run |

Why the bounds are enough. The second call of a method meets its limit, with
the thread of the first not yet counted, running or just released, and the third
call meets the interface's limit as well; that the interface's limit alone
refuses a call takes four, and is left to the theorems, which hold for every
instance. Three units of output are more than a
pipe and more than a block hold, so that reads are partial and the child blocks;
the limits are one below the output and one not reached. A sender has one call
in flight: two senders and two calls let a late handler meet the removal of its
sender. Three Connects let a third one meet what a race of two has left.
A second call can be forwarded at any moment of the first one's authentication,
and two requests or messages of PAM let a message come before, between or after
the requests.
Two calls of a backend let one of them outlive the child it was made for, meet
the other one's child at any point of its life, and find it busy or gone.
The commands of alteratorctl share no state between runs, so a bound on one
argument vector at a time loses nothing; there is a vector for every subcommand
and for every option or kind of argument that takes a path of its own. Two
tests and two buses let a success follow a failure inside a loop and across
loops; three packages let a transaction remove one that is asked for, one that
is agreed to and one that was marked since. One interfering step of another
client can fall between any two calls of a command. One answer of a systeminfo
description may be odd (`OddAnswers`): the answers do not depend on each other,
and each of them is the odd one in some behaviour.

The passing runs of the service allow deadlock since clients may stop calling;
in those of alteratorctl a state without a step is an error, as only `Ended`
may be the last one.

### Fairness

* `ExecutorThreads`: weak for the bus, the main loop's handlers and timer, the
  threads, their children, the exit and systemd. Clients and file changes are
  free. The number of calls is finite: clients that never let the service idle at
  a tick of its timer can put off the restart for ever, and the property does not
  say otherwise.
* `ExecutorCall`: weak for each step of the thread. A child that ends by itself
  is assumed only where that is the question (`CooperativeSpec`), never for the
  timeout.
* `SenderEnvironment`: weak for the bus, the timer, the main loop and threads.
* `Remote`: weak for threads whose network calls return. Agents need not die.
* `RemoteAuth`: weak for the two threads and for PAM, which decides in the end;
  the calls of the password agent return or time out, and polkit refuses what an
  agent that died was asked for. Links need not break, nor clients call.
* `Backend3`: weak for the main thread, the timer, the threads and the method's
  timeout. A child need not answer, but one that has begun a reply completes it
  or ends; otherwise the blocking read would hold the timeout, as it does in
  `ExecutorCallTimeout`.
* `Ctl`: weak for the step of the program: a process runs, its D-Bus calls have
  timeouts and its questions are answered. The other administrator is free.
* `CtlServices`: the same, written out as `Running` (the program takes steps for
  ever or ends), since a step is possible everywhere but at the end.

### What the violated properties show

* **The timeout may never fire.** A child that writes half a line and stays
  silent holds the callback in a blocking read (executor.c:660, 703, 810); the
  timeout is served by the same loop. executor.md promises the SIGKILL.
* **A double free** of handlers_data when two Connects race (remote.c:759, 1706).
* **A busy backend3 hangs the service on a change.** is_module_busy() returns TRUE
  with backend3_table_mutex locked (backend3.c:1443); the timer's next tick waits
  for it. main.c says that the service will be stopped.
* **`diagnose -a` runs the tests of the first tool only.** The list made for it
  is taken for a selection when the second tool's turn comes
  (alteratorctlservicesmodule.c:5222), whose own tests never run; the exit code
  is 0. The help says "Run all diagnostics tests in current mode".

Seen in the models of the service and not made runs: a failed read of stderr is
undefined behaviour, as on_child_stderr() goes on after the error
(executor.c:825-829) where on_child_stdout() does not; with `--user` the wrong
bus is asked for the senders (sender_environment.c:135), and a connected client
loses its variables; a child of backend3 that ends at once leaves the main
thread waiting for a loop that has come and gone (backend3.c:945-949); a client that calls again as soon as it
has its reply can be refused with "Thread limit reached.", because the reply
precedes the counters (executor.c:546-559); SIGKILL may be sent to a process id
that was reaped already (575); two calls of one sender at once may both create
its table and lose a variable (sender_environment.c:159-173); a failed
introspection leaves the remote agent running (remote.c:1632-1645);
GetConnections lists a connection before it is established (remote.c:1664); a
call of backend3 whose reply comes before its loop runs keeps the child busy until
the child ends, and is then answered again (backend3.c:740); one that meets the
next child of its backend before for_cond_signal() takes the mutex blocks that
child, itself and the main thread (439); a reply read in the iteration that has
reported the exit answers a second time, or the next caller (449-463).

Seen in `RemoteAuth`: the end of a line is cut off when a name or a password has
characters outside ASCII (remote.c:1228-1235), and the agent waits for it for
ever; a request of PAM that is not for a password is never answered (1322); a
message of PAM before the request makes the service forget the password the
user has typed, and an empty one is sent (1350); a name with a comma, as full
names of passwd entries have, spoils the list of users (836-942); a request that
polkit takes back leaves the agent waiting in `g_cancellable_disconnect()` for
the handler it is called from (polkitagentremotelistener.c:205); a forwarded
call whose time is up at the client may be executed later (remote.c:673).
`AuthenticationEnds` and `PasswordArrives` say that nothing else goes wrong.

Seen in the models of alteratorctl (files `alteratorctl<module>module.c`):

* components: without an answer of editions the base section is unknown and its
  protection is off (5772-5774), although the help promises it (2183-2187); it
  covers the component's own packages and not what apt removes with them. The
  test of the architecture is inverted (2829-2840), and so is the one of the
  markers in a simple tree (3148-3244). The exit code of a batch of statuses is
  ignored (4426-4498). Unknown desktops mean different packages for status and
  for installation.
* packages: a failed operation of rpm, apt or repo exits with 0; a reinstall
  whose plan is empty is accepted without a question.
* diag: a test that runs on both buses reports the second result only; a test
  that is not known is reported as passed; a report's exit code is ignored.
* editions, systeminfo: a nonzero exit code of the backend does not become one of
  the program; `editions set` with a path uses a NULL name; an error of a
  description releases a table as if it were a GVariant.
* services: an error of a call is kept in `is_dbus_call_error` and never
  cleared, so that an unrelated failure decides the exit code; a failing Status
  with an empty text means "undeployed"; the JSON is changed after the table was
  shown (11291, marked FIXME in the source), which `SentIsOffered` bounds to
  values of resources; the diagnostics after a configuration, which the schema of
  playfiles allows, never run; an optional parameter without a value that stands
  for a resource crashes the deployment (10961-11199), and so does an unknown
  variant of an enum (6711-6887); resources are compared only with those of the
  same name.

## Proofs

TLAPS proves each theorem for every value of the constants, from the ASSUMEs of
the module only, which say that bounds are numbers, limits positive, sets finite
where the code goes through them, special values distinct, and data of the kind
that the code reads them as: components and categories are two tables
(`TwoTables`), resources a list (`ResourcesAreListed`), and so are the deployed
services (`OtherServicesAreListed`). TLC evaluates all of them. Each proof has an
inductive invariant (`IInv`, or parts of its own like `ListInv` and `OfferInv`),
of which TLC has confirmed on the instances of the runs that it holds, and per
action a step or a lemma that keeps it. With these every safety property of
every passing run is a theorem.

| module | theorems (property in brackets where a run has one of another name) |
|---|---|
| `ExecutorThreadsProofs` | `CountersAccurate`, `LimitsRespected`, `QuitsOnlyWhenIdle`, `AcceptedSurvive`, `AnsweredAtMostOnce`, `RejectionsJustified`, `ServiceImplemented` (`ServiceKept`) |
| `ExecutorCallProofs` | `NeverUsedAfterFree`, `LimitsRespected`, `OutputComplete` |
| `SenderEnvironmentProofs` | `PresentKept`, `AckedVisible`, `OthersNotTouched` |
| `RemoteProofs` | `EntriesServed`, `EntriesNotStale`, `DoubleFreeNeedsRace`, `DisconnectsEndAgents` |
| `RemoteAuthProofs` | `PasswordsArrive`, `PasswordsForgotten` |
| `Backend3Proofs` | `OneProcess`, `OneCall`, `RepliesOwn`, `AnsweredOnce` (`AnsweredTwiceOnlyAtExit`), `UnsafeAfterExit` |
| `CtlProofs` | `FailuresRemembered`, `RemovalsAgreed`, `AcceptedApplied`, `ListInvariance`, `SummariesPrinted` (`CategoryIsSummary`), `AskedPrinted` (`FilterKeepsAsked`), `MarksInstalled`, `ChangesAgreed` |
| `CtlServicesProofs` | `FitsState`, `DiagnosedBefore`, `SentWasOffered` (`SentIsOffered`), `RequiredWasSent` (`RequiredIsSent`), `SuccessIsDone`, `CommandImplemented` |

**The executor's threads.** The counters alone are not inductive. The invariant
adds to `TypeOK`, `CounterAccuracy` and `ThreadLimitRespected`:

* `DownIsEmpty`: a process that is down has no threads, so that a restart may
  set the counters to zero;
* `LateCallsInBatch`: once the loop has quit, every thread belongs to a call of
  the last batch;
* `RepliedIsOver`: a call has a reply exactly when it is past all places that
  answer.

At most one thread is uncounted, since only the main thread starts threads:
that makes a limit check by counters that lag behind sound.

`ServiceImplemented` is the refinement, step by step (`ServiceStart`,
`ServiceSame`, `ServiceStep`). Three of its steps need more than their actions
say. A refusal must find the limit used up by calls that are served: the
counters that `RejectCall` reads are those calls by `CounterAccuracy`
(`FullWhenReached`). A thread that starts must find room, though the thread
before it may not be counted yet. And the quit of the loop must find no call
served, which `is_module_busy()` concludes from one global counter.

**One call**, for any configuration, pipe and block size and any bound on the
output. The invariant adds to `TypeOK`, `NoUseAfterFree` and `LimitRespected`:

* `CounterCovers`: no more is kept than was counted;
* `Conservation`: all that was counted is kept and written = kept + buffered + in
  the pipe, as long as the stream has met neither its limit nor an error;
* `DrainedWhenDone`: a stream done without error or limit is at end of file;
* `ReplyIsStatus`: the reply is the status the flags call for.

Along these, `CompleteOutput` follows: an answer that reports no limit has all
the output.

**Sender environment.** That a late list of names takes no table of a connected
sender away depends on the one connection both come through: `ListKnowsTheServed`
says that a sender which is connected and not in a list that waits in the inbox
has no table, no thread past its start, and calls behind the list only.
`TablesUnshared` says that no thread works on another sender's table, and gives
`OthersNotTouched`: with no lock around the table of tables, a call still
changes nothing that modules see of others. `AckedVisible` needs an assumption,
`OneAtATime`: a sender waits for the answer to a call before the next one, as in
the run. It is false otherwise, as two handlers of one sender may both create
its table (see above). The invariant for it, `Orderly`, says that the
one thread of a connected sender works on the table the sender has.

**Remote.** `OneUnderway` and `EntryIsKept` say that unless two Connects raced
for a name, one is under way and has its entry from `AddInfo` to `RemoveInfo`;
`SubtreeIsServed` that a subtree is registered only for a loop that runs or will.
`NoStaleEntry` needs no such exception. `DoubleFreeNeedsRace` is the other half
of the run `RemoteFree`: the double free it shows needs a race. And a Disconnect
that answers TRUE has ended the agent of the connection that serves the name,
although it looks the name up twice.

**Authentication.** Both properties rest on the discipline of the two pipes,
which the lines themselves do not carry: who asks a question writes nothing until
the answer comes (`QuestionIsLast`, `QuestionIsHandled`, `AnswerIsAwaited`), so
that an answer meets the question it is for. On it rests `PasswordIsKept`, that
from the user's answer to PAM's first request the password is the one of this
authentication and no line that makes the service forget it is under way, and
`WillBeForgotten`, that the password of an authentication that is over waits for
such a line. PAM may send any number of messages and requests.

**Backend3.** Per child (`ChildOK`, `OwnerOK`, `RequestOK`) and per call
(`CallOK`, `AnswerOK`): the mutex is held from the entry of a call to its
leaving, and `method_data` is that call; a call leaves a living child only after
its reply was read, so that a child that lives has the request of the call inside
it and no other; and a process is reaped before its loop ends, which is before it
leaves the table. A step is about one call and one child (`About`), and leaves
the invariant of the others alone (`OtherCall` and its like for children).

**alteratorctl.** A command stays in one module and its functions run in the order
of `at`, so that the invariant says per module what is known before which
function: nothing is agreed or lost before the user has answered; when the
transaction is made, what was agreed is what was on the screen, and what the
request removes is the user's words (packages) or part of the plan (components).
`ChangesAgreed` says that nothing but rpm and an agreed transaction changes what
is installed.

**The list of components**, for every catalogue, also one with categories that
are missing or hang in a circle. `ListInv` says that the tree read is a function
from known elements to statuses that stays as it is while sections are printed,
that nothing is printed before, and that each line printed so far has the
status its own section and that tree give it (`LineSummary`): what was printed
for other sections leaves no trace. `CategoryIsSummary` is then a
lemma about trees: every category is summed up from its children only, and its
summary still describes all components below it (`Summaries`). An induction over
the depth would go beyond the prover; the proof takes a least counterexample.
Although the entries may hang in circles, nothing in the tree of a section is
below itself (`NoCycle`), so that of the categories with a wrong summary one with
the fewest elements below it has a child with a wrong one and fewer
(`SmallestSet`). `SummedUp` does the same for the fold over the children.
`FilterKeepsAsked` follows: a category above an installed component is not
"not installed", so that no cut removes the branch.

**Services.** By `at` again: which command may be where and with what consent
(`PlaceInv`), what was sent and done so far (`SentInv`), the state in which the
service still is unless another client was there (`FitInv`), and that a required
test has run or is ahead (`DiagInv`). That a loop over tests covers all tests that
are due (`RunListsCover`, `SelectionCovers`) needs the tools and tests to be
finite, which `ToolsAreFinite` assumes.

`OfferInv` is about the JSON itself: from the validation to the request it is what
was offered, but for parameters that were missing and stand for a resource, each
with the value of that resource (`Adds`), and it has what the command requires.
Both searches for conflicts write into the JSON while they go through the
resources; that each keeps these facts (`SearchWithinAdds`, `SearchAdds`) is an
induction over the list, done by the least index at which they would fail
(`LookUpLoop`, `CompareLoop`, `ServicesLoop`). Of the CONSTANT operators nothing
is assumed: what they do to nested values happens before the table is shown.

`CommandImplemented` is the refinement:
initial states map to initial states of `ServiceCommand` and every step to one of
its steps or a stutter, for every service, entry, playfile and answer.

Only model-checked are the liveness properties, as the prover has no fairness or
ENABLED: `EveryCallEnds`, `ChangeStopsService`, `AnswerArrives`,
`AbsentAreRemoved`, `DeadIsTakenDown`, `AuthenticationEnds`, `CallEnds`,
`CommandEnds`, and the `<>over` of `CommandKept`. What the RECURSIVE operators of
`ServiceParams` compute (merging, filtering, the reading of words, the inside of
nested values) is evaluated by TLC in the run `CtlServices`; the theorems hold
whatever they compute, and say nothing of it.

## Not modelled

Concurrent operations inside one GHashTable (unsynchronised memory accesses),
out-of-memory paths of GLib, logging. Start-up code (backend files, module
loading, polkit and D-Bus set-up) runs once and is planned as pure operators.

Of alteratorctl: the parsing of TOML and JSON text is reduced to whether it
succeeds and which keys there are; layout, colours, translations and paging of
what is printed are left out; locking of terminal echo for passwords is not
modelled. Its `remote` module is not registered in `main.c`, so that no command
reaches it, and some functions of systeminfo (512-585, 1668-1724) are never
called.

Graphical clients (presentation over the same D-Bus calls), backend scripts,
services, diagnostics and data are listed with reasons in `PROJECT.json`.

## Plan

1. An argument for `AckedIsVisible` with several calls of one sender in flight,
   but for the variables two handlers set at once.
2. `ExecutorReply` and the method table: defaults and ranges of limits and
   timeout, the reply for each combination of outputs, as operators checked
   against what executor.md says; precedence of backend files.
3. The scanner of backend3 replies (`check_stdout_chars()`, backend3.c:315) as an
   operator, against a reference definition of a complete reply.
4. Composition: the restart of the service with the sender environment, whose
   variables it forgets (sender_environment.c:145), and with the busy tests of
   remote and backend3.
5. The test runs of `adt` and the transaction flow of `alt-components`, against
   the same promises as `Ctl`.
