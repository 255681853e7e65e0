# Verification of dspy-interpreters

TLA+ models, TLC runs and TLAPS proofs for `dspy_interpreters`, a library of
interchangeable `CodeInterpreter` sessions for DSPy. Paths are relative to the
repository; `subprocess.py` and the like live in `src/dspy_interpreters/`.

## 1. The system

A *session* is a host object with `start()`, `execute(code, variables)` and
`shutdown()`. `execute` runs Python *guest code* in a namespace that lives as
long as the session. Guest code may call *host tools*, which run in the thread
that called `execute`, and may end with `SUBMIT(...)`. The backends differ in
where the namespace lives.

| Component | State it keeps | Operations | What makes it correct |
|---|---|---|---|
| `CodeInterpreter` (dspy; exercised by `checks.py`) | open or shut down, the namespace | start, execute, shutdown | one execution at a time, in order, on one namespace; a result belongs to its call; nothing runs after shutdown |
| `SubprocessInterpreter` (`subprocess.py`) | `_ended`, `_process`, `_responses` (queue), `_lock`, a daemon reader thread, two pipes | start, execute, shutdown, `_send`, `_receive`, `_handle_tool`, `_terminal`, `_kill`, `_read_responses` | the above, plus: no worker is leaked, a dead worker is noticed, calls return |
| worker (`_subprocess_worker.py`) | the namespace, helper threads and child processes of guest code | main loop, `Session.execute`, `call_tool`, `configure`, `submit` | one line per answer, in order |
| `ModalInterpreter` (`modal.py`) | `_ended`, `_sandbox`, `_stdout`, `_execution_lock`, `_start_lock` | start, execute, shutdown, `_send`, `_receive`, `_terminal`; the worker text `_WORKER` | as above over a provider whose calls fail |
| `ExeDevInterpreter` (`exe.py`), a subclass of it | `_ssh_dest`, `_vm_name`, `_owns_vm`, `_vm_removed`, `_sandbox_factory`; `_TimedLines` | `_provision`, `_wait_until_ready`, upload and connect, `_remove_owned_vm` | machines it creates are removed, others are not |
| `IPythonInterpreter` (`ikernel.py`) | `_ended`, `_manager`, `_client`, `_server`, `_tool_requests` (queue), a handler thread per request | start, execute, shutdown, `_run_cell`, `_dispatch_tool_requests`, `_terminal`, `_cleanup` | a failed start leaves nothing behind; requests do not outlive their execution; a value belongs to its cell; calls return |
| `InProcessInterpreter` (`in_process.py`) | namespace, names of capabilities; while it executes, the process's `sys.stdout` and `sys.modules["dspy"]` | start, execute, `_submit`, shutdown | capabilities of one execution do not outlive it; the process gets back what it had |
| `MontyInterpreter` (`monty.py`) | wrapped external interpreter; the terminating SUBMIT in `self.tools` | source rewriting, execute, `_normalize_submission`, shutdown | as the protocol; SUBMIT reaches its own execution |
| Conformance checks (`checks.py`, `models.py`, `pytest.py`) | a report | fixed sequences of calls | broken sessions are told from good ones; every session is shut down |
| Benchmarks (`benchmarks.py`, `benchmark_summary.py`), scripts | samples | timing, tables | as many samples as asked for; summary statistics |

Interaction: host threads share a session object; the host and a worker exchange
one JSON object per line over two pipes; the reader thread moves the lines of a
subprocess worker into a queue; a host tool may call back into the session;
`ExeDevInterpreter` calls its base class and the provider's control command; the
checks and benchmarks call any session and promise to shut it down.

What is hard here: `shutdown` and `start` take other locks than `execute`, or
none; results carry no run number, so only the order of lines ties a result to a
call; guest code may die, stay silent, leave threads or children behind, or
print into the protocol stream; `KeyboardInterrupt` passes every
`except Exception`; a timeout races with a late answer; a provider call may fail
before or after it took effect. `PROJECT.json` lists these hazards line by line.

## 2. The modules

    CodeInterpreter            the contract: an atomic session
        ^ implemented by
    SubprocessInterpreter      host side          ModalInterpreter   host side
        | extends                                     | extends
    GuestWorker                the worker and its two pipes

    ExeDevInterpreter          the virtual machine around a Modal-style session
    IPythonInterpreter         host, kernel and tool server; implements CodeInterpreter

    HostProcess                executions of all backends inside each other
        | extends
    GuestNamespace             what an execution binds, what SUBMIT accepts

    Conformance                the checks and benchmarks, and the sessions they use

    GuestProofs                        lemmas about GuestWorker
        | extends
    SubprocessProofs, AnswerProofs     theorems about SubprocessInterpreter
    ModalProofs, IPythonProofs         theorems about ModalInterpreter, IPythonInterpreter
    ExeDevProofs, HostProofs           theorems about ExeDevInterpreter, HostProcess
    ConformanceProofs                  theorems about Conformance
    MCSubprocess, MCModal, MCExeDev, MCIPython, MCHostProcess, MCConformance
                               small instances for TLC

**CodeInterpreter.** Variables `open`, `active`, `latest`, `answer`; an execution
begins, takes effect on the namespace at most once and while its caller waits,
and returns its own result or raises.

**GuestWorker.** Per worker: a life cycle (`worker`), the run whose code it last
took (`job`), which guest thread awaits which tool response (`awaits`), a child
process holding the pipes (`child`), and the pipes as sequences of lines
(`stdin`, `stdout`). `Protocol` is what the worker's own loop does; `Whim` is what
guest code or the operating system may do at any time: finish, die, call a tool,
start a child, let it print. Helper threads of guest code may also call tools,
and then read the same stdin as the main loop, so either may take a line meant
for the other, as in the code. A line keeps its type and a number; the number of
a run is a history tag that the code does not send, only the properties look at
it. Guest values, variables and the text of messages are left out.

**SubprocessInterpreter.** `pc[t]` is where host thread `t` is between two shared
accesses. Every read or write of `_ended` and `_process` that another thread can
come between is an action of its own (`StartCheck`, `Attach`, `Spawn`, `Send`,
`Await`, `Detach`, ...); code between two of them is part of the first.
`handle[t]` is the local `process` of `_send` and `_kill`; `frame[t]` says which
call an exception reaches: an `execute` or `start` ("call"), the `try` block of
`shutdown`, or its last `_kill`. The Python semantics that matter are modelled by
what they do: `stdin.close()` flushes first, raises again for a line that failed
before and closes the stream all the same (`CloseStdin`, `unflushed`);
`stdout.close()` waits for the stream lock that a blocked reader holds
(`CloseStdout`); a reader that comes back to a closed stream dies without its end
marker (`ReaderLoop`). `execution_timeout` is a possible step whenever the queue is
empty, which covers every timing. `Interrupt` strikes in the three waits and in host
tools: from the queue or a tool it leaves the session open, from the wait for the exit
in `shutdown` (subprocess.py:203) it leaves `_ended` set and the worker alive (`spared`
remembers which), from the one in `_kill` (subprocess.py:118) the streams unclosed.

**ModalInterpreter.** The same scheme with two locks, no reader thread, and a
provider: creating a sandbox, writing to it and terminating it may each fail
(`CreateFails`, `SendFails`, `Faults`), and each may be interrupted (`InterruptWait`,
`InterruptSend`, `InterruptEnd`). Reads come from `self._stdout` and have a
deadline only when `Timed`, as with the `_TimedLines` of exe.dev. `_WORKER` speaks
the protocol of `_subprocess_worker.py`, so `GuestWorker` serves both. The variable
`setting` is chosen at the start from `Settings` and never changes; it says what this
session is exposed to (overlapping calls, deadlines, a failing provider,
interrupts, children of guest code), so that one run covers several of them and each
property names the settings it needs.

**ExeDevInterpreter.** The machine around the session: `new` may fail with or
without having created a machine, may answer badly, the machine may never become
ready, the session inside may fail to open, `rm` may fail with or without effect.
The session is reduced to `ended` and `sandbox`. `Init` covers what `__init__` accepts: a
destination with or without a name, `owns_vm`, a `process_factory` with either. With
`owns_vm=False` and no destination (exe.py:230) a machine is provisioned and kept: that is
what the caller asked for. `Interrupt` reaches every call of the provider, `rm` included.

**IPythonInterpreter.** One host thread (concurrent and reentrant use is documented
as unsafe, README.md:199), the kernel, and the handler threads of the tool server.
`pc` walks through `start` (`Check`, `OpenServer`, `Launch`, `AwaitReady`), the
bootstrap cell and the cell of the execution (`Encode`, `Submit`), the loop of
`_run_cell` (`Dispatch`, `FinishTool`, `Poll`, `TimedOut`) and `_cleanup` (`StopChannels`,
`ShutdownKernel`, `CloseServer`). `shutdown_kernel` may raise, which is swallowed and leaves the
kernel alive (`Unkillable`), and an interrupt of `_cleanup` skips the rest for good, since
`_ended` is set; `lost` remembers what was skipped. Cells carry the
message id that the code compares (`Foreign`). A handler may give up (`GiveUp`) only
when its wait can be over: the request of the cell under way came after the
deadline of `_run_cell` was set, and outside of a tool the host looks at the queue at
once. The kernel and ZMQ are external: channels are FIFO, a cell publishes a
result, an error or nothing, then the idle status; guest code may display, call
tools, leave threads that do, or kill the kernel. Values are the number of the
cell they come from; tokens and JSON are left out. `setting` works as for Modal:
with or without guest threads, interrupts and a kernel that cannot be killed.

**GuestNamespace.** Operators only. `Bind` is the namespace in which the code of an
execution starts: the workers remove the old tools, bind the new ones and then the
variables; in process the variables come first. `Submitted` is what each of the
five definitions of SUBMIT accepts of a call with positional and keyword values: in
process `inspect.Signature.bind`, in the workers `zip` with or without a check of the
length, with Monty the conversion and `_normalize_submission`. `Received` is what
becomes of a value that JSON cannot encode.

**HostProcess.** One host thread and the stack of executions it is inside of: guest
code calls a tool, and the tool may execute in any session again, replace tools and
fields, or shut sessions down. A frame keeps the locals that decide what is put back:
the stream and the module found at the beginning, the SUBMIT that was in the tools of
Monty, the fields that the worker was sent. `Served` says which calls run something:
in process the bound callables themselves, in a worker a stub whose name the host
looks up again, with Monty whatever the tools are by then. `facades` is a history variable:
the executions under way that have put a dspy module into the process.

**Conformance.** Each check is a list of statements with the outcomes it accepts and
the two positions of its `try`; one step is one statement. `Subject` is
`InProcessInterpreter`, one of the six broken variants of `tests/test_package.py` or one of
two more, for tools and for missing fields (`Defects`), and `CallFails` makes any call fail as a
provider does, or one of the assertions of `_protocol`. `Unprotected` says where such a failure
may leave a session open.
`_run_checks` is `CheckEnds`, `benchmark_interpreter` the blocks `ColdRun` and `WarmRun`.
`time_to_interactive` is the sum of three timings and left out.

## 3. Runs

Threads, workers and machines are small sets of model values; `MaxRuns`,
`MaxTools`, `MaxDepth`, `MaxFaults` and the size of `Workers` and `VMs` bound what would
otherwise grow for ever. Two runs are enough for a result to reach the wrong call, two
workers for a second namespace, two threads for every race in code whose critical
accesses involve two parties, three machines for one foreign and two provisioned
ones, three executions inside each other for one that is neither the host's nor the
innermost, two failing calls for one in the body and one in the cleanup.
When a bound is reached callers simply stop calling: except in host and conformance
`CHECK_DEADLOCK` is off because a session that ended, or whose callers stop, rests for
good.

| Run | Instance | Shows |
|---|---|---|
| session | 2 threads, 2 workers, 2 executions, 2 tool calls, timeout, children of guest code that print | `TypeOK`; the disciplines of the lock, the end and the worker (`SessionInv`); that each run's answer is in one place (`AnswerInv`); a tool runs only while the guest awaits it (`ToolAwaited`); the session implements `CodeInterpreter` (`ImplementsContract`) |
| races | 2 executors, a shutdown from the other thread at any moment, a guest helper thread | no call gets another's result (`OwnAnswer`), every call returns (`CallsReturn`) |
| guests | 1 thread that also starts and stops, 2 workers, no timeout, children, interrupts | no worker is out of reach (`NoOrphan`) or replaced (`OneNamespace`), and a dead one is noticed (`DeadWorkerNoticed`); a session that ended leaves none alive (`NoLeak`, `EndKills`) but the one whose shutdown was interrupted before the kill |
| modal_session | 2 threads, 2 sandboxes; deadlines and children, or overlapping calls, a failing provider and interrupts | `TypeOK`; no live sandbox forgotten (`NoOrphan`), one namespace (`OneNamespace`), no two readers of a sandbox (`OneReader`); with deadlines `CallsReturn`; in the first setting `NoLeak` and `ImplementsContract` |
| exe_machines | 1 starting thread, 2 that shut down, 3 machines, every combination of constructor arguments | provisioned machines that the session owns are removed or warned about (`VMsRemoved`), foreign ones are not (`OnlyOwnRemoved`), none is pulled from under an open session (`NeverPulled`) |
| ipython_session | 1 host thread, 2 executions; 3 tool calls and 3 piled-up messages; 2 and 1 with guest threads; 1 and 2 with guest threads, interrupts and a kernel that cannot be killed | `TypeOK` with no second kernel launched; an ended session leaves no kernel, channel or server, but what an interrupt or a failure of `_cleanup` kept (`NoLeak`); values are the own ones although abandoned cells go on (`OwnAnswer`); every call returns (`CallsReturn`); in the first setting a tool is begun only for the execution in progress, and once (`ToolOfCell`), and the session implements `CodeInterpreter` |
| host | 2 sessions, any backend with in process or Monty, 3 levels, 2 names, 12 calls of SUBMIT | what is printed goes to the own buffer (`OwnOutput`), the dspy module is that of the innermost execution that put one in (`ModuleRestored`), the SUBMIT of Monty is put back (`OwnRouter`); revoked tools do not run (`Authorised`); submissions have the declared fields (`SubmitExact`) and mean the same on every backend that accepts them (`Portable`) |
| conformance | 10 checks, 8 defects, cold runs 0 to 2, warm runs 0, 1 and 6, 2 failing calls | a failing call spoils only its own check and does not pass unnoticed, every defect is found by the check named for it, and `on_fail=raise` raises exactly over a failed check (`Distinguishes`); sessions are shut down (`SessionsShut`); a report has all its samples (`ReportComplete`) |

Four runs expect a violation. Each shows one disagreement between the code and
what the repository says of it; `findings` in `PROJECT.json` quotes the lines.

| Run | What happens |
|---|---|
| stale_answer | `KeyboardInterrupt` or `SystemExit` from a tool or a wait leaves the session open; the next `execute` returns the result of the interrupted one |
| broken_pipe | a worker died between two calls: `_send` fails, `_kill` flushes again, and `BrokenPipeError` replaces `CodeInterpreterError` |
| held_pipe | a child of guest code holds stdout: a timed-out `execute` waits in `stdout.close()` for as long as the child lives |
| exe_leak | a start that failed after removing its machine is retried; the second machine is never removed, silently |

All four were also reproduced with small Python programs against the library.

### What the passing runs leave out, so that the violations stay apart

- `OwnAnswer` and `ImplementsContract` of the subprocess session are checked without
  `Interrupts` (stale_answer), `CallsReturn` without `Children` (held_pipe).
- `ToolAwaited` is checked without helper threads: a helper reads the same stdin as
  the thread that called a tool and may take its answer.
- `NoLeak` of a subprocess session is checked without `Overlap`: a shutdown that
  overlaps another thread's call is allowed only in races. With it, a `shutdown`
  between the check of `_ended` (subprocess.py:49) and the assignment of `_process`
  (subprocess.py:65) finds no process and returns, and the worker outlives the
  ended session; one that overlaps the start also clears `_process` between the lines of
  another (subprocess.py:111), so that `NoOrphan` and `SessionInv` need the same
  restriction. Two threads that call `start` itself may each spawn a worker
  (subprocess.py:51): `OneNamespace` is checked with one.
- `NoLeak` and `EndKills` of the subprocess session leave out the worker in `spared`, whose
  shutdown an interrupt cut off between the shutdown line and the kill: the next
  `shutdown` returns at once (subprocess.py:197), so the code never kills it.
- `NoLeak` of the Modal session leaves out settings with interrupts for the same reason, and
  with overlap. The Modal session has the same window between the second look at `_ended` and the
  assignment of `_sandbox`. Its `CallsReturn` speaks of settings with deadlines.
- `VMsRemoved` speaks of sessions that own their machine and, after an interrupt, of the
  time after the next `shutdown`. It is checked without `BadAnswers` (exe_leak) and with one thread that
  starts. `OnlyOwnRemoved` is checked without `NameOnly`: a `vm_name` given without
  `ssh_dest` counts as owned (exe.py:223-230), and a failing `new` then removes that
  machine. A machine whose name never arrived is nobody's: `VMsRemoved` counts the
  ones whose name `new` answered.
- `shutdown` of a Modal session whose sandbox has died raises `AttributeError`
  (modal.py:312, action `StopSandbox`); no property forbids it.
- `NoLeak` of the IPython session leaves out what is in `lost`: the parts of `_cleanup` that an
  interrupt skipped (ikernel.py:293-309), and a kernel whose `shutdown_kernel` raised
  (ikernel.py:302-304). Nothing in the code comes back to them.
- `ToolOfCell` and `ImplementsContract` of the IPython session speak of the setting without
  interrupts and guest threads: an abandoned cell goes on, and its requests are
  served by the next execution. Even without them a tool may run for a guest that
  was told "host did not answer tool request": a tool that takes longer than
  `execution_timeout` lets its handler give up, guest code calls again, that handler
  gives up too, and the host begins the second tool when the first is done
  (ikernel.py:120, 211). So no property says that a tool is still awaited.
- `CallsReturn` of the IPython session has finitely many tool calls: the dispatch loop
  (ikernel.py:211) looks at no deadline between two requests. A tool server whose
  thread cannot be started is not modelled: `_server.shutdown()` would wait for ever.
- `Authorised` exempts in-process code that kept a tool under another name: a callable
  cannot be taken back. `SubmitExact` and `Portable` speak of submissions that JSON can
  encode; the others become text (subprocess) or end the session (Modal, IPython).
  `Portable` leaves out dicts and, without declared fields, keywords, which Monty takes for
  the whole submission while the others wrap or refuse them.
- That variables are bound is a theorem about the workers (`VariablesBound`) and not
  about the in-process session, which loses one that is named like a tool
  (in_process.py:61-66).
- `SessionsShut` exempts a failing factory or shutdown (`_isolation` has two sessions and one
  `finally`), the two assertions of `_protocol` between its factory and its shutdown
  (checks.py:35-36) and, in `benchmark_interpreter`, the `start` of the warm phase, which
  comes before its `try` (benchmarks.py:120): there the session stays open. The first probe
  comes before the `try` too, but `_guest_rss` catches every `Exception`.
- Threads that overlap in an IPython or in-process session are documented as unsafe
  (README.md:199, 209) and not modelled; two threads that both start an exe.dev session
  may each create a machine, of which only the last is kept.
- An interrupt strikes where a call waits, not between two statements: for the
  subprocess session in `queue.get`, in a tool and in both `process.wait` (not in the
  write to the pipe); for Modal in every call of the provider and in a tool; for exe.dev in every
  call of the provider; for IPython in `launch`, `wait_for_ready`, the poll, a tool and each wait of
  `_cleanup`. The host process itself does not
  crash: everything the session holds in memory would be gone with it.

## 4. Fairness

`Fairness` is weak fairness of what each host thread does next in a call it is in
(`Advance`), of each reader thread, and of the worker's own protocol steps: the
operating system schedules threads and processes, `queue.get(timeout)` and
`Popen.wait(timeout)` give up, host tools return. Nothing obliges guest code to
finish, a child to exit, or a caller to call. `ModalInterpreter` adds strong
fairness for taking `_start_lock`: the holder always frees it, and a thread that
waits for a `threading.Lock` that is freed again and again gets it eventually.
`IPythonInterpreter` assumes weak fairness of its one thread and of the passing of time
(`DeadlinePasses`), none of the kernel.
`CallsReturn` is then due to the timeouts of the code, and its mutants remove
them.

## 5. Proofs

All theorems hold for every set of threads, workers and machines and every bound.

**SubprocessProofs.** `TypeCorrect` needs no assumption beyond those on the
constants. The other theorems assume `Starters = {}` and `Overlap = FALSE`: the
session is used through `execute` and `shutdown`, and `shutdown` comes from the
executing thread (also from inside a host tool) or while nobody executes. Both
assumptions are needed: two direct starts can both find no process
(subprocess.py:51), and an overlapping shutdown leaks a worker (section 3). Interrupts are allowed.

`NoOrphan` and `NoLeak` are not inductive: a state in which the session has ended,
no thread is idle and nobody is killing satisfies both and can leak. `SessionInv`
adds what rules it out, in three parts. `LockDiscipline`: a call that is not a
shutdown holds the lock from its first step to its last. `EndDiscipline`: whoever
shuts down or kills does it in an ended session, whoever starts does it in an open
one, and an ended session that still has its worker has a thread about to kill
it, or had one that was interrupted before the kill. `WorkerDiscipline`: there is at most one worker, and only an ended session lets
go of it. `SessionHolds` proves it inductive, one step per action;
`NeverOrphaned`, `NothingLeaks` and `OneNamespaceHolds` follow from it.

**AnswerProofs.** `EachItsOwnAnswer` proves `OwnAnswer` under the same assumptions and
`Interrupts = FALSE` (stale_answer shows why). The protocol has no run numbers, so
the argument is about places: while the session is open, what a run leads to is in
exactly one place at a time, the execute line in stdin, the busy worker, the
result line in stdout or the one in the queue, and only while its own call waits
(`OneAnswer`). It rests on `Alone` (whoever has passed the check of `_ended` is the
only one in a call) and `Silence` (a worker that is not born says nothing; tool
requests have numbers). Together they are `AnswerInv`, inductive relative to
`SessionInv`.
`AnswersInStep` states it for the session run's `AnswerInv`.

`Implements` is the refinement of `CodeInterpreter`, under the assumptions of
`EachItsOwnAnswer`. What the contract calls `active` and `latest` is computed from the
places of threads and workers, so the proof needs to know that runs take effect in the order
of the calls. `OrderInv` has three parts. `Numbered`: the execution in progress has the last
number and no answer yet. `Unread`: a worker that may still read its stdin finds there at most
the line of that execution, and has not taken it before; this also holds after the end of the
session, until the worker is killed. `Current`: a result on its way is that of the code that
reached the namespace last. `ShownSteps` lists what a step may look like in the contract;
`GuestImplements`, `ReaderImplements` and `ThreadImplements` show which one each action is.

`ToolsAwaited` adds `Helpers = {}`. `RequestInv` says that a request of guest code is in one
place at a time, a line in stdout, the queue or the tool in progress, that the guest which
made it waits, and that what is in the stdin of a waiting guest is the answer; with a second
guest thread that is false, since either may take the answer of the other.

**GuestProofs.** What a step of the worker, of guest code or of a child keeps of types
and births, and what it does to the lines in the pipes (`GuestFlow`, `GuestSilent`), whichever
host is at the other end; and what `Append` and `Tail` do to the lines of one type. Both
refinements of `CodeInterpreter` use it.

**ModalProofs.** The six safety properties of the session; five of them in every setting: calls of
several threads overlapping anywhere, a failing provider, interrupts, children. Only
the statement of `NoLeak` excludes overlapping shutdowns and interrupts. The invariant `Inv` has four
parts. `LockInv` says which of the two locks a thread holds at each place of its
call. `EndInv` says that whoever creates the sandbox does it under `_start_lock` and
that nobody is then inside an execution past its own start, which is why two readers
never meet. `SandboxInv` says that at most one worker is ever born, because `_sandbox`
is cleared only in ended sessions and the end is looked at again under the lock
before creating. `LeakInv` says that without overlap sandboxes are created in open
sessions only, and that an ended session that still has one has a thread that will
terminate it. The lemmas `Others`, `LockThread` and `EndThread` split the work: a step
of one thread changes at most one place, keeps what the others hold, and either
leaves or enters the sections that `EndInv` is about.

`Implements` is the refinement, without an assumption on the constants. The mapping of
`ModalInterpreter` is to the contract in the `Quiet` settings (no overlapping shutdown, no
interrupt, no failing provider) and constant elsewhere, so that is where the theorem says
something, deadlines and children of guest code included. `AnswerInv` is the counterpart of
the one of the subprocess session, without a queue: `OneAnswer` says where the answer of a
run is, `Orderly` who may write and read meanwhile, although a thread that only starts
the session takes no execution lock.

**IPythonProofs.** All five safety properties, among them the refinement. `TypeCorrect`,
`NothingLeaks` and `EachItsOwnAnswer` hold in every setting: `EndInv` says at which places of
`start` the session is still open and that an ended one refers to nothing unless a call
is about to clean up or was kept from it (`lost`), `AnswerInv` that the value kept by `_run_cell` is of the cell it
waits for. `ToolsOfTheirCell` and `Implements` (the session implements `CodeInterpreter`) speak,
as their properties do, of the setting without guest threads and interrupts. There a
handler may give up and guest code call again, so that several requests wait at once;
`RequestInv` says why none outlives its cell: one that was given up makes the cell late,
so that it cannot end well, and one that is awaited blocks the guest, so that the cell
has not ended. `KernelInv` ties this to the place of the cell (in shell, in the kernel, or its
idle status last in iopub), and `RunInv` and `ValueInv` order begin, effect and return of an
execution. `ShownSteps` lists what a step may look like in the contract; `HostImplements` and
`GuestImplements` show for each action which one it is.

**ExeDevProofs.** `TypeCorrect`, and `OnlyOwn`: the action property `OnlyOwnRemoved` from
an invariant that ties `_vm_name` to the machines the session provisioned or was
handed, and none with `owns_vm=False`. It assumes `NameOnly = FALSE` and holds for any number of starting threads.
`NotPulled` and `AllRemoved` assume one thread that starts, as two may each create a machine
and keep one (section 3), and any number that shut down. `Orderly` says
that whoever is inside `start` found no session or an ended one, and that shutdown removes
nothing before the session has ended. `Known`: at most one machine is provisioned, and `_vm_name`
names it from then on. `Leaving`: once shutdown was called, that machine is gone, was warned
about, or some thread still has its removal before it, unless `owns_vm=False` keeps it. `AllRemoved` also assumes `BadAnswers = FALSE`, which exe_leak
shows to be needed, and `NameOnly = FALSE`.

**ConformanceProofs.** `TypeCorrect`, `AllShut` (`SessionsShut`), `Complete` (`ReportComplete`) and `Judged` (`Distinguishes`), for
every pair of arguments, every defect and every number of failing calls. The programs
are data of the model, so the proof is about them: `Sound` says of a block that from the
construction of a session on, wherever an exception is raised, its shutdown is ahead
(`Ensured`) unless the statement is one of those that `SessionsShut` excuses, and is shown for
each block of the suite (`ChecksSound`) and for a cold and a warm run of any length (`ColdIs`,
`WarmIs`, which also give the place of every statement). Then it is enough that the open
sessions are those that the rest of the block ensures (`Shutting`), with `Starting`: what
benchmark_interpreter starts before its `try` cannot have ended, which is why that `start`
fails only when the call does. `CountInv` gives the number of timings of each kind as a function of
the block and the line; `P95IsLeast` is about `P95Index` alone. `Judged` follows each check
statement by statement, as long as no call failed in it and nothing was raised (`Calm`):
`Alive` and `Prepared` say what the statements ahead will find in the sessions, the
namespaces and the count of tool calls, in a good session and in each broken one. A good
session can then answer every statement as it wants (`AllReady`), and a broken one never gets
past the statement that is there for its defect (`Trapped`, `Ahead`), so the check ends with
an exception (`Verdict`). `Noticed` says that the
result of a check in which a call failed is a failure.

**HostProofs.** All seven properties of the host run, for any depth, sessions, names,
lists of fields and calls; the only assumptions are those on the constants (names are
not the markers for unbound and given, SUBMIT gets a sequence and a mapping). `OwnOutput`, `ModuleRestored` and
`OwnRouter` are not inductive: they say what is in force now, and leaving an execution
brings back what a frame has saved. `ProcessInv` therefore says of every level of the stack
what its saved values are: the innermost in-process execution below it, the
newest dspy module put in below it (`Newest`), the innermost execution of the same Monty session below it. The
lemmas `Entered`, `Left` and `Touch` show that pushing, popping and changing the top of the
stack keep this; each action is one of the three. `AuthorisedCorrect` rests on
`BoundTools` (in process, names bound to tools are bound to tools of the last execution
unless a copy was kept) and on `OnlyCallTool` (no other step lets a tool be awaited).
`SubmitExactCorrect` and `PortableCorrect` rest on `Accounted` (what was submitted is what the
backend of the session accepts for the fields in force) and on two lemmas about the
operators of GuestNamespace: `Exact`, and `Agreement`, which compares any two
backends. `VariablesBound` and `RevokedUnbound` are about `Bind` alone.

Model-checked only: every liveness property, since fairness and ENABLED are out of the
prover's reach. Every invariant and every action property of a passing run is stated by a
theorem, and so are the two refinements.

## 6. Not modelled, and why

- `MontyInterpreter`: the rewriting of the source (`_lower_flex_source`,
  `_route_submit_to_terminating_tool`) and the package it wraps, which is outside the
  repository. Guest code that catches what SUBMIT raises (`except BaseException`) is left
  out for all backends.
- The checks of RLM, Flex and `execution_instructions` (dspy drives the session, or a
  string is looked at), `pytest.py` (maps checks to parameters), `benchmark_summary.py`
  and the scripts (rendering, command lines): no state of their own.
- `_TimedLines` keeps a deadline; the model lets a timeout fire at any read of a timed
  session, which covers every value of it, but not that it is cleared.
- A tool server of IPython whose thread cannot be started: `_server.shutdown()`
  (ikernel.py:307) would wait for ever.
- stderr draining, environment building, upload commands and message texts are I/O
  without state that a property could be about.

## 7. Plan

1. The deadline of `_TimedLines` as a value that is set and cleared; two starting threads
   in `ExeDevInterpreter`.
2. Proofs: the properties of the Modal session that hold with overlapping
   shutdowns, in the contract.
