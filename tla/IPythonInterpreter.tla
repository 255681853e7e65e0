------------------------- MODULE IPythonInterpreter -------------------------
(***************************************************************************)
(* One session of IPythonInterpreter: the host thread that calls it, the   *)
(* IPython kernel it talks to over ZMQ, and the tool server with one       *)
(* handler thread per request of guest code.                               *)
(*                                                                         *)
(* Cells are matched to replies by message id; cell 0 is the bootstrap,    *)
(* cell r the r-th execute.  Guest code calls a tool over TCP; the handler *)
(* puts the request into a queue, which only the loop of _run_cell         *)
(* empties, and waits for execution_timeout.                               *)
(*                                                                         *)
(* One host thread: the class does not support concurrent or reentrant     *)
(* execution.                                                              *)
(***************************************************************************)
EXTENDS Naturals, Sequences

CONSTANTS
    MaxRuns,     \* bound: calls of execute
    MaxTools,    \* bound: tool calls of guest code in all
    MaxMessages, \* bound: messages that guest code lets pile up by displaying
    Settings     \* what a session may meet, one of them for its whole life:
                 \* helpers: guest code may leave threads behind that call tools;
                 \* interrupts: KeyboardInterrupt or SystemExit may reach a wait
                 \* or a tool; unkillable: shutdown_kernel may raise and leave the
                 \* kernel alone; tools, messages: the bounds within this setting

ASSUME IPythonAssumption ==
    /\ {MaxRuns, MaxTools, MaxMessages} \subseteq Nat
    /\ Settings \subseteq [helpers : BOOLEAN, interrupts : BOOLEAN,
                           unkillable : BOOLEAN, tools : 0..MaxTools, messages : 0..MaxMessages]

VARIABLES
    setting,
    \* the session object
    ended,      \* self._ended
    manager,    \* self._manager is not None
    client,     \* self._client is not None
    server,     \* self._server is not None
    lost,       \* history: what an interrupt or a failing shutdown_kernel kept
                \* _cleanup from taking down
    requests,   \* self._tool_requests, as request numbers
    \* the calling thread
    pc,         \* where it is
    run,        \* number of the execute call it is in, 0 if none
    cell,       \* the cell whose reply _run_cell waits for
    late,       \* the deadline of _run_cell has passed
    value,      \* local of _run_cell: the cell that gave the value, 0 for none
    failed,     \* local of _run_cell: an error message came
    serving,    \* request whose tool it runs, 0 if none
    frame,      \* what _cleanup returns to: "call" or "shutdown"
    runs,       \* how many execute calls were made
    verdict,    \* [1..MaxRuns -> cell whose value execute returned, 0 if none]
    \* the kernel
    kernel,     \* its state
    defined,    \* the bootstrap has run
    current,    \* the cell it runs or ran last
    latest,     \* the last cell of an execute whose code began
    blocked,    \* request its main thread waits for, 0 if none
    shell,      \* cells sent to it
    iopub,      \* messages it published
    \* the handler threads
    issued,     \* how many requests there were
    handler,    \* [1..MaxTools -> where the handler of the request is]
    during      \* [1..MaxTools -> cell being waited for when the request came, 0 if none]

callVars == <<run, cell, late, value, failed, serving, frame, runs, verdict>>
sessionVars == <<ended, manager, client, server, lost>>
kernelVars == <<kernel, defined, current, latest, blocked, shell, iopub>>
toolVars == <<issued, handler, during>>
vars == <<setting, sessionVars, requests, pc, callVars, kernelVars, toolVars>>

Helpers == setting.helpers
Interrupts == setting.interrupts
Unkillable == setting.unkillable

Places == {"idle", "check", "server", "launch", "ready", "input", "submit",
           "dispatch", "tool", "poll", "cleanup", "kill", "close"}

Looping == pc \in {"dispatch", "tool", "poll"}

Cleaning == pc \in {"cleanup", "kill", "close"}

Cells == 0..MaxRuns

\* A value that guest code displayed, in place of the wrapper's record.
Displayed == MaxRuns + 1

\* Type correctness; start never launches a second kernel.
TypeOK ==
    /\ setting \in Settings
    /\ {ended, manager, client, server, late, failed, defined} \subseteq BOOLEAN
    /\ requests \in Seq(1..MaxTools)
    /\ pc \in Places
    /\ lost \subseteq {"channels", "kernel", "server"}
    /\ {run, cell, runs, current, latest} \subseteq Cells
    /\ value \in Cells \cup {Displayed}
    /\ {serving, blocked, issued} \subseteq 0..MaxTools
    /\ frame \in {"call", "shutdown"}
    /\ verdict \in [1..MaxRuns -> Cells]
    /\ kernel \in {"none", "booting", "idle", "busy", "replied", "dead"}
    /\ shell \in Seq(Cells)
    /\ iopub \in Seq([parent : Cells, type : {"result", "display", "error", "idle"}])
    /\ handler \in [1..MaxTools -> {"none", "waiting", "answered", "gaveUp"}]
    /\ during \in [1..MaxTools -> Cells]
    /\ pc = "tool" => serving # 0
    /\ pc = "launch" => kernel = "none"

Init ==
    /\ setting \in Settings
    /\ ended = FALSE
    /\ manager = FALSE
    /\ client = FALSE
    /\ server = FALSE
    /\ lost = {}
    /\ requests = <<>>
    /\ pc = "idle"
    /\ run = 0
    /\ cell = 0
    /\ late = FALSE
    /\ value = 0
    /\ failed = FALSE
    /\ serving = 0
    /\ frame = "call"
    /\ runs = 0
    /\ verdict = [r \in 1..MaxRuns |-> 0]
    /\ kernel = "none"
    /\ defined = FALSE
    /\ current = 0
    /\ latest = 0
    /\ blocked = 0
    /\ shell = <<>>
    /\ iopub = <<>>
    /\ issued = 0
    /\ handler = [q \in 1..MaxTools |-> "none"]
    /\ during = [q \in 1..MaxTools |-> 0]

-----------------------------------------------------------------------------
(* How calls end. *)

\* execute or start returns or raises.
Leave ==
    /\ pc' = "idle"
    /\ run' = 0
    /\ cell' = 0
    /\ late' = FALSE
    /\ value' = 0
    /\ failed' = FALSE
    /\ serving' = 0
    /\ UNCHANGED <<frame, runs>>

\* Mutants: _terminal only raises; it raises and forgets the cleanup.
TerminalOnlyRaises == Leave /\ UNCHANGED <<verdict, sessionVars>>

TerminalLeavesKernel == ended' = TRUE /\ Leave /\ UNCHANGED <<verdict, manager, client, server, lost>>

\* _terminal: the session ends, everything is taken down, and then it raises.
Terminal ==
    /\ ended' = TRUE
    /\ pc' = "cleanup"
    /\ UNCHANGED <<manager, client, server, lost, callVars>>

\* _cleanup is over: back to _terminal, which raises, or to shutdown.
CleanedUp ==
    \/ frame = "call" /\ Leave /\ UNCHANGED verdict
    \/ /\ frame = "shutdown"
       /\ frame' = "call"
       /\ pc' = IF serving # 0 THEN "tool" ELSE "idle"
       /\ UNCHANGED <<run, cell, late, value, failed, serving, runs, verdict>>

\* Its first step: stop_channels, whose Exceptions are swallowed.
StopChannels ==
    /\ pc = "cleanup"
    /\ client' = FALSE
    /\ pc' = "kill"
    /\ UNCHANGED <<ended, manager, server, lost, requests, callVars, kernelVars, toolVars>>

\* shutdown_kernel(now=True) kills the kernel if there is one, or raises what
\* is swallowed; either way the session forgets its manager.
ShutdownKernel ==
    /\ pc = "kill"
    /\ manager' = FALSE
    /\ \/ /\ kernel' = IF manager /\ kernel # "none" THEN "dead" ELSE kernel
          /\ UNCHANGED lost
       \/ /\ manager /\ Unkillable
          /\ lost' = lost \cup {"kernel"}
          /\ UNCHANGED kernel
    /\ pc' = "close"
    /\ UNCHANGED <<ended, client, server, requests, callVars, defined, current, latest,
                   blocked, shell, iopub, toolVars>>

\* _server.shutdown(), which waits for serve_forever to end, and server_close.
CloseServer ==
    /\ pc = "close"
    /\ server' = FALSE
    /\ CleanedUp
    /\ UNCHANGED <<ended, manager, client, lost, requests, kernelVars, toolVars>>

\* What _cleanup has still to take down.
Pending == CASE pc = "cleanup" -> {"channels", "kernel", "server"}
             [] pc = "kill"    -> {"kernel", "server"}
             [] OTHER          -> {"server"}

\* shutdown of a session that has not ended, also from inside a host tool.
CallShutdown ==
    /\ pc \in {"idle", "tool"}
    /\ ~ended
    /\ ended' = TRUE
    /\ frame' = "shutdown"
    /\ pc' = "cleanup"
    /\ UNCHANGED <<manager, client, server, lost, requests, run, cell, late, value,
                   failed, serving, runs, verdict, kernelVars, toolVars>>

-----------------------------------------------------------------------------
(* start. *)

CallExecute ==
    /\ pc = "idle"
    /\ runs < MaxRuns
    /\ runs' = runs + 1
    /\ run' = runs'
    /\ pc' = "check"
    /\ UNCHANGED <<sessionVars, requests, cell, late, value, failed, serving, frame,
                   verdict, kernelVars, toolVars>>

CallStart ==
    /\ pc = "idle"
    /\ pc' = "check"
    /\ UNCHANGED <<sessionVars, requests, callVars, kernelVars, toolVars>>

\* Mutant: start does not ask whether there is a kernel.
CheckEndedOnly ==
    /\ pc = "check"
    /\ \/ ended /\ Leave /\ UNCHANGED verdict
       \/ ~ended /\ pc' = "server" /\ UNCHANGED callVars
    /\ UNCHANGED <<sessionVars, requests, kernelVars, toolVars>>

\* _check_active, and the return for a session that has its manager.
Check ==
    /\ pc = "check"
    /\ \/ ended /\ Leave /\ UNCHANGED verdict
       \/ /\ ~ended
          /\ pc' = IF manager THEN "input" ELSE "server"
          /\ UNCHANGED callVars
    /\ UNCHANGED <<sessionVars, requests, kernelVars, toolVars>>

\* The tool server, its thread (which always starts), and a KernelManager.
OpenServer ==
    /\ pc = "server"
    /\ \/ /\ server' = TRUE
          /\ manager' = TRUE
          /\ pc' = "launch"
          /\ UNCHANGED <<ended, client, callVars>>
       \/ /\ server' \in BOOLEAN
          /\ ended' = TRUE
          /\ pc' = "cleanup"
          /\ UNCHANGED <<manager, client, callVars>>
    /\ UNCHANGED <<lost, requests, kernelVars, toolVars>>

\* start_kernel, blocking_client and start_channels, each of which may fail.
Launch ==
    /\ pc = "launch"
    /\ \/ /\ kernel' = "booting"
          /\ client' = TRUE
          /\ pc' = "ready"
          /\ UNCHANGED ended
       \/ /\ kernel' \in {"none", "booting"}
          /\ client' = (client \/ (kernel' = "booting"))
          /\ ended' = TRUE
          /\ pc' = "cleanup"
    /\ UNCHANGED <<manager, server, lost, requests, callVars, defined, current,
                   latest, blocked, shell, iopub, toolVars>>

\* wait_for_ready: the kernel answers, or it died or took too long.
AwaitReady ==
    /\ pc = "ready"
    /\ \/ /\ kernel = "idle"
          /\ pc' = "submit"
          /\ UNCHANGED <<sessionVars, callVars>>
       \/ Terminal
    /\ UNCHANGED <<requests, kernelVars, toolVars>>

\* start has returned.  execute encodes its arguments, which may be refused.
Encode ==
    /\ pc = "input"
    /\ \/ Leave /\ UNCHANGED verdict
       \/ /\ run # 0
          /\ cell' = run
          /\ pc' = "submit"
          /\ UNCHANGED <<run, late, value, failed, serving, frame, runs, verdict>>
    /\ UNCHANGED <<sessionVars, requests, kernelVars, toolVars>>

-----------------------------------------------------------------------------
(* _run_cell. *)

\* self._client.execute; an interrupted start may have left no client.
Submit ==
    /\ pc = "submit"
    /\ \/ /\ client
          /\ shell' = Append(shell, cell)
          /\ pc' = "dispatch"
          /\ UNCHANGED <<sessionVars, callVars>>
       \/ ~client /\ Terminal /\ UNCHANGED shell
    /\ UNCHANGED <<requests, kernel, defined, current, latest, blocked, iopub, toolVars>>

\* _dispatch_tool_requests: one request after the other, until none is left.
Dispatch ==
    /\ pc = "dispatch"
    /\ \/ requests = <<>> /\ pc' = "poll" /\ UNCHANGED <<requests, serving>>
       \/ /\ requests # <<>>
          /\ requests' = Tail(requests)
          /\ serving' = Head(requests)
          /\ pc' = "tool"
    /\ UNCHANGED <<sessionVars, run, cell, late, value, failed, frame, runs, verdict,
                   kernelVars, toolVars>>

\* The tool returns or raises an Exception: completed.set() either way.
FinishTool ==
    /\ pc = "tool"
    /\ handler' = [handler EXCEPT ![serving] = IF @ = "waiting" THEN "answered" ELSE @]
    /\ serving' = 0
    /\ pc' = "dispatch"
    /\ UNCHANGED <<sessionVars, requests, run, cell, late, value, failed, frame, runs,
                   verdict, kernelVars, issued, during>>

\* Mutant, and whether there is time left.
Endless == TRUE
Remaining == ~late

\* "IPython kernel execution timed out"; execute interrupts the kernel first.
TimedOut ==
    /\ pc = "poll"
    /\ ~Remaining
    /\ Terminal
    /\ UNCHANGED <<requests, kernelVars, toolVars>>

\* Mutant, and whether a message answers another cell.
NeverForeign(m) == FALSE
Foreign(m) == m.parent # cell

\* The cell is done: the bootstrap, or the code of execute.  A value that guest
\* code displayed is no literal, which ends the session, or one without the
\* keys of the record, whose KeyError or TypeError leaves it open.
CellDone ==
    \/ /\ cell = 0 /\ ~failed
       /\ pc' = "input"
       /\ value' = 0
       /\ UNCHANGED <<sessionVars, run, cell, late, failed, serving, frame, runs, verdict>>
    \/ /\ cell # 0 /\ ~failed /\ value \in Cells \ {0}
       /\ verdict' = [verdict EXCEPT ![run] = value]
       /\ Leave
       /\ UNCHANGED sessionVars
    \/ /\ cell # 0 /\ ~failed /\ value = Displayed
       /\ Leave
       /\ UNCHANGED <<verdict, sessionVars>>
    \/ failed /\ Terminal
    \/ cell # 0 /\ ~failed /\ value \in {0, Displayed} /\ Terminal

\* get_iopub_msg: nothing yet, a message of another cell, or one of this one.
Poll ==
    /\ pc = "poll"
    /\ Remaining
    /\ \/ ~client /\ Terminal /\ UNCHANGED iopub
       \/ /\ client /\ iopub = <<>>
          /\ pc' = "dispatch"
          /\ UNCHANGED <<iopub, sessionVars, callVars>>
       \/ /\ client /\ iopub # <<>>
          /\ iopub' = Tail(iopub)
          /\ LET m == Head(iopub) IN
                \/ /\ Foreign(m) \/ m.type # "idle"
                   /\ pc' = "dispatch"
                   /\ value' = IF Foreign(m) THEN value
                               ELSE CASE m.type = "result" -> m.parent
                                      [] m.type = "display" -> Displayed
                                      [] OTHER -> value
                   /\ failed' = (failed \/ (~Foreign(m) /\ m.type = "error"))
                   /\ UNCHANGED <<sessionVars, run, cell, late, serving, frame, runs, verdict>>
                \/ /\ ~Foreign(m) /\ m.type = "idle"
                   /\ CellDone
    /\ UNCHANGED <<requests, kernel, defined, current, latest, blocked, shell, toolVars>>

\* Time passes.
DeadlinePasses ==
    /\ Looping
    /\ ~late
    /\ late' = TRUE
    /\ UNCHANGED <<sessionVars, requests, pc, run, cell, value, failed, serving, frame,
                   runs, verdict, kernelVars, toolVars>>

\* A BaseException that is no Exception leaves start, a wait or a tool: no
\* except clause of the module sees it.  start may have started the kernel.
\* From a wait of _cleanup it leaves the rest of it undone.
Interrupt ==
    /\ Interrupts
    /\ \/ /\ pc \in {"launch", "ready", "poll", "tool"}
          /\ Leave
          /\ \/ UNCHANGED kernel
             \/ pc = "launch" /\ kernel' = "booting"
          /\ UNCHANGED <<verdict, lost>>
       \/ /\ Cleaning
          /\ lost' = lost \cup Pending
          /\ CleanedUp
          /\ UNCHANGED kernel
    /\ UNCHANGED <<ended, manager, client, server, requests, defined, current, latest,
                   blocked, shell, iopub, toolVars>>

-----------------------------------------------------------------------------
(* The kernel. *)

Alive == kernel \in {"booting", "idle", "busy", "replied"}

Publish(type) == iopub' = Append(iopub, [parent |-> current, type |-> type])

KernelReady ==
    /\ kernel = "booting"
    /\ kernel' = "idle"
    /\ UNCHANGED <<defined, current, latest, blocked, shell, iopub, issued>>

\* The next cell.  Without the bootstrap _dspy_execute is a NameError.
TakeCell ==
    /\ kernel = "idle"
    /\ shell # <<>>
    /\ kernel' = "busy"
    /\ current' = Head(shell)
    /\ shell' = Tail(shell)
    /\ latest' = IF defined /\ current' # 0 THEN current' ELSE latest
    /\ UNCHANGED <<defined, blocked, iopub, issued>>

\* The cell ends.  _dspy_execute returns what its code did, unless a
\* BaseException such as SystemExit leaves it, or the kernel gives it up
\* because the cell before it failed (stop_on_error).
FinishCell ==
    /\ kernel = "busy"
    /\ blocked = 0
    /\ kernel' = "replied"
    /\ \/ /\ current = 0
          /\ defined' = TRUE
          /\ UNCHANGED iopub
       \/ /\ current # 0 /\ defined
          /\ Publish("result")
          /\ UNCHANGED defined
       \/ Publish("error") /\ UNCHANGED defined
       \/ current # 0 /\ UNCHANGED <<iopub, defined>>
    /\ UNCHANGED <<current, latest, blocked, shell, issued>>

GoIdle ==
    /\ kernel = "replied"
    /\ kernel' = "idle"
    /\ Publish("idle")
    /\ UNCHANGED <<defined, current, latest, blocked, shell, issued>>

\* Guest code displays something, on its own or from a thread it left.
Display ==
    /\ kernel = "busy" \/ (Helpers /\ Alive)
    /\ current # 0 /\ defined
    /\ Len(iopub) < setting.messages
    /\ Publish("display")
    /\ UNCHANGED <<kernel, defined, current, latest, blocked, shell, issued>>

KernelDies ==
    /\ Alive
    /\ kernel' = "dead"
    /\ UNCHANGED <<defined, current, latest, blocked, shell, iopub, issued>>

Kernel ==
    /\ KernelReady \/ TakeCell \/ FinishCell \/ GoIdle \/ Display \/ KernelDies
    /\ UNCHANGED <<sessionVars, requests, pc, callVars, handler, during>>

-----------------------------------------------------------------------------
(* Tool calls and their handler threads. *)

\* _dspy_host_call connects, and the handler queues the request.
CallTool(fromMain) ==
    /\ server
    /\ issued < setting.tools
    /\ current # 0 /\ defined
    /\ issued' = issued + 1
    /\ \/ fromMain /\ kernel = "busy" /\ blocked = 0 /\ blocked' = issued'
       \/ ~fromMain /\ Helpers /\ Alive /\ UNCHANGED blocked
    /\ requests' = Append(requests, issued')
    /\ handler' = [handler EXCEPT ![issued'] = "waiting"]
    /\ during' = [during EXCEPT ![issued'] = IF Looping \/ serving # 0 THEN cell ELSE 0]
    /\ UNCHANGED <<sessionVars, pc, callVars, kernel, defined, current, latest, shell, iopub>>

\* completed.wait gives up, execution_timeout after the request came.  A cell
\* that began before the request is late by then, and it takes a long tool:
\* outside of tools the host looks at the queue all the time.
GiveUp(q) ==
    /\ handler[q] = "waiting"
    /\ pc = "tool" \/ ~Looping \/ during[q] # cell
    /\ handler' = [handler EXCEPT ![q] = "gaveUp"]
    /\ late' = (late \/ (Looping /\ during[q] = cell))
    /\ UNCHANGED <<sessionVars, requests, pc, run, cell, value, failed, serving, frame,
                   runs, verdict, kernelVars, issued, during>>

\* The guest's main thread reads the answer, or that there is none.
ReadAnswer ==
    /\ blocked # 0
    /\ Alive
    /\ handler[blocked] \in {"answered", "gaveUp"}
    /\ blocked' = 0
    /\ UNCHANGED <<sessionVars, requests, pc, callVars, kernel, defined, current,
                   latest, shell, iopub, toolVars>>

Tools ==
    \/ \E fromMain \in BOOLEAN : CallTool(fromMain)
    \/ \E q \in 1..MaxTools : GiveUp(q)
    \/ ReadAnswer

-----------------------------------------------------------------------------

Advance ==
    \/ Check \/ OpenServer \/ Launch \/ AwaitReady \/ Encode \/ Submit
    \/ Dispatch \/ FinishTool \/ TimedOut \/ Poll
    \/ StopChannels \/ ShutdownKernel \/ CloseServer

Next ==
    /\ UNCHANGED setting
    /\ \/ Advance \/ CallExecute \/ CallStart \/ CallShutdown \/ Interrupt
       \/ DeadlinePasses \/ Kernel \/ Tools

Spec == Init /\ [][Next]_vars

\* The thread is scheduled, host tools return, and time passes.  The kernel
\* and guest code may stall at any point.
Fairness == WF_vars(Advance /\ UNCHANGED setting) /\ WF_vars(DeadlinePasses /\ UNCHANGED setting)

FairSpec == Spec /\ Fairness
-----------------------------------------------------------------------------
(* Properties. *)

\* execute returns what its own cell computed, also when KeyboardInterrupt
\* left an earlier cell running: its messages are told apart by their parent.
OwnAnswer == \A r \in 1..MaxRuns : verdict[r] \in {0, r}

\* A session that has ended, with its call back, leaves neither kernel nor
\* tool server nor channels behind, at whatever step start or execute failed,
\* but for what an interrupt of _cleanup or a failing shutdown_kernel kept from
\* being taken down: the one costs the session what comes after it, the other
\* the kernel and nothing else.
NoLeak ==
    ended /\ pc = "idle" =>
        /\ Alive \/ manager => "kernel" \in lost
        /\ server => "server" \in lost
        /\ client => "channels" \in lost

\* An interrupt leaves a cell running, guest threads outlive theirs, and a
\* kernel that was not killed outlives the session.
Quiet == ~Helpers /\ ~Interrupts /\ ~Unkillable

\* The host begins a tool only for a request that the code of the execution in
\* progress made, and once: nothing that an execution queued outlives it, when
\* no thread and no interrupt left code running.
ToolOfCell == [][Quiet /\ pc # "tool" /\ serving' # serving /\ pc' = "tool" =>
                    /\ during[serving'] = cell
                    /\ handler[serving'] # "answered"]_vars

\* Every call returns, given that guest code calls finitely many tools: the
\* deadline is not looked at between two requests.
CallsReturn == pc # "idle" ~> pc = "idle"

-----------------------------------------------------------------------------
(* The session implements the contract of CodeInterpreter. *)

\* Abandoned cells and guest threads go on beside the next execution, where the
\* contract has none: in such a setting nothing is mapped to it.
Contract == INSTANCE CodeInterpreter
                WITH open <- Quiet => ~ended,
                     active <- IF Quiet /\ pc # "check" THEN run ELSE 0,
                     latest <- IF Quiet THEN latest ELSE 0,
                     answer <- IF Quiet THEN verdict ELSE [r \in 1..MaxRuns |-> 0]

\* Seen from its caller the session, its kernel and its tool server are the
\* atomic object that CodeInterpreter describes.
ImplementsContract == Contract!Spec
=============================================================================
