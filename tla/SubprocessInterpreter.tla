------------------------ MODULE SubprocessInterpreter ------------------------
(***************************************************************************)
(* One session of SubprocessInterpreter: the host threads that call        *)
(* execute, start and shutdown on the same object, the daemon thread that  *)
(* moves the worker's lines into a queue, and the worker of GuestWorker.   *)
(*                                                                         *)
(* execute takes self._lock without blocking and holds it to the end;      *)
(* start and shutdown take no lock, so every read and write of _ended and  *)
(* _process that another thread can come between is a step of its own.     *)
(* `handle' is the local variable `process' of _send and _kill.            *)
(***************************************************************************)
EXTENDS GuestWorker, FiniteSets

CONSTANTS
    Threads,     \* host threads that share the session object
    Executors,   \* those that call execute
    Starters,    \* those that call start directly
    Stoppers,    \* those that call shutdown, also from inside a host tool
    Overlap,     \* TRUE: shutdown may come from a thread other than the one executing
    HasTimeout,  \* execution_timeout is not None
    Interrupts,  \* TRUE: KeyboardInterrupt or SystemExit may reach a wait or a tool
    MaxRuns,     \* bound: calls of execute that are admitted
    None

ASSUME HostAssumption ==
    /\ Executors \subseteq Threads
    /\ Starters \subseteq Threads
    /\ Stoppers \subseteq Threads
    /\ {Overlap, HasTimeout, Interrupts} \subseteq BOOLEAN
    /\ MaxRuns \in Nat
    /\ None \notin Threads \cup Workers

VARIABLES
    ended,       \* self._ended
    process,     \* self._process: a worker, or None
    responses,   \* self._responses
    lock,        \* who holds self._lock
    reader,      \* [Workers -> where _read_responses of that worker is]
    closed,      \* [Workers -> which of its streams the host has closed]
    unflushed,   \* workers whose stdin buffer keeps a line that failed to go out
    spared,      \* history: workers whose shutdown was interrupted before the kill
    pc,          \* [Threads -> where the thread is]
    run,         \* [Threads -> number of the execute call it is in, 0 if none]
    tool,        \* [Threads -> request id of the host tool call it serves, 0 if none]
    handle,      \* [Threads -> local `process' of _send and _kill]
    frame,       \* [Threads -> the call that the next exception or return reaches]
    outcome,     \* [Threads -> how its last call ended]
    runs,        \* how many execute calls were admitted
    verdict      \* [1..MaxRuns -> run whose result execute returned, 0 if none]

callVars == <<run, tool, frame, outcome, runs, verdict, lock>>
hostVars == <<ended, process, responses, lock, reader, closed, unflushed, spared,
              pc, run, tool, handle, frame, outcome, runs, verdict>>
vars == <<guestVars, hostVars>>

Line == [type : MsgTypes \cup {"eof"}, id : Nat]

Places == {"idle", "check", "attach", "spawn", "ready", "send", "write",
           "receive", "tool", "await", "wait", "last", "detach", "reap",
           "stdin", "stdout"}

Outcomes == {"ok", "CodeInterpreterError", "OSError", "AttributeError",
             "BaseException"}

HostTypeOK ==
    /\ ended \in BOOLEAN
    /\ process \in Workers \cup {None}
    /\ responses \in Seq(Line)
    /\ lock \in Executors \cup {None}
    /\ reader \in [Workers -> {"unborn", "between", "blocked", "done"}]
    /\ closed \in [Workers -> SUBSET {"stdin", "stdout"}]
    /\ unflushed \in SUBSET Workers
    /\ spared \in SUBSET Workers
    /\ pc \in [Threads -> Places]
    /\ run \in [Threads -> 0..MaxRuns]
    /\ tool \in [Threads -> Nat]
    /\ handle \in [Threads -> Workers \cup {None}]
    /\ frame \in [Threads -> {"call", "try", "last"}]
    /\ outcome \in [Threads -> Outcomes]
    /\ runs \in 0..MaxRuns
    /\ verdict \in [1..MaxRuns -> Nat]
    /\ \A t \in Threads :
          pc[t] \in {"write", "wait", "reap", "stdin", "stdout"} => handle[t] # None

\* Type correctness of the session and its workers.
TypeOK == GuestTypeOK /\ HostTypeOK

HostInit ==
    /\ ended = FALSE
    /\ process = None
    /\ responses = <<>>
    /\ lock = None
    /\ reader = [w \in Workers |-> "unborn"]
    /\ closed = [w \in Workers |-> {}]
    /\ unflushed = {}
    /\ spared = {}
    /\ pc = [t \in Threads |-> "idle"]
    /\ run = [t \in Threads |-> 0]
    /\ tool = [t \in Threads |-> 0]
    /\ handle = [t \in Threads |-> None]
    /\ frame = [t \in Threads |-> "call"]
    /\ outcome = [t \in Threads |-> "ok"]
    /\ runs = 0
    /\ verdict = [r \in 1..MaxRuns |-> 0]

-----------------------------------------------------------------------------
(* How calls move on and end. *)

Goto(t, place) == pc' = [pc EXCEPT ![t] = place]

\* execute or start returns or raises; the finally clause frees the lock.
Leave(t, how) ==
    /\ Goto(t, "idle")
    /\ lock' = IF lock = t THEN None ELSE lock
    /\ run' = [run EXCEPT ![t] = 0]
    /\ tool' = [tool EXCEPT ![t] = 0]
    /\ handle' = [handle EXCEPT ![t] = None]
    /\ outcome' = [outcome EXCEPT ![t] = how]
    /\ UNCHANGED <<frame, runs>>

\* shutdown returns or raises, to the host tool that called it or for good.
LeaveShutdown(t, how) ==
    /\ Goto(t, IF lock = t THEN "tool" ELSE "idle")
    /\ frame' = [frame EXCEPT ![t] = "call"]
    /\ handle' = [handle EXCEPT ![t] = None]
    /\ outcome' = [outcome EXCEPT ![t] = how]
    /\ UNCHANGED <<lock, run, tool, runs>>

\* Mutants of _terminal: one only raises, one forgets to end the session, one
\* clears _process before _kill has read it.
TerminalOnlyRaises(t) ==
    /\ Leave(t, "CodeInterpreterError")
    /\ UNCHANGED <<ended, verdict>>

TerminalLeavesOpen(t) ==
    /\ handle' = [handle EXCEPT ![t] = process]
    /\ Goto(t, "detach")
    /\ UNCHANGED <<ended, callVars>>

TerminalClearsFirst(t) ==
    /\ ended' = TRUE
    /\ handle' = [handle EXCEPT ![t] = None]
    /\ Goto(t, "detach")
    /\ UNCHANGED callVars

\* _terminal, up to the first statement of the _kill it calls.
Terminal(t) ==
    /\ ended' = TRUE
    /\ handle' = [handle EXCEPT ![t] = process]
    /\ Goto(t, "detach")
    /\ UNCHANGED callVars

\* _kill has returned: _terminal raises CodeInterpreterError, which shutdown
\* swallows when it comes from its own _send.
Killed(t) ==
    \/ /\ frame[t] = "call"
       /\ Leave(t, "CodeInterpreterError")
    \/ /\ frame[t] = "try"
       /\ Goto(t, "last")
       /\ handle' = [handle EXCEPT ![t] = None]
       /\ UNCHANGED <<lock, run, tool, frame, outcome, runs>>
    \/ /\ frame[t] = "last"
       /\ LeaveShutdown(t, "ok")

\* An exception that no except clause of the module names.
Escape(t, how) ==
    \/ frame[t] = "call" /\ Leave(t, how)
    \/ frame[t] # "call" /\ LeaveShutdown(t, how)

-----------------------------------------------------------------------------
(* execute, up to start. *)

CallExecute(t) ==
    /\ t \in Executors
    /\ pc[t] = "idle"
    /\ runs < MaxRuns
    /\ lock = None
    /\ lock' = t
    /\ runs' = runs + 1
    /\ run' = [run EXCEPT ![t] = runs']
    /\ Goto(t, "check")
    /\ UNCHANGED <<guestVars, ended, process, responses, reader, closed,
                   unflushed, spared, tool, handle, frame, outcome, verdict>>

\* "interpreter already has an active execution"
CallBusy(t) ==
    /\ t \in Executors
    /\ pc[t] = "idle"
    /\ lock # None
    /\ outcome' = [outcome EXCEPT ![t] = "CodeInterpreterError"]
    /\ UNCHANGED <<guestVars, ended, process, responses, lock, reader, closed,
                   unflushed, spared, pc, run, tool, handle, frame, runs, verdict>>

\* code or variables that the session refuses before touching the worker.
RejectInput(t) ==
    /\ pc[t] = "check"
    /\ run[t] # 0
    /\ Leave(t, "CodeInterpreterError")
    /\ UNCHANGED <<guestVars, ended, process, responses, reader, closed,
                   unflushed, spared, verdict>>

-----------------------------------------------------------------------------
(* start. *)

CallStart(t) ==
    /\ t \in Starters
    /\ pc[t] = "idle"
    /\ Goto(t, "check")
    /\ UNCHANGED <<guestVars, ended, process, responses, reader, closed,
                   unflushed, spared, handle, callVars>>

\* Mutant: start does not look at _ended.
StartUnchecked(t) ==
    /\ pc[t] = "check"
    /\ Goto(t, "attach")
    /\ UNCHANGED <<guestVars, ended, process, responses, reader, closed,
                   unflushed, spared, handle, callVars>>

\* if self._ended: raise
StartCheck(t) ==
    /\ pc[t] = "check"
    /\ \/ ended /\ Leave(t, "CodeInterpreterError")
       \/ /\ ~ended
          /\ Goto(t, "attach")
          /\ UNCHANGED <<lock, run, tool, handle, frame, outcome, runs>>
    /\ UNCHANGED <<guestVars, ended, process, responses, reader, closed,
                   unflushed, spared, verdict>>

\* start has returned: to execute, or to whoever called it.
Started(t) ==
    \/ /\ run[t] # 0
       /\ Goto(t, "send")
       /\ UNCHANGED <<lock, run, tool, handle, frame, outcome, runs>>
    \/ /\ run[t] = 0
       /\ Leave(t, "ok")

\* Mutant: start spawns a worker although there is one.
AttachAnew(t) ==
    /\ pc[t] = "attach"
    /\ Goto(t, "spawn")
    /\ UNCHANGED <<guestVars, ended, process, responses, reader, closed,
                   unflushed, spared, handle, callVars>>

\* if self._process is not None: return
Attach(t) ==
    /\ pc[t] = "attach"
    /\ \/ process # None /\ Started(t)
       \/ /\ process = None
          /\ Goto(t, "spawn")
          /\ UNCHANGED <<lock, run, tool, handle, frame, outcome, runs>>
    /\ UNCHANGED <<guestVars, ended, process, responses, reader, closed,
                   unflushed, spared, verdict>>

\* subprocess.Popen, self._process = process, the reader thread.
Spawn(t) ==
    /\ pc[t] = "spawn"
    /\ \E w \in Workers :
          /\ worker[w] = "unborn"
          /\ Become(w, "booting")
          /\ process' = w
          /\ reader' = [reader EXCEPT ![w] = "between"]
    /\ Goto(t, "ready")
    /\ UNCHANGED <<job, awaits, issued, child, stdin, stdout, ended, responses,
                   closed, unflushed, spared, handle, callVars>>

\* Popen raises OSError; the session stays open and may be started again.
SpawnFails(t) ==
    /\ pc[t] = "spawn"
    /\ Leave(t, "CodeInterpreterError")
    /\ UNCHANGED <<guestVars, ended, process, responses, reader, closed,
                   unflushed, spared, verdict>>

-----------------------------------------------------------------------------
(* _receive and the loop of execute. *)

Accepts(t, type) == \/ pc[t] = "ready" /\ type = "ready"
                    \/ pc[t] = "receive" /\ type \in {"tool_request", "execution_result"}

\* The next line of the queue: what it asks for, or the end of the session.
Receive(t) ==
    /\ pc[t] \in {"ready", "receive"}
    /\ responses # <<>>
    /\ responses' = Tail(responses)
    /\ LET m == Head(responses) IN
          \/ /\ ~Accepts(t, m.type)
             /\ Terminal(t)
          \/ /\ Accepts(t, m.type)
             /\ m.type = "ready"
             /\ Started(t)
             /\ UNCHANGED <<ended, verdict>>
          \/ /\ Accepts(t, m.type)
             /\ m.type = "tool_request"
             /\ Goto(t, "tool")
             /\ tool' = [tool EXCEPT ![t] = m.id]
             /\ UNCHANGED <<ended, lock, run, handle, frame, outcome, runs,
                            verdict>>
          \/ /\ Accepts(t, m.type)
             /\ m.type = "execution_result"
             /\ verdict' = [verdict EXCEPT ![run[t]] = m.id]
             /\ Leave(t, "ok")
             /\ UNCHANGED ended
    /\ UNCHANGED <<guestVars, process, reader, closed, unflushed, spared>>

\* Mutants: a timeout that raises without ending the session, and a loop that
\* never hands its deadline to _receive.
TimeoutKeepsSession(t) ==
    /\ \/ pc[t] = "ready"
       \/ pc[t] = "receive" /\ HasTimeout
    /\ responses = <<>>
    /\ Leave(t, "CodeInterpreterError")
    /\ UNCHANGED <<guestVars, ended, process, responses, reader, closed,
                   unflushed, spared, verdict>>

TimeoutOnlyAtStart(t) ==
    /\ pc[t] = "ready"
    /\ responses = <<>>
    /\ Terminal(t)
    /\ UNCHANGED <<guestVars, process, responses, reader, closed, unflushed,
                   spared>>

\* queue.Empty: ten seconds for the ready line, execution_timeout after it.
Timeout(t) ==
    /\ \/ pc[t] = "ready"
       \/ pc[t] = "receive" /\ HasTimeout
    /\ responses = <<>>
    /\ Terminal(t)
    /\ UNCHANGED <<guestVars, process, responses, reader, closed, unflushed,
                   spared>>

\* The host tool returns or raises an Exception; _handle_tool answers either way.
RunTool(t) ==
    /\ pc[t] = "tool"
    /\ Goto(t, "send")
    /\ UNCHANGED <<guestVars, ended, process, responses, reader, closed,
                   unflushed, spared, handle, callVars>>

\* A BaseException that is no Exception leaves a host tool or a wait.  From a
\* tool or the queue it ends execute or start, of which only the finally
\* clause runs.  From the wait of shutdown it passes the last _kill by: the
\* session has ended, and the worker may live.  From the wait of _kill, which
\* comes after the SIGKILL, it leaves the streams open.
Interrupt(t) ==
    /\ Interrupts
    /\ \/ /\ pc[t] \in {"ready", "receive", "tool"}
          /\ Leave(t, "BaseException")
          /\ UNCHANGED <<worker, spared>>
       \/ /\ pc[t] = "wait"
          /\ LeaveShutdown(t, "BaseException")
          /\ spared' = spared \cup {handle[t]}
          /\ UNCHANGED worker
       \/ /\ pc[t] = "reap"
          /\ Become(handle[t], "exited")
          /\ Escape(t, "BaseException")
          /\ UNCHANGED spared
    /\ UNCHANGED <<job, awaits, issued, child, stdin, stdout, ended, process,
                   responses, reader, closed, unflushed, verdict>>

-----------------------------------------------------------------------------
(* _send. *)

\* What the thread is about to send.
Outgoing(t) == IF frame[t] = "try" THEN Msg("shutdown", 0)
               ELSE IF tool[t] # 0 THEN Msg("tool_response", tool[t])
               ELSE Msg("execute", run[t])

\* Mutant: _send does not check for None.
SendUnchecked(t) ==
    /\ pc[t] = "send"
    /\ handle' = [handle EXCEPT ![t] = process]
    /\ Goto(t, "write")
    /\ UNCHANGED <<guestVars, ended, process, responses, reader, closed,
                   unflushed, spared, callVars>>

\* process = self._process; None is the end of the session.
Send(t) ==
    /\ pc[t] = "send"
    /\ \/ process = None /\ Terminal(t)
       \/ /\ process # None
          /\ handle' = [handle EXCEPT ![t] = process]
          /\ Goto(t, "write")
          /\ UNCHANGED <<ended, callVars>>
    /\ UNCHANGED <<guestVars, process, responses, reader, closed, unflushed,
                   spared>>

\* write and flush.  A closed stream is a ValueError, and so is (or a TypeError)
\* a tool name or an output field that is no JSON; a pipe nobody reads is an
\* OSError that leaves the line in the buffer.
Write(t) ==
    /\ pc[t] = "write"
    /\ LET w == handle[t] IN
          \/ /\ "stdin" \in closed[w] \/ Outgoing(t).type = "execute"
             /\ Terminal(t)
             /\ UNCHANGED <<stdin, unflushed>>
          \/ /\ "stdin" \notin closed[w]
             /\ ~Connected(w)
             /\ unflushed' = unflushed \cup {w}
             /\ Terminal(t)
             /\ UNCHANGED stdin
          \/ /\ "stdin" \notin closed[w]
             /\ Connected(w)
             /\ stdin' = [stdin EXCEPT ![w] = Append(@, Outgoing(t))]
             /\ Goto(t, IF frame[t] = "try" THEN "await" ELSE "receive")
             /\ tool' = IF frame[t] = "try" THEN tool ELSE [tool EXCEPT ![t] = 0]
             /\ handle' = [handle EXCEPT ![t] = None]
             /\ UNCHANGED <<ended, unflushed, run, frame, outcome, runs,
                            verdict, lock>>
    /\ UNCHANGED <<worker, job, awaits, issued, child, stdout, process,
                   responses, reader, closed, spared>>

-----------------------------------------------------------------------------
(* shutdown. *)

\* An idle thread, or the host tool that the thread is running.  Without
\* Overlap nobody else is executing.
MayStop(t) ==
    /\ t \in Stoppers
    /\ \/ pc[t] = "idle" /\ (Overlap \/ lock = None)
       \/ pc[t] = "tool"

CallShutdown(t) ==
    /\ MayStop(t)
    /\ \/ /\ ended
          /\ outcome' = [outcome EXCEPT ![t] = "ok"]
          /\ UNCHANGED <<ended, pc, frame>>
       \/ /\ ~ended
          /\ ended' = TRUE
          /\ \/ /\ process # None
                /\ Goto(t, "send")
                /\ frame' = [frame EXCEPT ![t] = "try"]
             \/ /\ process = None
                /\ Goto(t, "last")
                /\ frame' = [frame EXCEPT ![t] = "last"]
          /\ UNCHANGED outcome
    /\ UNCHANGED <<guestVars, process, responses, lock, reader, closed,
                   unflushed, spared, run, tool, handle, runs, verdict>>

\* self._process is read again for the wait.
Await(t) ==
    /\ pc[t] = "await"
    /\ \/ /\ process = None
          /\ LeaveShutdown(t, "AttributeError")
       \/ /\ process # None
          /\ handle' = [handle EXCEPT ![t] = process]
          /\ Goto(t, "wait")
          /\ UNCHANGED <<lock, run, tool, frame, outcome, runs>>
    /\ UNCHANGED <<guestVars, ended, process, responses, reader, closed,
                   unflushed, spared, verdict>>

\* The worker exited, or one second passed and TimeoutExpired is swallowed.
Wait(t) ==
    /\ pc[t] = "wait"
    /\ Goto(t, "last")
    /\ handle' = [handle EXCEPT ![t] = None]
    /\ UNCHANGED <<guestVars, ended, process, responses, reader, closed,
                   unflushed, spared, callVars>>

\* Mutant: shutdown trusts the worker to exit and does not kill it.
LastKillSkipped(t) ==
    /\ pc[t] = "last"
    /\ LeaveShutdown(t, "ok")
    /\ UNCHANGED <<guestVars, ended, process, responses, reader, closed,
                   unflushed, spared, verdict>>

\* The _kill at the end of shutdown: process = self._process.
LastKill(t) ==
    /\ pc[t] = "last"
    /\ handle' = [handle EXCEPT ![t] = process]
    /\ frame' = [frame EXCEPT ![t] = "last"]
    /\ Goto(t, "detach")
    /\ UNCHANGED <<guestVars, ended, process, responses, lock, reader, closed,
                   unflushed, spared, run, tool, outcome, runs, verdict>>

-----------------------------------------------------------------------------
(* _kill, after its first statement. *)

\* self._process = None
Detach(t) ==
    /\ pc[t] = "detach"
    /\ process' = None
    /\ \/ handle[t] = None /\ Killed(t)
       \/ /\ handle[t] # None
          /\ Goto(t, "reap")
          /\ UNCHANGED <<lock, run, tool, handle, frame, outcome, runs>>
    /\ UNCHANGED <<guestVars, ended, responses, reader, closed, unflushed,
                   spared, verdict>>

\* Mutant: _kill closes the streams of a process it has not killed.
ReapWithoutKill(t) ==
    /\ pc[t] = "reap"
    /\ Goto(t, "stdin")
    /\ UNCHANGED <<guestVars, ended, process, responses, reader, closed,
                   unflushed, spared, handle, callVars>>

\* SIGKILL, and a wait that finds the process gone.
Reap(t) ==
    /\ pc[t] = "reap"
    /\ Become(handle[t], "exited")
    /\ Goto(t, "stdin")
    /\ UNCHANGED <<job, awaits, issued, child, stdin, stdout, ended, process,
                   responses, reader, closed, unflushed, spared, handle, callVars>>

\* process.stdin.close() flushes first: a line that could not go out before
\* raises again, and the stream is closed all the same.
CloseStdin(t) ==
    /\ pc[t] = "stdin"
    /\ LET w == handle[t] IN
          /\ closed' = [closed EXCEPT ![w] = @ \cup {"stdin"}]
          /\ unflushed' = unflushed \ {w}
          /\ \/ w \in unflushed /\ ~Connected(w) /\ Escape(t, "OSError")
             \/ /\ w \notin unflushed \/ Connected(w)
                /\ Goto(t, "stdout")
                /\ UNCHANGED <<lock, run, tool, handle, frame, outcome, runs>>
    /\ UNCHANGED <<guestVars, ended, process, responses, reader, spared,
                   verdict>>

\* process.stdout.close() needs the stream's own lock, which the reader
\* thread holds while it is blocked in a read.
CloseStdout(t) ==
    /\ pc[t] = "stdout"
    /\ reader[handle[t]] # "blocked"
    /\ closed' = [closed EXCEPT ![handle[t]] = @ \cup {"stdout"}]
    /\ Killed(t)
    /\ UNCHANGED <<guestVars, ended, process, responses, reader, unflushed,
                   spared, verdict>>

-----------------------------------------------------------------------------
(* _read_responses, one daemon thread per worker. *)

\* The next iteration: reading a closed stream raises ValueError, and the
\* thread dies without putting the end marker.
ReaderLoop(w) ==
    /\ reader[w] = "between"
    /\ reader' = [reader EXCEPT ![w] = IF "stdout" \in closed[w] THEN "done" ELSE "blocked"]
    /\ UNCHANGED <<guestVars, ended, process, responses, closed, unflushed,
                   spared, pc,
                   handle, callVars>>

ReaderLine(w) ==
    /\ reader[w] = "blocked"
    /\ stdout[w] # <<>>
    /\ stdout' = [stdout EXCEPT ![w] = Tail(@)]
    /\ responses' = Append(responses, Head(stdout[w]))
    /\ reader' = [reader EXCEPT ![w] = "between"]
    /\ UNCHANGED <<worker, job, awaits, issued, child, stdin, ended, process,
                   closed, unflushed, spared, pc, handle, callVars>>

\* Mutant: the reader thread ends without the end marker.
ReaderEndsSilently(w) ==
    /\ reader[w] = "blocked"
    /\ stdout[w] = <<>>
    /\ ~Connected(w)
    /\ reader' = [reader EXCEPT ![w] = "done"]
    /\ UNCHANGED <<guestVars, ended, process, responses, closed, unflushed,
                   spared, pc,
                   handle, callVars>>

\* End of file: nobody holds the other end of the pipe any more.
ReaderEnd(w) ==
    /\ reader[w] = "blocked"
    /\ stdout[w] = <<>>
    /\ ~Connected(w)
    /\ responses' = Append(responses, [type |-> "eof", id |-> 0])
    /\ reader' = [reader EXCEPT ![w] = "done"]
    /\ UNCHANGED <<guestVars, ended, process, closed, unflushed, spared, pc,
                   handle, callVars>>

-----------------------------------------------------------------------------

\* What a thread does with a call it is in.
Advance(t) ==
    \/ StartCheck(t) \/ Attach(t) \/ Spawn(t) \/ SpawnFails(t)
    \/ Send(t) \/ Write(t) \/ Receive(t) \/ Timeout(t) \/ RunTool(t)
    \/ Await(t) \/ Wait(t) \/ LastKill(t)
    \/ Detach(t) \/ Reap(t) \/ CloseStdin(t) \/ CloseStdout(t)

\* What it may do, or what may befall it.
Choose(t) ==
    \/ CallExecute(t) \/ CallBusy(t) \/ RejectInput(t)
    \/ CallStart(t) \/ CallShutdown(t) \/ Interrupt(t)

Read(w) == ReaderLoop(w) \/ ReaderLine(w) \/ ReaderEnd(w)

Init == GuestInit /\ HostInit

Next ==
    \/ \E t \in Threads : Advance(t) \/ Choose(t)
    \/ \E w \in Workers : Read(w)
    \/ GuestStep /\ UNCHANGED hostVars

Spec == Init /\ [][Next]_vars

\* The operating system schedules every thread and process, host tools
\* return, and queue.get and Popen.wait give up when their time is over.
\* Guest code may loop for ever, and children may live for ever.
Fairness ==
    /\ \A t \in Threads : WF_vars(Advance(t))
    /\ \A w \in Workers : WF_vars(Read(w))
    /\ \A w \in Workers : WF_vars(Protocol(w) /\ UNCHANGED hostVars)

FairSpec == Spec /\ Fairness
-----------------------------------------------------------------------------
(* Properties. *)

Killing(t, w) == handle[t] = w /\ pc[t] \in {"detach", "reap"}

\* execute returns what its own code computed: the result it takes from the
\* queue is the one the worker sent for this call, never one that an earlier
\* call left behind.  Nothing on the wire says so: results carry no number.
OwnAnswer == \A r \in 1..MaxRuns : verdict[r] \in {0, r}

\* A live worker can still be reached: the session refers to it, or some
\* thread is about to kill it.
NoOrphan == \A w \in Workers :
               Alive(w) => process = w \/ \E t \in Threads : Killing(t, w)

\* Once the session has ended and every call has returned, no worker lives,
\* but one whose shutdown an interrupt cut off before the kill.
NoLeak == (ended /\ \A t \in Threads : pc[t] = "idle") =>
             \A w \in Workers : Alive(w) => w \in spared

\* The host runs a tool only while the guest call that asked for it waits for
\* the answer: no request is served twice, late, or on behalf of a past run.
\* (Once shutdown was called from the tool, the shutdown line has taken the
\* place of the answer.)
ToolAwaited == \A t \in Threads :
                  pc[t] = "tool" /\ ~ended =>
                     \E w \in Workers, g \in Guests : awaits[w][g] = tool[t]

\* Every run of a session sees the namespace the earlier ones left: guest
\* code never runs in two workers.
OneNamespace == \A v, w \in Workers : job[v] # 0 /\ job[w] # 0 => v = w

\* Calls end with a value or with the interpreter's own exceptions.
DocumentedErrors == \A t \in Threads : outcome[t] \in {"ok", "CodeInterpreterError"}

\* Why the three invariants above hold when nobody calls start directly and
\* nobody shuts the session down while another thread executes.
\*   - The lock: an execute call holds it from its first step to its last,
\*     and a call without it is a shutdown that has already ended the session.
LockDiscipline ==
    /\ \A t \in Threads : run[t] # 0 <=> lock = t
    /\ \A t \in Threads : pc[t] # "idle" /\ frame[t] = "call" => lock = t
    /\ \A t \in Threads :
          pc[t] \in {"idle", "check", "attach", "spawn", "ready", "receive", "tool"} =>
             frame[t] = "call"
    /\ \A t \in Threads : pc[t] \in {"await", "wait", "last"} => frame[t] # "call"
    /\ \A t \in Threads : pc[t] \in {"send", "write"} => frame[t] # "last"
    /\ \A t \in Threads : pc[t] = "idle" => lock # t

\*   - The end: a session in which a shutdown or a kill is under way has
\*     ended, one in which start is under way has not, and an ended session
\*     that still has its worker has a thread that is about to kill it, or
\*     had one that was interrupted.
EndDiscipline ==
    /\ \A t \in Threads : frame[t] # "call" => ended
    /\ \A t \in Threads : pc[t] \in {"detach", "reap", "stdin", "stdout"} => ended
    /\ \A t \in Threads : pc[t] \in {"attach", "spawn", "ready"} => ~ended
    /\ ended /\ process # None =>
          \/ Interrupts /\ process \in spared
          \/ \E t \in Threads : frame[t] # "call" \/ pc[t] = "detach"

\*   - The worker: there is at most one, and only an ended session lets go
\*     of it.
WorkerDiscipline ==
    /\ \A v, w \in Workers : worker[v] # "unborn" /\ worker[w] # "unborn" => v = w
    /\ \A w \in Workers : job[w] # 0 => worker[w] # "unborn"
    /\ process # None => worker[process] # "unborn"
    /\ \A t \in Threads : handle[t] # None => worker[handle[t]] # "unborn"
    /\ ~ended /\ process = None => \A w \in Workers : worker[w] = "unborn"
    /\ \A t \in Threads : pc[t] = "spawn" => process = None
    /\ \A t \in Threads : pc[t] = "detach" => process \in {None, handle[t]}
    /\ \A t \in Threads : pc[t] \in {"reap", "stdin", "stdout"} => process = None

SessionInv == LockDiscipline /\ EndDiscipline /\ WorkerDiscipline /\ NoOrphan

\* Why OwnAnswer holds when, besides, no BaseException leaves a call behind.
\* What a run leads to is in one place at a time: the execute line in stdin,
\* the busy worker, the result line in stdout, or the one in the queue.
Queued == Ids(responses, "execution_result")

\* Its execute line is out and its result not in.
Asking(t) == \/ pc[t] \in {"receive", "tool"}
             \/ pc[t] \in {"send", "write"} /\ tool[t] # 0

Awaited == IF lock # None /\ Asking(lock) THEN {run[lock]} ELSE {}

OneAnswer ==
    /\ Single(responses, "execution_result")
    /\ Queued \subseteq Awaited
    /\ \A w \in Workers :
          /\ Single(stdin[w], "execute")
          /\ Single(stdout[w], "execution_result")
          /\ Asked(w) \cup Working(w) \cup Answered(w) \subseteq Awaited
          /\ Asked(w) = {} \/ Working(w) = {}
          /\ Asked(w) = {} \/ Answered(w) = {}
          /\ Working(w) = {} \/ Answered(w) = {}
          /\ Queued = {} \/ Asked(w) \cup Working(w) \cup Answered(w) = {}

\* A worker that is not born says nothing; tool requests are numbered from 1.
Silence ==
    /\ \A w \in Workers : worker[w] = "unborn" =>
          stdin[w] = <<>> /\ stdout[w] = <<>> /\ child[w] = "none"
    /\ \A w \in Workers : 0 \notin Ids(stdout[w], "tool_request")
    /\ 0 \notin Ids(responses, "tool_request")
    /\ \A t \in Threads :
          pc[t] = "tool" \/ (frame[t] # "call" /\ lock = t) => tool[t] # 0

\* Who has got past the check of _ended is alone, and reads and writes only
\* while the session is open.
Alone ==
    /\ \A t, u \in Threads : lock = t /\ pc[t] # "check" /\ u # t => pc[u] = "idle"
    /\ \A t \in Threads :
          pc[t] = "receive" \/ (pc[t] = "write" /\ frame[t] = "call") => ~ended

AnswerInv == Silence /\ Alone /\ (~ended => OneAnswer) /\ OwnAnswer

\* Every call returns.
CallsReturn == \A t \in Threads : pc[t] # "idle" ~> pc[t] = "idle"

\* An execution notices that its worker is gone, without any timeout, as soon
\* as nothing else holds the worker's pipes.
DeadWorkerNoticed == \A t \in Threads :
    (pc[t] = "receive" /\ \A w \in Workers : ~Connected(w)) ~> pc[t] = "idle"

\* A session that has ended gets rid of its worker, unless its shutdown is
\* interrupted: a later one finds _ended set and does nothing.
EndKills == ended ~> \A w \in Workers : Alive(w) => w \in spared

-----------------------------------------------------------------------------
(* The session implements the contract of CodeInterpreter. *)

\* An execution counts as begun once start has let it past _ended.
Active == IF lock = None THEN 0
          ELSE IF pc[lock] = "check" THEN 0 ELSE run[lock]

Latest == IF \E w \in Workers : job[w] # 0
          THEN job[CHOOSE w \in Workers : job[w] # 0] ELSE 0

Contract == INSTANCE CodeInterpreter
                WITH open <- ~ended, active <- Active, latest <- Latest, answer <- verdict

\* Seen from its callers the session, its threads, its queue and its worker
\* are the atomic object that CodeInterpreter describes.
ImplementsContract == Contract!Spec
=============================================================================
