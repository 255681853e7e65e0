-------------------------- MODULE ModalInterpreter --------------------------
(***************************************************************************)
(* One session of ModalInterpreter, also the base class of                 *)
(* ExeDevInterpreter: host threads that call execute, start and shutdown,  *)
(* and a provider sandbox that runs the worker text _WORKER.  That worker  *)
(* speaks the protocol of GuestWorker; where _subprocess_worker.py turns   *)
(* SystemExit into a result, _WORKER dies of it, which GuestWorker's Die   *)
(* covers.                                                                 *)
(*                                                                         *)
(* execute holds _execution_lock, start holds _start_lock from its second  *)
(* look at _ended to its end, shutdown holds neither.  The host reads the  *)
(* sandbox's stdout itself; with ExeDevInterpreter _TimedLines relays the  *)
(* lines in order and turns a late one into TimeoutError.                  *)
(***************************************************************************)
EXTENDS GuestWorker, FiniteSets

CONSTANTS
    Threads,     \* host threads that share the session object
    Executors,   \* those that call execute
    Starters,    \* those that call start directly
    Stoppers,    \* those that call shutdown, also from inside a host tool
    Settings,    \* what a session may meet, one of them for its whole life:
                 \* overlap: shutdown may come while another thread is in a call;
                 \* timed: reads give up (_TimedLines) or wait for ever;
                 \* faults: the provider may fail to terminate a sandbox;
                 \* interrupts: KeyboardInterrupt or SystemExit may reach any wait
                 \* for the provider, and tools; children: guest code may start
                 \* child processes
    MaxRuns,     \* bound: calls of execute that are admitted
    None

ASSUME HostAssumption ==
    /\ Executors \subseteq Threads
    /\ Starters \subseteq Threads
    /\ Stoppers \subseteq Threads
    /\ Settings \subseteq [{"overlap", "timed", "faults", "interrupts", "children"} -> BOOLEAN]
    /\ MaxRuns \in Nat
    /\ None \notin Threads \cup Workers

VARIABLES
    setting,
    ended,       \* self._ended
    sandbox,     \* self._sandbox: a worker, or None
    stream,      \* self._stdout: the worker whose lines it yields, or None
    asked,       \* sandboxes the provider was asked to terminate
    lock,        \* who holds self._execution_lock
    starting,    \* who holds self._start_lock
    pc,          \* [Threads -> where the thread is]
    run,         \* [Threads -> number of the execute call it is in, 0 if none]
    tool,        \* [Threads -> request id of the host tool call it serves, 0 if none]
    reads,       \* [Threads -> the iterator it is blocked in]
    frame,       \* [Threads -> the call that the next exception reaches]
    outcome,     \* [Threads -> how its last call ended]
    runs,        \* how many execute calls were admitted
    verdict      \* [1..MaxRuns -> run whose result execute returned, 0 if none]

callVars == <<run, tool, reads, frame, outcome, runs, lock, starting>>
sessionVars == <<ended, sandbox, stream, asked>>
hostVars == <<sessionVars, callVars, pc, verdict>>
vars == <<setting, guestVars, hostVars>>

Overlap == setting.overlap
Timed == setting.timed
Faults == setting.faults
Interrupts == setting.interrupts

Places == {"idle", "check", "enter", "recheck", "create", "attach", "look",
           "next", "send", "tool", "kill", "stop"}

Outcomes == {"ok", "CodeInterpreterError", "AttributeError", "ProviderError",
             "BaseException"}

\* Type correctness of the session and its sandboxes.
TypeOK ==
    /\ setting \in Settings
    /\ GuestTypeOK
    /\ ended \in BOOLEAN
    /\ {sandbox, stream} \subseteq Workers \cup {None}
    /\ asked \subseteq Workers
    /\ lock \in Executors \cup {None}
    /\ starting \in Threads \cup {None}
    /\ pc \in [Threads -> Places]
    /\ run \in [Threads -> 0..MaxRuns]
    /\ tool \in [Threads -> Nat]
    /\ reads \in [Threads -> Workers \cup {None}]
    /\ frame \in [Threads -> {"call", "shutdown"}]
    /\ outcome \in [Threads -> Outcomes]
    /\ runs \in 0..MaxRuns
    /\ verdict \in [1..MaxRuns -> Nat]
    /\ \A t \in Threads : pc[t] = "next" => reads[t] # None

Init ==
    /\ setting \in Settings
    /\ GuestInit
    /\ ended = FALSE
    /\ sandbox = None
    /\ stream = None
    /\ asked = {}
    /\ lock = None
    /\ starting = None
    /\ pc = [t \in Threads |-> "idle"]
    /\ run = [t \in Threads |-> 0]
    /\ tool = [t \in Threads |-> 0]
    /\ reads = [t \in Threads |-> None]
    /\ frame = [t \in Threads |-> "call"]
    /\ outcome = [t \in Threads |-> "ok"]
    /\ runs = 0
    /\ verdict = [r \in 1..MaxRuns |-> 0]

-----------------------------------------------------------------------------
(* How calls move on and end. *)

Goto(t, place) == pc' = [pc EXCEPT ![t] = place]

Step(t, place) == Goto(t, place) /\ UNCHANGED callVars

\* execute or start returns or raises: with and finally free what it holds.
Leave(t, how) ==
    /\ Goto(t, "idle")
    /\ lock' = IF lock = t THEN None ELSE lock
    /\ starting' = IF starting = t THEN None ELSE starting
    /\ run' = [run EXCEPT ![t] = 0]
    /\ tool' = [tool EXCEPT ![t] = 0]
    /\ reads' = [reads EXCEPT ![t] = None]
    /\ outcome' = [outcome EXCEPT ![t] = how]
    /\ UNCHANGED <<frame, runs>>

\* shutdown returns or raises, to the host tool that called it or for good.
LeaveShutdown(t, how) ==
    /\ Goto(t, IF lock = t THEN "tool" ELSE "idle")
    /\ frame' = [frame EXCEPT ![t] = "call"]
    /\ outcome' = [outcome EXCEPT ![t] = how]
    /\ UNCHANGED <<lock, starting, run, tool, reads, runs>>

\* Mutant of _terminal: the session stays open.
TerminalOnlyRaises(t) ==
    /\ Leave(t, "CodeInterpreterError")
    /\ UNCHANGED <<sessionVars, guestVars, verdict>>

\* _terminal, up to its look at _sandbox.
Terminal(t) ==
    /\ ended' = TRUE
    /\ Step(t, "kill")
    /\ UNCHANGED <<guestVars, sandbox, stream, asked, verdict>>

\* start is done: on to the request of execute, or back to the caller.
Started(t) ==
    \/ /\ run[t] # 0
       /\ Goto(t, "send")
       /\ starting' = IF starting = t THEN None ELSE starting
       /\ reads' = [reads EXCEPT ![t] = None]
       /\ UNCHANGED <<run, tool, frame, outcome, runs, lock>>
    \/ /\ run[t] = 0
       /\ Leave(t, "ok")

\* The provider is asked to terminate sandbox w, and does, or may fail to.
Terminate(w, mayFail) ==
    /\ asked' = asked \cup {w}
    /\ \/ /\ Become(w, "exited")
          /\ child' = [child EXCEPT ![w] = "gone"]
       \/ mayFail /\ UNCHANGED <<worker, child>>
    /\ UNCHANGED <<job, awaits, issued, stdin, stdout>>

-----------------------------------------------------------------------------
(* execute, up to start. *)

CallExecute(t) ==
    /\ t \in Executors
    /\ pc[t] = "idle"
    /\ runs < MaxRuns
    /\ lock = None
    /\ lock' = t
    /\ runs' = runs + 1
    /\ run' = [run EXCEPT ![t] = runs']
    /\ Goto(t, "check")
    /\ UNCHANGED <<guestVars, sessionVars, starting, tool, reads, frame,
                   outcome, verdict>>

\* "already has an active execution"
CallBusy(t) ==
    /\ t \in Executors
    /\ pc[t] = "idle"
    /\ lock # None
    /\ outcome' = [outcome EXCEPT ![t] = "CodeInterpreterError"]
    /\ UNCHANGED <<guestVars, sessionVars, pc, lock, starting, run, tool, reads,
                   frame, runs, verdict>>

CallStart(t) ==
    /\ t \in Starters
    /\ pc[t] = "idle"
    /\ Step(t, "check")
    /\ UNCHANGED <<guestVars, sessionVars, verdict>>

-----------------------------------------------------------------------------
(* start. *)

\* The first _check_active.
CheckActive(t) ==
    /\ pc[t] = "check"
    /\ \/ ended /\ Leave(t, "CodeInterpreterError")
       \/ ~ended /\ Step(t, "enter")
    /\ UNCHANGED <<guestVars, sessionVars, verdict>>

\* Mutant: start takes no lock.
EnterUnlocked(t) ==
    /\ pc[t] = "enter"
    /\ starting' = t
    /\ Goto(t, "recheck")
    /\ UNCHANGED <<guestVars, sessionVars, run, tool, reads, frame, outcome,
                   runs, lock, verdict>>

EnterStart(t) ==
    /\ pc[t] = "enter"
    /\ starting = None
    /\ starting' = t
    /\ Goto(t, "recheck")
    /\ UNCHANGED <<guestVars, sessionVars, run, tool, reads, frame, outcome,
                   runs, lock, verdict>>

\* Mutants of what start does under its lock: one forgets the second look at
\* _ended, one the look at _sandbox.
RecheckSandboxOnly(t) ==
    /\ pc[t] = "recheck"
    /\ \/ sandbox # None /\ Started(t)
       \/ sandbox = None /\ Step(t, "create")
    /\ UNCHANGED <<guestVars, sessionVars, verdict>>

RecheckEndedOnly(t) ==
    /\ pc[t] = "recheck"
    /\ \/ ended /\ Leave(t, "CodeInterpreterError")
       \/ ~ended /\ Step(t, "create")
    /\ UNCHANGED <<guestVars, sessionVars, verdict>>

\* The second _check_active, and the return for a session that has a sandbox.
Recheck(t) ==
    /\ pc[t] = "recheck"
    /\ \/ ended /\ Leave(t, "CodeInterpreterError")
       \/ ~ended /\ sandbox # None /\ Started(t)
       \/ ~ended /\ sandbox = None /\ Step(t, "create")
    /\ UNCHANGED <<guestVars, sessionVars, verdict>>

\* sandbox_factory or modal.Sandbox.create, and self._sandbox.
Create(t) ==
    /\ pc[t] = "create"
    /\ \E w \in Workers :
          /\ worker[w] = "unborn"
          /\ Become(w, "booting")
          /\ sandbox' = w
    /\ Step(t, "attach")
    /\ UNCHANGED <<job, awaits, issued, child, stdin, stdout, ended, stream,
                   asked, verdict>>

\* "Unable to start": the provider made no sandbox; the session ends.
CreateFails(t) == pc[t] = "create" /\ Terminal(t)

\* self._stdout = iter(self._sandbox.stdout)
Attach(t) ==
    /\ pc[t] = "attach"
    /\ \/ sandbox = None /\ Terminal(t)
       \/ /\ sandbox # None
          /\ stream' = sandbox
          /\ Step(t, "look")
          /\ UNCHANGED <<guestVars, ended, sandbox, asked, verdict>>

-----------------------------------------------------------------------------
(* _receive and the loop of execute. *)

\* Mutant: None is taken for an iterator.
LookUnchecked(t) ==
    /\ pc[t] = "look"
    /\ reads' = [reads EXCEPT ![t] = stream]
    /\ Goto(t, "next")
    /\ UNCHANGED <<guestVars, sessionVars, run, tool, frame, outcome, runs,
                   lock, starting, verdict>>

\* next(self._stdout): the iterator is looked up, then waited for.
Look(t) ==
    /\ pc[t] = "look"
    /\ \/ stream = None /\ Terminal(t)
       \/ /\ stream # None
          /\ reads' = [reads EXCEPT ![t] = stream]
          /\ Goto(t, "next")
          /\ UNCHANGED <<guestVars, sessionVars, run, tool, frame, outcome, runs,
                         lock, starting, verdict>>

\* The ready line while the thread starts the session, a tool request or a
\* result while it executes; anything else is the end of the session.
Expected(t, type) == IF starting = t THEN type = "ready"
                     ELSE type \in {"tool_request", "execution_result"}

Receive(t) ==
    /\ pc[t] = "next"
    /\ LET w == reads[t]
           m == Head(stdout[w]) IN
          /\ stdout[w] # <<>>
          /\ stdout' = [stdout EXCEPT ![w] = Tail(@)]
          /\ \/ /\ ~Expected(t, m.type)
                /\ ended' = TRUE
                /\ Step(t, "kill")
                /\ UNCHANGED verdict
             \/ /\ Expected(t, m.type)
                /\ m.type = "ready"
                /\ Started(t)
                /\ UNCHANGED <<ended, verdict>>
             \/ /\ Expected(t, m.type)
                /\ m.type = "tool_request"
                /\ Goto(t, "tool")
                /\ tool' = [tool EXCEPT ![t] = m.id]
                /\ reads' = [reads EXCEPT ![t] = None]
                /\ UNCHANGED <<ended, run, frame, outcome, runs, lock, starting, verdict>>
             \/ /\ Expected(t, m.type)
                /\ m.type = "execution_result"
                /\ verdict' = [verdict EXCEPT ![run[t]] = m.id]
                /\ Leave(t, "ok")
                /\ UNCHANGED ended
    /\ UNCHANGED <<worker, job, awaits, issued, child, stdin, sandbox, stream, asked>>

\* StopIteration: the worker is gone and its lines are read.
EndOfStream(t) ==
    /\ pc[t] = "next"
    /\ stdout[reads[t]] = <<>>
    /\ ~Connected(reads[t])
    /\ Terminal(t)

\* Mutant: only the first line of a session has a deadline.
TimeoutOnlyAtStart(t) == Timed /\ pc[t] = "next" /\ starting = t /\ Terminal(t)

\* TimeoutError of _TimedLines; a line still on its way is lost with the session.
Timeout(t) == Timed /\ pc[t] = "next" /\ Terminal(t)

\* The host tool returns or raises an Exception; _handle_tool answers either way.
RunTool(t) ==
    /\ pc[t] = "tool"
    /\ Step(t, "send")
    /\ UNCHANGED <<guestVars, sessionVars, verdict>>

-----------------------------------------------------------------------------
(* _send. *)

\* What the thread is about to send.
Outgoing(t) == IF frame[t] = "shutdown" THEN Msg("shutdown", 0)
               ELSE IF tool[t] # 0 THEN Msg("tool_response", tool[t])
               ELSE Msg("execute", run[t])

\* Variables that are not JSON-compatible: the session stays as it is.
RejectInput(t) ==
    /\ pc[t] = "send"
    /\ frame[t] = "call"
    /\ tool[t] = 0
    /\ Leave(t, "CodeInterpreterError")
    /\ UNCHANGED <<guestVars, sessionVars, verdict>>

\* self._sandbox.stdin.write and drain.
Send(t) ==
    /\ pc[t] = "send"
    /\ sandbox # None
    /\ Connected(sandbox)
    /\ stdin' = [stdin EXCEPT ![sandbox] = Append(@, Outgoing(t))]
    /\ Goto(t, IF frame[t] = "shutdown" THEN "stop" ELSE "look")
    /\ tool' = IF frame[t] = "shutdown" THEN tool ELSE [tool EXCEPT ![t] = 0]
    /\ UNCHANGED <<worker, job, awaits, issued, child, stdout, sessionVars, run,
                   reads, frame, outcome, runs, lock, starting, verdict>>

\* Any Exception of it: no sandbox, one that is gone, a provider that fails,
\* code that JSON cannot encode.
SendFails(t) == pc[t] = "send" /\ Terminal(t)

-----------------------------------------------------------------------------
(* The end of a session. *)

\* What follows the terminate of _terminal: CodeInterpreterError, which
\* shutdown swallows when it comes from its own _send.
Killed(t) ==
    \/ frame[t] = "call" /\ Leave(t, "CodeInterpreterError")
    \/ frame[t] = "shutdown" /\ Step(t, "stop")

\* Mutant: _terminal drops the sandbox without asking for its end.
KillForgets(t) ==
    /\ pc[t] = "kill"
    /\ sandbox' = None
    /\ stream' = None
    /\ Killed(t)
    /\ UNCHANGED <<guestVars, ended, asked, verdict>>

\* The rest of _terminal: whatever terminate raises is swallowed.
Kill(t) ==
    /\ pc[t] = "kill"
    /\ \/ /\ sandbox = None
          /\ UNCHANGED <<guestVars, sandbox, stream, asked>>
       \/ /\ sandbox # None
          /\ Terminate(sandbox, Faults)
          /\ sandbox' = None
          /\ stream' = None
    /\ Killed(t)
    /\ UNCHANGED <<ended, verdict>>

\* An idle thread, or the host tool that the thread runs.  Without Overlap
\* nobody else is in a call.
MayStop(t) ==
    /\ t \in Stoppers
    /\ \/ pc[t] = "idle" /\ (Overlap \/ \A u \in Threads : pc[u] = "idle")
       \/ pc[t] = "tool" /\ (Overlap \/ \A u \in Threads \ {t} : pc[u] = "idle")

CallShutdown(t) ==
    /\ MayStop(t)
    /\ \/ /\ ended
          /\ outcome' = [outcome EXCEPT ![t] = "ok"]
          /\ UNCHANGED <<ended, pc, frame>>
       \/ /\ ~ended
          /\ ended' = TRUE
          /\ sandbox = None
          /\ outcome' = [outcome EXCEPT ![t] = "ok"]
          /\ UNCHANGED <<pc, frame>>
       \/ /\ ~ended
          /\ ended' = TRUE
          /\ sandbox # None
          /\ Goto(t, "send")
          /\ frame' = [frame EXCEPT ![t] = "shutdown"]
          /\ UNCHANGED outcome
    /\ UNCHANGED <<guestVars, sandbox, stream, asked, lock, starting, run, tool,
                   reads, runs, verdict>>

\* self._sandbox.terminate(wait=True); finally: self._sandbox = None.
StopSandbox(t) ==
    /\ pc[t] = "stop"
    /\ sandbox' = None
    /\ \/ /\ sandbox = None
          /\ LeaveShutdown(t, "AttributeError")
          /\ UNCHANGED <<guestVars, asked>>
       \/ /\ sandbox # None
          /\ Terminate(sandbox, Faults)
          /\ LeaveShutdown(t, IF worker'[sandbox] = "exited" THEN "ok" ELSE "ProviderError")
    /\ UNCHANGED <<ended, stream, verdict>>

-----------------------------------------------------------------------------
(* A BaseException that is no Exception, such as KeyboardInterrupt, passes   *)
(* every except clause; only with and finally run.                         *)

\* In a call: while the sandbox is created (the session hears of none), in
\* next(self._stdout) or in a host tool.
InterruptWait(t) ==
    /\ pc[t] \in {"create", "next", "tool"}
    /\ Leave(t, "BaseException")
    /\ UNCHANGED <<guestVars, sessionVars, verdict>>

\* In stdin.drain: the line may have gone out.  A shutdown that ends here leaves
\* the session ended, and the sandbox as it is.
InterruptSend(t) ==
    /\ pc[t] = "send"
    /\ sandbox # None
    /\ \/ UNCHANGED stdin
       \/ Connected(sandbox) /\ stdin' = [stdin EXCEPT ![sandbox] = Append(@, Outgoing(t))]
    /\ \/ frame[t] = "call" /\ Leave(t, "BaseException")
       \/ frame[t] = "shutdown" /\ LeaveShutdown(t, "BaseException")
    /\ UNCHANGED <<worker, job, awaits, issued, child, stdout, sessionVars, verdict>>

\* In terminate(wait=True), in _terminal or in shutdown: it was asked for, and
\* finally forgets the sandbox.
InterruptEnd(t) ==
    /\ pc[t] \in {"kill", "stop"}
    /\ sandbox # None
    /\ Terminate(sandbox, TRUE)
    /\ sandbox' = None
    /\ stream' = IF pc[t] = "kill" THEN None ELSE stream
    /\ \/ frame[t] = "call" /\ Leave(t, "BaseException")
       \/ frame[t] = "shutdown" /\ LeaveShutdown(t, "BaseException")
    /\ UNCHANGED <<ended, verdict>>

Interrupt(t) == Interrupts /\ (InterruptWait(t) \/ InterruptSend(t) \/ InterruptEnd(t))

-----------------------------------------------------------------------------

Advance(t) ==
    \/ CheckActive(t) \/ EnterStart(t) \/ Recheck(t) \/ Create(t) \/ CreateFails(t)
    \/ Attach(t) \/ Look(t) \/ Receive(t) \/ EndOfStream(t) \/ Timeout(t)
    \/ RunTool(t) \/ Send(t) \/ SendFails(t) \/ Kill(t) \/ StopSandbox(t)

Choose(t) ==
    \/ CallExecute(t) \/ CallBusy(t) \/ CallStart(t) \/ CallShutdown(t)
    \/ RejectInput(t) \/ Interrupt(t)

Next ==
    /\ UNCHANGED setting
    /\ \/ \E t \in Threads : Advance(t) \/ Choose(t)
       \/ /\ GuestStep /\ UNCHANGED hostVars
          /\ setting.children \/ UNCHANGED child

Spec == Init /\ [][Next]_vars

\* Threads and processes are scheduled, host tools return, timeouts fire, and
\* nobody waits for ever for a lock that others take and free again and again.
Fairness ==
    /\ \A t \in Threads : /\ WF_vars(Advance(t) /\ UNCHANGED setting)
                          /\ SF_vars(EnterStart(t) /\ UNCHANGED setting)
    /\ \A w \in Workers : WF_vars(Protocol(w) /\ UNCHANGED <<setting, hostVars>>)

FairSpec == Spec /\ Fairness
-----------------------------------------------------------------------------
(* Properties. *)

\* A session that has ended, with every call back, has asked the provider to
\* terminate each sandbox it created and that did not end by itself, unless a
\* shutdown overlapped the call that created it, or an interrupt reached the
\* shutdown before its terminate.
NoLeak == (~Overlap /\ ~Interrupts /\ ended /\ \A t \in Threads : pc[t] = "idle") =>
             \A w \in Workers : Alive(w) => w \in asked

\* Whatever the provider, the threads and an interrupt do, a live sandbox that
\* nobody asked to terminate is never forgotten: the session refers to it.
NoOrphan == \A w \in Workers : Alive(w) /\ w \notin asked => sandbox = w

\* However many threads call start and execute, guest code has one namespace:
\* it never runs in two sandboxes.
OneNamespace == \A v, w \in Workers : job[v] # 0 /\ job[w] # 0 => v = w

\* Two threads never wait for lines of the same sandbox, where each could
\* take the line meant for the other.
OneReader == \A t, u \in Threads : pc[t] = "next" /\ pc[u] = "next" => t = u

\* Every call returns, when reads have a deadline.
CallsReturn == \A t \in Threads : (Timed /\ pc[t] # "idle") ~> pc[t] = "idle"

-----------------------------------------------------------------------------
(* The session implements the contract of CodeInterpreter. *)

Active == IF lock = None THEN 0
          ELSE IF pc[lock] = "check" THEN 0 ELSE run[lock]

Latest == IF \E w \in Workers : job[w] # 0
          THEN job[CHOOSE w \in Workers : job[w] # 0] ELSE 0

\* An interrupt abandons a run, and an overlapping shutdown closes the session
\* under one: in such a setting nothing is mapped to the contract.
Quiet == ~Overlap /\ ~Interrupts /\ ~Faults

Contract == INSTANCE CodeInterpreter
                WITH open <- Quiet => ~ended,
                     active <- IF Quiet THEN Active ELSE 0,
                     latest <- IF Quiet THEN Latest ELSE 0,
                     answer <- IF Quiet THEN verdict ELSE [r \in 1..MaxRuns |-> 0]

\* Seen from its callers the session, its two locks and its sandbox are the
\* atomic object that CodeInterpreter describes.
ImplementsContract == Contract!Spec
=============================================================================
