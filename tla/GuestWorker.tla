----------------------------- MODULE GuestWorker -----------------------------
(***************************************************************************)
(* The guest side of the line protocol: _subprocess_worker.py, one process *)
(* per worker, and the two pipes that join it to the host.                 *)
(*                                                                         *)
(* A worker reads one JSON object per line from its stdin and writes one   *)
(* per line to its stdout.  Its main thread alternates between waiting for *)
(* an execute request and running guest code; guest code may call host     *)
(* tools (a request on stdout, then a blocking read of stdin), may leave   *)
(* helper threads and child processes behind, and may die at any point.    *)
(*                                                                         *)
(* What guest code computes is abstracted away.  A message keeps its type  *)
(* and an identifier: for execute and execution_result the number of the   *)
(* run (the code sends none: the number is a history tag the properties    *)
(* compare), for tool messages the request id (uuid4().hex in the code).   *)
(***************************************************************************)
EXTENDS Naturals, Sequences

CONSTANTS
    Workers,    \* worker processes the host may ever start
    Main,       \* the worker's main thread
    Helpers,    \* threads that guest code starts and leaves running
    MaxTools,   \* bound: tool calls the guest makes in all
    Children    \* TRUE: guest code may start a child process on its pipes

ASSUME GuestAssumption ==
    /\ Main \notin Helpers
    /\ MaxTools \in Nat
    /\ Children \in BOOLEAN

Guests == {Main} \cup Helpers

MsgTypes == {"ready", "execute", "shutdown", "tool_request", "tool_response",
             "execution_result", "terminal_error", "stray"}

Msg(type, id) == [type |-> type, id |-> id]

Message == [type : MsgTypes, id : Nat]

VARIABLES
    worker,     \* [Workers -> "unborn" | "booting" | "idle" | "busy" | "exited"]
    job,        \* [Workers -> number of the run last taken, 0 before the first]
    awaits,     \* [Workers -> [Guests -> tool request awaited, 0 if none]]
    issued,     \* how many tool request ids exist
    child,      \* [Workers -> "none" | "running" | "spoke" | "gone"]
    stdin,      \* [Workers -> lines written by the host, not yet read]
    stdout      \* [Workers -> lines written by the guest, not yet read]

guestVars == <<worker, job, awaits, issued, child, stdin, stdout>>

GuestTypeOK ==
    /\ worker \in [Workers -> {"unborn", "booting", "idle", "busy", "exited"}]
    /\ job \in [Workers -> Nat]
    /\ awaits \in [Workers -> [Guests -> Nat]]
    /\ issued \in Nat
    /\ child \in [Workers -> {"none", "running", "spoke", "gone"}]
    /\ stdin \in [Workers -> Seq(Message)]
    /\ stdout \in [Workers -> Seq(Message)]

GuestInit ==
    /\ worker = [w \in Workers |-> "unborn"]
    /\ job = [w \in Workers |-> 0]
    /\ awaits = [w \in Workers |-> [g \in Guests |-> 0]]
    /\ issued = 0
    /\ child = [w \in Workers |-> "none"]
    /\ stdin = [w \in Workers |-> <<>>]
    /\ stdout = [w \in Workers |-> <<>>]

Alive(w) == worker[w] \in {"booting", "idle", "busy"}

\* A process that inherited the worker's pipes and still holds them open.
HeldOpen(w) == child[w] \in {"running", "spoke"}

\* An end of both pipes is open outside the host: a read of stdout can block
\* and a write to stdin does not fail.
Connected(w) == Alive(w) \/ HeldOpen(w)

Say(w, m) == stdout' = [stdout EXCEPT ![w] = Append(@, m)]

Hear(w) == /\ stdin[w] # <<>>
           /\ stdin' = [stdin EXCEPT ![w] = Tail(@)]

Become(w, s) == worker' = [worker EXCEPT ![w] = s]

-----------------------------------------------------------------------------
(* The main loop. *)

\* main: announce the session.
Ready(w) ==
    /\ worker[w] = "booting"
    /\ Become(w, "idle")
    /\ Say(w, Msg("ready", 0))
    /\ UNCHANGED <<job, awaits, issued, child, stdin>>

\* main: an execute request whose configuration and variables are accepted;
\* guest code starts.
TakeExecute(w) ==
    /\ worker[w] = "idle"
    /\ Hear(w)
    /\ Head(stdin[w]).type = "execute"
    /\ Become(w, "busy")
    /\ job' = [job EXCEPT ![w] = Head(stdin[w]).id]
    /\ UNCHANGED <<awaits, issued, child, stdout>>

\* main: a request that raises before guest code starts: an execute request
\* with tool names, output fields or variables that configure and execute
\* reject, or a line of another type.  The worker reports it and returns.
RejectRequest(w) ==
    /\ worker[w] = "idle"
    /\ Hear(w)
    /\ Head(stdin[w]).type # "shutdown"
    /\ Become(w, "exited")
    /\ Say(w, Msg("terminal_error", 0))
    /\ UNCHANGED <<job, awaits, issued, child>>

\* main: the shutdown request.
TakeShutdown(w) ==
    /\ worker[w] = "idle"
    /\ Hear(w)
    /\ Head(stdin[w]).type = "shutdown"
    /\ Become(w, "exited")
    /\ UNCHANGED <<job, awaits, issued, child, stdout>>

\* Session.execute returns, whatever its kind (result, final, syntax or
\* execution_error); main sends what it returned.
Finish(w) ==
    /\ worker[w] = "busy"
    /\ awaits[w][Main] = 0
    /\ Become(w, "idle")
    /\ Say(w, Msg("execution_result", job[w]))
    /\ UNCHANGED <<job, awaits, issued, child, stdin>>

\* Session.execute raises after guest code ended: jsonable falls back to
\* repr, which guest code may make raise.
FinishBadly(w) ==
    /\ worker[w] = "busy"
    /\ awaits[w][Main] = 0
    /\ Become(w, "exited")
    /\ Say(w, Msg("terminal_error", 0))
    /\ UNCHANGED <<job, awaits, issued, child, stdin>>

\* The process ends without a word: os._exit, a signal, a crash.
Die(w) ==
    /\ Alive(w)
    /\ Become(w, "exited")
    /\ UNCHANGED <<job, awaits, issued, child, stdin, stdout>>

-----------------------------------------------------------------------------
(* Guest code: tool calls and child processes. *)

\* A guest thread is free to run guest code: the main thread during a run,
\* a helper thread at any time after the first run began.
Runs(w, g) ==
    /\ awaits[w][g] = 0
    /\ \/ worker[w] = "busy"
       \/ g \in Helpers /\ worker[w] = "idle" /\ job[w] # 0

\* call_tool: a fresh id, the request line, then a blocking read of stdin.
CallTool(w, g) ==
    /\ Runs(w, g)
    /\ issued < MaxTools
    /\ issued' = issued + 1
    /\ awaits' = [awaits EXCEPT ![w][g] = issued']
    /\ Say(w, Msg("tool_request", issued'))
    /\ UNCHANGED <<worker, job, child, stdin>>

\* call_tool: the next line of stdin, whatever it is.  A line that is not
\* the awaited response raises "mismatched host-tool response" in the guest;
\* either way the call is over and the line is gone.
TakeToolResponse(w, g) ==
    /\ Alive(w)
    /\ awaits[w][g] # 0
    /\ Hear(w)
    /\ awaits' = [awaits EXCEPT ![w][g] = 0]
    /\ UNCHANGED <<worker, job, issued, child, stdout>>

\* Guest code starts a process that inherits the worker's stdin and stdout.
StartChild(w) ==
    /\ Children
    /\ worker[w] = "busy"
    /\ child[w] = "none"
    /\ child' = [child EXCEPT ![w] = "running"]
    /\ UNCHANGED <<worker, job, awaits, issued, stdin, stdout>>

\* The child prints to the inherited stdout, between two protocol lines.
ChildSpeaks(w) ==
    /\ child[w] = "running"
    /\ child' = [child EXCEPT ![w] = "spoke"]
    /\ Say(w, Msg("stray", 0))
    /\ UNCHANGED <<worker, job, awaits, issued, stdin>>

ChildExits(w) ==
    /\ HeldOpen(w)
    /\ child' = [child EXCEPT ![w] = "gone"]
    /\ UNCHANGED <<worker, job, awaits, issued, stdin, stdout>>

-----------------------------------------------------------------------------

\* What the worker's own code does when it can: it never stalls here.
Protocol(w) ==
    \/ Ready(w)
    \/ TakeExecute(w)
    \/ RejectRequest(w)
    \/ TakeShutdown(w)
    \/ \E g \in Guests : TakeToolResponse(w, g)

\* What is up to guest code and the operating system: it may never happen.
Whim(w) ==
    \/ Finish(w)
    \/ FinishBadly(w)
    \/ Die(w)
    \/ \E g \in Guests : CallTool(w, g)
    \/ StartChild(w)
    \/ ChildSpeaks(w)
    \/ ChildExits(w)

GuestStep == \E w \in Workers : Protocol(w) \/ Whim(w)

-----------------------------------------------------------------------------
(* Where a run is, for the properties of the hosts: its execute line is    *)
(* unread, its code is at work, or its result line is unread.              *)

Ids(q, type) == {q[i].id : i \in {j \in 1..Len(q) : q[j].type = type}}

Single(q, type) == \A i, j \in 1..Len(q) :
                      q[i].type = type /\ q[j].type = type => i = j

Asked(w) == Ids(stdin[w], "execute")
Working(w) == IF worker[w] = "busy" THEN {job[w]} ELSE {}
Answered(w) == Ids(stdout[w], "execution_result")
=============================================================================
