-------------------------- MODULE SubprocessProofs --------------------------
(***************************************************************************)
(* Theorems about SubprocessInterpreter, for every set of threads and      *)
(* workers and every bound.                                                *)
(***************************************************************************)
EXTENDS SubprocessInterpreter, GuestProofs

-----------------------------------------------------------------------------
(* Queues and messages. *)

LEMMA MessageIsLine == Message \subseteq Line
  BY DEF Message, Line

LEMMA LineFields == \A m \in Line : m.id \in Nat
  BY DEF Line

-----------------------------------------------------------------------------
(* Type correctness. *)

LEMMA TypeInit == Init => TypeOK
<1> SUFFICES ASSUME Init PROVE TypeOK
  OBVIOUS
<1> USE GuestAssumption, HostAssumption DEF Init, GuestInit, HostInit
<1>1. GuestTypeOK
  BY DEF GuestTypeOK
<1>2. HostTypeOK
  <2>1. ended \in BOOLEAN
    OBVIOUS
  <2>2. responses \in Seq(Line)
    OBVIOUS
  <2>3. closed \in [Workers -> SUBSET {"stdin", "stdout"}]
    OBVIOUS
  <2>4. /\ process \in Workers \cup {None}
        /\ lock \in Executors \cup {None}
        /\ reader \in [Workers -> {"unborn", "between", "blocked", "done"}]
        /\ unflushed \in SUBSET Workers
        /\ spared \in SUBSET Workers
    OBVIOUS
  <2>5. /\ pc \in [Threads -> Places]
        /\ outcome \in [Threads -> Outcomes]
    BY DEF Places, Outcomes
  <2>6. /\ run \in [Threads -> 0..MaxRuns]
        /\ tool \in [Threads -> Nat]
        /\ handle \in [Threads -> Workers \cup {None}]
        /\ frame \in [Threads -> {"call", "try", "last"}]
        /\ runs \in 0..MaxRuns
        /\ verdict \in [1..MaxRuns -> Nat]
    OBVIOUS
  <2>7. \A t \in Threads :
           pc[t] \in {"write", "wait", "reap", "stdin", "stdout"} => handle[t] # None
    OBVIOUS
  <2> QED  BY <2>1, <2>2, <2>3, <2>4, <2>5, <2>6, <2>7 DEF HostTypeOK
<1> QED  BY <1>1, <1>2 DEF TypeOK

\* The guest leaves the host's variables alone.
LEMMA TypeGuest == ASSUME TypeOK, GuestStep, UNCHANGED hostVars
                   PROVE  TypeOK'
<1>1. HostTypeOK'
  BY DEF TypeOK, HostTypeOK, hostVars
<1> QED  BY <1>1, GuestTyped DEF TypeOK

\* The reader thread moves lines, which are of the type the queue wants.
LEMMA TypeReader == ASSUME TypeOK, NEW w \in Workers, Read(w)
                    PROVE  TypeOK'
<1>1. /\ stdout[w] # <<>> => Head(stdout[w]) \in Line /\ Tail(stdout[w]) \in Seq(Message)
      /\ \A e \in Line : Append(responses, e) \in Seq(Line)
  BY QueueTypes, MessageIsLine DEF TypeOK, GuestTypeOK, HostTypeOK
<1>2. [type |-> "eof", id |-> 0] \in Line
  BY DEF Line
<1> USE <1>1, <1>2 DEF TypeOK, GuestTypeOK, HostTypeOK, callVars, guestVars
<1>3. CASE ReaderLoop(w)
  BY <1>3 DEF ReaderLoop
<1>4. CASE ReaderLine(w)
  BY <1>4 DEF ReaderLine
<1>5. CASE ReaderEnd(w)
  BY <1>5 DEF ReaderEnd
<1> QED  BY <1>3, <1>4, <1>5 DEF Read

\* The variables that say where calls are, and the others of the host.
CallsTyped ==
    /\ lock \in Executors \cup {None}
    /\ pc \in [Threads -> Places]
    /\ run \in [Threads -> 0..MaxRuns]
    /\ tool \in [Threads -> Nat]
    /\ handle \in [Threads -> Workers \cup {None}]
    /\ frame \in [Threads -> {"call", "try", "last"}]
    /\ outcome \in [Threads -> Outcomes]
    /\ runs \in 0..MaxRuns
    /\ \A t \in Threads :
          pc[t] \in {"write", "wait", "reap", "stdin", "stdout"} => handle[t] # None

SharedTyped ==
    /\ ended \in BOOLEAN
    /\ process \in Workers \cup {None}
    /\ responses \in Seq(Line)
    /\ reader \in [Workers -> {"unborn", "between", "blocked", "done"}]
    /\ closed \in [Workers -> SUBSET {"stdin", "stdout"}]
    /\ unflushed \in SUBSET Workers
    /\ spared \in SUBSET Workers
    /\ verdict \in [1..MaxRuns -> Nat]

LEMMA TypeParts == /\ TypeOK <=> GuestTypeOK /\ CallsTyped /\ SharedTyped
                   /\ TypeOK' <=> GuestTypeOK' /\ CallsTyped' /\ SharedTyped'
  BY DEF TypeOK, HostTypeOK, CallsTyped, SharedTyped

LEMMA LeaveTyped ==
    ASSUME CallsTyped, NEW t \in Threads, NEW how \in Outcomes, Leave(t, how)
    PROVE  CallsTyped'
  BY HostAssumption DEF Leave, Goto, CallsTyped, Places

LEMMA LeaveShutdownTyped ==
    ASSUME CallsTyped, NEW t \in Threads, NEW how \in Outcomes, LeaveShutdown(t, how)
    PROVE  CallsTyped'
  BY HostAssumption DEF LeaveShutdown, Goto, CallsTyped, Places

LEMMA TerminalTyped ==
    ASSUME CallsTyped, SharedTyped, NEW t \in Threads, Terminal(t)
    PROVE  CallsTyped' /\ ended' \in BOOLEAN /\ verdict' = verdict
  BY DEF Terminal, Goto, CallsTyped, SharedTyped, Places, callVars

\* A thread that goes elsewhere with the local process it has, or needs none.
LEMMA GotoTyped ==
    ASSUME CallsTyped, NEW t \in Threads, NEW place \in Places, Goto(t, place),
           handle' \in [Threads -> Workers \cup {None}],
           \A u \in Threads \ {t} : handle'[u] = handle[u],
           place \in {"write", "wait", "reap", "stdin", "stdout"} => handle'[t] # None,
           lock' \in Executors \cup {None}, run' \in [Threads -> 0..MaxRuns],
           tool' \in [Threads -> Nat], frame' \in [Threads -> {"call", "try", "last"}],
           outcome' \in [Threads -> Outcomes], runs' \in 0..MaxRuns
    PROVE  CallsTyped'
  BY DEF Goto, CallsTyped, Places

LEMMA StartedTyped ==
    ASSUME CallsTyped, NEW t \in Threads, Started(t)
    PROVE  CallsTyped'
<1>1. CASE Goto(t, "send") /\ UNCHANGED <<lock, run, tool, handle, frame, outcome, runs>>
  BY <1>1, GotoTyped DEF CallsTyped, Places
<1>2. CASE Leave(t, "ok")
  BY <1>2, LeaveTyped DEF Outcomes
<1> QED  BY <1>1, <1>2 DEF Started

LEMMA KilledTyped ==
    ASSUME CallsTyped, NEW t \in Threads, Killed(t)
    PROVE  CallsTyped'
<1>1. CASE Leave(t, "CodeInterpreterError")
  BY <1>1, LeaveTyped DEF Outcomes
<1>2. CASE /\ Goto(t, "last")
           /\ handle' = [handle EXCEPT ![t] = None]
           /\ UNCHANGED <<lock, run, tool, frame, outcome, runs>>
  BY <1>2, GotoTyped DEF CallsTyped, Places
<1>3. CASE LeaveShutdown(t, "ok")
  BY <1>3, LeaveShutdownTyped DEF Outcomes
<1> QED  BY <1>1, <1>2, <1>3 DEF Killed

\* Every step of a call keeps every variable in its type.
LEMMA TypeThread == ASSUME TypeOK, NEW t \in Threads, Advance(t) \/ Choose(t)
                    PROVE  TypeOK'
<1> USE HostAssumption
<1>1. GuestTypeOK /\ CallsTyped /\ SharedTyped
  BY TypeParts
<1>2. ASSUME UNCHANGED guestVars PROVE GuestTypeOK'
  BY <1>1, <1>2 DEF GuestTypeOK, guestVars
<1>3. ASSUME CallsTyped', UNCHANGED guestVars,
             UNCHANGED <<ended, process, responses, reader, closed, unflushed, spared,
                         verdict>>
      PROVE  TypeOK'
  BY <1>1, <1>2, <1>3, TypeParts DEF SharedTyped
<1>4. CASE CallExecute(t)
  <2>1. CallsTyped'
    BY <1>1, <1>4 DEF CallExecute, Goto, CallsTyped, Places
  <2> QED  BY <1>3, <1>4, <2>1 DEF CallExecute
<1>5. CASE CallBusy(t)
  <2>1. CallsTyped'
    BY <1>1, <1>5 DEF CallBusy, CallsTyped, Outcomes
  <2> QED  BY <1>3, <1>5, <2>1 DEF CallBusy
<1>6. CASE RejectInput(t)
  BY <1>1, <1>3, <1>6, LeaveTyped DEF RejectInput, Outcomes
<1>7. CASE CallStart(t)
  <2>1. CallsTyped'
    BY <1>1, <1>7 DEF CallStart, Goto, CallsTyped, Places, callVars
  <2> QED  BY <1>3, <1>7, <2>1 DEF CallStart, callVars
<1>8. CASE CallShutdown(t)
  <2>1. CASE UNCHANGED <<ended, pc, frame>>
    <3>1. CallsTyped'
      BY <1>1, <1>8, <2>1 DEF CallShutdown, CallsTyped, Outcomes
    <3> QED  BY <1>3, <1>8, <2>1, <3>1 DEF CallShutdown
  <2>2. CASE /\ ended' = TRUE
             /\ \/ Goto(t, "send") /\ frame' = [frame EXCEPT ![t] = "try"]
                \/ Goto(t, "last") /\ frame' = [frame EXCEPT ![t] = "last"]
             /\ UNCHANGED outcome
    <3>1. CallsTyped'
      BY <1>1, <1>8, <2>2 DEF CallShutdown, Goto, CallsTyped, Places
    <3> QED  BY <1>1, <1>2, <1>8, <2>2, <3>1, TypeParts DEF CallShutdown, SharedTyped
  <2> QED  BY <1>8, <2>1, <2>2 DEF CallShutdown
<1>9. CASE Interrupt(t)
  <2>1. CASE UNCHANGED <<worker, spared>> /\ Leave(t, "BaseException")
    BY <1>1, <1>3, <1>9, <2>1, LeaveTyped DEF Interrupt, Outcomes, guestVars
  <2>2. CASE /\ pc[t] = "wait"
             /\ LeaveShutdown(t, "BaseException")
             /\ spared' = spared \cup {handle[t]}
             /\ UNCHANGED worker
    <3>1. CallsTyped'
      BY <1>1, <2>2, LeaveShutdownTyped DEF Outcomes
    <3>2. SharedTyped'
      BY <1>1, <1>9, <2>2 DEF Interrupt, CallsTyped, SharedTyped
    <3> QED  BY <1>2, <1>9, <2>2, <3>1, <3>2, TypeParts DEF Interrupt, guestVars
  <2>3. CASE /\ pc[t] = "reap"
             /\ Become(handle[t], "exited")
             /\ Escape(t, "BaseException")
             /\ UNCHANGED spared
    <3>1. handle[t] \in Workers
      BY <1>1, <2>3 DEF CallsTyped
    <3>2. CallsTyped'
      BY <1>1, <2>3, LeaveTyped, LeaveShutdownTyped DEF Escape, Outcomes
    <3>3. SharedTyped'
      BY <1>1, <1>9, <2>3 DEF Interrupt, SharedTyped
    <3>4. GuestTypeOK'
      BY <1>1, <1>9, <2>3, <3>1 DEF Interrupt, Become, GuestTypeOK
    <3> QED  BY <3>2, <3>3, <3>4, TypeParts
  <2> QED  BY <1>9, <2>1, <2>2, <2>3 DEF Interrupt
<1>10. CASE StartCheck(t)
  <2>1. CASE Leave(t, "CodeInterpreterError")
    BY <1>1, <1>3, <1>10, <2>1, LeaveTyped DEF StartCheck, Outcomes
  <2>2. CASE Goto(t, "attach") /\ UNCHANGED <<lock, run, tool, handle, frame, outcome, runs>>
    <3>1. CallsTyped'
      BY <1>1, <2>2, GotoTyped DEF CallsTyped, Places
    <3> QED  BY <1>3, <1>10, <3>1 DEF StartCheck
  <2> QED  BY <1>10, <2>1, <2>2 DEF StartCheck
<1>11. CASE Attach(t)
  <2>1. CallsTyped'
    <3>1. CASE Goto(t, "spawn") /\ UNCHANGED <<lock, run, tool, handle, frame, outcome, runs>>
      BY <1>1, <3>1, GotoTyped DEF CallsTyped, Places
    <3> QED  BY <1>1, <1>11, <3>1, StartedTyped DEF Attach
  <2> QED  BY <1>3, <1>11, <2>1 DEF Attach
<1>12. CASE Spawn(t)
  <2>1. CallsTyped'
    BY <1>1, <1>12 DEF Spawn, callVars, CallsTyped, Goto, Places
  <2>2. PICK w \in Workers : /\ Become(w, "booting")
                             /\ process' = w
                             /\ reader' = [reader EXCEPT ![w] = "between"]
    BY <1>12 DEF Spawn
  <2>3. GuestTypeOK'
    BY <1>1, <1>12, <2>2 DEF Spawn, Become, GuestTypeOK
  <2>4. SharedTyped'
    BY <1>1, <1>12, <2>2 DEF Spawn, callVars, SharedTyped
  <2> QED  BY <2>1, <2>3, <2>4, TypeParts
<1>13. CASE SpawnFails(t)
  BY <1>1, <1>3, <1>13, LeaveTyped DEF SpawnFails, Outcomes
<1>14. CASE Send(t)
  <2>1. CASE Terminal(t)
    <3>1. CallsTyped' /\ SharedTyped'
      BY <1>1, <1>14, <2>1, TerminalTyped DEF Send, SharedTyped
    <3> QED  BY <1>2, <1>14, <3>1, TypeParts DEF Send
  <2>2. CASE /\ process # None
             /\ handle' = [handle EXCEPT ![t] = process]
             /\ Goto(t, "write")
             /\ UNCHANGED <<ended, callVars>>
    <3>1. CallsTyped'
      BY <1>1, <2>2 DEF Goto, CallsTyped, SharedTyped, callVars, Places
    <3> QED  BY <1>3, <1>14, <2>2, <3>1 DEF Send, callVars
  <2> QED  BY <1>14, <2>1, <2>2 DEF Send
<1>15. CASE Write(t)
  <2>1. handle[t] \in Workers
    BY <1>1, <1>15 DEF Write, CallsTyped
  <2>2. CASE Terminal(t) /\ UNCHANGED stdin
    <3>1. CallsTyped' /\ SharedTyped'
      BY <1>1, <1>15, <2>1, <2>2, TerminalTyped DEF Write, SharedTyped
    <3>2. GuestTypeOK'
      BY <1>1, <1>15, <2>2 DEF Write, GuestTypeOK
    <3> QED  BY <3>1, <3>2, TypeParts
  <2>3. CASE /\ stdin' = [stdin EXCEPT ![handle[t]] = Append(@, Outgoing(t))]
             /\ Goto(t, IF frame[t] = "try" THEN "await" ELSE "receive")
             /\ tool' = IF frame[t] = "try" THEN tool ELSE [tool EXCEPT ![t] = 0]
             /\ handle' = [handle EXCEPT ![t] = None]
             /\ UNCHANGED <<ended, unflushed, run, frame, outcome, runs, verdict, lock>>
    <3>1. CallsTyped'
      BY <1>1, <2>3 DEF Goto, CallsTyped, Places
    <3>2. SharedTyped'
      BY <1>1, <1>15, <2>3 DEF Write, SharedTyped
    <3>3. Outgoing(t) \in Message
      BY <1>1, MsgTyped DEF Outgoing, MsgTypes, CallsTyped
    <3>4. Append(stdin[handle[t]], Outgoing(t)) \in Seq(Message)
      BY <1>1, <2>1, <3>3, QueueTypes DEF GuestTypeOK
    <3>5. GuestTypeOK'
      BY <1>1, <1>15, <2>1, <2>3, <3>4 DEF Write, GuestTypeOK
    <3> QED  BY <3>1, <3>2, <3>5, TypeParts
  <2> QED  BY <1>15, <2>2, <2>3 DEF Write
<1>16. CASE Receive(t)
  <2>1. Head(responses) \in Line /\ responses' \in Seq(Line)
    BY <1>1, <1>16, QueueTypes DEF Receive, SharedTyped
  <2>2. Head(responses).id \in Nat
    BY <2>1, LineFields
  <2> DEFINE m == Head(responses)
  <2>3. CallsTyped' /\ ended' \in BOOLEAN /\ verdict' \in [1..MaxRuns -> Nat]
    <3>1. CASE Terminal(t)
      BY <1>1, <3>1, TerminalTyped DEF SharedTyped
    <3>2. CASE Started(t) /\ UNCHANGED <<ended, verdict>>
      BY <1>1, <3>2, StartedTyped DEF SharedTyped
    <3>3. CASE /\ Goto(t, "tool")
               /\ tool' = [tool EXCEPT ![t] = m.id]
               /\ UNCHANGED <<ended, lock, run, handle, frame, outcome, runs, verdict>>
      BY <1>1, <2>2, <3>3 DEF Goto, CallsTyped, SharedTyped, Places
    <3>4. CASE /\ verdict' = [verdict EXCEPT ![run[t]] = m.id]
               /\ Leave(t, "ok")
               /\ UNCHANGED ended
      BY <1>1, <2>2, <3>4, LeaveTyped DEF SharedTyped, Outcomes
    <3> QED  BY <1>16, <3>1, <3>2, <3>3, <3>4 DEF Receive
  <2>4. SharedTyped'
    BY <1>1, <1>16, <2>1, <2>3 DEF Receive, SharedTyped
  <2> QED  BY <1>2, <1>16, <2>3, <2>4, TypeParts DEF Receive
<1>17. CASE Timeout(t)
  <2>1. CallsTyped' /\ SharedTyped'
    BY <1>1, <1>17, TerminalTyped DEF Timeout, SharedTyped
  <2> QED  BY <1>2, <1>17, <2>1, TypeParts DEF Timeout
<1>18. CASE RunTool(t)
  <2>1. CallsTyped'
    BY <1>1, <1>18, GotoTyped DEF RunTool, callVars, CallsTyped, Places
  <2> QED  BY <1>3, <1>18, <2>1 DEF RunTool, callVars
<1>19. CASE Await(t)
  <2>1. CallsTyped'
    <3>1. CASE LeaveShutdown(t, "AttributeError")
      BY <1>1, <3>1, LeaveShutdownTyped DEF Outcomes
    <3>2. CASE /\ process # None
               /\ handle' = [handle EXCEPT ![t] = process]
               /\ Goto(t, "wait")
               /\ UNCHANGED <<lock, run, tool, frame, outcome, runs>>
      BY <1>1, <3>2 DEF Goto, CallsTyped, SharedTyped, Places
    <3> QED  BY <1>19, <3>1, <3>2 DEF Await
  <2> QED  BY <1>3, <1>19, <2>1 DEF Await
<1>20. CASE Wait(t)
  <2>1. CallsTyped'
    BY <1>1, <1>20, GotoTyped DEF Wait, callVars, CallsTyped, Places
  <2> QED  BY <1>3, <1>20, <2>1 DEF Wait, callVars
<1>21. CASE LastKill(t)
  <2>1. CallsTyped'
    BY <1>1, <1>21 DEF LastKill, Goto, CallsTyped, SharedTyped, Places
  <2> QED  BY <1>3, <1>21, <2>1 DEF LastKill
<1>22. CASE Detach(t)
  <2>1. CallsTyped'
    <3>1. CASE /\ handle[t] # None
               /\ Goto(t, "reap")
               /\ UNCHANGED <<lock, run, tool, handle, frame, outcome, runs>>
      BY <1>1, <3>1, GotoTyped DEF CallsTyped, Places
    <3> QED  BY <1>1, <1>22, <3>1, KilledTyped DEF Detach
  <2>2. SharedTyped'
    BY <1>1, <1>22 DEF Detach, SharedTyped
  <2> QED  BY <1>2, <1>22, <2>1, <2>2, TypeParts DEF Detach
<1>23. CASE Reap(t)
  <2>1. handle[t] \in Workers
    BY <1>1, <1>23 DEF Reap, CallsTyped
  <2>2. CallsTyped'
    BY <1>1, <1>23, <2>1 DEF Reap, Goto, callVars, CallsTyped, Places
  <2>3. GuestTypeOK'
    BY <1>1, <1>23, <2>1 DEF Reap, Become, GuestTypeOK
  <2>4. SharedTyped'
    BY <1>1, <1>23 DEF Reap, callVars, SharedTyped
  <2> QED  BY <2>2, <2>3, <2>4, TypeParts
<1>24. CASE CloseStdin(t)
  <2>1. handle[t] \in Workers
    BY <1>1, <1>24 DEF CloseStdin, CallsTyped
  <2>2. CallsTyped'
    <3>1. CASE Escape(t, "OSError")
      BY <1>1, <3>1, LeaveTyped, LeaveShutdownTyped DEF Escape, Outcomes
    <3>2. CASE Goto(t, "stdout") /\ UNCHANGED <<lock, run, tool, handle, frame, outcome, runs>>
      BY <1>1, <2>1, <3>2, GotoTyped DEF CallsTyped, Places
    <3> QED  BY <1>24, <3>1, <3>2 DEF CloseStdin
  <2>3. SharedTyped'
    BY <1>1, <1>24, <2>1 DEF CloseStdin, SharedTyped
  <2> QED  BY <1>2, <1>24, <2>2, <2>3, TypeParts DEF CloseStdin
<1>25. CASE CloseStdout(t)
  <2>1. handle[t] \in Workers
    BY <1>1, <1>25 DEF CloseStdout, CallsTyped
  <2>2. CallsTyped'
    BY <1>1, <1>25, KilledTyped DEF CloseStdout
  <2>3. SharedTyped'
    BY <1>1, <1>25, <2>1 DEF CloseStdout, SharedTyped
  <2> QED  BY <1>2, <1>25, <2>2, <2>3, TypeParts DEF CloseStdout
<1> QED
  BY <1>4, <1>5, <1>6, <1>7, <1>8, <1>9, <1>10, <1>11, <1>12, <1>13, <1>14,
     <1>15, <1>16, <1>17, <1>18, <1>19, <1>20, <1>21, <1>22, <1>23, <1>24,
     <1>25 DEF Advance, Choose

\* Every variable of the session and of its workers keeps its type, and the
\* local process that _send, the wait of shutdown and _kill work on is a worker.
THEOREM TypeCorrect == Spec => []TypeOK
<1>1. Init => TypeOK
  BY TypeInit
<1>2. TypeOK /\ [Next]_vars => TypeOK'
  <2>1. ASSUME TypeOK, UNCHANGED vars PROVE TypeOK'
    BY <2>1 DEF vars, guestVars, hostVars, TypeOK, GuestTypeOK, HostTypeOK
  <2> QED
    BY <2>1, TypeGuest, TypeReader, TypeThread DEF Next
<1> QED  BY <1>1, <1>2, PTL DEF Spec
-----------------------------------------------------------------------------
(* At most one live worker, never out of reach, none after the end: when     *)
(* nobody calls start directly and nobody shuts down over an execution.      *)

\* What the following lemmas know of the types.
Shape ==
    /\ CallsTyped
    /\ process \in Workers \cup {None}
    /\ ended \in BOOLEAN
    /\ worker \in [Workers -> {"unborn", "booting", "idle", "busy", "exited"}]
    /\ job \in [Workers -> Nat]

LEMMA ShapeTyped == TypeOK => Shape
  BY TypeParts DEF Shape, SharedTyped, GuestTypeOK

\* execute leaves without having touched the session or the worker.
LEMMA SessionLeave ==
    ASSUME Shape, SessionInv, NEW t \in Threads, NEW how, Leave(t, how),
           frame[t] = "call", pc[t] \notin {"idle", "detach", "reap"},
           UNCHANGED <<ended, process, spared, worker, job>>
    PROVE  SessionInv'
<1> USE HostAssumption DEF SessionInv, Shape, CallsTyped, Goto, Leave
<1>1. LockDiscipline'
  BY DEF LockDiscipline, EndDiscipline, WorkerDiscipline
<1>2. EndDiscipline'
  BY DEF LockDiscipline, EndDiscipline, WorkerDiscipline
<1>3. WorkerDiscipline'
  BY DEF LockDiscipline, EndDiscipline, WorkerDiscipline
<1>4. NoOrphan'
  BY DEF LockDiscipline, EndDiscipline, WorkerDiscipline, NoOrphan, Alive, Killing
<1> QED  BY <1>1, <1>2, <1>3, <1>4

\* A step that only moves a thread within its call.
LEMMA SessionGoto ==
    ASSUME Shape, SessionInv, NEW t \in Threads, NEW place \in Places, Goto(t, place),
           UNCHANGED <<ended, process, spared, worker, job, lock, run, frame>>,
           \A u \in Threads \ {t} : handle'[u] = handle[u],
           handle'[t] \in {None, process, handle[t]},
           pc[t] \notin {"idle", "detach", "reap"},
           place \notin {"idle", "detach", "reap", "stdin", "stdout", "await"},
           place \in {"check", "attach", "spawn", "ready", "receive",
                "tool"} => frame[t] = "call",
           place \in {"wait", "last"} => frame[t] # "call",
           place \in {"send", "write"} => frame[t] # "last",
           place \in {"attach", "spawn", "ready"} => ~ended,
           place = "spawn" => process = None
    PROVE  SessionInv'
<1> USE HostAssumption DEF SessionInv, Shape, CallsTyped, Goto
<1>1. LockDiscipline'
  BY DEF LockDiscipline, EndDiscipline, WorkerDiscipline
<1>2. EndDiscipline'
  BY DEF LockDiscipline, EndDiscipline, WorkerDiscipline
<1>3. WorkerDiscipline'
  BY DEF LockDiscipline, EndDiscipline, WorkerDiscipline
<1>4. NoOrphan'
  BY DEF LockDiscipline, EndDiscipline, WorkerDiscipline, NoOrphan, Alive, Killing
<1> QED  BY <1>1, <1>2, <1>3, <1>4

\* The first half of _terminal: the session ends, its worker is in hand.
LEMMA SessionTerminal ==
    ASSUME Shape, SessionInv, NEW t \in Threads, Terminal(t),
           pc[t] \in {"ready", "receive", "send", "write"},
           UNCHANGED <<process, spared, worker, job>>
    PROVE  SessionInv'
<1> USE HostAssumption DEF SessionInv, Shape, CallsTyped, Goto, Terminal, callVars
<1>1. LockDiscipline'
  BY DEF LockDiscipline, EndDiscipline, WorkerDiscipline
<1>2. EndDiscipline'
  BY DEF LockDiscipline, EndDiscipline, WorkerDiscipline
<1>3. WorkerDiscipline'
  BY DEF LockDiscipline, EndDiscipline, WorkerDiscipline
<1>4. NoOrphan'
  BY DEF LockDiscipline, EndDiscipline, WorkerDiscipline, NoOrphan, Alive, Killing
<1> QED  BY <1>1, <1>2, <1>3, <1>4

\* shutdown leaves once the session has let go of its worker, or an interrupt
\* spares it.
LEMMA SessionLeaveShutdown ==
    ASSUME Shape, SessionInv, NEW t \in Threads, NEW how, LeaveShutdown(t, how),
           frame[t] # "call", pc[t] \in {"await", "wait", "stdin", "stdout"},
           spared \subseteq spared', process = None \/ (Interrupts /\ process \in spared'),
           UNCHANGED <<ended, process, worker, job>>
    PROVE  SessionInv'
<1> USE HostAssumption DEF SessionInv, Shape, CallsTyped, Goto, LeaveShutdown
<1>1. LockDiscipline'
  BY DEF LockDiscipline, EndDiscipline, WorkerDiscipline
<1>2. EndDiscipline'
  BY DEF LockDiscipline, EndDiscipline, WorkerDiscipline
<1>3. WorkerDiscipline'
  BY DEF LockDiscipline, EndDiscipline, WorkerDiscipline
<1>4. NoOrphan'
  BY DEF LockDiscipline, EndDiscipline, WorkerDiscipline, NoOrphan, Alive, Killing
<1> QED  BY <1>1, <1>2, <1>3, <1>4

LEMMA SessionThread ==
    ASSUME Starters = {}, Overlap = FALSE, TypeOK, SessionInv,
           NEW t \in Threads, Advance(t) \/ Choose(t)
    PROVE  SessionInv'
<1> USE HostAssumption
<1>1. Shape
  BY ShapeTyped
<1>2. LockDiscipline /\ EndDiscipline /\ WorkerDiscipline /\ NoOrphan
  BY DEF SessionInv
<1>3. CASE CallExecute(t)
  <2>1. LockDiscipline'
    BY <1>1, <1>3 DEF CallExecute, Goto, SessionInv, Shape, CallsTyped, guestVars,
         LockDiscipline, EndDiscipline, WorkerDiscipline
  <2>2. EndDiscipline'
    BY <1>1, <1>3 DEF CallExecute, Goto, SessionInv, Shape, CallsTyped, guestVars,
         LockDiscipline, EndDiscipline, WorkerDiscipline
  <2>3. WorkerDiscipline'
    BY <1>1, <1>3 DEF CallExecute, Goto, SessionInv, Shape, CallsTyped, guestVars,
         LockDiscipline, EndDiscipline, WorkerDiscipline
  <2>4. NoOrphan'
    BY <1>1, <1>3 DEF CallExecute, Goto, SessionInv, Shape, CallsTyped, guestVars,
         LockDiscipline, EndDiscipline, WorkerDiscipline, NoOrphan, Alive, Killing
  <2> QED  BY <2>1, <2>2, <2>3, <2>4 DEF SessionInv
<1>4. CASE CallBusy(t)
  <2>1. LockDiscipline'
    BY <1>1, <1>4 DEF CallBusy, SessionInv, Shape, CallsTyped, guestVars,
         LockDiscipline, EndDiscipline, WorkerDiscipline
  <2>2. EndDiscipline'
    BY <1>1, <1>4 DEF CallBusy, SessionInv, Shape, CallsTyped, guestVars,
         LockDiscipline, EndDiscipline, WorkerDiscipline
  <2>3. WorkerDiscipline'
    BY <1>1, <1>4 DEF CallBusy, SessionInv, Shape, CallsTyped, guestVars,
         LockDiscipline, EndDiscipline, WorkerDiscipline
  <2>4. NoOrphan'
    BY <1>1, <1>4 DEF CallBusy, SessionInv, Shape, CallsTyped, guestVars,
         LockDiscipline, EndDiscipline, WorkerDiscipline, NoOrphan, Alive, Killing
  <2> QED  BY <2>1, <2>2, <2>3, <2>4 DEF SessionInv
<1>5. CASE RejectInput(t)
  BY <1>1, <1>2, <1>5, SessionLeave DEF RejectInput, LockDiscipline, guestVars
<1>6. CASE CallStart(t)
  BY <1>6 DEF CallStart
<1>7. CASE CallShutdown(t)
  <2>1. LockDiscipline'
    BY <1>1, <1>7 DEF CallShutdown, MayStop, Goto, SessionInv, Shape, CallsTyped,
         guestVars, LockDiscipline, EndDiscipline, WorkerDiscipline
  <2>2. EndDiscipline'
    BY <1>1, <1>7 DEF CallShutdown, MayStop, Goto, SessionInv, Shape, CallsTyped,
         guestVars, LockDiscipline, EndDiscipline, WorkerDiscipline
  <2>3. WorkerDiscipline'
    BY <1>1, <1>7 DEF CallShutdown, MayStop, Goto, SessionInv, Shape, CallsTyped,
         guestVars, LockDiscipline, EndDiscipline, WorkerDiscipline
  <2>4. NoOrphan'
    BY <1>1, <1>7 DEF CallShutdown, MayStop, Goto, SessionInv, Shape, CallsTyped,
         guestVars, LockDiscipline, EndDiscipline, WorkerDiscipline, NoOrphan, Alive,
              Killing
  <2> QED  BY <2>1, <2>2, <2>3, <2>4 DEF SessionInv
<1>8. CASE Interrupt(t)
  <2>1. CASE /\ pc[t] \in {"ready", "receive", "tool"}
             /\ Leave(t, "BaseException")
             /\ UNCHANGED <<worker, spared>>
    BY <1>1, <1>2, <1>8, <2>1, SessionLeave DEF Interrupt, LockDiscipline
  <2>2. CASE /\ pc[t] = "wait"
             /\ LeaveShutdown(t, "BaseException")
             /\ spared' = spared \cup {handle[t]}
             /\ UNCHANGED worker
    <3>1. handle[t] \in Workers
      BY <2>2, TypeParts DEF CallsTyped
    <3>2. process = None \/ (Interrupts /\ process \in spared')
      BY <1>1, <1>2, <1>8, <2>2, <3>1 DEF Interrupt, WorkerDiscipline, Shape
    <3>3. frame[t] # "call" /\ UNCHANGED <<ended, process, job>>
      BY <1>2, <1>8, <2>2 DEF Interrupt, LockDiscipline
    <3> QED  BY <1>1, <2>2, <3>2, <3>3, SessionLeaveShutdown
  <2>3. CASE /\ pc[t] = "reap"
             /\ Become(handle[t], "exited")
             /\ Escape(t, "BaseException")
             /\ UNCHANGED spared
    <3>1. /\ handle[t] \in Workers
          /\ worker' = [worker EXCEPT ![handle[t]] = "exited"]
          /\ UNCHANGED <<ended, process, job>>
      BY <1>8, <2>3, TypeParts DEF Interrupt, Become, CallsTyped
    <3>2. CASE frame[t] = "call" /\ Leave(t, "BaseException")
      <4>1. LockDiscipline'
        BY <1>1, <2>3, <3>1, <3>2 DEF Leave, Goto, SessionInv, Shape,
             CallsTyped, LockDiscipline, EndDiscipline, WorkerDiscipline
      <4>2. EndDiscipline'
        BY <1>1, <2>3, <3>1, <3>2 DEF Leave, Goto, SessionInv, Shape,
             CallsTyped, LockDiscipline, EndDiscipline, WorkerDiscipline
      <4>3. WorkerDiscipline'
        BY <1>1, <2>3, <3>1, <3>2 DEF Leave, Goto, SessionInv, Shape,
             CallsTyped, LockDiscipline, EndDiscipline, WorkerDiscipline
      <4>4. NoOrphan'
        BY <1>1, <2>3, <3>1, <3>2 DEF Leave, Goto, SessionInv, Shape,
             CallsTyped, LockDiscipline, EndDiscipline, WorkerDiscipline,
             NoOrphan, Alive, Killing
      <4> QED  BY <4>1, <4>2, <4>3, <4>4 DEF SessionInv
    <3>3. CASE frame[t] # "call" /\ LeaveShutdown(t, "BaseException")
      <4>1. LockDiscipline'
        BY <1>1, <2>3, <3>1, <3>3 DEF LeaveShutdown, Goto, SessionInv, Shape,
             CallsTyped, LockDiscipline, EndDiscipline, WorkerDiscipline
      <4>2. EndDiscipline'
        BY <1>1, <2>3, <3>1, <3>3 DEF LeaveShutdown, Goto, SessionInv, Shape,
             CallsTyped, LockDiscipline, EndDiscipline, WorkerDiscipline
      <4>3. WorkerDiscipline'
        BY <1>1, <2>3, <3>1, <3>3 DEF LeaveShutdown, Goto, SessionInv, Shape,
             CallsTyped, LockDiscipline, EndDiscipline, WorkerDiscipline
      <4>4. NoOrphan'
        BY <1>1, <2>3, <3>1, <3>3 DEF LeaveShutdown, Goto, SessionInv, Shape,
             CallsTyped, LockDiscipline, EndDiscipline, WorkerDiscipline,
             NoOrphan, Alive, Killing
      <4> QED  BY <4>1, <4>2, <4>3, <4>4 DEF SessionInv
    <3> QED  BY <2>3, <3>2, <3>3 DEF Escape
  <2> QED  BY <1>8, <2>1, <2>2, <2>3 DEF Interrupt
<1>9. CASE StartCheck(t)
  <2>1. CASE Leave(t, "CodeInterpreterError")
    BY <1>1, <1>2, <1>9, <2>1, SessionLeave DEF StartCheck, LockDiscipline, guestVars
  <2>2. CASE ~ended /\ Goto(t, "attach") /\ UNCHANGED <<lock, run, handle, frame>>
    BY <1>1, <1>2, <1>9, <2>2, SessionGoto DEF StartCheck, LockDiscipline, guestVars,
         Places
  <2> QED  BY <1>9, <2>1, <2>2 DEF StartCheck
<1>10. ASSUME Started(t), pc[t] \in {"attach", "ready"}, UNCHANGED <<ended, process, spared,
     worker, job>>
       PROVE  SessionInv'
  <2>1. CASE Leave(t, "ok")
    BY <1>1, <1>2, <1>10, <2>1, SessionLeave DEF LockDiscipline
  <2>2. CASE Goto(t, "send") /\ UNCHANGED <<lock, run, handle, frame>>
    BY <1>1, <1>2, <1>10, <2>2, SessionGoto DEF LockDiscipline, Places
  <2> QED  BY <1>10, <2>1, <2>2 DEF Started
<1>11. CASE Attach(t)
  <2>1. CASE Started(t)
    BY <1>10, <1>11, <2>1 DEF Attach, guestVars
  <2>2. CASE process = None /\ Goto(t, "spawn") /\ UNCHANGED <<lock, run, handle,
       frame>>
    BY <1>1, <1>2, <1>11, <2>2, SessionGoto DEF Attach, LockDiscipline,
         EndDiscipline, guestVars, Places
  <2> QED  BY <1>11, <2>1, <2>2 DEF Attach
<1>12. CASE Spawn(t)
  <2>1. LockDiscipline'
    BY <1>1, <1>12 DEF Spawn, Become, callVars, Goto, SessionInv, Shape, CallsTyped,
         LockDiscipline, EndDiscipline, WorkerDiscipline
  <2>2. EndDiscipline'
    BY <1>1, <1>12 DEF Spawn, Become, callVars, Goto, SessionInv, Shape, CallsTyped,
         LockDiscipline, EndDiscipline, WorkerDiscipline
  <2>3. WorkerDiscipline'
    BY <1>1, <1>12 DEF Spawn, Become, callVars, Goto, SessionInv, Shape, CallsTyped,
         LockDiscipline, EndDiscipline, WorkerDiscipline
  <2>4. NoOrphan'
    BY <1>1, <1>12 DEF Spawn, Become, callVars, Goto, SessionInv, Shape, CallsTyped,
         LockDiscipline, EndDiscipline, WorkerDiscipline, NoOrphan, Alive, Killing
  <2> QED  BY <2>1, <2>2, <2>3, <2>4 DEF SessionInv
<1>13. CASE SpawnFails(t)
  BY <1>1, <1>2, <1>13, SessionLeave DEF SpawnFails, LockDiscipline, guestVars
<1>14. CASE Send(t)
  <2>1. CASE Terminal(t)
    BY <1>1, <1>14, <2>1, SessionTerminal DEF Send, guestVars
  <2>2. CASE /\ handle' = [handle EXCEPT ![t] = process]
             /\ Goto(t, "write")
             /\ UNCHANGED <<ended, callVars>>
    BY <1>1, <1>2, <1>14, <2>2, SessionGoto DEF Send, LockDiscipline, Shape,
         CallsTyped, callVars, guestVars, Places
  <2> QED  BY <1>14, <2>1, <2>2 DEF Send
<1>15. CASE Write(t)
  <2>1. CASE Terminal(t)
    BY <1>1, <1>15, <2>1, SessionTerminal DEF Write
  <2>2. CASE /\ Goto(t, IF frame[t] = "try" THEN "await" ELSE "receive")
             /\ handle' = [handle EXCEPT ![t] = None]
             /\ UNCHANGED <<ended, run, frame, lock>>
    <3>1. UNCHANGED <<worker, job, process, spared>> /\ pc[t] = "write"
      BY <1>15 DEF Write
    <3>2. LockDiscipline'
      BY <1>1, <2>2, <3>1 DEF Goto, SessionInv, Shape, CallsTyped, LockDiscipline,
           EndDiscipline, WorkerDiscipline
    <3>3. EndDiscipline'
      BY <1>1, <2>2, <3>1 DEF Goto, SessionInv, Shape, CallsTyped, LockDiscipline,
           EndDiscipline, WorkerDiscipline
    <3>4. WorkerDiscipline'
      BY <1>1, <2>2, <3>1 DEF Goto, SessionInv, Shape, CallsTyped, LockDiscipline,
           EndDiscipline, WorkerDiscipline
    <3>5. NoOrphan'
      BY <1>1, <2>2, <3>1 DEF Goto, SessionInv, Shape, CallsTyped, LockDiscipline,
           EndDiscipline, WorkerDiscipline, NoOrphan, Alive, Killing
    <3> QED  BY <3>2, <3>3, <3>4, <3>5 DEF SessionInv
  <2> QED  BY <1>15, <2>1, <2>2 DEF Write
<1>16. CASE Receive(t)
  <2>1. CASE Terminal(t)
    BY <1>1, <1>16, <2>1, SessionTerminal DEF Receive, guestVars
  <2>2. CASE Accepts(t, "ready") /\ Started(t) /\ UNCHANGED ended
    BY <1>10, <1>16, <2>2 DEF Receive, Accepts, guestVars
  <2>3. CASE Accepts(t, "tool_request") /\ Goto(t, "tool") /\ UNCHANGED <<ended,
       lock, run, handle, frame>>
    BY <1>1, <1>2, <1>16, <2>3, SessionGoto DEF Receive, LockDiscipline, guestVars,
         Places
  <2>4. CASE Leave(t, "ok") /\ UNCHANGED ended
    BY <1>1, <1>2, <1>16, <2>4, SessionLeave DEF Receive, LockDiscipline, guestVars
  <2> QED  BY <1>16, <2>1, <2>2, <2>3, <2>4 DEF Receive
<1>17. CASE Timeout(t)
  BY <1>1, <1>17, SessionTerminal DEF Timeout, guestVars
<1>18. CASE RunTool(t)
  BY <1>1, <1>2, <1>18, SessionGoto DEF RunTool, LockDiscipline, callVars, guestVars,
       Places
<1>19. CASE Await(t)
  <2>1. CASE process = None /\ LeaveShutdown(t, "AttributeError")
    BY <1>1, <1>2, <1>19, <2>1, SessionLeaveShutdown DEF Await, LockDiscipline,
         guestVars
  <2>2. CASE /\ handle' = [handle EXCEPT ![t] = process]
             /\ Goto(t, "wait")
             /\ UNCHANGED <<lock, run, frame>>
    BY <1>1, <1>2, <1>19, <2>2, SessionGoto
    DEF Await, LockDiscipline, Shape, CallsTyped, guestVars, Places
  <2> QED  BY <1>19, <2>1, <2>2 DEF Await
<1>20. CASE Wait(t)
  BY <1>1, <1>2, <1>20, SessionGoto
  DEF Wait, LockDiscipline, Shape, CallsTyped, callVars, guestVars, Places
<1>21. CASE LastKill(t)
  <2>1. LockDiscipline'
    BY <1>1, <1>21 DEF LastKill, Goto, SessionInv, Shape, CallsTyped, guestVars,
         LockDiscipline, EndDiscipline, WorkerDiscipline
  <2>2. EndDiscipline'
    BY <1>1, <1>21 DEF LastKill, Goto, SessionInv, Shape, CallsTyped, guestVars,
         LockDiscipline, EndDiscipline, WorkerDiscipline
  <2>3. WorkerDiscipline'
    BY <1>1, <1>21 DEF LastKill, Goto, SessionInv, Shape, CallsTyped, guestVars,
         LockDiscipline, EndDiscipline, WorkerDiscipline
  <2>4. NoOrphan'
    BY <1>1, <1>21 DEF LastKill, Goto, SessionInv, Shape, CallsTyped, guestVars,
         LockDiscipline, EndDiscipline, WorkerDiscipline, NoOrphan, Alive, Killing
  <2> QED  BY <2>1, <2>2, <2>3, <2>4 DEF SessionInv
<1>22. CASE Detach(t)
  <2>1. UNCHANGED <<ended, worker, job, spared>> /\ process' = None /\ pc[t] = "detach"
    BY <1>22 DEF Detach, guestVars
  <2>2. CASE Goto(t, "reap") /\ UNCHANGED <<lock, run, handle, frame>>
    <3>1. LockDiscipline'
      BY <1>1, <2>1, <2>2 DEF Goto, SessionInv, Shape, CallsTyped, LockDiscipline,
           EndDiscipline, WorkerDiscipline
    <3>2. EndDiscipline'
      BY <1>1, <2>1, <2>2 DEF Goto, SessionInv, Shape, CallsTyped, LockDiscipline,
           EndDiscipline, WorkerDiscipline
    <3>3. WorkerDiscipline'
      BY <1>1, <2>1, <2>2 DEF Goto, SessionInv, Shape, CallsTyped, LockDiscipline,
           EndDiscipline, WorkerDiscipline
    <3>4. NoOrphan'
      BY <1>1, <2>1, <2>2 DEF Goto, SessionInv, Shape, CallsTyped, LockDiscipline,
           EndDiscipline, WorkerDiscipline, NoOrphan, Alive, Killing
    <3> QED  BY <3>1, <3>2, <3>3, <3>4 DEF SessionInv
  <2>3. CASE handle[t] = None /\ frame[t] = "call" /\ Leave(t, "CodeInterpreterError")
    <3>1. LockDiscipline'
      BY <1>1, <2>1, <2>3 DEF Leave, Goto, SessionInv, Shape, CallsTyped,
           LockDiscipline, EndDiscipline, WorkerDiscipline
    <3>2. EndDiscipline'
      BY <1>1, <2>1, <2>3 DEF Leave, Goto, SessionInv, Shape, CallsTyped,
           LockDiscipline, EndDiscipline, WorkerDiscipline
    <3>3. WorkerDiscipline'
      BY <1>1, <2>1, <2>3 DEF Leave, Goto, SessionInv, Shape, CallsTyped,
           LockDiscipline, EndDiscipline, WorkerDiscipline
    <3>4. NoOrphan'
      BY <1>1, <2>1, <2>3 DEF Leave, Goto, SessionInv, Shape, CallsTyped,
           LockDiscipline, EndDiscipline, WorkerDiscipline, NoOrphan, Alive, Killing
    <3> QED  BY <3>1, <3>2, <3>3, <3>4 DEF SessionInv
  <2>4. CASE /\ handle[t] = None
             /\ frame[t] = "try"
             /\ Goto(t, "last")
             /\ handle' = [handle EXCEPT ![t] = None]
             /\ UNCHANGED <<lock, run, frame>>
    <3>1. LockDiscipline'
      BY <1>1, <2>1, <2>4 DEF Goto, SessionInv, Shape, CallsTyped, LockDiscipline,
           EndDiscipline, WorkerDiscipline
    <3>2. EndDiscipline'
      BY <1>1, <2>1, <2>4 DEF Goto, SessionInv, Shape, CallsTyped, LockDiscipline,
           EndDiscipline, WorkerDiscipline
    <3>3. WorkerDiscipline'
      BY <1>1, <2>1, <2>4 DEF Goto, SessionInv, Shape, CallsTyped, LockDiscipline,
           EndDiscipline, WorkerDiscipline
    <3>4. NoOrphan'
      BY <1>1, <2>1, <2>4 DEF Goto, SessionInv, Shape, CallsTyped, LockDiscipline,
           EndDiscipline, WorkerDiscipline, NoOrphan, Alive, Killing
    <3> QED  BY <3>1, <3>2, <3>3, <3>4 DEF SessionInv
  <2>5. CASE handle[t] = None /\ frame[t] = "last" /\ LeaveShutdown(t, "ok")
    <3>1. LockDiscipline'
      BY <1>1, <2>1, <2>5 DEF LeaveShutdown, Goto, SessionInv, Shape, CallsTyped,
           LockDiscipline, EndDiscipline, WorkerDiscipline
    <3>2. EndDiscipline'
      BY <1>1, <2>1, <2>5 DEF LeaveShutdown, Goto, SessionInv, Shape, CallsTyped,
           LockDiscipline, EndDiscipline, WorkerDiscipline
    <3>3. WorkerDiscipline'
      BY <1>1, <2>1, <2>5 DEF LeaveShutdown, Goto, SessionInv, Shape, CallsTyped,
           LockDiscipline, EndDiscipline, WorkerDiscipline
    <3>4. NoOrphan'
      BY <1>1, <2>1, <2>5 DEF LeaveShutdown, Goto, SessionInv, Shape, CallsTyped,
           LockDiscipline, EndDiscipline, WorkerDiscipline, NoOrphan, Alive, Killing
    <3> QED  BY <3>1, <3>2, <3>3, <3>4 DEF SessionInv
  <2> QED  BY <1>22, <2>2, <2>3, <2>4, <2>5 DEF Detach, Killed
<1>23. CASE Reap(t)
  <2>1. LockDiscipline'
    BY <1>1, <1>23 DEF Reap, Become, callVars, Goto, SessionInv, Shape, CallsTyped,
         LockDiscipline, EndDiscipline, WorkerDiscipline
  <2>2. EndDiscipline'
    BY <1>1, <1>23 DEF Reap, Become, callVars, Goto, SessionInv, Shape, CallsTyped,
         LockDiscipline, EndDiscipline, WorkerDiscipline
  <2>3. WorkerDiscipline'
    BY <1>1, <1>23 DEF Reap, Become, callVars, Goto, SessionInv, Shape, CallsTyped,
         LockDiscipline, EndDiscipline, WorkerDiscipline
  <2>4. NoOrphan'
    BY <1>1, <1>23 DEF Reap, Become, callVars, Goto, SessionInv, Shape, CallsTyped,
         LockDiscipline, EndDiscipline, WorkerDiscipline, NoOrphan, Alive, Killing
  <2> QED  BY <2>1, <2>2, <2>3, <2>4 DEF SessionInv
<1>24. CASE CloseStdin(t)
  <2>1. UNCHANGED <<ended, process, spared, worker, job>> /\ pc[t] = "stdin" /\ process = None
    BY <1>2, <1>24 DEF CloseStdin, WorkerDiscipline, guestVars
  <2>2. CASE Goto(t, "stdout") /\ UNCHANGED <<lock, run, handle, frame>>
    <3>1. LockDiscipline'
      BY <1>1, <2>1, <2>2 DEF Goto, SessionInv, Shape, CallsTyped, LockDiscipline,
           EndDiscipline, WorkerDiscipline
    <3>2. EndDiscipline'
      BY <1>1, <2>1, <2>2 DEF Goto, SessionInv, Shape, CallsTyped, LockDiscipline,
           EndDiscipline, WorkerDiscipline
    <3>3. WorkerDiscipline'
      BY <1>1, <2>1, <2>2 DEF Goto, SessionInv, Shape, CallsTyped, LockDiscipline,
           EndDiscipline, WorkerDiscipline
    <3>4. NoOrphan'
      BY <1>1, <2>1, <2>2 DEF Goto, SessionInv, Shape, CallsTyped, LockDiscipline,
           EndDiscipline, WorkerDiscipline, NoOrphan, Alive, Killing
    <3> QED  BY <3>1, <3>2, <3>3, <3>4 DEF SessionInv
  <2>3. CASE Escape(t, "OSError")
    BY <1>1, <2>1, <2>3, SessionLeave, SessionLeaveShutdown DEF Escape
  <2> QED  BY <1>24, <2>2, <2>3 DEF CloseStdin
<1>25. CASE CloseStdout(t)
  <2>1. UNCHANGED <<ended, process, spared, worker, job>> /\ pc[t] = "stdout" /\ process = None
    BY <1>2, <1>25 DEF CloseStdout, WorkerDiscipline, guestVars
  <2>2. CASE frame[t] = "call" /\ Leave(t, "CodeInterpreterError")
    BY <1>1, <2>1, <2>2, SessionLeave
  <2>3. CASE /\ frame[t] = "try"
             /\ Goto(t, "last")
             /\ handle' = [handle EXCEPT ![t] = None]
             /\ UNCHANGED <<lock, run, frame>>
    BY <1>1, <2>1, <2>3, SessionGoto DEF Shape, CallsTyped, Places
  <2>4. CASE frame[t] = "last" /\ LeaveShutdown(t, "ok")
    BY <1>1, <2>1, <2>4, SessionLeaveShutdown
  <2> QED  BY <1>25, <2>2, <2>3, <2>4 DEF CloseStdout, Killed
<1> QED
  BY <1>3, <1>4, <1>5, <1>6, <1>7, <1>8, <1>9, <1>11, <1>12, <1>13, <1>14, <1>15,
     <1>16, <1>17, <1>18, <1>19, <1>20, <1>21, <1>22, <1>23, <1>24, <1>25
  DEF Advance, Choose

LEMMA SessionReader ==
    ASSUME SessionInv, NEW w \in Workers, Read(w)
    PROVE  SessionInv'
<1> USE DEF SessionInv, LockDiscipline, EndDiscipline, WorkerDiscipline, NoOrphan,
            Alive, Killing, callVars, guestVars
<1>1. CASE ReaderLoop(w)
  BY <1>1 DEF ReaderLoop
<1>2. CASE ReaderLine(w)
  BY <1>2 DEF ReaderLine
<1>3. CASE ReaderEnd(w)
  BY <1>3 DEF ReaderEnd
<1> QED  BY <1>1, <1>2, <1>3 DEF Read

\* A guest step starts no worker, and code starts only in a live one.
LEMMA GuestEffect ==
    ASSUME TypeOK, GuestStep
    PROVE  /\ \A w \in Workers : worker'[w] = "unborn" <=> worker[w] = "unborn"
           /\ \A w \in Workers : Alive(w)' => Alive(w)
           /\ \A w \in Workers : job'[w] # job[w] => worker[w] # "unborn"
<1>1. PICK w \in Workers : Protocol(w) \/ Whim(w)
  BY DEF GuestStep
<1> USE DEF TypeOK, GuestTypeOK, Become, Alive
<1>2. CASE Ready(w)
  BY <1>2 DEF Ready
<1>3. CASE TakeExecute(w)
  BY <1>3 DEF TakeExecute
<1>4. CASE RejectRequest(w)
  BY <1>4 DEF RejectRequest
<1>5. CASE TakeShutdown(w)
  BY <1>5 DEF TakeShutdown
<1>6. CASE \E g \in Guests : TakeToolResponse(w, g)
  BY <1>6 DEF TakeToolResponse
<1>7. CASE Finish(w)
  BY <1>7 DEF Finish
<1>8. CASE FinishBadly(w)
  BY <1>8 DEF FinishBadly
<1>9. CASE Die(w)
  BY <1>9 DEF Die
<1>10. CASE \E g \in Guests : CallTool(w, g)
  BY <1>10 DEF CallTool
<1>11. CASE StartChild(w) \/ ChildSpeaks(w) \/ ChildExits(w)
  BY <1>11 DEF StartChild, ChildSpeaks, ChildExits
<1> QED
  BY <1>1, <1>2, <1>3, <1>4, <1>5, <1>6, <1>7, <1>8, <1>9, <1>10, <1>11
  DEF Protocol, Whim

LEMMA SessionGuest ==
    ASSUME TypeOK, SessionInv, GuestStep, UNCHANGED hostVars
    PROVE  SessionInv'
<1>1. process \in Workers \cup {None} /\ handle \in [Threads -> Workers \cup {None}]
  BY DEF TypeOK, HostTypeOK
<1> USE GuestEffect, <1>1 DEF SessionInv, hostVars
<1>2. LockDiscipline' /\ EndDiscipline'
  BY DEF LockDiscipline, EndDiscipline
<1>3. WorkerDiscipline'
  BY DEF WorkerDiscipline
<1>4. NoOrphan'
  BY DEF NoOrphan, Killing
<1> QED  BY <1>2, <1>3, <1>4

LEMMA SessionInit == Init => SessionInv
<1> SUFFICES ASSUME Init PROVE SessionInv
  OBVIOUS
<1> USE HostAssumption DEF Init, GuestInit, HostInit
<1>1. LockDiscipline
  BY DEF LockDiscipline
<1>2. EndDiscipline
  BY DEF EndDiscipline
<1>3. WorkerDiscipline
  BY DEF WorkerDiscipline
<1>4. NoOrphan
  BY DEF NoOrphan, Alive
<1> QED  BY <1>1, <1>2, <1>3, <1>4 DEF SessionInv

\* The lock, the end of the session and its worker stay in step: the
\* inductive invariant behind the theorems below.
THEOREM SessionHolds ==
    ASSUME Starters = {}, Overlap = FALSE
    PROVE  Spec => [](TypeOK /\ SessionInv)
<1>1. Init => TypeOK /\ SessionInv
  BY TypeInit, SessionInit
<1>2. TypeOK /\ SessionInv /\ [Next]_vars => (TypeOK /\ SessionInv)'
  <2> SUFFICES ASSUME TypeOK, SessionInv, [Next]_vars PROVE TypeOK' /\ SessionInv'
    OBVIOUS
  <2>1. CASE UNCHANGED vars
    <3>1. TypeOK'
      BY <2>1 DEF vars, guestVars, hostVars, TypeOK, GuestTypeOK, HostTypeOK
    <3>2. SessionInv'
      BY <2>1 DEF vars, guestVars, hostVars, SessionInv, LockDiscipline, EndDiscipline,
                  WorkerDiscipline, NoOrphan, Alive, Killing
    <3> QED  BY <3>1, <3>2
  <2>2. ASSUME NEW t \in Threads, Advance(t) \/ Choose(t) PROVE TypeOK' /\ SessionInv'
    BY <2>2, TypeThread, SessionThread
  <2>3. ASSUME NEW w \in Workers, Read(w) PROVE TypeOK' /\ SessionInv'
    BY <2>3, TypeReader, SessionReader
  <2>4. ASSUME GuestStep, UNCHANGED hostVars PROVE TypeOK' /\ SessionInv'
    BY <2>4, TypeGuest, SessionGuest
  <2> QED  BY <2>1, <2>2, <2>3, <2>4 DEF Next
<1> QED  BY <1>1, <1>2, PTL DEF Spec

\* No worker is ever out of the session's reach.
THEOREM NeverOrphaned ==
    ASSUME Starters = {}, Overlap = FALSE
    PROVE  Spec => []NoOrphan
<1>1. TypeOK /\ SessionInv => NoOrphan
  BY DEF SessionInv
<1> QED  BY <1>1, SessionHolds, PTL

\* When the session has ended and every call has returned, no worker lives
\* but one that an interrupted shutdown spared: a live one would be the
\* session's own (nobody is killing), and an ended session that still has its
\* worker, unless spared, has a thread that is not idle.
THEOREM NothingLeaks ==
    ASSUME Starters = {}, Overlap = FALSE
    PROVE  Spec => []NoLeak
<1>1. TypeOK /\ SessionInv => NoLeak
  BY HostAssumption
  DEF SessionInv, NoLeak, NoOrphan, Killing, EndDiscipline, LockDiscipline
<1> QED  BY <1>1, SessionHolds, PTL

\* All guest code of a session runs in one worker, hence in one namespace.
THEOREM OneNamespaceHolds ==
    ASSUME Starters = {}, Overlap = FALSE
    PROVE  Spec => []OneNamespace
<1>1. TypeOK /\ SessionInv => OneNamespace
  BY DEF SessionInv, OneNamespace, WorkerDiscipline
<1> QED  BY <1>1, SessionHolds, PTL
=============================================================================
