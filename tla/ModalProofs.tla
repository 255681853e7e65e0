----------------------------- MODULE ModalProofs -----------------------------
(***************************************************************************)
(* Theorems about ModalInterpreter, for every set of threads and           *)
(* sandboxes, every bound and every setting: overlapping calls, a provider *)
(* that fails, interrupts and child processes of guest code included; and  *)
(* the refinement of CodeInterpreter, in the settings without those.       *)
(***************************************************************************)
EXTENDS ModalInterpreter, GuestProofs

-----------------------------------------------------------------------------
(* The inductive invariant. *)

\* Which lock a thread has, by where it is.
LockAt(t) ==
    /\ run[t] # 0 <=> lock = t
    /\ pc[t] = "idle" => lock # t /\ starting # t
    /\ pc[t] \in {"check", "enter"} => starting # t
    /\ pc[t] \in {"recheck", "create", "attach"} => starting = t
    /\ pc[t] \in {"look", "next"} => starting = t \/ lock = t
    /\ pc[t] = "tool" => lock = t /\ starting # t
    /\ pc[t] = "send" => starting # t /\ (frame[t] = "call" => lock = t)
    /\ pc[t] = "stop" => frame[t] = "shutdown"
    /\ frame[t] = "shutdown" => pc[t] \in {"send", "kill", "stop"} /\ starting # t

LockInv == \A t \in Threads : LockAt(t)

\* start has found that there is no sandbox, and sees to it.
Creator(t) == starting = t /\ pc[t] \in {"create", "attach", "look", "next"}

\* execute is past its call of start.
InExecute(t) == lock = t /\ starting # t /\ pc[t] \notin {"check", "enter"}

Ending(t) == pc[t] \in {"kill", "stop"} \/ frame[t] = "shutdown"

\* An open session keeps its sandbox, so nobody executes while one is created.
EndAt(t) ==
    /\ Ending(t) => ended
    /\ ~ended /\ pc[t] \in {"attach", "look", "next", "send", "tool"} => sandbox # None

EndInv ==
    /\ \A t \in Threads : EndAt(t)
    /\ \A t, u \in Threads : Creator(t) => ~InExecute(u)

\* A session has one sandbox in its life, and refers to it while it is alive
\* and not asked to terminate.
SandboxInv ==
    /\ \A v, w \in Workers : worker[v] # "unborn" /\ worker[w] # "unborn" => v = w
    /\ \A w \in Workers : job[w] # 0 => worker[w] # "unborn"
    /\ sandbox # None => worker[sandbox] # "unborn"
    /\ (~ended /\ sandbox = None) \/ (\E t \in Threads : pc[t] = "create")
          => \A w \in Workers : worker[w] = "unborn"
    /\ NoOrphan

\* When no shutdown overlaps another call: a sandbox is created in an open
\* session only, and an ended one that has its sandbox has a thread that will
\* ask for its end.
LeakInv ==
    (~Overlap /\ ~Interrupts) =>
        /\ \A t \in Threads : Creator(t) => ~ended
        /\ ended /\ sandbox # None => \E t \in Threads : Ending(t)

Inv == LockInv /\ EndInv /\ SandboxInv /\ LeakInv

-----------------------------------------------------------------------------
(* Type correctness. *)

\* The variables that say where calls are, and the others of the host.
CallsTyped ==
    /\ lock \in Executors \cup {None}
    /\ starting \in Threads \cup {None}
    /\ pc \in [Threads -> Places]
    /\ run \in [Threads -> 0..MaxRuns]
    /\ tool \in [Threads -> Nat]
    /\ reads \in [Threads -> Workers \cup {None}]
    /\ frame \in [Threads -> {"call", "shutdown"}]
    /\ outcome \in [Threads -> Outcomes]
    /\ runs \in 0..MaxRuns
    /\ \A t \in Threads : pc[t] = "next" => reads[t] # None

SharedTyped ==
    /\ ended \in BOOLEAN
    /\ {sandbox, stream} \subseteq Workers \cup {None}
    /\ asked \subseteq Workers
    /\ verdict \in [1..MaxRuns -> Nat]

LEMMA TypeParts ==
    /\ TypeOK <=> setting \in Settings /\ GuestTypeOK /\ CallsTyped /\ SharedTyped
    /\ TypeOK' <=> setting' \in Settings /\ GuestTypeOK' /\ CallsTyped' /\ SharedTyped'
  BY DEF TypeOK, CallsTyped, SharedTyped

LEMMA TypeInit == Init => TypeOK
<1> SUFFICES ASSUME Init PROVE TypeOK
  OBVIOUS
<1>1. GuestTypeOK
  BY GuestAssumption DEF Init, GuestInit, GuestTypeOK
<1>2. SharedTyped
  BY DEF Init, SharedTyped
<1>3. CallsTyped
  BY HostAssumption DEF Init, CallsTyped, Places, Outcomes
<1> QED  BY <1>1, <1>2, <1>3, TypeParts DEF Init

LEMMA LeaveTyped ==
    ASSUME CallsTyped, NEW t \in Threads, NEW how \in Outcomes, Leave(t, how)
    PROVE  CallsTyped'
<1>1. pc' \in [Threads -> Places] /\ \A u \in Threads : pc'[u] = "next" => reads'[u] # None
  BY DEF Leave, Goto, CallsTyped, Places
<1>2. lock' \in Executors \cup {None} /\ starting' \in Threads \cup {None}
  BY DEF Leave, CallsTyped
<1>3. /\ run' \in [Threads -> 0..MaxRuns]
      /\ tool' \in [Threads -> Nat]
      /\ reads' \in [Threads -> Workers \cup {None}]
  BY HostAssumption DEF Leave, CallsTyped
<1>4. /\ frame' \in [Threads -> {"call", "shutdown"}]
      /\ outcome' \in [Threads -> Outcomes]
      /\ runs' \in 0..MaxRuns
  BY DEF Leave, CallsTyped
<1> QED  BY <1>1, <1>2, <1>3, <1>4 DEF CallsTyped

LEMMA LeaveShutdownTyped ==
    ASSUME CallsTyped, NEW t \in Threads, NEW how \in Outcomes, LeaveShutdown(t, how)
    PROVE  CallsTyped'
  BY DEF LeaveShutdown, Goto, CallsTyped, Places

\* A thread that goes elsewhere, and changes nothing else of its call.
LEMMA StepTyped ==
    ASSUME CallsTyped, NEW t \in Threads, NEW place \in Places \ {"next"}, Step(t, place)
    PROVE  CallsTyped'
  BY DEF Step, Goto, CallsTyped, Places, callVars

LEMMA StartedTyped ==
    ASSUME CallsTyped, NEW t \in Threads, Started(t)
    PROVE  CallsTyped'
<1>1. CASE Leave(t, "ok")
  BY <1>1, LeaveTyped DEF Outcomes
<1>2. CASE /\ Goto(t, "send")
           /\ starting' = IF starting = t THEN None ELSE starting
           /\ reads' = [reads EXCEPT ![t] = None]
           /\ UNCHANGED <<run, tool, frame, outcome, runs, lock>>
  BY <1>2 DEF Goto, CallsTyped, Places
<1> QED  BY <1>1, <1>2 DEF Started

LEMMA KilledTyped ==
    ASSUME CallsTyped, NEW t \in Threads, Killed(t)
    PROVE  CallsTyped'
  BY LeaveTyped, StepTyped DEF Killed, Outcomes, Places

\* The first half of _terminal.
LEMMA TerminalTyped ==
    ASSUME TypeOK, NEW t \in Threads, Terminal(t), UNCHANGED setting
    PROVE  TypeOK'
<1>1. CallsTyped'
  BY TypeParts, StepTyped DEF Terminal, Places
<1>2. SharedTyped'
  BY TypeParts DEF Terminal, SharedTyped
<1>3. GuestTypeOK'
  BY TypeParts DEF Terminal, GuestTypeOK, guestVars
<1> QED  BY <1>1, <1>2, <1>3, TypeParts

LEMMA TerminateTyped ==
    ASSUME GuestTypeOK, NEW w \in Workers, NEW fails, Terminate(w, fails)
    PROVE  GuestTypeOK'
  BY DEF Terminate, Become, GuestTypeOK

\* Every step of a call keeps every variable in its type.
LEMMA TypeThread == ASSUME TypeOK, NEW t \in Threads, Advance(t) \/ Choose(t), UNCHANGED setting
                    PROVE  TypeOK'
<1> USE HostAssumption
<1>1. setting' \in Settings /\ GuestTypeOK /\ CallsTyped /\ SharedTyped
  BY TypeParts
<1>2. ASSUME UNCHANGED guestVars PROVE GuestTypeOK'
  BY <1>1, <1>2 DEF GuestTypeOK, guestVars
<1>3. ASSUME CallsTyped', UNCHANGED <<guestVars, sessionVars, verdict>>
      PROVE  TypeOK'
  BY <1>1, <1>2, <1>3, TypeParts DEF SharedTyped, sessionVars
<1>4. CASE CallExecute(t)
  <2>1. CallsTyped'
    BY <1>1, <1>4 DEF CallExecute, Goto, CallsTyped, Places
  <2> QED  BY <1>3, <1>4, <2>1 DEF CallExecute
<1>5. CASE CallBusy(t)
  <2>1. CallsTyped'
    BY <1>1, <1>5 DEF CallBusy, CallsTyped, Outcomes
  <2> QED  BY <1>3, <1>5, <2>1 DEF CallBusy
<1>6. CASE RejectInput(t)
  BY <1>1, <1>3, <1>6, LeaveTyped DEF RejectInput, Outcomes
<1>7. CASE CallStart(t)
  BY <1>1, <1>3, <1>7, StepTyped DEF CallStart, Places
<1>8. CASE CallShutdown(t)
  <2>1. CallsTyped'
    BY <1>1, <1>8 DEF CallShutdown, Goto, CallsTyped, Places, Outcomes
  <2>2. SharedTyped'
    BY <1>1, <1>8 DEF CallShutdown, SharedTyped
  <2> QED  BY <1>1, <1>2, <1>8, <2>1, <2>2, TypeParts DEF CallShutdown
<1>9. CASE Interrupt(t)
  <2>1. CASE InterruptWait(t)
    BY <1>1, <1>3, <2>1, LeaveTyped DEF InterruptWait, Outcomes
  <2>2. CASE InterruptSend(t)
    <3>1. CallsTyped'
      BY <1>1, <2>2, LeaveTyped, LeaveShutdownTyped DEF InterruptSend, Outcomes
    <3>2. SharedTyped'
      BY <1>1, <2>2 DEF InterruptSend, SharedTyped, sessionVars
    <3>3. sandbox \in Workers
      BY <1>1, <2>2 DEF InterruptSend, SharedTyped
    <3>4. Outgoing(t) \in Message
      BY <1>1, MsgTyped DEF Outgoing, MsgTypes, CallsTyped
    <3>5. Append(stdin[sandbox], Outgoing(t)) \in Seq(Message)
      BY <1>1, <3>3, <3>4, QueueTypes DEF GuestTypeOK
    <3>6. GuestTypeOK'
      <4>1. CASE stdin' = stdin
        BY <1>1, <2>2, <4>1 DEF InterruptSend, GuestTypeOK
      <4>2. CASE stdin' = [stdin EXCEPT ![sandbox] = Append(@, Outgoing(t))]
        BY <1>1, <2>2, <3>3, <3>5, <4>2 DEF InterruptSend, GuestTypeOK
      <4> QED  BY <2>2, <4>1, <4>2 DEF InterruptSend
    <3> QED  BY <1>1, <3>1, <3>2, <3>6, TypeParts
  <2>3. CASE InterruptEnd(t)
    <3>1. CallsTyped'
      BY <1>1, <2>3, LeaveTyped, LeaveShutdownTyped DEF InterruptEnd, Outcomes
    <3>2. SharedTyped'
      BY <1>1, <2>3 DEF InterruptEnd, Terminate, SharedTyped
    <3>3. GuestTypeOK'
      BY <1>1, <2>3, TerminateTyped DEF InterruptEnd, SharedTyped
    <3> QED  BY <1>1, <3>1, <3>2, <3>3, TypeParts
  <2> QED  BY <1>9, <2>1, <2>2, <2>3 DEF Interrupt
<1>10. CASE CheckActive(t)
  <2>1. CallsTyped'
    BY <1>1, <1>10, LeaveTyped, StepTyped DEF CheckActive, Outcomes, Places
  <2> QED  BY <1>3, <1>10, <2>1 DEF CheckActive
<1>11. CASE EnterStart(t)
  <2>1. CallsTyped'
    BY <1>1, <1>11 DEF EnterStart, Goto, CallsTyped, Places
  <2> QED  BY <1>3, <1>11, <2>1 DEF EnterStart
<1>12. CASE Recheck(t)
  <2>1. CallsTyped'
    BY <1>1, <1>12, LeaveTyped, StartedTyped, StepTyped DEF Recheck, Outcomes, Places
  <2> QED  BY <1>3, <1>12, <2>1 DEF Recheck
<1>13. CASE Create(t)
  <2>1. CallsTyped'
    BY <1>1, <1>13, StepTyped DEF Create, Places
  <2>2. SharedTyped'
    BY <1>1, <1>13 DEF Create, SharedTyped
  <2>3. GuestTypeOK'
    BY <1>1, <1>13 DEF Create, Become, GuestTypeOK
  <2> QED  BY <1>1, <2>1, <2>2, <2>3, TypeParts
<1>14. CASE CreateFails(t) \/ EndOfStream(t) \/ Timeout(t) \/ SendFails(t)
  BY <1>14, TerminalTyped DEF CreateFails, EndOfStream, Timeout, SendFails
<1>15. CASE Attach(t)
  <2>1. CASE Terminal(t)
    BY <2>1, TerminalTyped
  <2>2. CASE /\ sandbox # None
             /\ stream' = sandbox
             /\ Step(t, "look")
             /\ UNCHANGED <<guestVars, ended, sandbox, asked, verdict>>
    <3>1. CallsTyped'
      BY <1>1, <2>2, StepTyped DEF Places
    <3>2. SharedTyped'
      BY <1>1, <2>2 DEF SharedTyped
    <3> QED  BY <1>1, <1>2, <2>2, <3>1, <3>2, TypeParts
  <2> QED  BY <1>15, <2>1, <2>2 DEF Attach
<1>16. CASE Look(t)
  <2>1. CASE Terminal(t)
    BY <2>1, TerminalTyped
  <2>2. CASE /\ stream # None
             /\ reads' = [reads EXCEPT ![t] = stream]
             /\ Goto(t, "next")
             /\ UNCHANGED <<guestVars, sessionVars, run, tool, frame, outcome, runs,
                            lock, starting, verdict>>
    <3>1. stream \in Workers
      BY <1>1, <2>2 DEF SharedTyped
    <3>2. CallsTyped'
      BY <1>1, <2>2, <3>1 DEF Goto, CallsTyped, Places
    <3> QED  BY <1>3, <2>2, <3>2
  <2> QED  BY <1>16, <2>1, <2>2 DEF Look
<1>17. CASE Receive(t)
  <2> DEFINE w == reads[t]
             m == Head(stdout[w])
  <2>1. w \in Workers
    BY <1>1, <1>17 DEF Receive, CallsTyped
  <2>2. m \in Message /\ Tail(stdout[w]) \in Seq(Message)
    BY <1>1, <1>17, <2>1, QueueTypes DEF Receive, GuestTypeOK
  <2>3. GuestTypeOK'
    BY <1>1, <1>17, <2>1, <2>2 DEF Receive, GuestTypeOK
  <2>4. CallsTyped' /\ ended' \in BOOLEAN /\ verdict' \in [1..MaxRuns -> Nat]
    <3>1. CASE ended' = TRUE /\ Step(t, "kill") /\ UNCHANGED verdict
      BY <1>1, <3>1, StepTyped DEF SharedTyped, Places
    <3>2. CASE Started(t) /\ UNCHANGED <<ended, verdict>>
      BY <1>1, <3>2, StartedTyped DEF SharedTyped
    <3>3. CASE /\ Goto(t, "tool")
               /\ tool' = [tool EXCEPT ![t] = m.id]
               /\ reads' = [reads EXCEPT ![t] = None]
               /\ UNCHANGED <<ended, run, frame, outcome, runs, lock, starting, verdict>>
      BY <1>1, <2>2, <3>3, MessageFields DEF Goto, CallsTyped, SharedTyped, Places
    <3>4. CASE /\ verdict' = [verdict EXCEPT ![run[t]] = m.id]
               /\ Leave(t, "ok")
               /\ UNCHANGED ended
      BY <1>1, <2>2, <3>4, LeaveTyped, MessageFields DEF SharedTyped, Outcomes
    <3> QED  BY <1>17, <3>1, <3>2, <3>3, <3>4 DEF Receive
  <2>5. SharedTyped'
    BY <1>1, <1>17, <2>4 DEF Receive, SharedTyped
  <2> QED  BY <1>1, <2>3, <2>4, <2>5, TypeParts
<1>18. CASE RunTool(t)
  BY <1>1, <1>3, <1>18, StepTyped DEF RunTool, Places
<1>19. CASE Send(t)
  <2>1. CallsTyped'
    BY <1>1, <1>19 DEF Send, Goto, CallsTyped, Places
  <2>2. SharedTyped'
    BY <1>1, <1>19 DEF Send, SharedTyped, sessionVars
  <2>3. sandbox \in Workers
    BY <1>1, <1>19 DEF Send, SharedTyped
  <2>4. Outgoing(t) \in Message
    BY <1>1, MsgTyped DEF Outgoing, MsgTypes, CallsTyped
  <2>5. Append(stdin[sandbox], Outgoing(t)) \in Seq(Message)
    BY <1>1, <2>3, <2>4, QueueTypes DEF GuestTypeOK
  <2>6. GuestTypeOK'
    BY <1>1, <1>19, <2>3, <2>5 DEF Send, GuestTypeOK
  <2> QED  BY <1>1, <2>1, <2>2, <2>6, TypeParts
<1>20. CASE Kill(t)
  <2>1. CallsTyped'
    BY <1>1, <1>20, KilledTyped DEF Kill
  <2>2. SharedTyped'
    BY <1>1, <1>20 DEF Kill, Terminate, SharedTyped
  <2>3. GuestTypeOK'
    BY <1>1, <1>2, <1>20, TerminateTyped DEF Kill, SharedTyped
  <2> QED  BY <1>1, <2>1, <2>2, <2>3, TypeParts
<1>21. CASE StopSandbox(t)
  <2>1. CallsTyped'
    BY <1>1, <1>21, LeaveShutdownTyped DEF StopSandbox, Outcomes
  <2>2. SharedTyped'
    BY <1>1, <1>21 DEF StopSandbox, Terminate, SharedTyped
  <2>3. GuestTypeOK'
    BY <1>1, <1>2, <1>21, TerminateTyped DEF StopSandbox, SharedTyped
  <2> QED  BY <1>1, <2>1, <2>2, <2>3, TypeParts
<1> QED
  BY <1>4, <1>5, <1>6, <1>7, <1>8, <1>9, <1>10, <1>11, <1>12, <1>13, <1>14, <1>15, <1>16,
     <1>17, <1>18, <1>19, <1>20, <1>21 DEF Advance, Choose

LEMMA TypeStep == ASSUME TypeOK, [Next]_vars
                  PROVE  TypeOK'
<1>1. CASE UNCHANGED vars
  BY <1>1 DEF vars, guestVars, hostVars, sessionVars, callVars, TypeOK, GuestTypeOK
<1>2. CASE \E t \in Threads : (Advance(t) \/ Choose(t)) /\ UNCHANGED setting
  BY <1>2, TypeThread
<1>3. CASE GuestStep /\ UNCHANGED <<setting, hostVars>>
  BY <1>3, GuestTyped DEF TypeOK, hostVars, sessionVars, callVars
<1> QED
  BY <1>1, <1>2, <1>3 DEF Next

\* The session, its locks and its sandboxes stay in their types, and a thread
\* that waits for a line has an iterator to wait for.
THEOREM TypeCorrect == Spec => []TypeOK
<1>1. Init => TypeOK
  BY TypeInit
<1>2. TypeOK /\ [Next]_vars => TypeOK'
  BY TypeStep
<1> QED
  BY <1>1, <1>2, PTL DEF Spec

-----------------------------------------------------------------------------
(* The inductive invariant. *)

\* A step of one thread says nothing about where the others are and which lock
\* they hold.
LEMMA Others ==
    ASSUME TypeOK, NEW t \in Threads, Advance(t) \/ Choose(t), NEW u \in Threads \ {t}
    PROVE  /\ pc'[u] = pc[u] /\ run'[u] = run[u] /\ frame'[u] = frame[u]
           /\ lock' = u <=> lock = u
           /\ starting' = u <=> starting = u
<1> USE HostAssumption DEF TypeOK, Step, Goto, Leave, LeaveShutdown, Started, Killed, Terminal, callVars
<1>1. CASE CallExecute(t)
  BY <1>1 DEF CallExecute
<1>2. CASE CallBusy(t)
  BY <1>2 DEF CallBusy
<1>3. CASE CallStart(t)
  BY <1>3 DEF CallStart
<1>4. CASE CallShutdown(t)
  BY <1>4 DEF CallShutdown
<1>5. CASE RejectInput(t)
  BY <1>5 DEF RejectInput
<1>6. CASE Interrupt(t)
  <2>1. CASE InterruptWait(t)
    BY <2>1 DEF InterruptWait
  <2>2. CASE InterruptSend(t)
    <3>1. CASE frame[t] = "call" /\ Leave(t, "BaseException")
      BY <2>2, <3>1 DEF InterruptSend
    <3>2. CASE frame[t] = "shutdown" /\ LeaveShutdown(t, "BaseException")
      BY <2>2, <3>2 DEF InterruptSend
    <3> QED  BY <2>2, <3>1, <3>2 DEF InterruptSend
  <2>3. CASE InterruptEnd(t)
    <3>1. CASE frame[t] = "call" /\ Leave(t, "BaseException")
      BY <2>3, <3>1 DEF InterruptEnd
    <3>2. CASE frame[t] = "shutdown" /\ LeaveShutdown(t, "BaseException")
      BY <2>3, <3>2 DEF InterruptEnd
    <3> QED  BY <2>3, <3>1, <3>2 DEF InterruptEnd
  <2> QED  BY <1>6, <2>1, <2>2, <2>3 DEF Interrupt
<1>7. CASE CheckActive(t)
  BY <1>7 DEF CheckActive
<1>8. CASE EnterStart(t)
  BY <1>8 DEF EnterStart
<1>9. CASE Recheck(t)
  BY <1>9 DEF Recheck
<1>10. CASE Create(t)
  BY <1>10 DEF Create
<1>11. CASE CreateFails(t)
  BY <1>11 DEF CreateFails
<1>12. CASE Attach(t)
  BY <1>12 DEF Attach
<1>13. CASE Look(t)
  BY <1>13 DEF Look
<1>14. CASE Receive(t)
  BY <1>14 DEF Receive
<1>15. CASE EndOfStream(t)
  BY <1>15 DEF EndOfStream
<1>16. CASE Timeout(t)
  BY <1>16 DEF Timeout
<1>17. CASE RunTool(t)
  BY <1>17 DEF RunTool
<1>18. CASE Send(t)
  BY <1>18 DEF Send
<1>19. CASE SendFails(t)
  BY <1>19 DEF SendFails
<1>20. CASE Kill(t)
  BY <1>20 DEF Kill
<1>21. CASE StopSandbox(t)
  BY <1>21 DEF StopSandbox
<1> QED
  BY <1>1, <1>2, <1>3, <1>4, <1>5, <1>6, <1>7, <1>8, <1>9, <1>10, <1>11, <1>12, <1>13,
     <1>14, <1>15, <1>16, <1>17, <1>18, <1>19, <1>20, <1>21 DEF Advance, Choose

LEMMA LockThread ==
    ASSUME TypeOK, LockInv, NEW t \in Threads, Advance(t) \/ Choose(t)
    PROVE  LockInv'
<1>0. ASSUME LockAt(t)' PROVE LockInv'
  BY <1>0, Others DEF LockInv, LockAt
<1> SUFFICES LockAt(t)'
  BY <1>0
<1>a. LockAt(t)
  BY DEF LockInv
<1> USE <1>a, HostAssumption DEF LockAt, TypeOK, Step, Goto, Leave, LeaveShutdown, Started, Killed,
        Terminal, callVars
<1>1. CASE CallExecute(t)
  BY <1>1 DEF CallExecute
<1>2. CASE CallBusy(t)
  BY <1>2 DEF CallBusy
<1>3. CASE CallStart(t)
  BY <1>3 DEF CallStart
<1>4. CASE CallShutdown(t)
  BY <1>4 DEF CallShutdown, MayStop
<1>5. CASE RejectInput(t)
  BY <1>5 DEF RejectInput
<1>6. CASE Interrupt(t)
  <2>1. CASE InterruptWait(t)
    BY <2>1 DEF InterruptWait
  <2>2. CASE InterruptSend(t)
    <3>1. CASE frame[t] = "call" /\ Leave(t, "BaseException")
      BY <2>2, <3>1 DEF InterruptSend
    <3>2. CASE frame[t] = "shutdown" /\ LeaveShutdown(t, "BaseException")
      BY <2>2, <3>2 DEF InterruptSend
    <3> QED  BY <2>2, <3>1, <3>2 DEF InterruptSend
  <2>3. CASE InterruptEnd(t)
    <3>1. CASE frame[t] = "call" /\ Leave(t, "BaseException")
      BY <2>3, <3>1 DEF InterruptEnd
    <3>2. CASE frame[t] = "shutdown" /\ LeaveShutdown(t, "BaseException")
      BY <2>3, <3>2 DEF InterruptEnd
    <3> QED  BY <2>3, <3>1, <3>2 DEF InterruptEnd
  <2> QED  BY <1>6, <2>1, <2>2, <2>3 DEF Interrupt
<1>7. CASE CheckActive(t)
  BY <1>7 DEF CheckActive
<1>8. CASE EnterStart(t)
  BY <1>8 DEF EnterStart
<1>9. CASE Recheck(t)
  BY <1>9 DEF Recheck
<1>10. CASE Create(t)
  BY <1>10 DEF Create
<1>11. CASE CreateFails(t)
  BY <1>11 DEF CreateFails
<1>12. CASE Attach(t)
  BY <1>12 DEF Attach
<1>13. CASE Look(t)
  BY <1>13 DEF Look
<1>14. CASE Receive(t)
  <2>1. CASE Step(t, "kill")
    BY <1>14, <2>1 DEF Receive
  <2>2. CASE starting = t /\ Started(t)
    BY <1>14, <2>2 DEF Receive
  <2>3. CASE starting # t /\ (Leave(t, "ok") \/ (/\ Goto(t, "tool")
                                                /\ UNCHANGED <<run, frame, lock, starting>>))
    BY <1>14, <2>3 DEF Receive
  <2> QED  BY <1>14, <2>1, <2>2, <2>3 DEF Receive, Expected
<1>15. CASE EndOfStream(t)
  BY <1>15 DEF EndOfStream
<1>16. CASE Timeout(t)
  BY <1>16 DEF Timeout
<1>17. CASE RunTool(t)
  BY <1>17 DEF RunTool
<1>18. CASE Send(t)
  BY <1>18 DEF Send
<1>19. CASE SendFails(t)
  BY <1>19 DEF SendFails
<1>20. CASE Kill(t)
  BY <1>20 DEF Kill
<1>21. CASE StopSandbox(t)
  BY <1>21 DEF StopSandbox
<1> QED
  BY <1>1, <1>2, <1>3, <1>4, <1>5, <1>6, <1>7, <1>8, <1>9, <1>10, <1>11, <1>12, <1>13,
     <1>14, <1>15, <1>16, <1>17, <1>18, <1>19, <1>20, <1>21 DEF Advance, Choose

\* What a step of t can do to the session: it never opens again, an open one
\* keeps its sandbox, and what ends it is followed by its end.
Moves(t) ==
    /\ ended => ended'
    /\ ~ended' /\ sandbox # None => sandbox' # None
    /\ EndAt(t)'
    /\ Creator(t)' => /\ Creator(t) \/ (pc[t] = "recheck" /\ ~ended /\ sandbox = None)
                      /\ ended' = ended
    /\ InExecute(t)' => InExecute(t) \/ starting = t
    /\ ended' /\ ~ended => /\ Ending(t)' \/ sandbox' = None
                           /\ MayStop(t) \/ Creator(t) \/ InExecute(t)
    /\ Ending(t) => Ending(t)' \/ sandbox' = None \/ Interrupts
    /\ sandbox = None /\ sandbox' # None => Creator(t)

LEMMA StepMoves ==
    ASSUME NEW t \in Threads, TypeOK, LockAt(t), EndAt(t), Advance(t) \/ Choose(t)
    PROVE  Moves(t)
<1> USE HostAssumption DEF Moves, EndAt, Ending, Creator, InExecute, LockAt, TypeOK, Step, Goto,
        Leave, LeaveShutdown, Started, Killed, Terminal, callVars, sessionVars
<1>1. CASE CallExecute(t)
  BY <1>1 DEF CallExecute
<1>2. CASE CallBusy(t)
  BY <1>2 DEF CallBusy
<1>3. CASE CallStart(t)
  BY <1>3 DEF CallStart
<1>4. CASE CallShutdown(t)
  BY <1>4 DEF CallShutdown, MayStop
<1>5. CASE RejectInput(t)
  BY <1>5 DEF RejectInput
<1>6. CASE Interrupt(t)
  <2>0. Interrupts
    BY <1>6 DEF Interrupt
  <2>1. CASE InterruptWait(t)
    BY <2>1 DEF InterruptWait
  <2>2. CASE InterruptSend(t)
    <3>1. CASE frame[t] = "call" /\ Leave(t, "BaseException")
      BY <2>2, <3>1 DEF InterruptSend
    <3>2. CASE frame[t] = "shutdown" /\ LeaveShutdown(t, "BaseException")
      BY <2>0, <2>2, <3>2 DEF InterruptSend
    <3> QED  BY <2>2, <3>1, <3>2 DEF InterruptSend
  <2>3. CASE InterruptEnd(t)
    <3>1. CASE frame[t] = "call" /\ Leave(t, "BaseException")
      BY <2>3, <3>1 DEF InterruptEnd
    <3>2. CASE frame[t] = "shutdown" /\ LeaveShutdown(t, "BaseException")
      BY <2>3, <3>2 DEF InterruptEnd
    <3> QED  BY <2>3, <3>1, <3>2 DEF InterruptEnd
  <2> QED  BY <1>6, <2>1, <2>2, <2>3 DEF Interrupt
<1>7. CASE CheckActive(t)
  BY <1>7 DEF CheckActive
<1>8. CASE EnterStart(t)
  BY <1>8 DEF EnterStart
<1>9. CASE Recheck(t)
  BY <1>9 DEF Recheck
<1>10. CASE Create(t)
  BY <1>10 DEF Create
<1>11. CASE CreateFails(t)
  BY <1>11 DEF CreateFails
<1>12. CASE Attach(t)
  BY <1>12 DEF Attach
<1>13. CASE Look(t)
  BY <1>13 DEF Look
<1>14. CASE Receive(t)
  <2>1. CASE ended' = TRUE /\ Step(t, "kill")
    BY <1>14, <2>1 DEF Receive
  <2>2. CASE starting = t /\ Started(t) /\ UNCHANGED ended
    BY <1>14, <2>2 DEF Receive
  <2>3. CASE /\ starting # t
             /\ \/ Leave(t, "ok")
                \/ Goto(t, "tool") /\ UNCHANGED <<run, frame, lock, starting>>
             /\ UNCHANGED ended
    BY <1>14, <2>3 DEF Receive
  <2> QED  BY <1>14, <2>1, <2>2, <2>3 DEF Receive, Expected
<1>15. CASE EndOfStream(t)
  BY <1>15 DEF EndOfStream
<1>16. CASE Timeout(t)
  BY <1>16 DEF Timeout
<1>17. CASE RunTool(t)
  BY <1>17 DEF RunTool
<1>18. CASE Send(t)
  BY <1>18 DEF Send
<1>19. CASE SendFails(t)
  BY <1>19 DEF SendFails
<1>20. CASE Kill(t)
  BY <1>20 DEF Kill
<1>21. CASE StopSandbox(t)
  BY <1>21 DEF StopSandbox
<1> QED
  BY <1>1, <1>2, <1>3, <1>4, <1>5, <1>6, <1>7, <1>8, <1>9, <1>10, <1>11, <1>12, <1>13,
     <1>14, <1>15, <1>16, <1>17, <1>18, <1>19, <1>20, <1>21 DEF Advance, Choose

LEMMA EndThread ==
    ASSUME TypeOK, LockInv, EndInv, NEW t \in Threads, Advance(t) \/ Choose(t)
    PROVE  EndInv'
<1>1. LockAt(t) /\ EndAt(t)
  BY DEF LockInv, EndInv
<1>2. Moves(t)
  BY <1>1, StepMoves
<1>3. ASSUME NEW u \in Threads PROVE EndAt(u)'
  <2>1. CASE u = t
    BY <1>2, <2>1 DEF Moves
  <2>2. CASE u # t
    <3>1. EndAt(u)
      BY DEF EndInv
    <3> QED  BY <1>2, <2>2, <3>1, Others DEF Moves, EndAt, Ending, TypeOK
  <2> QED  BY <2>1, <2>2
<1>4. ASSUME NEW u \in Threads, NEW v \in Threads, Creator(u)', InExecute(v)'
      PROVE  FALSE
  <2>1. u # v
    BY <1>4 DEF Creator, InExecute
  <2>2. CASE u # t /\ v # t
    BY <1>4, <2>2, Others DEF Creator, InExecute, EndInv
  <2>3. CASE u = t
    <3>1. InExecute(v)
      BY <1>4, <2>1, <2>3, Others DEF InExecute
    <3>2. pc[t] = "recheck" /\ ~ended /\ sandbox = None
      BY <1>2, <1>4, <2>3, <3>1 DEF Moves, EndInv
    <3>3. LockAt(v) /\ EndAt(v) /\ starting = t
      BY <1>1, <3>2 DEF LockInv, EndInv, LockAt
    <3> QED  BY <2>1, <2>3, <3>1, <3>2, <3>3 DEF InExecute, LockAt, EndAt, Ending, TypeOK, Places
  <2>4. CASE v = t
    <3>1. Creator(u)
      BY <1>4, <2>1, <2>4, Others DEF Creator
    <3>2. InExecute(t) \/ starting = t
      BY <1>2, <1>4, <2>4 DEF Moves
    <3> QED  BY <2>1, <2>4, <3>1, <3>2 DEF Creator, EndInv
  <2> QED  BY <2>2, <2>3, <2>4
<1> QED  BY <1>3, <1>4 DEF EndInv

\* All steps but those that create or terminate leave the sandboxes alone.
Idles == UNCHANGED <<worker, job, asked, sandbox>>

LEMMA WhoTouches ==
    ASSUME NEW t \in Threads, TypeOK, Advance(t) \/ Choose(t)
    PROVE  /\ Create(t) \/ Kill(t) \/ StopSandbox(t)
              \/ (Interrupts /\ InterruptEnd(t)) \/ Idles
           /\ pc'[t] = "create" => pc[t] = "recheck" /\ ~ended /\ sandbox = None
<1> USE DEF Idles, TypeOK, Step, Goto, Leave, LeaveShutdown, Started, Killed, Terminal, callVars,
        sessionVars, guestVars
<1>1. CASE CallExecute(t)
  BY <1>1 DEF CallExecute
<1>2. CASE CallBusy(t)
  BY <1>2 DEF CallBusy
<1>3. CASE CallStart(t)
  BY <1>3 DEF CallStart
<1>4. CASE CallShutdown(t)
  BY <1>4 DEF CallShutdown, MayStop
<1>5. CASE RejectInput(t)
  BY <1>5 DEF RejectInput
<1>6. CASE Interrupt(t)
  BY <1>6 DEF Interrupt, InterruptWait, InterruptSend, InterruptEnd
<1>7. CASE CheckActive(t)
  BY <1>7 DEF CheckActive
<1>8. CASE EnterStart(t)
  BY <1>8 DEF EnterStart
<1>9. CASE Recheck(t)
  BY <1>9 DEF Recheck
<1>10. CASE Create(t)
  BY <1>10 DEF Create
<1>11. CASE CreateFails(t)
  BY <1>11 DEF CreateFails
<1>12. CASE Attach(t)
  BY <1>12 DEF Attach
<1>13. CASE Look(t)
  BY <1>13 DEF Look
<1>14. CASE Receive(t)
  BY <1>14 DEF Receive
<1>15. CASE EndOfStream(t)
  BY <1>15 DEF EndOfStream
<1>16. CASE Timeout(t)
  BY <1>16 DEF Timeout
<1>17. CASE RunTool(t)
  BY <1>17 DEF RunTool
<1>18. CASE Send(t)
  BY <1>18 DEF Send
<1>19. CASE SendFails(t)
  BY <1>19 DEF SendFails
<1>20. CASE Kill(t)
  BY <1>20 DEF Kill
<1>21. CASE StopSandbox(t)
  BY <1>21 DEF StopSandbox
<1> QED
  BY <1>1, <1>2, <1>3, <1>4, <1>5, <1>6, <1>7, <1>8, <1>9, <1>10, <1>11, <1>12, <1>13,
     <1>14, <1>15, <1>16, <1>17, <1>18, <1>19, <1>20, <1>21 DEF Advance, Choose


\* The provider terminates the sandbox of the session, or fails to.
LEMMA AfterTerminate ==
    ASSUME TypeOK, SandboxInv, sandbox # None, NEW fails, Terminate(sandbox, fails),
           sandbox' = None
    PROVE  /\ job' = job
           /\ \A w \in Workers : worker'[w] = "unborn" <=> worker[w] = "unborn"
           /\ NoOrphan'
<1>1. sandbox \in Workers
  BY DEF TypeOK
<1>2. \A w \in Workers : /\ worker'[w] = worker[w] \/ (w = sandbox /\ worker'[w] = "exited")
                         /\ w = sandbox => w \in asked'
                         /\ w \in asked => w \in asked'
  BY <1>1 DEF Terminate, Become, TypeOK, GuestTypeOK
<1> QED  BY <1>1, <1>2 DEF Terminate, SandboxInv, NoOrphan, Alive

LEMMA SandboxThread ==
    ASSUME TypeOK, LockInv, EndInv, SandboxInv, NEW t \in Threads, Advance(t) \/ Choose(t)
    PROVE  SandboxInv'
<1>1. LockAt(t) /\ EndAt(t)
  BY DEF LockInv, EndInv
<1>2. Moves(t)
  BY <1>1, StepMoves
<1>3. ASSUME \E u \in Threads : pc'[u] = "create"
      PROVE  (\E u \in Threads : pc[u] = "create") \/ (~ended /\ sandbox = None)
  BY <1>3, Others, WhoTouches
<1>4. CASE Idles
  BY <1>2, <1>3, <1>4 DEF Idles, SandboxInv, NoOrphan, Alive, Moves, TypeOK
<1>5. CASE Create(t)
  <2>1. PICK w \in Workers : worker[w] = "unborn" /\ Become(w, "booting") /\ sandbox' = w
    BY <1>5 DEF Create
  <2>2. \A v \in Workers : worker[v] = "unborn"
    BY <1>5 DEF Create, SandboxInv
  <2>3. \A v \in Workers : worker'[v] = IF v = w THEN "booting" ELSE "unborn"
    BY <2>1, <2>2 DEF Become, TypeOK, GuestTypeOK
  <2>4. sandbox' # None
    BY <2>1, HostAssumption DEF HostAssumption
  <2>5. \A u \in Threads : pc'[u] # "create"
    <3>1. pc'[t] # "create"
      BY <1>5 DEF Create, Step, Goto, TypeOK
    <3>2. ASSUME NEW u \in Threads \ {t} PROVE pc[u] # "create"
      <4>1. LockAt(u)
        BY DEF LockInv
      <4> QED  BY <1>1, <1>5, <4>1 DEF LockAt, Create
    <3> QED  BY <3>1, <3>2, Others
  <2>6. UNCHANGED <<job, asked>>
    BY <1>5 DEF Create
  <2> QED  BY <2>1, <2>2, <2>3, <2>4, <2>5, <2>6 DEF SandboxInv, NoOrphan, Alive
<1>6. CASE Kill(t) \/ StopSandbox(t) \/ InterruptEnd(t)
  <2>1. ended /\ ended' /\ sandbox' = None
    BY <1>1, <1>6 DEF Kill, StopSandbox, InterruptEnd, EndAt, Ending
  <2>2. CASE sandbox # None
    <3>1. Terminate(sandbox, Faults) \/ Terminate(sandbox, TRUE)
      BY <1>6, <2>2 DEF Kill, StopSandbox, InterruptEnd
    <3> QED  BY <1>3, <2>1, <2>2, <3>1, AfterTerminate DEF SandboxInv
  <2>3. CASE sandbox = None
    BY <1>3, <1>6, <2>1, <2>3 DEF Kill, StopSandbox, InterruptEnd, SandboxInv, NoOrphan, Alive, guestVars
  <2> QED  BY <2>2, <2>3
<1> QED  BY <1>4, <1>5, <1>6, WhoTouches

LEMMA LeakThread ==
    ASSUME TypeOK, LockInv, EndInv, LeakInv, NEW t \in Threads, Advance(t) \/ Choose(t),
           UNCHANGED setting
    PROVE  LeakInv'
<1> SUFFICES ASSUME ~Overlap, ~Interrupts
             PROVE  /\ \A u \in Threads : Creator(u)' => ~ended'
                    /\ ended' /\ sandbox' # None => \E u \in Threads : Ending(u)'
  BY DEF LeakInv, Overlap, Interrupts
<1>1. LockAt(t) /\ EndAt(t)
  BY DEF LockInv, EndInv
<1>2. Moves(t)
  BY <1>1, StepMoves
<1>3. /\ \A u \in Threads : Creator(u) => ~ended
      /\ ended /\ sandbox # None => \E u \in Threads : Ending(u)
  BY DEF LeakInv
<1>4. ASSUME NEW u \in Threads, Creator(u)' PROVE ~ended'
  <2>1. CASE u = t
    BY <1>2, <1>3, <1>4, <2>1 DEF Moves
  <2>2. CASE u # t
    <3>1. Creator(u) /\ ~ended
      BY <1>3, <1>4, <2>2, Others DEF Creator
    <3>2. ~MayStop(t)
      BY <2>2, <3>1 DEF MayStop, Creator
    <3>3. ~Creator(t)
      BY <2>2, <3>1 DEF Creator
    <3>4. ~InExecute(t)
      BY <3>1 DEF EndInv
    <3> QED  BY <1>2, <3>1, <3>2, <3>3, <3>4 DEF Moves
  <2> QED  BY <2>1, <2>2
<1>5. ASSUME ended', sandbox' # None PROVE \E u \in Threads : Ending(u)'
  <2>1. CASE ~ended
    BY <1>2, <1>5, <2>1 DEF Moves
  <2>2. CASE ended
    <3>1. sandbox # None
      BY <1>2, <1>3, <1>5, <2>2 DEF Moves
    <3>2. PICK u \in Threads : Ending(u)
      BY <1>3, <2>2, <3>1
    <3>3. CASE u = t
      BY <1>2, <1>5, <3>2, <3>3 DEF Moves
    <3>4. CASE u # t
      BY <3>2, <3>4, Others DEF Ending
    <3> QED  BY <3>3, <3>4
  <2> QED  BY <2>1, <2>2
<1> QED  BY <1>4, <1>5

\* The guest has no part in any of this but that a sandbox may die.
LEMMA InvGuest == ASSUME TypeOK, Inv, GuestStep, UNCHANGED <<setting, hostVars>>
                  PROVE  Inv'
<1>1. LockInv' /\ EndInv' /\ LeakInv'
  BY DEF Inv, LockInv, LockAt, EndInv, EndAt, Ending, Creator, InExecute, LeakInv, Overlap,
         Interrupts, hostVars, sessionVars, callVars
<1>2. SandboxInv'
  <2>1. \A w \in Workers : /\ worker'[w] = "unborn" <=> worker[w] = "unborn"
                           /\ Alive(w)' => Alive(w)
                           /\ job'[w] # 0 => job[w] # 0 \/ worker[w] # "unborn"
    BY GuestBirth DEF TypeOK
  <2> QED  BY <2>1 DEF Inv, SandboxInv, NoOrphan, TypeOK, hostVars, sessionVars
<1> QED  BY <1>1, <1>2 DEF Inv

LEMMA InvInit == Init => Inv
<1> SUFFICES ASSUME Init PROVE Inv
  OBVIOUS
<1> USE HostAssumption DEF Init, GuestInit, Creator, InExecute, Ending
<1>1. LockInv
  BY DEF LockInv, LockAt
<1>2. EndInv
  BY DEF EndInv, EndAt
<1>3. SandboxInv
  BY DEF SandboxInv, NoOrphan, Alive
<1>4. LeakInv
  BY DEF LeakInv
<1> QED  BY <1>1, <1>2, <1>3, <1>4 DEF Inv

LEMMA InvStep == ASSUME TypeOK, Inv, [Next]_vars
                 PROVE  Inv'
<1>1. CASE UNCHANGED vars
  BY <1>1 DEF vars, guestVars, hostVars, sessionVars, callVars, Inv, LockInv, LockAt, EndInv, EndAt,
              Ending, Creator, InExecute, SandboxInv, NoOrphan, Alive, LeakInv, Overlap, Interrupts
<1>2. CASE \E t \in Threads : (Advance(t) \/ Choose(t)) /\ UNCHANGED setting
  BY <1>2, LockThread, EndThread, SandboxThread, LeakThread DEF Inv
<1>3. CASE GuestStep /\ UNCHANGED <<setting, hostVars>>
  BY <1>3, InvGuest
<1> QED
  BY <1>1, <1>2, <1>3 DEF Next

LEMMA Invariant == Spec => [](TypeOK /\ Inv)
<1>1. Init => TypeOK /\ Inv
  BY TypeInit, InvInit
<1>2. TypeOK /\ Inv /\ [Next]_vars => (TypeOK /\ Inv)'
  BY TypeStep, InvStep
<1> QED
  BY <1>1, <1>2, PTL DEF Spec

-----------------------------------------------------------------------------
(* The properties. *)

\* A live sandbox that the provider was not asked to terminate is the one the
\* session refers to, whatever calls overlap, whatever terminate does and
\* wherever an interrupt strikes.
THEOREM NeverOrphaned == Spec => []NoOrphan
<1>1. TypeOK /\ Inv => NoOrphan
  BY DEF Inv, SandboxInv
<1> QED  BY <1>1, Invariant, PTL

\* Guest code runs in one sandbox at most in the whole life of a session, even
\* if a shutdown comes between the second look at _ended and the creation.
THEOREM OneNamespaceHolds == Spec => []OneNamespace
<1>1. TypeOK /\ Inv => OneNamespace
  BY DEF Inv, SandboxInv, OneNamespace
<1> QED  BY <1>1, Invariant, PTL

\* A thread that starts the session reads under _start_lock, one that executes
\* under _execution_lock; two threads never wait for lines at the same time.
THEOREM OneReaderHolds == Spec => []OneReader
<1>1. TypeOK /\ Inv => OneReader
  <2> SUFFICES ASSUME TypeOK, Inv, NEW t \in Threads, NEW u \in Threads,
                      pc[t] = "next", pc[u] = "next", t # u
               PROVE  FALSE
    BY DEF OneReader
  <2>1. LockAt(t) /\ LockAt(u)
    BY DEF Inv, LockInv
  <2>2. (Creator(t) \/ InExecute(t)) /\ (Creator(u) \/ InExecute(u))
    BY <2>1 DEF LockAt, Creator, InExecute
  <2> QED  BY <2>2 DEF Inv, EndInv, Creator, InExecute
<1> QED  BY <1>1, Invariant, PTL

\* An ended session with no call under way has asked for the end of every
\* sandbox that lives, if no shutdown overlapped another call and no interrupt
\* cut one short.
THEOREM NothingLeaks == Spec => []NoLeak
<1>1. TypeOK /\ Inv => NoLeak
  <2> SUFFICES ASSUME TypeOK, Inv, ~Overlap, ~Interrupts, ended, \A t \in Threads : pc[t] = "idle"
               PROVE  \A w \in Workers : Alive(w) => w \in asked
    BY DEF NoLeak
  <2>1. \A t \in Threads : ~Ending(t)
    BY DEF Inv, LockInv, LockAt, Ending
  <2>2. sandbox = None
    BY <2>1 DEF Inv, LeakInv
  <2> QED  BY <2>2, HostAssumption DEF Inv, SandboxInv, NoOrphan, HostAssumption
<1> QED  BY <1>1, Invariant, PTL

-----------------------------------------------------------------------------
(* The session as the atomic object of CodeInterpreter, in a setting where *)
(* no shutdown overlaps another call, terminate works and no interrupt     *)
(* leaves a call behind.                                                   *)

\* The execute line of the call has not gone out.
Unasked(t) == \/ pc[t] \in {"check", "enter", "recheck", "create", "attach"}
              \/ pc[t] \in {"look", "next"} /\ starting = t
              \/ pc[t] = "send" /\ frame[t] = "call" /\ tool[t] = 0

Awaited == IF lock # None /\ ~Unasked(lock) THEN {runs} ELSE {}

\* Whoever ends the session does so alone, reads are of an open session, and
\* an asked provider has terminated.
Orderly ==
    /\ \A t, u \in Threads : Ending(t) /\ InExecute(u) => t = u
    /\ \A t \in Threads : pc[t] \in {"look", "next"} => ~ended
    /\ \A w \in asked : worker[w] = "exited"

\* A call that serves a tool request knows its id; the ids start from 1.
Silence ==
    /\ GuestSilence
    /\ \A t \in Threads :
          /\ pc[t] = "tool" \/ (frame[t] = "shutdown" /\ lock = t) => tool[t] # 0
          /\ tool[t] # 0 => pc[t] \in {"tool", "send", "kill", "stop"}
                          /\ lock = t /\ starting # t

\* Runs are numbered in the order of the calls; the one in progress is the last.
Numbered ==
    /\ \A t \in Threads : run[t] # 0 => run[t] = runs
    /\ \A w \in Workers : job[w] <= runs
    /\ \A r \in 1..MaxRuns : verdict[r] # 0 => r <= runs
    /\ lock # None => verdict[runs] = 0

\* A sandbox that may still read its stdin finds there at most one execute
\* line, that of the call in progress, and has not taken that call before: also
\* after the end of the session, until the sandbox is terminated.
Unread ==
    /\ lock # None /\ Unasked(lock) => \A w \in Workers : job[w] < runs
    /\ \A w \in Workers : worker[w] # "exited" =>
          /\ Single(stdin[w], "execute")
          /\ Asked(w) # {} => /\ lock # None /\ ~Unasked(lock)
                              /\ Asked(w) = {runs} /\ job[w] < runs

\* What a run leads to is in one place at a time, and a result on its way is
\* that of the code that reached the namespace last.
OneAnswer == \A w \in Workers :
    /\ Single(stdout[w], "execution_result")
    /\ Asked(w) \cup Working(w) \cup Answered(w) \subseteq Awaited
    /\ Asked(w) = {} \/ Working(w) = {}
    /\ Asked(w) = {} \/ Answered(w) = {}
    /\ Working(w) = {} \/ Answered(w) = {}
    /\ Answered(w) \subseteq {job[w]}

AnswerInv == Orderly /\ Silence /\ Numbered /\ Unread /\ (~ended => OneAnswer)

\* Which locks and places a thread comes to, and what it leaves of its tool call.
Comes(t) ==
    /\ InExecute(t)' => InExecute(t) \/ Creator(t) \/ (pc[t] = "recheck" /\ ~ended)
    /\ Ending(t)' => Ending(t) \/ MayStop(t) \/ Creator(t) \/ InExecute(t)
    /\ pc'[t] \in {"look", "next"} =>
          /\ ended' = ended
          /\ \/ pc[t] \in {"look", "next"} \/ Creator(t)
             \/ pc[t] = "send" /\ frame[t] = "call" /\ sandbox # None

LEMMA StepComes ==
    ASSUME TypeOK, ~Interrupts, NEW t \in Threads, LockAt(t), EndAt(t), Advance(t) \/ Choose(t)
    PROVE  Comes(t)
<1> USE HostAssumption DEF Comes, EndAt, Ending, Creator, InExecute, LockAt, TypeOK, Step, Goto,
        Leave, LeaveShutdown, Started, Killed, Terminal, callVars, sessionVars

<1>1. CASE CallExecute(t)
  BY <1>1 DEF CallExecute
<1>2. CASE CallBusy(t)
  BY <1>2 DEF CallBusy
<1>3. CASE CallStart(t)
  BY <1>3 DEF CallStart
<1>4. CASE CallShutdown(t)
  BY <1>4 DEF CallShutdown, MayStop
<1>5. CASE RejectInput(t)
  BY <1>5 DEF RejectInput
<1>6. CASE Interrupt(t)
  BY <1>6 DEF Interrupt, InterruptWait, InterruptSend, InterruptEnd
<1>7. CASE CheckActive(t)
  BY <1>7 DEF CheckActive
<1>8. CASE EnterStart(t)
  BY <1>8 DEF EnterStart
<1>9. CASE Recheck(t)
  BY <1>9 DEF Recheck
<1>10. CASE Create(t)
  BY <1>10 DEF Create
<1>11. CASE CreateFails(t)
  BY <1>11 DEF CreateFails
<1>12. CASE Attach(t)
  BY <1>12 DEF Attach
<1>13. CASE Look(t)
  BY <1>13 DEF Look
<1>14. CASE Receive(t)
  BY <1>14 DEF Receive
<1>15. CASE EndOfStream(t)
  BY <1>15 DEF EndOfStream
<1>16. CASE Timeout(t)
  BY <1>16 DEF Timeout
<1>17. CASE RunTool(t)
  BY <1>17 DEF RunTool
<1>18. CASE Send(t)
  BY <1>18 DEF Send
<1>19. CASE SendFails(t)
  BY <1>19 DEF SendFails
<1>20. CASE Kill(t)
  BY <1>20 DEF Kill
<1>21. CASE StopSandbox(t)
  BY <1>21 DEF StopSandbox
<1> QED
  BY <1>1, <1>2, <1>3, <1>4, <1>5, <1>6, <1>7, <1>8, <1>9, <1>10, <1>11, <1>12,
     <1>13, <1>14, <1>15, <1>16, <1>17, <1>18, <1>19, <1>20, <1>21 DEF Advance, Choose

LEMMA OrderlyThread ==
    ASSUME TypeOK, Inv, ~Overlap, ~Faults, ~Interrupts, Orderly,
           NEW t \in Threads, Advance(t) \/ Choose(t)
    PROVE  Orderly'
<1>1. /\ \A u \in Threads : LockAt(u) /\ EndAt(u)
      /\ \A u, v \in Threads : Creator(u) => ~InExecute(v)
      /\ \A u \in Threads : Creator(u) => ~ended
      /\ ended /\ sandbox # None => \E u \in Threads : Ending(u)
  BY DEF Inv, LockInv, EndInv, LeakInv
<1>2. Moves(t) /\ Comes(t)
  BY <1>1, StepMoves, StepComes
<1>3. \A u \in Threads \ {t} : /\ Ending(u)' = Ending(u) /\ InExecute(u)' = InExecute(u)
                               /\ pc'[u] = pc[u]
  BY Others DEF Ending, InExecute
<1>4. MayStop(t) => \A u \in Threads \ {t} : pc[u] = "idle"
  BY DEF MayStop
<1>5. ASSUME NEW u \in Threads, NEW v \in Threads, Ending(u)', InExecute(v)' PROVE u = v
  <2> SUFFICES ASSUME u # v PROVE FALSE
    OBVIOUS
  <2>1. CASE u # t /\ v # t
    BY <1>3, <1>5, <2>1 DEF Orderly
  <2>2. CASE v = t
    <3>1. Ending(u) /\ ended
      BY <1>1, <1>3, <1>5, <2>2 DEF EndAt
    <3>2. InExecute(t)
      BY <1>1, <1>2, <1>5, <2>2, <3>1 DEF Comes
    <3> QED  BY <2>2, <3>1, <3>2 DEF Orderly
  <2>3. CASE u = t
    <3>1. InExecute(v) /\ pc[v] # "idle"
      BY <1>1, <1>3, <1>5, <2>3 DEF InExecute, LockAt
    <3>2. ~Ending(t) /\ ~MayStop(t) /\ ~Creator(t) /\ ~InExecute(t)
      BY <1>1, <1>4, <2>3, <3>1 DEF Orderly, InExecute
    <3> QED  BY <1>2, <1>5, <2>3, <3>2 DEF Comes
  <2> QED  BY <2>1, <2>2, <2>3
<1>6. ASSUME NEW u \in Threads, pc'[u] \in {"look", "next"} PROVE ~ended'
  <2>1. CASE u = t
    <3>1. CASE pc[t] \in {"look", "next"} \/ Creator(t)
      BY <1>1, <1>2, <1>6, <2>1, <3>1 DEF Comes, Orderly
    <3>2. CASE pc[t] = "send" /\ frame[t] = "call" /\ sandbox # None
      <4>1. InExecute(t) /\ ~Ending(t)
        BY <1>1, <3>2 DEF InExecute, Ending, LockAt
      <4>2. ~ended
        BY <1>1, <3>2, <4>1 DEF Orderly
      <4> QED  BY <1>2, <1>6, <2>1, <4>2 DEF Comes
    <3> QED  BY <1>2, <1>6, <2>1, <3>1, <3>2 DEF Comes
  <2>2. CASE u # t
    <3>1. pc[u] \in {"look", "next"} /\ ~ended
      BY <1>3, <1>6, <2>2 DEF Orderly
    <3>2. Creator(u) \/ InExecute(u)
      BY <1>1, <3>1 DEF LockAt, Creator, InExecute
    <3>3. ~MayStop(t)
      BY <1>4, <2>2, <3>1
    <3>4. ~Creator(t) /\ ~InExecute(t)
      BY <1>1, <2>2, <3>2 DEF Creator, InExecute
    <3> QED  BY <1>2, <3>1, <3>3, <3>4, TypeParts DEF Moves, TypeOK
  <2> QED  BY <2>1, <2>2
<1>7. \A w \in asked' : worker'[w] = "exited"
  <2> USE DEF TypeOK, GuestTypeOK
  <2>1. CASE Idles
    BY <2>1 DEF Idles, Orderly
  <2>2. CASE Create(t)
    BY <2>2 DEF Create, Become, Orderly
  <2>3. CASE Kill(t) \/ StopSandbox(t)
    <3>1. sandbox = None => UNCHANGED <<worker, asked>>
      BY <2>3 DEF Kill, StopSandbox, guestVars
    <3>2. sandbox # None => Terminate(sandbox, Faults)
      BY <2>3 DEF Kill, StopSandbox
    <3> QED  BY <3>1, <3>2 DEF Terminate, Become, Orderly
  <2> QED  BY <2>1, <2>2, <2>3, WhoTouches
<1> QED  BY <1>5, <1>6, <1>7 DEF Orderly

\* What a step of a thread leaves of its tool call.
ToolAt(t) ==
    /\ pc[t] = "tool" \/ (frame[t] = "shutdown" /\ lock = t) => tool[t] # 0
    /\ tool[t] # 0 => pc[t] \in {"tool", "send", "kill", "stop"}
                    /\ lock = t /\ starting # t

LEMMA ToolThread ==
    ASSUME TypeOK, LockInv, Silence, NEW t \in Threads, Advance(t) \/ Choose(t)
    PROVE  \A u \in Threads : ToolAt(u)'
<1>a. LockAt(t) /\ \A u \in Threads : ToolAt(u)
  BY DEF LockInv, Silence, ToolAt
<1>b. \A u \in Threads \ {t} :
         tool'[u] = tool[u] /\ pc'[u] = pc[u] /\ frame'[u] = frame[u]
            /\ (lock' = u <=> lock = u) /\ (starting' = u <=> starting = u)
         => ToolAt(u)'
  BY <1>a DEF ToolAt
<1>c. ASSUME \A u \in Threads \ {t} : tool'[u] = tool[u], ToolAt(t)'
      PROVE  \A u \in Threads : ToolAt(u)'
  BY <1>b, <1>c, Others
<1> SUFFICES ToolAt(t)' /\ \A u \in Threads \ {t} : tool'[u] = tool[u]
  BY <1>c
<1> USE <1>a, HostAssumption DEF ToolAt, LockAt, TypeOK, Step, Goto, Leave, LeaveShutdown, Started,
        Killed, Terminal, callVars

<1>1. CASE CallExecute(t)
  BY <1>1 DEF CallExecute
<1>2. CASE CallBusy(t)
  BY <1>2 DEF CallBusy
<1>3. CASE CallStart(t)
  BY <1>3 DEF CallStart
<1>4. CASE CallShutdown(t)
  BY <1>4 DEF CallShutdown, MayStop
<1>5. CASE RejectInput(t)
  BY <1>5 DEF RejectInput
<1>6. CASE Interrupt(t)
  <2>1. CASE InterruptWait(t)
    BY <2>1 DEF InterruptWait
  <2>2. CASE InterruptSend(t)
    <3>1. CASE frame[t] = "call" /\ Leave(t, "BaseException")
      BY <2>2, <3>1 DEF InterruptSend
    <3>2. CASE frame[t] = "shutdown" /\ LeaveShutdown(t, "BaseException")
      BY <2>2, <3>2 DEF InterruptSend
    <3> QED  BY <2>2, <3>1, <3>2 DEF InterruptSend
  <2>3. CASE InterruptEnd(t)
    <3>1. CASE frame[t] = "call" /\ Leave(t, "BaseException")
      BY <2>3, <3>1 DEF InterruptEnd
    <3>2. CASE frame[t] = "shutdown" /\ LeaveShutdown(t, "BaseException")
      BY <2>3, <3>2 DEF InterruptEnd
    <3> QED  BY <2>3, <3>1, <3>2 DEF InterruptEnd
  <2> QED  BY <1>6, <2>1, <2>2, <2>3 DEF Interrupt
<1>7. CASE CheckActive(t)
  <2>1. pc[t] = "check" /\ tool[t] = 0 /\ frame[t] = "call"
    BY <1>7 DEF CheckActive
  <2>2. CASE Leave(t, "CodeInterpreterError")
    BY <2>1, <2>2
  <2>3. CASE Step(t, "enter")
    BY <2>1, <2>3
  <2> QED  BY <1>7, <2>2, <2>3 DEF CheckActive
<1>8. CASE EnterStart(t)
  BY <1>8 DEF EnterStart
<1>9. CASE Recheck(t)
  BY <1>9 DEF Recheck
<1>10. CASE Create(t)
  BY <1>10 DEF Create
<1>11. CASE CreateFails(t)
  BY <1>11 DEF CreateFails
<1>12. CASE Attach(t)
  BY <1>12 DEF Attach
<1>13. CASE Look(t)
  BY <1>13 DEF Look
<1>14. CASE Receive(t)
  <2>1. pc[t] = "next" /\ lock' = IF pc'[t] = "idle" /\ lock = t THEN None ELSE lock
    BY <1>14 DEF Receive, Expected
  <2>2. CASE Head(stdout[reads[t]]).type = "tool_request" /\ Expected(t, "tool_request")
    <3>1. reads[t] \in Workers /\ stdout[reads[t]] # <<>>
      BY <1>14 DEF Receive
    <3>2. Head(stdout[reads[t]]).id # 0
      <4>1. stdout[reads[t]] \in Seq(Message)
        BY <3>1 DEF GuestTypeOK
      <4>2. Head(stdout[reads[t]]).id \in Ids(stdout[reads[t]], "tool_request")
        BY <2>2, <3>1, <4>1, TailLines
      <4> QED  BY <3>1, <4>2 DEF Silence, GuestSilence
    <3> QED  BY <1>14, <2>2, <3>2 DEF Receive, Expected
  <2>3. CASE Step(t, "kill")
    BY <1>14, <2>3 DEF Receive
  <2>4. CASE Started(t)
    BY <1>14, <2>4 DEF Receive
  <2>5. CASE Leave(t, "ok")
    BY <1>14, <2>5 DEF Receive
  <2> QED  BY <1>14, <2>2, <2>3, <2>4, <2>5 DEF Receive
<1>15. CASE EndOfStream(t)
  BY <1>15 DEF EndOfStream
<1>16. CASE Timeout(t)
  BY <1>16 DEF Timeout
<1>17. CASE RunTool(t)
  BY <1>17 DEF RunTool
<1>18. CASE Send(t)
  BY <1>18 DEF Send
<1>19. CASE SendFails(t)
  BY <1>19 DEF SendFails
<1>20. CASE Kill(t)
  BY <1>20 DEF Kill
<1>21. CASE StopSandbox(t)
  BY <1>21 DEF StopSandbox
<1> QED
  BY <1>1, <1>2, <1>3, <1>4, <1>5, <1>6, <1>7, <1>8, <1>9, <1>10, <1>11, <1>12,
     <1>13, <1>14, <1>15, <1>16, <1>17, <1>18, <1>19, <1>20, <1>21 DEF Advance, Choose

\* Only the sandbox of the session, or the one a thread reads, hears of a step.
LEMMA SilenceThread ==
    ASSUME TypeOK, Inv, Silence, NEW t \in Threads, Advance(t) \/ Choose(t)
    PROVE  Silence'
<1>1. GuestSilence'
  <2> USE DEF TypeOK, GuestTypeOK
  <2>1. CASE UNCHANGED guestVars
    BY <2>1 DEF guestVars, Silence, GuestSilence
  <2>2. CASE Create(t)
    BY <2>2 DEF Create, Become, Silence, GuestSilence
  <2>3. CASE Receive(t)
    <3>1. /\ reads[t] \in Workers /\ stdout[reads[t]] \in Seq(Message) /\ stdout[reads[t]] # <<>>
          /\ stdout' = [stdout EXCEPT ![reads[t]] = Tail(@)]
          /\ UNCHANGED <<worker, stdin, child>>
      BY <2>3 DEF Receive
    <3>2. Ids(Tail(stdout[reads[t]]), "tool_request") \subseteq Ids(stdout[reads[t]], "tool_request")
      BY <3>1, TailLines
    <3>3. worker[reads[t]] # "unborn"
      BY <3>1 DEF Silence, GuestSilence
    <3>4. /\ stdout'[reads[t]] = Tail(stdout[reads[t]])
          /\ \A v \in Workers \ {reads[t]} : stdout'[v] = stdout[v]
      BY <3>1
    <3>5. \A v \in Workers : Ids(stdout'[v], "tool_request") \subseteq Ids(stdout[v], "tool_request")
      BY <3>2, <3>4
    <3> QED  BY <3>1, <3>3, <3>4, <3>5 DEF Silence, GuestSilence
  <2>4. CASE Send(t) \/ InterruptSend(t)
    <3>1. /\ sandbox \in Workers /\ worker[sandbox] # "unborn" /\ UNCHANGED <<worker, stdout, child>>
          /\ \A v \in Workers \ {sandbox} : stdin'[v] = stdin[v]
      BY <2>4 DEF Send, InterruptSend, Inv, SandboxInv
    <3>2. \A v \in Workers : worker'[v] = "unborn" => v # sandbox /\ worker[v] = "unborn"
      BY <3>1
    <3> QED  BY <3>1, <3>2 DEF Silence, GuestSilence
  <2>5. CASE Kill(t) \/ StopSandbox(t) \/ InterruptEnd(t)
    <3> DEFINE Ends == sandbox # None /\ \E fails \in BOOLEAN : Terminate(sandbox, fails)
    <3>1. UNCHANGED guestVars \/ Ends
      BY <2>5 DEF Kill, StopSandbox, InterruptEnd, Terminate
    <3>2. CASE Ends
      <4>1. /\ UNCHANGED <<stdin, stdout>> /\ worker[sandbox] # "unborn" /\ sandbox \in Workers
            /\ \A v \in Workers \ {sandbox} : worker'[v] = worker[v] /\ child'[v] = child[v]
            /\ worker'[sandbox] # "unborn"
        BY <3>2 DEF Terminate, Become, Inv, SandboxInv
      <4> QED  BY <4>1 DEF Silence, GuestSilence
    <3> QED  BY <2>1, <3>1, <3>2
  <2>6. \/ UNCHANGED guestVars \/ Create(t) \/ Receive(t) \/ Send(t) \/ InterruptSend(t)
        \/ Kill(t) \/ StopSandbox(t) \/ InterruptEnd(t)
    BY DEF Advance, Choose, CallExecute, CallBusy, CallStart, CallShutdown, RejectInput, Interrupt,
       InterruptWait, CheckActive, EnterStart, Recheck, CreateFails, Attach, Look, EndOfStream, Timeout,
       RunTool, SendFails, Terminal
  <2> QED  BY <2>1, <2>2, <2>3, <2>4, <2>5, <2>6
<1>2. \A u \in Threads : ToolAt(u)'
  BY ToolThread DEF Inv
<1> QED  BY <1>1, <1>2 DEF Silence, ToolAt

\* What a step does to the numbers of runs.
Counts(t) ==
    /\ \A u \in Threads \ {t} : run'[u] = run[u]
    /\ run'[t] # 0 => run'[t] = run[t] \/ (lock = None /\ run'[t] = runs')
    /\ lock' # None => (lock' = lock /\ runs' = runs) \/ (lock = None /\ runs' = runs + 1)
    /\ lock' = None => runs' = runs
    /\ lock' # None => verdict' = verdict
    /\ \A r \in 1..MaxRuns : verdict'[r] # verdict[r] => lock = t /\ r = run[t]

LEMMA StepCounts ==
    ASSUME TypeOK, NEW t \in Threads, LockAt(t), Advance(t) \/ Choose(t)
    PROVE  Counts(t)
<1> USE HostAssumption DEF Counts, LockAt, TypeOK, Step, Goto,
        Leave, LeaveShutdown, Started, Killed, Terminal, callVars, sessionVars

<1>1. CASE CallExecute(t)
  BY <1>1 DEF CallExecute
<1>2. CASE CallBusy(t)
  BY <1>2 DEF CallBusy
<1>3. CASE CallStart(t)
  BY <1>3 DEF CallStart
<1>4. CASE CallShutdown(t)
  BY <1>4 DEF CallShutdown, MayStop
<1>5. CASE RejectInput(t)
  BY <1>5 DEF RejectInput
<1>6. CASE Interrupt(t)
  <2>1. CASE InterruptWait(t)
    BY <2>1 DEF InterruptWait
  <2>2. CASE InterruptSend(t)
    <3>1. CASE frame[t] = "call" /\ Leave(t, "BaseException")
      BY <2>2, <3>1 DEF InterruptSend
    <3>2. CASE frame[t] = "shutdown" /\ LeaveShutdown(t, "BaseException")
      BY <2>2, <3>2 DEF InterruptSend
    <3> QED  BY <2>2, <3>1, <3>2 DEF InterruptSend
  <2>3. CASE InterruptEnd(t)
    <3>1. CASE frame[t] = "call" /\ Leave(t, "BaseException")
      BY <2>3, <3>1 DEF InterruptEnd
    <3>2. CASE frame[t] = "shutdown" /\ LeaveShutdown(t, "BaseException")
      BY <2>3, <3>2 DEF InterruptEnd
    <3> QED  BY <2>3, <3>1, <3>2 DEF InterruptEnd
  <2> QED  BY <1>6, <2>1, <2>2, <2>3 DEF Interrupt
<1>7. CASE CheckActive(t)
  BY <1>7 DEF CheckActive
<1>8. CASE EnterStart(t)
  BY <1>8 DEF EnterStart
<1>9. CASE Recheck(t)
  BY <1>9 DEF Recheck
<1>10. CASE Create(t)
  BY <1>10 DEF Create
<1>11. CASE CreateFails(t)
  BY <1>11 DEF CreateFails
<1>12. CASE Attach(t)
  BY <1>12 DEF Attach
<1>13. CASE Look(t)
  BY <1>13 DEF Look
<1>14. CASE Receive(t)
  <2>1. pc[t] = "next"
    BY <1>14 DEF Receive
  <2>2. CASE Step(t, "kill") /\ UNCHANGED verdict
    BY <1>14, <2>2 DEF Receive
  <2>3. CASE Started(t) /\ UNCHANGED verdict
    BY <1>14, <2>3 DEF Receive
  <2>4. CASE Goto(t, "tool") /\ UNCHANGED <<run, frame, runs, lock, verdict>>
    BY <1>14, <2>4 DEF Receive
  <2>5. CASE /\ starting # t /\ Leave(t, "ok")
             /\ verdict' = [verdict EXCEPT ![run[t]] = Head(stdout[reads[t]]).id]
    BY <1>14, <2>1, <2>5 DEF Receive
  <2> QED  BY <1>14, <2>2, <2>3, <2>4, <2>5 DEF Receive, Expected
<1>15. CASE EndOfStream(t)
  BY <1>15 DEF EndOfStream
<1>16. CASE Timeout(t)
  BY <1>16 DEF Timeout
<1>17. CASE RunTool(t)
  BY <1>17 DEF RunTool
<1>18. CASE Send(t)
  BY <1>18 DEF Send
<1>19. CASE SendFails(t)
  BY <1>19 DEF SendFails
<1>20. CASE Kill(t)
  BY <1>20 DEF Kill
<1>21. CASE StopSandbox(t)
  BY <1>21 DEF StopSandbox
<1> QED
  BY <1>1, <1>2, <1>3, <1>4, <1>5, <1>6, <1>7, <1>8, <1>9, <1>10, <1>11, <1>12,
     <1>13, <1>14, <1>15, <1>16, <1>17, <1>18, <1>19, <1>20, <1>21 DEF Advance, Choose

LEMMA NumberedThread ==
    ASSUME TypeOK, TypeOK', Inv, Numbered, NEW t \in Threads, Advance(t) \/ Choose(t)
    PROVE  Numbered'
<1>1. LockInv /\ LockInv' /\ LockAt(t)
  BY LockThread DEF Inv, LockInv
<1>2. Counts(t)
  BY <1>1, StepCounts
<1>3. job' = job
  BY WhoTouches DEF Idles, Create, Kill, StopSandbox, InterruptEnd, Terminate, guestVars
<1> USE HostAssumption DEF TypeOK, GuestTypeOK
<1>4. runs' = runs \/ (lock = None /\ runs' = runs + 1)
  BY <1>2 DEF Counts
<1>5. \A u \in Threads : run'[u] # 0 => run'[u] = runs'
  <2> SUFFICES ASSUME NEW u \in Threads, run'[u] # 0 PROVE run'[u] = runs'
    OBVIOUS
  <2>1. lock' = u
    BY <1>1 DEF LockInv, LockAt
  <2>2. CASE lock' = lock /\ runs' = runs
    <3>1. run[u] # 0
      BY <1>1, <2>1, <2>2 DEF LockInv, LockAt
    <3> QED  BY <1>2, <2>1, <2>2, <3>1 DEF Counts, Numbered
  <2>3. CASE lock = None /\ runs' = runs + 1
    <3>1. run[u] = 0 /\ run[t] = 0
      BY <1>1, <2>3 DEF LockInv, LockAt
    <3> QED  BY <1>2, <3>1 DEF Counts
  <2> QED  BY <1>2, <2>1, <2>2, <2>3 DEF Counts
<1>6. \A w \in Workers : job'[w] <= runs'
  <2>1. \A w \in Workers : job[w] <= runs /\ job[w] \in Nat
    BY DEF Numbered
  <2> QED  BY <1>3, <1>4, <2>1
<1>7. \A r \in 1..MaxRuns : verdict'[r] # 0 => r <= runs'
  <2>1. \A r \in 1..MaxRuns : verdict'[r] # 0 => verdict[r] # 0 \/ (lock = t /\ r = run[t])
    BY <1>2 DEF Counts
  <2>2. lock = t => run[t] = runs
    BY <1>1 DEF LockAt, Numbered
  <2> QED  BY <1>4, <2>1, <2>2 DEF Numbered
<1>8. lock' # None => verdict'[runs'] = 0
  <2> SUFFICES ASSUME lock' # None PROVE verdict'[runs'] = 0
    OBVIOUS
  <2>1. verdict' = verdict
    BY <1>2 DEF Counts
  <2>2. CASE lock' = lock /\ runs' = runs
    BY <2>1, <2>2 DEF Numbered
  <2>3. CASE lock = None /\ runs' = runs + 1
    <3>1. runs' \in 1..MaxRuns
      BY <2>3, HostAssumption
    <3>2. ~(runs' <= runs)
      BY <2>3
    <3> QED  BY <2>1, <3>1, <3>2 DEF Numbered
  <2> QED  BY <1>2, <2>2, <2>3 DEF Counts
<1> QED  BY <1>5, <1>6, <1>7, <1>8 DEF Numbered

\* What runs lead to moves no further than to be lost.
LEMMA SteadyQueues ==
    ASSUME Unread, UNCHANGED <<job, lock, runs>>,
           \A w \in Workers :
              /\ worker'[w] = "busy" => worker[w] = "busy"
              /\ worker[w] = "exited" => worker'[w] = "exited"
              /\ Asked(w)' = Asked(w)
              /\ Answered(w)' \subseteq Answered(w)
              /\ Single(stdin[w], "execute") => Single(stdin'[w], "execute")
              /\ Single(stdout[w], "execution_result") => Single(stdout'[w], "execution_result"),
           lock # None /\ Unasked(lock)' => Unasked(lock)
    PROVE  Unread' /\ (OneAnswer => OneAnswer')
<1>1. Unread'
  BY DEF Unread
<1>2. Awaited \subseteq Awaited'
  BY DEF Awaited
<1>3. \A w \in Workers : Working(w)' \subseteq Working(w)
  BY DEF Working
<1>4. ASSUME OneAnswer PROVE OneAnswer'
  <2>1. ASSUME NEW w \in Workers
        PROVE  /\ Single(stdout'[w], "execution_result")
               /\ Asked(w)' \cup Working(w)' \cup Answered(w)' \subseteq Awaited'
               /\ Asked(w)' = {} \/ Working(w)' = {}
               /\ Asked(w)' = {} \/ Answered(w)' = {}
               /\ Working(w)' = {} \/ Answered(w)' = {}
               /\ Answered(w)' \subseteq {job'[w]}
    BY <1>2, <1>3, <1>4 DEF OneAnswer
  <2> QED  BY <2>1 DEF OneAnswer
<1> QED  BY <1>1, <1>4

\* execute is back before its request went out, or after nobody can take it.
LEMMA FreedQueues ==
    ASSUME Unread, lock # None, lock' = None, UNCHANGED <<stdin, stdout, job, runs>>,
           \A w \in Workers : /\ worker'[w] = "busy" => worker[w] = "busy"
                              /\ worker[w] = "exited" => worker'[w] = "exited",
           \/ Unasked(lock)
           \/ ended' /\ \A w \in Workers : worker'[w] # "exited" => Asked(w) = {}
    PROVE  Unread' /\ (OneAnswer /\ ~ended' => OneAnswer')
<1>1. \A w \in Workers : /\ Asked(w)' = Asked(w) /\ Answered(w)' = Answered(w)
                         /\ Working(w)' \subseteq Working(w)
  BY DEF Asked, Answered, Working
<1>2. Unread'
  BY <1>1 DEF Unread
<1>3. ASSUME OneAnswer, ~ended' PROVE OneAnswer'
  <2>1. Awaited = {}
    BY <1>3 DEF Awaited
  <2>2. \A w \in Workers : Asked(w)' = {} /\ Answered(w)' = {} /\ Working(w)' = {}
    BY <1>1, <1>3, <2>1 DEF OneAnswer
  <2> QED  BY <1>3, <2>2 DEF OneAnswer
<1> QED  BY <1>2, <1>3

\* execute is admitted.
LEMMA TakenQueues ==
    ASSUME Unread, Numbered, job \in [Workers -> Nat], runs \in Nat,
           lock = None, lock' # None, runs' = runs + 1, Unasked(lock)',
           UNCHANGED <<worker, stdin, stdout, job>>
    PROVE  Unread' /\ (OneAnswer => OneAnswer')
<1>1. \A w \in Workers : /\ Asked(w)' = Asked(w) /\ Answered(w)' = Answered(w)
                         /\ Working(w)' = Working(w)
  BY DEF Asked, Answered, Working
<1>2. \A w \in Workers : job'[w] < runs'
  BY DEF Numbered
<1>3. Unread'
  BY <1>1, <1>2 DEF Unread
<1>4. ASSUME OneAnswer PROVE OneAnswer'
  <2>1. Awaited = {}
    BY DEF Awaited
  <2>2. \A w \in Workers : Asked(w)' = {} /\ Answered(w)' = {} /\ Working(w)' = {}
    BY <1>1, <1>4, <2>1 DEF OneAnswer
  <2> QED  BY <1>4, <2>2 DEF OneAnswer
<1> QED  BY <1>3, <1>4

\* Most steps leave runs where they are.
Quietly(t) ==
    /\ UNCHANGED <<stdin, stdout, job, runs>>
    /\ \A w \in Workers : /\ worker'[w] = "busy" => worker[w] = "busy"
                          /\ worker[w] = "exited" => worker'[w] = "exited"
    /\ \/ lock' = lock /\ (lock = t /\ Unasked(t)' => Unasked(t))
       \/ lock = t /\ lock' = None /\ Unasked(t)

LEMMA TerminateQueues ==
    ASSUME TypeOK, sandbox # None, NEW fails, Terminate(sandbox, fails)
    PROVE  /\ UNCHANGED <<stdin, stdout, job>>
           /\ \A w \in Workers : /\ worker'[w] = "busy" => worker[w] = "busy"
                                 /\ worker[w] = "exited" => worker'[w] = "exited"
  BY DEF Terminate, Become, TypeOK, GuestTypeOK

LEMMA StepQuietly ==
    ASSUME TypeOK, ~Interrupts, NEW t \in Threads, LockAt(t), ToolAt(t), Advance(t) \/ Choose(t)
    PROVE  \/ Quietly(t)
           \/ CallExecute(t) \/ Receive(t) \/ Send(t) \/ (Kill(t) /\ frame[t] = "call" /\ lock = t)
<1> USE HostAssumption DEF Quietly, Unasked, LockAt, ToolAt, TypeOK, GuestTypeOK, Step, Goto,
        Leave, LeaveShutdown, Started, Terminal, callVars, sessionVars, guestVars

<1>1. CASE CallExecute(t)
  BY <1>1
<1>2. CASE CallBusy(t)
  BY <1>2 DEF CallBusy
<1>3. CASE CallStart(t)
  BY <1>3 DEF CallStart
<1>4. CASE CallShutdown(t)
  BY <1>4 DEF CallShutdown, MayStop
<1>5. CASE RejectInput(t)
  BY <1>5 DEF RejectInput
<1>6. CASE Interrupt(t)
  BY <1>6 DEF Interrupt, InterruptWait, InterruptSend, InterruptEnd
<1>7. CASE CheckActive(t)
  BY <1>7 DEF CheckActive
<1>8. CASE EnterStart(t)
  BY <1>8 DEF EnterStart
<1>9. CASE Recheck(t)
  BY <1>9 DEF Recheck
<1>10. CASE Create(t)
  <2>1. /\ UNCHANGED <<stdin, stdout, job, runs, lock, starting, frame, tool>> /\ pc[t] = "create"
        /\ pc' = [pc EXCEPT ![t] = "attach"]
    BY <1>10 DEF Create
  <2>2. \A w \in Workers : /\ worker'[w] = "busy" => worker[w] = "busy"
                           /\ worker[w] = "exited" => worker'[w] = "exited"
    BY <1>10 DEF Create, Become
  <2> QED  BY <2>1, <2>2
<1>11. CASE CreateFails(t)
  BY <1>11 DEF CreateFails
<1>12. CASE Attach(t)
  BY <1>12 DEF Attach
<1>13. CASE Look(t)
  BY <1>13 DEF Look
<1>14. CASE Receive(t)
  BY <1>14
<1>15. CASE EndOfStream(t)
  BY <1>15 DEF EndOfStream
<1>16. CASE Timeout(t)
  BY <1>16 DEF Timeout
<1>17. CASE RunTool(t)
  BY <1>17 DEF RunTool
<1>18. CASE Send(t)
  BY <1>18
<1>19. CASE SendFails(t)
  BY <1>19 DEF SendFails
<1>20. CASE Kill(t)
  <2> SUFFICES ASSUME frame[t] # "call" \/ lock # t PROVE Quietly(t)
    BY <1>20
  <2>1. /\ UNCHANGED <<stdin, stdout, job>>
        /\ \A w \in Workers : /\ worker'[w] = "busy" => worker[w] = "busy"
                              /\ worker[w] = "exited" => worker'[w] = "exited"
    BY <1>20, TerminateQueues DEF Kill
  <2>2. runs' = runs /\ lock' = lock /\ pc'[t] \in {"stop", "idle"}
    BY <1>20 DEF Kill, Killed
  <2> QED  BY <2>1, <2>2
<1>21. CASE StopSandbox(t)
  <2>1. /\ UNCHANGED <<stdin, stdout, job>>
        /\ \A w \in Workers : /\ worker'[w] = "busy" => worker[w] = "busy"
                              /\ worker[w] = "exited" => worker'[w] = "exited"
    BY <1>21, TerminateQueues DEF StopSandbox
  <2>2. runs' = runs /\ lock' = lock /\ pc'[t] \in {"tool", "idle"}
    BY <1>21 DEF StopSandbox
  <2> QED  BY <2>1, <2>2
<1> QED
  BY <1>1, <1>2, <1>3, <1>4, <1>5, <1>6, <1>7, <1>8, <1>9, <1>10, <1>11, <1>12,
     <1>13, <1>14, <1>15, <1>16, <1>17, <1>18, <1>19, <1>20, <1>21 DEF Advance, Choose

\* What a thread waits for changes with its own steps only.
LEMMA OthersUnasked ==
    ASSUME TypeOK, NEW t \in Threads, Advance(t) \/ Choose(t), NEW u \in Threads \ {t},
           tool'[u] = tool[u]
    PROVE  Unasked(u)' <=> Unasked(u)
  BY Others DEF Unasked

LEMMA OthersTool ==
    ASSUME TypeOK, NEW t \in Threads, Advance(t) \/ Choose(t), NEW u \in Threads \ {t}
    PROVE  tool'[u] = tool[u]
<1> USE DEF TypeOK, Step, Goto, Leave, LeaveShutdown, Started, Killed, Terminal, callVars
<1>1. CASE Receive(t)
  BY <1>1 DEF Receive
<1>2. CASE Send(t)
  BY <1>2 DEF Send
<1>3. CASE ~Receive(t) /\ ~Send(t)
  BY <1>3 DEF Advance, Choose, CallExecute, CallBusy, CallStart, CallShutdown, RejectInput,
     Interrupt, InterruptWait, InterruptSend, InterruptEnd, CheckActive, EnterStart, Recheck,
     Create, CreateFails, Attach, Look, EndOfStream, Timeout, RunTool, SendFails, Kill, StopSandbox
<1> QED  BY <1>1, <1>2, <1>3

LEMMA QuietQueues ==
    ASSUME TypeOK, Unread, ~ended' => ~ended, ~ended => OneAnswer,
           NEW t \in Threads, Advance(t) \/ Choose(t), Quietly(t)
    PROVE  Unread' /\ (~ended' => OneAnswer')
<1>1. \A w \in Workers : Asked(w)' = Asked(w) /\ Answered(w)' = Answered(w)
  BY DEF Quietly, Asked, Answered
<1>2. CASE lock' = lock /\ (lock = t /\ Unasked(t)' => Unasked(t))
  <2>1. lock # None /\ Unasked(lock)' => Unasked(lock)
    <3>1. CASE lock = t
      BY <1>2, <3>1 DEF Unasked
    <3>2. CASE lock \in Threads \ {t}
      BY <1>2, <3>2, OthersTool, OthersUnasked
    <3> QED  BY <3>1, <3>2, HostAssumption DEF TypeOK
  <2> QED  BY <1>1, <1>2, <2>1, SteadyQueues DEF Quietly
<1>3. CASE lock = t /\ lock' = None /\ Unasked(t)
  <2>1. lock # None /\ Unasked(lock)
    BY <1>3, HostAssumption
  <2> QED  BY <1>3, <2>1, FreedQueues DEF Quietly
<1> QED  BY <1>2, <1>3 DEF Quietly

LEMMA KillQueues ==
    ASSUME TypeOK, Inv, ~Faults, Orderly, Silence, Unread,
           NEW t \in Threads, Kill(t), frame[t] = "call", lock = t
    PROVE  ended' /\ Unread'
<1> USE DEF TypeOK
<1>1. ended /\ ended' /\ lock # None /\ lock' = None /\ runs' = runs
  BY HostAssumption DEF Kill, Killed, Leave, Inv, EndInv, EndAt, Ending
<1>2. /\ UNCHANGED <<stdin, stdout, job>>
      /\ \A w \in Workers : /\ worker'[w] = "busy" => worker[w] = "busy"
                            /\ worker[w] = "exited" => worker'[w] = "exited"
  BY TerminateQueues DEF Kill, guestVars
<1>3. ASSUME NEW w \in Workers, worker'[w] # "exited" PROVE Asked(w) = {}
  <2>1. sandbox = w => worker'[w] = "exited"
    BY HostAssumption DEF Kill, Terminate, Become, GuestTypeOK
  <2>2. ~Alive(w)
    BY <1>2, <1>3, <2>1 DEF Orderly, Inv, SandboxInv, NoOrphan, Alive
  <2>3. worker[w] = "unborn"
    BY <1>2, <1>3, <2>2 DEF Alive, GuestTypeOK
  <2> QED  BY <2>3, EmptyQueue DEF Silence, GuestSilence, Asked
<1> QED  BY <1>1, <1>2, <1>3, FreedQueues

LEMMA SendQueues ==
    ASSUME TypeOK, Inv, Silence, Numbered, Unread, ~ended => OneAnswer,
           NEW t \in Threads, Send(t)
    PROVE  Unread' /\ (~ended' => OneAnswer')
<1> USE HostAssumption DEF TypeOK, GuestTypeOK
<1>a. LockAt(t) /\ ToolAt(t) /\ Advance(t)
  BY DEF Inv, LockInv, Silence, ToolAt, Advance
<1>1. PICK w \in Workers : w = sandbox
  BY DEF Send
<1> DEFINE m == Outgoing(t)
<1>2. /\ m \in Message /\ stdin[w] \in Seq(Message)
      /\ stdin'[w] = Append(stdin[w], m)
      /\ \A v \in Workers \ {w} : stdin'[v] = stdin[v]
      /\ UNCHANGED <<worker, job, stdout, lock, runs, ended>>
  <2>1. m \in Message
    BY MsgTyped DEF Outgoing, Msg, MsgTypes
  <2> QED  BY <1>1, <2>1 DEF Send, sessionVars
<1>3. \A v \in Workers : Answered(v)' = Answered(v) /\ Working(v)' = Working(v)
  BY <1>2 DEF Answered, Working
<1>4. \A v \in Workers \ {w} : Asked(v)' = Asked(v)
  BY <1>2 DEF Asked
<1>5. CASE m.type # "execute"
  <2>1. lock # None /\ Unasked(lock)' => Unasked(lock)
    <3>1. CASE lock = t
      <4>1. frame[t] = "shutdown" \/ tool[t] # 0
        BY <1>5 DEF Outgoing, Msg
      <4>2. ~Unasked(t)'
        BY <1>a, <3>1, <4>1 DEF Send, Goto, Unasked, LockAt, ToolAt
      <4> QED  BY <1>2, <3>1, <4>2 DEF Unasked
    <3>2. CASE lock \in Threads \ {t}
      BY <1>2, <1>a, <3>2, OthersTool, OthersUnasked
    <3> QED  BY <3>1, <3>2
  <2>2. /\ Asked(w)' = Asked(w)
        /\ Single(stdin[w], "execute") => Single(stdin'[w], "execute")
    <3> HIDE DEF m
    <3>1. /\ Ids(Append(stdin[w], m), "execute") = Ids(stdin[w], "execute")
          /\ Single(stdin[w], "execute") => Single(Append(stdin[w], m), "execute")
      BY <1>2, <1>5, AppendOther
    <3> QED  BY <1>2, <3>1 DEF Asked
  <2> QED  BY <1>2, <1>3, <1>4, <2>1, <2>2, SteadyQueues
<1>6. CASE m.type = "execute"
  <2>1. frame[t] = "call" /\ tool[t] = 0 /\ pc[t] = "send" /\ m.id = run[t] /\ lock = t
    BY <1>6, <1>a DEF Outgoing, Msg, Send, LockAt
  <2>2. m.id = runs /\ lock # None /\ Unasked(lock)
    BY <1>a, <2>1 DEF Numbered, Unasked, LockAt
  <2>3. lock' # None /\ ~Unasked(lock)'
    BY <1>2, <1>a, <2>1 DEF Send, Goto, Unasked, LockAt
  <2>4. \A v \in Workers : /\ job[v] < runs
                           /\ worker[v] # "exited" => Asked(v) = {}
    BY <2>2 DEF Unread
  <2>5. Asked(w) = {} => Asked(w)' = {runs} /\ Single(stdin'[w], "execute")
    <3> HIDE DEF m
    <3> SUFFICES ASSUME Ids(stdin[w], m.type) = {}
                 PROVE  /\ Ids(Append(stdin[w], m), m.type) = {m.id}
                        /\ Single(Append(stdin[w], m), m.type)
      BY <1>2, <1>6, <2>2 DEF Asked
    <3> QED  BY <1>2, AppendFirst
  <2>6. Unread'
    <3>1. ASSUME NEW v \in Workers, worker'[v] # "exited"
          PROVE  /\ Single(stdin'[v], "execute")
                 /\ Asked(v)' # {} => Asked(v)' = {runs'} /\ job'[v] < runs'
      <4>1. CASE v = w
        BY <1>2, <2>4, <2>5, <3>1, <4>1
      <4>2. CASE v # w
        BY <1>2, <1>4, <2>4, <3>1, <4>2 DEF Unread
      <4> QED  BY <4>1, <4>2
    <3> QED  BY <2>3, <3>1 DEF Unread
  <2>7. ASSUME ~ended' PROVE OneAnswer'
    <3>1. OneAnswer /\ Awaited = {}
      BY <1>2, <2>2, <2>7 DEF Awaited
    <3>2. Awaited' = {runs'}
      BY <2>3 DEF Awaited
    <3>3. \A v \in Workers : Asked(v) = {} /\ Answered(v) = {} /\ Working(v) = {}
      BY <3>1 DEF OneAnswer
    <3>4. ASSUME NEW v \in Workers
          PROVE  Asked(v)' \subseteq {runs'} /\ Answered(v)' = {} /\ Working(v)' = {}
      <4>1. Answered(v)' = {} /\ Working(v)' = {} /\ runs' = runs
        BY <1>2, <1>3, <3>3
      <4>2. CASE v = w
        BY <2>5, <3>3, <4>1, <4>2
      <4>3. CASE v # w
        BY <1>4, <3>3, <4>1, <4>3
      <4> QED  BY <4>2, <4>3
    <3>5. \A v \in Workers : Single(stdout'[v], "execution_result")
      BY <1>2, <3>1 DEF OneAnswer
    <3> QED  BY <3>2, <3>4, <3>5 DEF OneAnswer
  <2> QED  BY <2>6, <2>7
<1> QED  BY <1>5, <1>6

\* What the thread that reads a result knows of it.
LEMMA ResultIs ==
    ASSUME TypeOK, Inv, Orderly, Silence, Numbered, OneAnswer, NEW t \in Threads,
           pc[t] = "next", starting # t, stdout[reads[t]] # <<>>,
           Head(stdout[reads[t]]).type = "execution_result"
    PROVE  /\ lock = t /\ run[t] = runs /\ run[t] # 0 /\ ~Unasked(t)
           /\ reads[t] \in Workers /\ job[reads[t]] = run[t]
           /\ Head(stdout[reads[t]]).id = run[t]
           /\ \A w \in Workers : Asked(w) = {} /\ Working(w) = {}
           /\ Ids(Tail(stdout[reads[t]]), "execution_result") = {}
           /\ \A w \in Workers \ {reads[t]} : Answered(w) = {}
<1> USE HostAssumption DEF TypeOK, GuestTypeOK
<1>1. lock = t /\ run[t] = runs /\ run[t] # 0 /\ ~Unasked(t)
  BY DEF Inv, LockInv, LockAt, Numbered, Unasked
<1>2. PICK w \in Workers : w = reads[t]
  OBVIOUS
<1>3. Head(stdout[w]).id \in Answered(w) /\ Ids(Tail(stdout[w]), "execution_result") = {}
  <2>1. stdout[w] \in Seq(Message) /\ Single(stdout[w], "execution_result")
    BY DEF OneAnswer
  <2> QED  BY <1>2, <2>1, TailLines DEF Answered
<1>4. Answered(w) \subseteq Awaited /\ Answered(w) \subseteq {job[w]} /\ Awaited = {runs}
  BY <1>1 DEF OneAnswer, Awaited
<1>5. \A v \in Workers \ {w} : worker[v] = "unborn"
  <2>1. worker[w] # "unborn"
    BY <1>2 DEF Silence, GuestSilence
  <2> QED  BY <2>1 DEF Inv, SandboxInv
<1>6. \A v \in Workers \ {w} : Asked(v) = {} /\ Answered(v) = {} /\ Working(v) = {}
  BY <1>5, EmptyQueue DEF Silence, GuestSilence, Asked, Answered, Working
<1>7. Asked(w) = {} /\ Working(w) = {}
  BY <1>3 DEF OneAnswer
<1> QED  BY <1>1, <1>2, <1>3, <1>4, <1>6, <1>7

LEMMA ReceiveQueues ==
    ASSUME TypeOK, Inv, Orderly, Silence, Numbered, Unread, ~ended => OneAnswer,
           NEW t \in Threads, Receive(t)
    PROVE  Unread' /\ (~ended' => OneAnswer')
<1> USE HostAssumption DEF TypeOK, GuestTypeOK
<1>a. LockAt(t) /\ ToolAt(t) /\ Advance(t) /\ pc[t] = "next" /\ ~ended /\ OneAnswer
  BY DEF Inv, LockInv, Silence, ToolAt, Advance, Receive, Orderly
<1>1. PICK w \in Workers : w = reads[t]
  BY <1>a
<1> DEFINE m == Head(stdout[w])
<1>2. /\ stdout[w] # <<>> /\ stdout[w] \in Seq(Message)
      /\ stdout'[w] = Tail(stdout[w]) /\ \A v \in Workers \ {w} : stdout'[v] = stdout[v]
      /\ UNCHANGED <<worker, job, stdin>>
  BY <1>1 DEF Receive
<1>3. \A v \in Workers : Asked(v)' = Asked(v) /\ Working(v)' = Working(v)
  BY <1>2 DEF Asked, Working
<1>4. /\ Answered(w)' \subseteq Answered(w)
      /\ Single(stdout[w], "execution_result") => Single(stdout'[w], "execution_result")
  BY <1>2, TailLines DEF Answered
<1>5. \A v \in Workers \ {w} : Answered(v)' = Answered(v)
  BY <1>2 DEF Answered
<1>6. \/ UNCHANGED <<runs, lock>> /\ (lock = t /\ Unasked(t)' => Unasked(t))
      \/ starting # t /\ m.type = "execution_result" /\ Leave(t, "ok")
  <2>1. CASE Step(t, "kill")
    BY <2>1, <1>a DEF Step, callVars, Goto, Unasked
  <2>2. CASE starting = t /\ Started(t)
    BY <2>2, <1>a DEF Started, Leave, Unasked, LockAt
  <2>3. CASE Goto(t, "tool") /\ UNCHANGED <<run, frame, outcome, runs, lock, starting>>
    BY <2>3, <1>a DEF Goto, Unasked
  <2>4. \/ Step(t, "kill")
        \/ starting = t /\ Started(t)
        \/ Goto(t, "tool") /\ UNCHANGED <<run, frame, outcome, runs, lock, starting>>
        \/ starting # t /\ m.type = "execution_result" /\ Leave(t, "ok")
    BY <1>1 DEF Receive, Expected
  <2> QED  BY <2>1, <2>2, <2>3, <2>4
<1>7. CASE UNCHANGED <<runs, lock>> /\ (lock = t /\ Unasked(t)' => Unasked(t))
  <2>1. lock # None /\ Unasked(lock)' => Unasked(lock)
    <3>1. CASE lock = t
      BY <1>7, <3>1 DEF Unasked
    <3>2. CASE lock \in Threads \ {t}
      BY <1>7, <1>a, <3>2, OthersTool, OthersUnasked
    <3> QED  BY <3>1, <3>2
  <2> QED  BY <1>a, <1>2, <1>3, <1>4, <1>5, <1>7, <2>1, SteadyQueues
<1>8. CASE starting # t /\ m.type = "execution_result" /\ Leave(t, "ok")
  <2>1. /\ lock = t /\ Answered(w)' = {}
        /\ \A v \in Workers : Asked(v) = {} /\ Working(v) = {}
        /\ \A v \in Workers \ {w} : Answered(v) = {}
    BY <1>1, <1>2, <1>8, <1>a, ResultIs DEF Answered
  <2>2. lock' = None
    BY <1>8, <2>1 DEF Leave
  <2>3. Unread'
    BY <1>2, <1>3, <2>1, <2>2 DEF Unread
  <2>4. \A v \in Workers : /\ Asked(v)' = {} /\ Working(v)' = {} /\ Answered(v)' = {}
                           /\ Single(stdout'[v], "execution_result")
    BY <1>2, <1>3, <1>4, <1>5, <1>a, <2>1 DEF OneAnswer
  <2>5. OneAnswer'
    BY <2>4 DEF OneAnswer
  <2> QED  BY <2>3, <2>5
<1> QED  BY <1>6, <1>7, <1>8

LEMMA QueuesThread ==
    ASSUME TypeOK, Inv, ~Faults, ~Interrupts, AnswerInv,
           NEW t \in Threads, Advance(t) \/ Choose(t)
    PROVE  Unread' /\ (~ended' => OneAnswer')
<1>1. LockAt(t) /\ EndAt(t) /\ ToolAt(t)
  BY DEF Inv, LockInv, EndInv, AnswerInv, Silence, ToolAt
<1>2. ~ended' => ~ended
  BY <1>1, StepMoves DEF Moves, TypeOK
<1>3. CASE Quietly(t)
  BY <1>2, <1>3, QuietQueues DEF AnswerInv
<1>4. CASE CallExecute(t)
  <2>1. /\ lock = None /\ lock' = t /\ runs' = runs + 1 /\ pc'[t] = "check" /\ ended' = ended
        /\ UNCHANGED <<worker, stdin, stdout, job>> /\ runs \in Nat /\ job \in [Workers -> Nat]
    BY <1>4 DEF CallExecute, Goto, guestVars, sessionVars, TypeOK, GuestTypeOK
  <2>2. lock' # None /\ Unasked(lock)'
    BY <2>1, HostAssumption DEF Unasked
  <2> QED  BY <2>1, <2>2, TakenQueues DEF AnswerInv
<1>5. CASE Kill(t) /\ frame[t] = "call" /\ lock = t
  BY <1>5, KillQueues DEF AnswerInv
<1> QED
  BY <1>1, <1>3, <1>4, <1>5, StepQuietly, SendQueues, ReceiveQueues DEF AnswerInv

LEMMA GuestExited == ASSUME GuestTypeOK, GuestStep, NEW w \in Workers, worker[w] = "exited"
                     PROVE  worker'[w] = "exited"
  BY DEF GuestTypeOK, GuestStep, Protocol, Whim, Ready, TakeExecute, RejectRequest, TakeShutdown,
     Finish, TakeToolResponse, FinishBadly, Die, CallTool, StartChild, ChildSpeaks, ChildExits, Become

\* What a step of a worker leaves as it is.
LEMMA AnswerRest ==
    ASSUME TypeOK, AnswerInv, GuestStep, UNCHANGED <<setting, hostVars>>
    PROVE  /\ Orderly' /\ Silence'
           /\ UNCHANGED <<ended, run, runs, verdict, lock>>
<1>1. UNCHANGED <<ended, asked, run, runs, verdict, lock, pc, starting, frame, tool>>
  BY DEF hostVars, sessionVars, callVars
<1>2. Orderly'
  <2>1. \A w \in asked : worker'[w] = "exited"
    BY GuestExited DEF TypeOK, AnswerInv, Orderly
  <2> QED  BY <1>1, <2>1 DEF AnswerInv, Orderly, Ending, InExecute
<1>3. Silence'
  BY <1>1, GuestSilent DEF TypeOK, AnswerInv, Silence
<1> QED  BY <1>1, <1>2, <1>3

\* A worker takes the run in progress, carries it on, or loses it.
LEMMA AnswerGuest ==
    ASSUME TypeOK, AnswerInv, GuestStep, UNCHANGED <<setting, hostVars>>
    PROVE  AnswerInv'
<1> USE DEF TypeOK, GuestTypeOK
<1>1. /\ UNCHANGED <<lock, runs, pc, starting, frame, tool, ended, asked, run, verdict>>
      /\ Awaited' = Awaited /\ \A t \in Threads : Unasked(t)' = Unasked(t)
  BY HostAssumption DEF hostVars, sessionVars, callVars, Awaited, Unasked
<1>2. (lock # None /\ Unasked(lock))' <=> lock # None /\ Unasked(lock)
  BY <1>1 DEF Unasked
<1>3. PICK w \in Workers :
         /\ Solo(w)
         /\ Asked(w)' \subseteq Asked(w)
         /\ Single(stdin[w], "execute") => Single(stdin'[w], "execute")
         /\ Takes(w) \/ Sends(w) \/ Carries(w)
  BY GuestFlow
<1>4. \A v \in Workers \ {w} :
         /\ worker'[v] = worker[v] /\ job'[v] = job[v]
         /\ stdin'[v] = stdin[v] /\ stdout'[v] = stdout[v]
         /\ Asked(v)' = Asked(v) /\ Working(v)' = Working(v) /\ Answered(v)' = Answered(v)
  BY <1>3 DEF Solo, Asked, Working, Answered
<1>5. worker[w] = "exited" => worker'[w] = "exited"
  BY <1>3, GuestExited
<1>6. CASE Takes(w)
  <2>1. Asked(w) # {} /\ worker[w] # "exited"
    BY <1>6 DEF Takes
  <2>2. lock # None /\ ~Unasked(lock) /\ Asked(w) = {runs} /\ job[w] < runs
        /\ Single(stdin[w], "execute")
    BY <2>1 DEF AnswerInv, Unread
  <2>3. job'[w] = runs /\ Asked(w)' = {} /\ Working(w)' = {runs} /\ stdout'[w] = stdout[w]
        /\ Answered(w)' = Answered(w)
    BY <1>6, <2>2 DEF Takes, Working, Answered
  <2>4. Unread'
    <3>1. ASSUME NEW v \in Workers, worker'[v] # "exited"
          PROVE  /\ Single(stdin'[v], "execute")
                 /\ Asked(v)' # {} => Asked(v)' = {runs'} /\ job'[v] < runs'
      <4>1. CASE v = w
        BY <1>3, <2>2, <2>3, <4>1
      <4>2. CASE v # w
        BY <1>1, <1>4, <3>1, <4>2 DEF AnswerInv, Unread
      <4> QED  BY <4>1, <4>2
    <3> QED  BY <1>1, <1>2, <2>2, <3>1 DEF Unread
  <2>5. \A v \in Workers : job'[v] <= runs
    <3>1. runs <= runs /\ \A v \in Workers : job[v] <= runs
      BY HostAssumption DEF AnswerInv, Numbered
    <3> QED  BY <1>4, <2>3, <3>1
  <2>6. ASSUME ~ended PROVE OneAnswer'
    <3>1. OneAnswer /\ Awaited = {runs} /\ Answered(w) = {} /\ Working(w) = {}
      BY <2>1, <2>2, <2>6 DEF AnswerInv, OneAnswer, Awaited
    <3>2. ASSUME NEW v \in Workers
          PROVE  /\ Single(stdout'[v], "execution_result")
                 /\ Asked(v)' \cup Working(v)' \cup Answered(v)' \subseteq Awaited'
                 /\ Asked(v)' = {} \/ Working(v)' = {}
                 /\ Asked(v)' = {} \/ Answered(v)' = {}
                 /\ Working(v)' = {} \/ Answered(v)' = {}
                 /\ Answered(v)' \subseteq {job'[v]}
      <4>1. CASE v = w
        BY <1>1, <2>3, <3>1, <4>1 DEF OneAnswer
      <4>2. CASE v # w
        <5>1. /\ job'[v] = job[v] /\ stdout'[v] = stdout[v] /\ Asked(v)' = Asked(v)
              /\ Working(v)' = Working(v) /\ Answered(v)' = Answered(v) /\ Awaited' = Awaited
          BY <1>1, <1>4, <4>2
        <5> QED  BY <3>1, <5>1 DEF OneAnswer
      <4> QED  BY <4>1, <4>2
    <3> QED  BY <3>2 DEF OneAnswer
  <2> QED  BY <2>4, <2>5, <2>6, <1>1, AnswerRest DEF AnswerInv, Numbered
<1>7. CASE Sends(w) \/ Carries(w)
  <2>1. job'[w] = job[w]
    BY <1>7 DEF Sends, Carries
  <2>2. Unread'
    <3>1. ASSUME NEW v \in Workers, worker'[v] # "exited"
          PROVE  /\ Single(stdin'[v], "execute")
                 /\ Asked(v)' \subseteq Asked(v) /\ job'[v] = job[v] /\ worker[v] # "exited"
      <4>1. CASE v = w
        BY <1>3, <1>5, <2>1, <3>1, <4>1 DEF AnswerInv, Unread
      <4>2. CASE v # w
        BY <1>4, <3>1, <4>2 DEF AnswerInv, Unread
      <4> QED  BY <4>1, <4>2
    <3>2. \A v \in Workers : job'[v] = job[v]
      BY <1>4, <2>1
    <3> QED  BY <1>1, <1>2, <3>1, <3>2 DEF AnswerInv, Unread
  <2>3. \A v \in Workers : job'[v] <= runs
    BY <1>4, <2>1 DEF AnswerInv, Numbered
  <2>4. ASSUME ~ended PROVE OneAnswer'
    <3>1. OneAnswer
      BY <2>4 DEF AnswerInv
    <3>2. /\ Single(stdout'[w], "execution_result")
          /\ Asked(w)' \subseteq Asked(w)
          /\ \/ Working(w)' \subseteq Working(w) /\ Answered(w)' = Answered(w)
             \/ Working(w) = {job[w]} /\ Working(w)' = {} /\ Answered(w)' = {job[w]}
      <4>1. CASE Carries(w)
        BY <1>3, <3>1, <4>1 DEF Carries, OneAnswer, Working
      <4>2. CASE Sends(w)
        BY <1>3, <3>1, <4>2 DEF Sends, OneAnswer, Working
      <4> QED  BY <1>7, <4>1, <4>2
    <3>3. ASSUME NEW v \in Workers
          PROVE  /\ Single(stdout'[v], "execution_result")
                 /\ Asked(v)' \cup Working(v)' \cup Answered(v)' \subseteq Awaited'
                 /\ Asked(v)' = {} \/ Working(v)' = {}
                 /\ Asked(v)' = {} \/ Answered(v)' = {}
                 /\ Working(v)' = {} \/ Answered(v)' = {}
                 /\ Answered(v)' \subseteq {job'[v]}
      <4>1. CASE v = w
        <5>1. /\ Asked(w) \cup Working(w) \cup Answered(w) \subseteq Awaited
              /\ Asked(w) = {} \/ Working(w) = {}
              /\ Asked(w) = {} \/ Answered(w) = {}
              /\ Working(w) = {} \/ Answered(w) = {}
              /\ Answered(w) \subseteq {job[w]}
          BY <3>1 DEF OneAnswer
        <5> QED  BY <1>1, <2>1, <3>2, <4>1, <5>1
      <4>2. CASE v # w
        <5>1. /\ job'[v] = job[v] /\ stdout'[v] = stdout[v] /\ Asked(v)' = Asked(v)
              /\ Working(v)' = Working(v) /\ Answered(v)' = Answered(v) /\ Awaited' = Awaited
          BY <1>1, <1>4, <4>2
        <5> QED  BY <3>1, <5>1 DEF OneAnswer
      <4> QED  BY <4>1, <4>2
    <3> QED  BY <3>3 DEF OneAnswer
  <2> QED  BY <2>2, <2>3, <2>4, <1>1, AnswerRest DEF AnswerInv, Numbered
<1> QED  BY <1>3, <1>6, <1>7

LEMMA AnswerInit == Init => AnswerInv
<1> SUFFICES ASSUME Init PROVE AnswerInv
  OBVIOUS
<1> USE GuestAssumption, HostAssumption DEF Init, GuestInit
<1>1. Silence
  BY EmptyQueue DEF Silence, GuestSilence
<1>2. Orderly
  BY DEF Orderly, Ending, InExecute
<1>3. /\ \A w \in Workers : Asked(w) = {} /\ Working(w) = {} /\ Answered(w) = {}
      /\ \A w \in Workers : /\ Single(stdin[w], "execute")
                            /\ Single(stdout[w], "execution_result")
  BY EmptyQueue DEF Asked, Working, Answered
<1>4. Unread /\ OneAnswer
  BY <1>3 DEF Unread, OneAnswer
<1>5. Numbered
  BY DEF Numbered
<1> QED  BY <1>1, <1>2, <1>4, <1>5 DEF AnswerInv

LEMMA AnswerStep == ASSUME TypeOK, Inv, Quiet => AnswerInv, [Next]_vars
                    PROVE  (Quiet => AnswerInv)'
<1> SUFFICES ASSUME Quiet' PROVE AnswerInv'
  OBVIOUS
<1>1. setting' = setting
  BY DEF Next, vars
<1>2. ~Overlap /\ ~Faults /\ ~Interrupts /\ AnswerInv
  BY <1>1 DEF Quiet, Overlap, Faults, Interrupts
<1>3. TypeOK'
  BY TypeStep
<1>4. CASE UNCHANGED vars
  BY <1>2, <1>4 DEF vars, guestVars, hostVars, sessionVars, callVars, AnswerInv, Orderly, Ending,
     InExecute, Silence, GuestSilence, Numbered, Unread, Unasked, OneAnswer, Asked, Working,
     Answered, Awaited
<1>5. ASSUME NEW t \in Threads, Advance(t) \/ Choose(t) PROVE AnswerInv'
  <2>1. Orderly'
    BY <1>2, <1>5, OrderlyThread DEF AnswerInv
  <2>2. Silence'
    BY <1>2, <1>5, SilenceThread DEF AnswerInv
  <2>3. Numbered'
    BY <1>2, <1>3, <1>5, NumberedThread DEF AnswerInv
  <2>4. Unread' /\ (~ended' => OneAnswer')
    BY <1>2, <1>5, QueuesThread
  <2> QED  BY <2>1, <2>2, <2>3, <2>4 DEF AnswerInv
<1>6. CASE GuestStep /\ UNCHANGED <<setting, hostVars>>
  BY <1>2, <1>6, AnswerGuest
<1> QED  BY <1>4, <1>5, <1>6 DEF Next

LEMMA AnswerHolds == Spec => [](Quiet => AnswerInv)
<1>1. Init => (Quiet => AnswerInv)
  BY AnswerInit
<1>2. TypeOK /\ Inv /\ (Quiet => AnswerInv) /\ [Next]_vars => (Quiet => AnswerInv)'
  BY AnswerStep
<1> QED  BY <1>1, <1>2, Invariant, PTL DEF Spec

-----------------------------------------------------------------------------
(* Each step of the session is one of the contract, or hidden from it.     *)

LEMMA LatestIs ==
    ASSUME OneNamespace
    PROVE  /\ \A w \in Workers : job[w] # 0 => Latest = job[w]
           /\ (\A w \in Workers : job[w] = 0) => Latest = 0
<1>1. ASSUME NEW w \in Workers, job[w] # 0 PROVE Latest = job[w]
  <2>1. \A v \in Workers : job[v] # 0 => v = w
    BY <1>1 DEF OneNamespace
  <2>2. (CHOOSE v \in Workers : job[v] # 0) = w
    BY <1>1, <2>1
  <2> QED  BY <1>1, <2>2 DEF Latest
<1>2. ASSUME \A w \in Workers : job[w] = 0 PROVE Latest = 0
  BY <1>2 DEF Latest
<1> QED  BY <1>1, <1>2

\* What a step of the session may look like to its callers.
LEMMA ShownSteps ==
    ASSUME Quiet, setting' = setting,
           \/ UNCHANGED <<ended, verdict>> /\ Latest' = Latest /\ Active' = Active
           \/ /\ ~ended /\ Active = 0 /\ Active' \in 1..MaxRuns /\ Latest < Active'
              /\ verdict[Active'] = 0 /\ UNCHANGED <<ended, verdict>> /\ Latest' = Latest
           \/ /\ Active # 0 /\ Latest < Active /\ Latest' = Active
              /\ Active' = Active /\ UNCHANGED <<ended, verdict>>
           \/ /\ Active # 0 /\ Latest = Active /\ Active' = 0
              /\ verdict' = [verdict EXCEPT ![Active] = Active]
              /\ UNCHANGED ended /\ Latest' = Latest
           \/ /\ Active # 0 /\ Active' = 0
              /\ UNCHANGED <<ended, verdict>> /\ Latest' = Latest
           \/ /\ ~ended /\ ended' = TRUE /\ Active' = Active
              /\ UNCHANGED verdict /\ Latest' = Latest
    PROVE  [Contract!Next]_(Contract!vars)
<1>0. Quiet /\ Quiet'
  BY DEF Quiet, Overlap, Interrupts, Faults
<1> USE <1>0 DEF Contract!Next, Contract!vars
<1>1. CASE UNCHANGED <<ended, verdict>> /\ Latest' = Latest /\ Active' = Active
  BY <1>1
<1>2. CASE /\ ~ended /\ Active = 0 /\ Active' \in 1..MaxRuns /\ Latest < Active'
           /\ verdict[Active'] = 0 /\ UNCHANGED <<ended, verdict>> /\ Latest' = Latest
  BY <1>2 DEF Contract!Begin
<1>3. CASE /\ Active # 0 /\ Latest < Active /\ Latest' = Active
           /\ Active' = Active /\ UNCHANGED <<ended, verdict>>
  BY <1>3 DEF Contract!Effect
<1>4. CASE /\ Active # 0 /\ Latest = Active /\ Active' = 0
           /\ verdict' = [verdict EXCEPT ![Active] = Active]
           /\ UNCHANGED ended /\ Latest' = Latest
  BY <1>4 DEF Contract!Return
<1>5. CASE /\ Active # 0 /\ Active' = 0
           /\ UNCHANGED <<ended, verdict>> /\ Latest' = Latest
  BY <1>5 DEF Contract!Raise
<1>6. CASE /\ ~ended /\ ended' = TRUE /\ Active' = Active
           /\ UNCHANGED verdict /\ Latest' = Latest
  BY <1>6 DEF Contract!Close
<1> QED  BY <1>1, <1>2, <1>3, <1>4, <1>5, <1>6

\* Most steps begin nothing and return nothing: the callers see at most that
\* the session ends, or that a call raises.
Minor == /\ UNCHANGED <<verdict, job>>
         /\ \/ ended' = ended /\ Active' = Active
            \/ ended' = TRUE /\ Active' = Active
            \/ ended' = ended /\ Active # 0 /\ Active' = 0

LEMMA MinorShown ==
    ASSUME TypeOK, Quiet, setting' = setting, Minor
    PROVE  [Contract!Next]_(Contract!vars)
<1>1. Latest' = Latest
  BY DEF Minor, Latest
<1> QED  BY <1>1, ShownSteps DEF Minor, TypeOK

\* A call that leaves raises, unless it is not the one of execute.
LEMMA LeaveMinor ==
    ASSUME TypeOK, NEW t \in Threads, LockAt(t), NEW how, Leave(t, how), pc[t] # "check",
           UNCHANGED <<ended, verdict, job>>
    PROVE  Minor
  BY HostAssumption DEF TypeOK, LockAt, Leave, Goto, Active, Minor

LEMMA TerminalMinor ==
    ASSUME TypeOK, NEW t \in Threads, pc[t] # "check", Terminal(t)
    PROVE  Minor
  BY HostAssumption DEF TypeOK, Terminal, Step, Goto, callVars, guestVars, Active, Minor

LEMMA StartedMinor ==
    ASSUME TypeOK, NEW t \in Threads, LockAt(t), pc[t] # "check", Started(t),
           UNCHANGED <<ended, verdict, job>>
    PROVE  Minor
<1>1. CASE Leave(t, "ok")
  BY <1>1, LeaveMinor
<1>2. CASE Goto(t, "send") /\ UNCHANGED <<run, lock>>
  BY <1>2, HostAssumption DEF TypeOK, Goto, Active, Minor
<1> QED  BY <1>1, <1>2 DEF Started

LEMMA GoneMinor ==
    ASSUME TypeOK, NEW t \in Threads, LockAt(t), Kill(t) \/ StopSandbox(t)
    PROVE  Minor
<1>1. job' = job /\ verdict' = verdict /\ ended' = ended
  BY DEF Kill, StopSandbox, Terminate, guestVars
<1>2. CASE Kill(t)
  <2>1. pc[t] = "kill" /\ Killed(t)
    BY <1>2 DEF Kill
  <2>2. CASE Leave(t, "CodeInterpreterError")
    BY <1>1, <2>1, <2>2, LeaveMinor
  <2>3. CASE Step(t, "stop")
    BY <1>1, <2>1, <2>3, HostAssumption DEF TypeOK, Step, Goto, callVars, Active, Minor
  <2> QED  BY <2>1, <2>2, <2>3 DEF Killed
<1>3. CASE StopSandbox(t)
  <2>1. /\ pc[t] = "stop" /\ UNCHANGED <<lock, run>>
        /\ pc' = [pc EXCEPT ![t] = IF lock = t THEN "tool" ELSE "idle"]
    BY <1>3 DEF StopSandbox, LeaveShutdown, Goto
  <2> QED  BY <1>1, <2>1, HostAssumption DEF TypeOK, Active, Minor
<1> QED  BY <1>2, <1>3

LEMMA StepMinor ==
    ASSUME TypeOK, NEW t \in Threads, LockAt(t), Advance(t) \/ Choose(t)
    PROVE  Minor \/ CheckActive(t) \/ Receive(t)
<1> USE HostAssumption DEF Minor, Active, LockAt, TypeOK, Step, Goto, callVars, sessionVars, guestVars
<1>1. CASE CallExecute(t)
  BY <1>1 DEF CallExecute
<1>2. CASE CallBusy(t)
  BY <1>2 DEF CallBusy
<1>3. CASE CallStart(t)
  BY <1>3 DEF CallStart
<1>4. CASE CallShutdown(t)
  BY <1>4 DEF CallShutdown, MayStop
<1>5. CASE RejectInput(t)
  BY <1>5, LeaveMinor DEF RejectInput, guestVars, sessionVars
<1>6. CASE Interrupt(t)
  <2>1. CASE InterruptWait(t)
    BY <2>1, LeaveMinor DEF InterruptWait, guestVars, sessionVars
  <2>2. CASE InterruptSend(t)
    <3>1. CASE frame[t] = "call" /\ Leave(t, "BaseException")
      BY <2>2, <3>1, LeaveMinor DEF InterruptSend, sessionVars
    <3>2. CASE frame[t] = "shutdown" /\ LeaveShutdown(t, "BaseException")
      <4>1. /\ pc[t] = "send" /\ UNCHANGED <<lock, run, ended, verdict, job>>
            /\ pc' = [pc EXCEPT ![t] = IF lock = t THEN "tool" ELSE "idle"]
        BY <2>2, <3>2 DEF InterruptSend, LeaveShutdown, Goto, sessionVars
      <4> QED  BY <4>1, HostAssumption DEF TypeOK, Active, Minor
    <3> QED  BY <2>2, <3>1, <3>2 DEF InterruptSend
  <2>3. CASE InterruptEnd(t)
    <3>1. CASE frame[t] = "call" /\ Leave(t, "BaseException")
      BY <2>3, <3>1, LeaveMinor DEF InterruptEnd, Terminate
    <3>2. CASE frame[t] = "shutdown" /\ LeaveShutdown(t, "BaseException")
      <4>1. /\ pc[t] \in {"kill", "stop"} /\ UNCHANGED <<lock, run, ended, verdict, job>>
            /\ pc' = [pc EXCEPT ![t] = IF lock = t THEN "tool" ELSE "idle"]
        BY <2>3, <3>2 DEF InterruptEnd, Terminate, LeaveShutdown, Goto
      <4> QED  BY <4>1, HostAssumption DEF TypeOK, Active, Minor
    <3> QED  BY <2>3, <3>1, <3>2 DEF InterruptEnd
  <2> QED  BY <1>6, <2>1, <2>2, <2>3 DEF Interrupt
<1>7. CASE CheckActive(t)
  BY <1>7
<1>8. CASE EnterStart(t)
  BY <1>8 DEF EnterStart
<1>9. CASE Recheck(t)
  <2>0. pc[t] = "recheck" /\ UNCHANGED <<ended, verdict, job>>
    BY <1>9 DEF Recheck
  <2>1. CASE Leave(t, "CodeInterpreterError")
    BY <2>0, <2>1, LeaveMinor
  <2>2. CASE Started(t)
    BY <2>0, <2>2, StartedMinor
  <2>3. CASE Step(t, "create")
    BY <2>0, <2>3
  <2> QED  BY <1>9, <2>1, <2>2, <2>3 DEF Recheck
<1>10. CASE Create(t)
  BY <1>10 DEF Create
<1>11. CASE CreateFails(t)
  BY <1>11, TerminalMinor DEF CreateFails
<1>12. CASE Attach(t)
  <2>1. CASE Terminal(t)
    BY <1>12, <2>1, TerminalMinor DEF Attach
  <2>2. CASE Step(t, "look") /\ UNCHANGED <<guestVars, ended, verdict>>
    BY <1>12, <2>2 DEF Attach
  <2> QED  BY <1>12, <2>1, <2>2 DEF Attach
<1>13. CASE Look(t)
  <2>1. CASE Terminal(t)
    BY <1>13, <2>1, TerminalMinor DEF Look
  <2>2. CASE Goto(t, "next") /\ UNCHANGED <<guestVars, ended, verdict, lock, run>>
    BY <1>13, <2>2 DEF Look
  <2> QED  BY <1>13, <2>1, <2>2 DEF Look
<1>14. CASE Receive(t)
  BY <1>14
<1>15. CASE EndOfStream(t)
  BY <1>15, TerminalMinor DEF EndOfStream
<1>16. CASE Timeout(t)
  BY <1>16, TerminalMinor DEF Timeout
<1>17. CASE RunTool(t)
  BY <1>17 DEF RunTool
<1>18. CASE Send(t)
  BY <1>18 DEF Send
<1>19. CASE SendFails(t)
  BY <1>19, TerminalMinor DEF SendFails
<1>20. CASE Kill(t)
  BY <1>20, GoneMinor
<1>21. CASE StopSandbox(t)
  BY <1>21, GoneMinor
<1> QED
  BY <1>1, <1>2, <1>3, <1>4, <1>5, <1>6, <1>7, <1>8, <1>9, <1>10, <1>11, <1>12,
     <1>13, <1>14, <1>15, <1>16, <1>17, <1>18, <1>19, <1>20, <1>21 DEF Advance, Choose

\* _check_active lets the execution begin, or raises.
LEMMA CheckShown ==
    ASSUME TypeOK, Inv, AnswerInv, Quiet, setting' = setting, NEW t \in Threads, CheckActive(t)
    PROVE  [Contract!Next]_(Contract!vars)
<1> USE HostAssumption DEF TypeOK, GuestTypeOK
<1>1. LockAt(t) /\ pc[t] = "check" /\ UNCHANGED <<ended, verdict, job>> /\ Latest' = Latest
  BY DEF Inv, LockInv, CheckActive, guestVars, sessionVars, Latest
<1>2. CASE lock # t \/ ended
  <2>1. Active' = Active
    BY <1>1, <1>2 DEF CheckActive, LockAt, Leave, Step, Goto, callVars, Active
  <2> QED  BY <1>1, <2>1, ShownSteps
<1>3. CASE lock = t /\ ~ended
  <2>1. Active = 0 /\ Active' = run[t] /\ run[t] \in 1..MaxRuns /\ Unasked(t)
    BY <1>1, <1>3 DEF CheckActive, LockAt, Step, Goto, callVars, Active, Unasked
  <2>2. run[t] = runs /\ verdict[runs] = 0 /\ \A w \in Workers : job[w] < runs
    BY <1>3, <2>1 DEF AnswerInv, Numbered, Unread
  <2>3. Latest < run[t]
    <3>1. OneNamespace
      BY DEF Inv, SandboxInv, OneNamespace
    <3>2. CASE \E w \in Workers : job[w] # 0
      BY <2>2, <3>1, <3>2, LatestIs
    <3>3. CASE \A w \in Workers : job[w] = 0
      BY <2>1, <3>1, <3>3, LatestIs
    <3> QED  BY <3>2, <3>3
  <2> QED  BY <1>1, <1>3, <2>1, <2>2, <2>3, ShownSteps
<1> QED  BY <1>2, <1>3

\* The result that execute returns is that of the run in progress, whose code
\* was the last to reach the namespace.
LEMMA ReceiveShown ==
    ASSUME TypeOK, Inv, AnswerInv, Quiet, setting' = setting, NEW t \in Threads, Receive(t)
    PROVE  [Contract!Next]_(Contract!vars)
<1> USE HostAssumption DEF TypeOK, GuestTypeOK
<1> DEFINE m == Head(stdout[reads[t]])
<1>1. /\ LockAt(t) /\ pc[t] = "next" /\ ~ended /\ OneAnswer /\ UNCHANGED job
      /\ stdout[reads[t]] # <<>>
  BY DEF Inv, LockInv, AnswerInv, Orderly, Receive
<1>2. \/ ended' = TRUE /\ Step(t, "kill") /\ UNCHANGED verdict
      \/ Started(t) /\ UNCHANGED <<ended, verdict>>
      \/ Goto(t, "tool") /\ UNCHANGED <<ended, lock, run, verdict>>
      \/ /\ starting # t /\ m.type = "execution_result" /\ Leave(t, "ok") /\ UNCHANGED ended
         /\ verdict' = [verdict EXCEPT ![run[t]] = m.id]
  BY DEF Receive, Expected
<1>3. CASE ended' = TRUE /\ Step(t, "kill") /\ UNCHANGED verdict
  <2>1. Minor
    BY <1>1, <1>3 DEF Step, Goto, callVars, Active, Minor
  <2> QED  BY <2>1, MinorShown
<1>4. CASE Started(t) /\ UNCHANGED <<ended, verdict>>
  <2>1. Minor
    BY <1>1, <1>4, StartedMinor
  <2> QED  BY <2>1, MinorShown
<1>5. CASE Goto(t, "tool") /\ UNCHANGED <<ended, lock, run, verdict>>
  <2>1. Minor
    BY <1>1, <1>5 DEF Goto, Active, Minor
  <2> QED  BY <2>1, MinorShown
<1>6. CASE /\ starting # t /\ m.type = "execution_result" /\ Leave(t, "ok") /\ UNCHANGED ended
           /\ verdict' = [verdict EXCEPT ![run[t]] = m.id]
  <2>1. /\ lock = t /\ run[t] # 0 /\ m.id = run[t]
        /\ reads[t] \in Workers /\ job[reads[t]] = run[t]
    BY <1>1, <1>6, ResultIs DEF AnswerInv
  <2>2. Active = run[t] /\ Active' = 0
    BY <1>1, <1>6, <2>1 DEF Leave, Active
  <2>3. Latest = run[t] /\ Latest' = Latest
    <3>1. OneNamespace
      BY DEF Inv, SandboxInv, OneNamespace
    <3> QED  BY <1>1, <2>1, <3>1, LatestIs DEF Latest
  <2> QED  BY <1>6, <2>1, <2>2, <2>3, ShownSteps
<1> QED  BY <1>2, <1>3, <1>4, <1>5, <1>6

\* Only a worker that takes an execute line moves the namespace on.
LEMMA GuestShown ==
    ASSUME TypeOK, Inv, AnswerInv, Quiet, GuestStep, UNCHANGED <<setting, hostVars>>
    PROVE  [Contract!Next]_(Contract!vars)
<1> USE HostAssumption DEF TypeOK, GuestTypeOK
<1>1. UNCHANGED <<ended, verdict, lock, pc, run>> /\ Active' = Active
  BY DEF hostVars, sessionVars, callVars, Active
<1>2. PICK w \in Workers : Solo(w) /\ (Takes(w) \/ Sends(w) \/ Carries(w))
  BY GuestFlow
<1>3. /\ job \in [Workers -> Nat] /\ job' \in [Workers -> Nat]
      /\ \A v \in Workers \ {w} : job'[v] = job[v]
  BY <1>2, GuestTyped DEF Solo
<1>4. CASE Sends(w) \/ Carries(w)
  <2>1. job' = job
    BY <1>3, <1>4 DEF Sends, Carries
  <2> QED  BY <1>1, <2>1, ShownSteps DEF Latest
<1>5. CASE Takes(w)
  <2>1. worker[w] = "idle" /\ job'[w] \in Asked(w)
    BY <1>5 DEF Takes
  <2>2. lock # None /\ ~Unasked(lock) /\ job'[w] = runs /\ job[w] < runs
    <3>1. Asked(w) # {} /\ worker[w] # "exited"
      BY <2>1
    <3>2. lock # None /\ ~Unasked(lock) /\ Asked(w) = {runs} /\ job[w] < runs
      BY <3>1 DEF AnswerInv, Unread
    <3> QED  BY <2>1, <3>2
  <2>3. Active = runs /\ runs # 0
    <3>1. lock \in Threads /\ run[lock] # 0 /\ run[lock] = runs
      BY <2>2 DEF Inv, LockInv, LockAt, AnswerInv, Numbered
    <3> QED  BY <2>2, <3>1 DEF Active, Unasked
  <2>4. \A v \in Workers \ {w} : job[v] = 0 /\ job'[v] = 0
    <3>1. \A v \in Workers \ {w} : worker[v] = "unborn"
      BY <2>1 DEF Inv, SandboxInv
    <3> QED  BY <1>3, <3>1 DEF Inv, SandboxInv
  <2>5. Latest = job[w]
    <3>1. OneNamespace
      BY DEF Inv, SandboxInv, OneNamespace
    <3>2. CASE job[w] = 0
      BY <2>4, <3>1, <3>2, LatestIs
    <3>3. CASE job[w] # 0
      BY <3>1, <3>3, LatestIs
    <3> QED  BY <3>2, <3>3
  <2>6. Latest' = runs
    <3>1. job'[w] # 0 /\ \A v \in Workers : job'[v] # 0 => v = w
      BY <2>2, <2>3, <2>4
    <3>2. (CHOOSE v \in Workers : job'[v] # 0) = w
      BY <3>1
    <3> QED  BY <2>2, <3>1, <3>2 DEF Latest
  <2> QED  BY <1>1, <2>2, <2>3, <2>5, <2>6, ShownSteps
<1> QED  BY <1>2, <1>4, <1>5

\* Seen from its callers the session, with its two locks, its sandbox and
\* whatever guest code leaves running there, is the atomic object of
\* CodeInterpreter: for any number of threads that call execute, start and
\* shutdown, of executions and of tool calls.  It is so in the Quiet settings,
\* where no shutdown overlaps another call, terminate works and no
\* BaseException leaves a call behind; nothing is mapped in the others.
THEOREM Implements == Spec => ImplementsContract
<1>1. Init => Contract!Init
  BY HostAssumption DEF Init, GuestInit, Contract!Init, Active, Latest
<1>2. TypeOK /\ Inv /\ (Quiet => AnswerInv) /\ [Next]_vars
         => [Contract!Next]_(Contract!vars)
  <2> SUFFICES ASSUME TypeOK, Inv, Quiet => AnswerInv, [Next]_vars
               PROVE  [Contract!Next]_(Contract!vars)
    OBVIOUS
  <2>1. setting' = setting
    BY DEF Next, vars
  <2>2. CASE ~Quiet
    <3>1. ~Quiet'
      BY <2>1, <2>2 DEF Quiet, Overlap, Interrupts, Faults
    <3> QED  BY <2>2, <3>1 DEF Contract!vars
  <2>3. CASE Quiet /\ UNCHANGED vars
    BY <2>1, <2>3, ShownSteps DEF vars, guestVars, hostVars, sessionVars, callVars, Active, Latest
  <2>4. ASSUME Quiet, NEW t \in Threads, Advance(t) \/ Choose(t)
        PROVE  [Contract!Next]_(Contract!vars)
    <3>1. Minor \/ CheckActive(t) \/ Receive(t)
      BY <2>4, StepMinor DEF Inv, LockInv
    <3> QED  BY <2>1, <2>4, <3>1, MinorShown, CheckShown, ReceiveShown
  <2>5. CASE Quiet /\ GuestStep /\ UNCHANGED <<setting, hostVars>>
    BY <2>5, GuestShown
  <2> QED  BY <2>1, <2>2, <2>3, <2>4, <2>5 DEF Next
<1> QED
  BY <1>1, <1>2, Invariant, AnswerHolds, PTL DEF Spec, ImplementsContract, Contract!Spec
=============================================================================
