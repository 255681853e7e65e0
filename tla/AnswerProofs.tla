---------------------------- MODULE AnswerProofs ----------------------------
(***************************************************************************)
(* What calls get: every result reaches the call whose code computed it    *)
(* (OwnAnswer), the session is the atomic object of CodeInterpreter        *)
(* (ImplementsContract), and a tool runs only while its caller waits       *)
(* (ToolAwaited), for every set of threads and workers and every bound,    *)
(* when no BaseException leaves a call behind.                             *)
(***************************************************************************)
EXTENDS SubprocessProofs

-----------------------------------------------------------------------------
(* Who has got past the check of _ended is alone. *)

LEMMA AloneTerminal ==
    ASSUME Shape, LockDiscipline, Alone, NEW t \in Threads, Terminal(t),
           pc[t] \in {"ready", "receive"}
    PROVE  Alone'
<1> USE DEF Shape, CallsTyped, Alone
<1>1. /\ lock = t /\ lock' = t /\ frame' = frame /\ ended' = TRUE
      /\ pc' = [pc EXCEPT ![t] = "detach"]
  BY DEF Terminal, callVars, Goto, LockDiscipline
<1>2. \A u \in Threads : u # t => pc'[u] = "idle"
  BY <1>1
<1>3. pc'[t] = "detach"
  BY <1>1
<1> QED  BY <1>1, <1>2, <1>3

LEMMA AloneThread ==
    ASSUME Starters = {}, Overlap = FALSE, Interrupts = FALSE, TypeOK, SessionInv, Alone,
           NEW t \in Threads, Advance(t) \/ Choose(t)
    PROVE  Alone'
<1>1. Shape /\ LockDiscipline /\ EndDiscipline
  BY ShapeTyped DEF SessionInv
<1> USE <1>1, HostAssumption
    DEF Shape, CallsTyped, LockDiscipline, EndDiscipline, Alone, callVars
<1>2. CASE CallExecute(t)
  BY <1>2 DEF CallExecute, Goto
<1>3. CASE CallBusy(t)
  BY <1>3 DEF CallBusy
<1>4. CASE RejectInput(t)
  BY <1>4 DEF RejectInput, Leave, Goto
<1>5. CASE CallStart(t)
  BY <1>5 DEF CallStart
<1>6. CASE CallShutdown(t)
  BY <1>6 DEF CallShutdown, MayStop, Goto
<1>7. CASE StartCheck(t)
  BY <1>7 DEF StartCheck, Leave, Goto
<1>8. CASE Attach(t)
  BY <1>8 DEF Attach, Started, Leave, Goto
<1>9. CASE Spawn(t)
  BY <1>9 DEF Spawn, Goto
<1>10. CASE SpawnFails(t)
  BY <1>10 DEF SpawnFails, Leave, Goto
<1>11. CASE Send(t)
  <2>1. CASE process = None /\ Terminal(t)
    BY <1>11, <2>1 DEF Send, Terminal, Goto
  <2>2. CASE process # None /\ Goto(t, "write") /\ UNCHANGED <<ended, lock, frame>>
    BY <1>11, <2>2 DEF Send, Goto
  <2> QED  BY <1>11, <2>1, <2>2 DEF Send
<1>12. CASE Write(t)
  BY <1>12 DEF Write, Terminal, Goto
<1>13. CASE Receive(t)
  <2>1. lock = t /\ pc[t] \in {"ready", "receive"}
    BY <1>13 DEF Receive
  <2>2. Terminal(t) \/ (UNCHANGED ended /\ Started(t)) \/ (UNCHANGED ended /\ Leave(t, "ok"))
           \/ (UNCHANGED <<ended, lock, frame>> /\ Goto(t, "tool"))
    BY <1>13 DEF Receive
  <2>3. CASE Terminal(t)
    BY <1>1, <1>13, <2>3, AloneTerminal DEF Receive
  <2>4. CASE UNCHANGED ended /\ Started(t)
    BY <2>1, <2>4 DEF Started, Leave, Goto
  <2>5. CASE UNCHANGED ended /\ Leave(t, "ok")
    BY <2>1, <2>5 DEF Leave, Goto
  <2>6. CASE UNCHANGED <<ended, lock, frame>> /\ Goto(t, "tool")
    BY <2>1, <2>6 DEF Goto
  <2> QED  BY <2>2, <2>3, <2>4, <2>5, <2>6
<1>14. CASE Timeout(t)
  BY <1>1, <1>14, AloneTerminal DEF Timeout
<1>15. CASE RunTool(t)
  BY <1>15 DEF RunTool, Goto
<1>16. CASE Await(t)
  BY <1>16 DEF Await, LeaveShutdown, Goto
<1>17. CASE Wait(t)
  BY <1>17 DEF Wait, Goto
<1>18. CASE LastKill(t)
  BY <1>18 DEF LastKill, Goto
<1>19. CASE Detach(t)
  BY <1>19 DEF Detach, Killed, Leave, LeaveShutdown, Goto
<1>20. CASE Reap(t)
  BY <1>20 DEF Reap, Goto
<1>21. CASE CloseStdin(t)
  BY <1>21 DEF CloseStdin, Escape, Leave, LeaveShutdown, Goto
<1>22. CASE CloseStdout(t)
  BY <1>22 DEF CloseStdout, Killed, Leave, LeaveShutdown, Goto
<1>23. CASE Interrupt(t)
  BY <1>23 DEF Interrupt
<1> QED
  BY <1>2, <1>3, <1>4, <1>5, <1>6, <1>7, <1>8, <1>9, <1>10, <1>11, <1>12, <1>13, <1>14, <1>15, <1>16, <1>17, <1>18, <1>19, <1>20, <1>21, <1>22, <1>23
  DEF Advance, Choose

-----------------------------------------------------------------------------
(* What a run leads to is in one place. *)

LEMMA Members == \A q \in Seq(Message) : q \in Seq(Line)
  BY MessageIsLine

\* Nothing moves in the queues, and whoever awaits an answer still does.
LEMMA KeepAnswer ==
    ASSUME OneAnswer, UNCHANGED <<stdin, stdout, responses, job>>,
           \A w \in Workers : worker'[w] = "busy" <=> worker[w] = "busy",
           Awaited \subseteq Awaited'
    PROVE  OneAnswer'
<1>1. Queued' = Queued /\ \A w \in Workers : /\ Asked(w)' = Asked(w)
                                             /\ Working(w)' = Working(w)
                                             /\ Answered(w)' = Answered(w)
  BY DEF Queued, Asked, Working, Answered
<1> QED  BY <1>1 DEF OneAnswer

\* A thread that is not asking, or leaves the queues alone and goes on asking.
LEMMA MoveAnswer ==
    ASSUME Shape, LockDiscipline, OneAnswer, NEW t \in Threads,
           UNCHANGED <<stdin, stdout, responses, job>>,
           \A w \in Workers : worker'[w] = "busy" <=> worker[w] = "busy",
           lock \in {t, None},
           lock = t /\ Asking(t) => lock' = t /\ run' = run /\ Asking(t)'
    PROVE  OneAnswer'
<1>1. Awaited \subseteq Awaited'
  BY HostAssumption DEF Awaited
<1> QED  BY <1>1, KeepAnswer

\* A step of one worker that does not multiply what a run leads to.
LEMMA GuestAnswer ==
    ASSUME OneAnswer, NEW w \in Workers, UNCHANGED responses, Awaited' = Awaited,
           \A v \in Workers \ {w} : /\ stdin'[v] = stdin[v] /\ stdout'[v] = stdout[v]
                                    /\ worker'[v] = worker[v] /\ job'[v] = job[v],
           Single(stdin'[w], "execute"), Single(stdout'[w], "execution_result"),
           Asked(w)' \cup Working(w)' \cup Answered(w)'
              \subseteq Asked(w) \cup Working(w) \cup Answered(w),
           Asked(w)' = {} \/ Working(w)' = {},
           Asked(w)' = {} \/ Answered(w)' = {},
           Working(w)' = {} \/ Answered(w)' = {}
    PROVE  OneAnswer'
<1>1. Queued' = Queued
  BY DEF Queued
<1>2. \A v \in Workers \ {w} : /\ Asked(v)' = Asked(v)
                               /\ Working(v)' = Working(v)
                               /\ Answered(v)' = Answered(v)
  BY DEF Asked, Working, Answered
<1>3. Single(responses', "execution_result") /\ Queued' \subseteq Awaited'
  BY <1>1 DEF OneAnswer
<1>4. ASSUME NEW v \in Workers
      PROVE  /\ Single(stdin'[v], "execute")
             /\ Single(stdout'[v], "execution_result")
             /\ Asked(v)' \cup Working(v)' \cup Answered(v)' \subseteq Awaited'
             /\ Asked(v)' = {} \/ Working(v)' = {}
             /\ Asked(v)' = {} \/ Answered(v)' = {}
             /\ Working(v)' = {} \/ Answered(v)' = {}
             /\ Queued' = {} \/ Asked(v)' \cup Working(v)' \cup Answered(v)' = {}
  <2>1. CASE v = w
    BY <1>1, <2>1 DEF OneAnswer
  <2>2. CASE v # w
    BY <1>1, <1>2, <2>2 DEF OneAnswer
  <2> QED  BY <2>1, <2>2
<1> QED  BY <1>3, <1>4 DEF OneAnswer

LEMMA LinesTyped ==
    ASSUME TypeOK, NEW w \in Workers
    PROVE  /\ stdin[w] \in Seq(Line) /\ stdout[w] \in Seq(Line) /\ responses \in Seq(Line)
           /\ stdin \in [Workers -> Seq(Message)] /\ stdout \in [Workers -> Seq(Message)]
           /\ worker \in [Workers -> {"unborn", "booting", "idle", "busy", "exited"}]
           /\ job \in [Workers -> Nat] /\ issued \in Nat
           /\ awaits \in [Workers -> [Guests -> Nat]]
           /\ child \in [Workers -> {"none", "running", "spoke", "gone"}]
  BY Members DEF TypeOK, GuestTypeOK, HostTypeOK

\* A line that is no result, said by a worker that is not at work afterwards.
LEMMA SayOther ==
    ASSUME TypeOK, OneAnswer, NEW w \in Workers, NEW type \in MsgTypes, NEW id \in Nat,
           type # "execution_result",
           Say(w, Msg(type, id)), UNCHANGED <<responses, job>>, Awaited' = Awaited,
           \/ stdin' = stdin
           \/ stdin[w] # <<>> /\ stdin' = [stdin EXCEPT ![w] = Tail(@)],
           worker' = worker \/ \E s \in {"idle", "exited"} : Become(w, s)
    PROVE  OneAnswer'
<1>1. Msg(type, id) \in Line /\ Msg(type, id).type = type
  BY DEF Msg, Line
<1>2. /\ Answered(w)' = Answered(w)
      /\ Single(stdout'[w], "execution_result")
  BY <1>1, LinesTyped, AppendOther DEF Say, Answered, OneAnswer
<1>3. Asked(w)' \subseteq Asked(w) /\ Single(stdin'[w], "execute")
  <2>1. stdin'[w] = stdin[w] \/ (stdin[w] # <<>> /\ stdin'[w] = Tail(stdin[w]))
    BY LinesTyped
  <2>2. Single(stdin[w], "execute") /\ stdin[w] \in Seq(Line)
    BY LinesTyped DEF OneAnswer
  <2>3. stdin[w] # <<>> => /\ Ids(Tail(stdin[w]), "execute") \subseteq Ids(stdin[w], "execute")
                           /\ Single(Tail(stdin[w]), "execute")
    BY <2>2, TailLines
  <2> QED  BY <2>1, <2>2, <2>3 DEF Asked
<1>4. Working(w)' \subseteq Working(w)
  BY LinesTyped DEF Working, Become
<1>5. \A v \in Workers \ {w} : /\ stdin'[v] = stdin[v] /\ stdout'[v] = stdout[v]
                               /\ worker'[v] = worker[v] /\ job'[v] = job[v]
  BY LinesTyped DEF Say, Become
<1>6. /\ Asked(w)' = {} \/ Working(w)' = {}
      /\ Asked(w)' = {} \/ Answered(w)' = {}
      /\ Working(w)' = {} \/ Answered(w)' = {}
  BY <1>2, <1>3, <1>4 DEF OneAnswer
<1> QED  BY <1>2, <1>3, <1>4, <1>5, <1>6, GuestAnswer

\* A line read, or a worker that stops.
LEMMA SayNothing ==
    ASSUME TypeOK, OneAnswer, NEW w \in Workers,
           UNCHANGED <<responses, job, stdout>>, Awaited' = Awaited,
           \/ stdin' = stdin
           \/ stdin[w] # <<>> /\ stdin' = [stdin EXCEPT ![w] = Tail(@)],
           worker' = worker \/ \E s \in {"idle", "exited"} : Become(w, s)
    PROVE  OneAnswer'
<1>2. /\ Answered(w)' = Answered(w)
      /\ Single(stdout'[w], "execution_result")
  BY DEF Answered, OneAnswer
<1>3. Asked(w)' \subseteq Asked(w) /\ Single(stdin'[w], "execute")
  <2>1. stdin'[w] = stdin[w] \/ (stdin[w] # <<>> /\ stdin'[w] = Tail(stdin[w]))
    BY LinesTyped
  <2>2. Single(stdin[w], "execute") /\ stdin[w] \in Seq(Line)
    BY LinesTyped DEF OneAnswer
  <2>3. stdin[w] # <<>> => /\ Ids(Tail(stdin[w]), "execute") \subseteq Ids(stdin[w], "execute")
                           /\ Single(Tail(stdin[w]), "execute")
    BY <2>2, TailLines
  <2> QED  BY <2>1, <2>2, <2>3 DEF Asked
<1>4. Working(w)' \subseteq Working(w)
  BY LinesTyped DEF Working, Become
<1>5. \A v \in Workers \ {w} : /\ stdin'[v] = stdin[v] /\ stdout'[v] = stdout[v]
                               /\ worker'[v] = worker[v] /\ job'[v] = job[v]
  BY LinesTyped DEF Become
<1>6. /\ Asked(w)' = {} \/ Working(w)' = {}
      /\ Asked(w)' = {} \/ Answered(w)' = {}
      /\ Working(w)' = {} \/ Answered(w)' = {}
  BY <1>2, <1>3, <1>4 DEF OneAnswer
<1> QED  BY <1>2, <1>3, <1>4, <1>5, <1>6, GuestAnswer

LEMMA AnswerGuest ==
    ASSUME TypeOK, OneAnswer, GuestStep, UNCHANGED hostVars
    PROVE  OneAnswer'
<1>1. PICK w \in Workers : Protocol(w) \/ Whim(w)
  BY DEF GuestStep
<1>2. UNCHANGED responses /\ Awaited' = Awaited
  BY DEF hostVars, Awaited, Asking
<1>3. CASE Ready(w)
  BY <1>2, <1>3, SayOther DEF Ready, MsgTypes
<1>4. CASE TakeExecute(w)
  <2>1. /\ Head(stdin[w]).id \in Asked(w)
        /\ Asked(w)' = {} /\ Single(stdin'[w], "execute")
    <3>1. /\ stdin[w] # <<>> /\ stdin'[w] = Tail(stdin[w])
          /\ Head(stdin[w]).type = "execute"
      BY <1>4, LinesTyped DEF TakeExecute, Hear
    <3>2. Single(stdin[w], "execute") /\ stdin[w] \in Seq(Line)
      BY LinesTyped DEF OneAnswer
    <3>3. /\ Head(stdin[w]).id \in Ids(stdin[w], "execute")
          /\ Ids(Tail(stdin[w]), "execute") = {}
          /\ Single(Tail(stdin[w]), "execute")
      BY <3>1, <3>2, TailLines
    <3> QED  BY <3>1, <3>3 DEF Asked
  <2>2. Working(w)' = {Head(stdin[w]).id} /\ Working(w) = {}
    BY <1>4, LinesTyped DEF TakeExecute, Become, Working
  <2>3. Answered(w)' = Answered(w) /\ Answered(w) = {} /\ Single(stdout'[w], "execution_result")
    BY <1>4, <2>1 DEF TakeExecute, Answered, OneAnswer
  <2>4. \A v \in Workers \ {w} : /\ stdin'[v] = stdin[v] /\ stdout'[v] = stdout[v]
                                 /\ worker'[v] = worker[v] /\ job'[v] = job[v]
    BY <1>4, LinesTyped DEF TakeExecute, Hear, Become
  <2> QED  BY <1>2, <2>1, <2>2, <2>3, <2>4, GuestAnswer
<1>5. CASE RejectRequest(w)
  BY <1>2, <1>5, SayOther DEF RejectRequest, Hear, MsgTypes
<1>6. CASE TakeShutdown(w)
  BY <1>2, <1>6, SayNothing DEF TakeShutdown, Hear
<1>7. CASE \E g \in Guests : TakeToolResponse(w, g)
  BY <1>2, <1>7, SayNothing DEF TakeToolResponse, Hear
<1>8. CASE Finish(w)
  <2> DEFINE m == Msg("execution_result", job[w])
  <2>1. m \in Line /\ m.type = "execution_result" /\ m.id = job[w]
    BY LinesTyped DEF Msg, Line, MsgTypes
  <2>2. Working(w) = {job[w]} /\ Working(w)' = {}
    BY <1>8, LinesTyped DEF Finish, Become, Working
  <2>3. Answered(w) = {} /\ Asked(w) = {} /\ Asked(w)' = {} /\ Single(stdin'[w], "execute")
    BY <1>8, <2>2 DEF Finish, Asked, OneAnswer
  <2>4. stdout'[w] = Append(stdout[w], m)
    BY <1>8, LinesTyped DEF Finish, Say
  <2>5. Answered(w)' = {job[w]} /\ Single(stdout'[w], "execution_result")
    <3> HIDE DEF m
    <3>1. Ids(stdout[w], m.type) = {} /\ stdout[w] \in Seq(Line)
      BY <2>1, <2>3, LinesTyped DEF Answered
    <3>2. Ids(Append(stdout[w], m), m.type) = {m.id} /\ Single(Append(stdout[w], m), m.type)
      BY <2>1, <3>1, AppendFirst
    <3> QED  BY <2>1, <2>4, <3>2 DEF Answered
  <2>6. \A v \in Workers \ {w} : /\ stdin'[v] = stdin[v] /\ stdout'[v] = stdout[v]
                                 /\ worker'[v] = worker[v] /\ job'[v] = job[v]
    BY <1>8, LinesTyped DEF Finish, Say, Become
  <2> QED  BY <1>2, <2>2, <2>3, <2>5, <2>6, GuestAnswer
<1>9. CASE FinishBadly(w)
  BY <1>2, <1>9, SayOther DEF FinishBadly, MsgTypes
<1>10. CASE Die(w)
  BY <1>2, <1>10, SayNothing DEF Die
<1>11. CASE \E g \in Guests : CallTool(w, g)
  <2>1. issued' \in Nat /\ Say(w, Msg("tool_request", issued')) /\ UNCHANGED <<job, stdin, worker>>
    BY <1>11, LinesTyped DEF CallTool
  <2> QED  BY <1>2, <2>1, SayOther DEF MsgTypes
<1>12. CASE StartChild(w) \/ ChildExits(w)
  BY <1>2, <1>12, SayNothing DEF StartChild, ChildExits
<1>13. CASE ChildSpeaks(w)
  BY <1>2, <1>13, SayOther DEF ChildSpeaks, MsgTypes
<1> QED
  BY <1>1, <1>3, <1>4, <1>5, <1>6, <1>7, <1>8, <1>9, <1>10, <1>11, <1>12, <1>13
  DEF Protocol, Whim

\* The one worker that was ever started: whatever is under way is under way there.
LEMMA OneSource ==
    ASSUME TypeOK, WorkerDiscipline, Silence, NEW w \in Workers, stdout[w] # <<>>
    PROVE  \A v \in Workers \ {w} : Asked(v) = {} /\ Working(v) = {} /\ Answered(v) = {}
<1> SUFFICES ASSUME NEW v \in Workers \ {w}
             PROVE  Asked(v) = {} /\ Working(v) = {} /\ Answered(v) = {}
  OBVIOUS
<1>1. worker[w] # "unborn"
  BY DEF Silence
<1>2. worker[v] = "unborn"
  BY <1>1 DEF WorkerDiscipline
<1>3. stdin[v] = <<>> /\ stdout[v] = <<>>
  BY <1>2 DEF Silence
<1> QED  BY <1>2, <1>3, EmptyQueue DEF Asked, Working, Answered

LEMMA AnswerReader ==
    ASSUME TypeOK, WorkerDiscipline, Silence, OneAnswer, NEW w \in Workers, Read(w)
    PROVE  OneAnswer'
<1> DEFINE R == "execution_result"
<1>1. Awaited' = Awaited /\ UNCHANGED <<stdin, worker, job>>
  BY DEF Read, ReaderLoop, ReaderLine, ReaderEnd, guestVars, callVars, Awaited, Asking
<1>2. \A v \in Workers : Asked(v)' = Asked(v) /\ Working(v)' = Working(v)
  BY <1>1 DEF Asked, Working
<1>3. CASE ReaderLoop(w)
  BY <1>1, <1>3, KeepAnswer DEF ReaderLoop, guestVars
<1>4. CASE ReaderEnd(w)
  <2> DEFINE m == [type |-> "eof", id |-> 0]
  <2>1. m \in Line /\ m.type # R /\ responses' = Append(responses, m) /\ UNCHANGED stdout
    BY <1>4 DEF ReaderEnd, guestVars, Line
  <2>2. Queued' = Queued /\ Single(responses', R)
    <3> HIDE DEF m
    <3> QED  BY <2>1, LinesTyped, AppendOther DEF Queued, OneAnswer
  <2>3. \A v \in Workers : Answered(v)' = Answered(v)
    BY <2>1 DEF Answered
  <2> QED  BY <1>1, <1>2, <2>1, <2>2, <2>3 DEF OneAnswer
<1>5. CASE ReaderLine(w)
  <2> DEFINE m == Head(stdout[w])
  <2>1. /\ stdout[w] # <<>> /\ stdout[w] \in Seq(Line) /\ responses \in Seq(Line)
        /\ m \in Line /\ responses' = Append(responses, m)
        /\ stdout'[w] = Tail(stdout[w])
        /\ \A v \in Workers \ {w} : stdout'[v] = stdout[v]
    BY <1>5, LinesTyped, QueueTypes DEF ReaderLine
  <2>2. \A v \in Workers \ {w} : Answered(v)' = Answered(v)
    BY <2>1 DEF Answered
  <2>3. Single(stdout[w], R) /\ Single(responses, R)
    BY DEF OneAnswer
  <2>4. /\ Answered(w)' \subseteq Answered(w)
        /\ \A v \in Workers : Single(stdout'[v], R)
    BY <2>1, <2>3, TailLines DEF Answered, OneAnswer
  <2>5. CASE m.type # R
    <3>1. Queued' = Queued /\ Single(responses', R)
      <4> HIDE DEF m
      <4> QED  BY <2>1, <2>3, <2>5, AppendOther DEF Queued
    <3>2. \A v \in Workers : Answered(v)' \subseteq Answered(v)
      BY <2>2, <2>4
    <3> QED  BY <1>1, <1>2, <2>4, <3>1, <3>2 DEF OneAnswer
  <2>6. CASE m.type = R
    <3>1. m.id \in Answered(w) /\ Answered(w)' = {}
      BY <2>1, <2>3, <2>6, TailLines DEF Answered
    <3>2. Queued = {} /\ Asked(w) = {} /\ Working(w) = {} /\ m.id \in Awaited
      BY <3>1 DEF OneAnswer
    <3>3. Queued' = {m.id} /\ Single(responses', R)
      <4> HIDE DEF m
      <4>1. Ids(responses, m.type) = {}
        BY <2>6, <3>2 DEF Queued
      <4>2. Ids(Append(responses, m), m.type) = {m.id} /\ Single(Append(responses, m), m.type)
        BY <2>1, <4>1, AppendFirst
      <4> QED  BY <2>1, <2>6, <4>2 DEF Queued
    <3>4. \A v \in Workers : Asked(v)' = {} /\ Working(v)' = {} /\ Answered(v)' = {}
      BY <1>2, <2>1, <2>2, <3>1, <3>2, OneSource
    <3> QED  BY <1>1, <2>4, <3>2, <3>3, <3>4 DEF OneAnswer
  <2> QED  BY <2>5, <2>6
<1> QED  BY <1>3, <1>4, <1>5 DEF Read

-----------------------------------------------------------------------------
(* Host threads. *)

\* The line of a thread that is about to write, in an open session.
LEMMA AnswerWrite ==
    ASSUME TypeOK, SessionInv, OneAnswer, NEW t \in Threads, Write(t), ~ended, ~ended'
    PROVE  OneAnswer'
<1>1. Shape /\ LockDiscipline /\ EndDiscipline
  BY ShapeTyped DEF SessionInv
<1> USE <1>1, HostAssumption DEF Shape, CallsTyped
<1> DEFINE m == Outgoing(t)
<1>2. /\ pc[t] = "write" /\ handle[t] \in Workers /\ frame[t] = "call" /\ lock = t
  BY DEF Write, LockDiscipline, EndDiscipline
<1> PICK w \in Workers : w = handle[t]
  BY <1>2
<1>3. /\ stdin' = [stdin EXCEPT ![w] = Append(@, m)]
      /\ pc' = [pc EXCEPT ![t] = "receive"]
      /\ UNCHANGED <<worker, job, stdout, responses, run, lock>>
  BY <1>2 DEF Write, Terminal, Goto
<1>4. /\ lock' = t /\ Awaited' = {run[t]}
  BY <1>2, <1>3 DEF Awaited, Asking
<1>5. Queued' = Queued /\ \A v \in Workers : /\ Working(v)' = Working(v)
                                             /\ Answered(v)' = Answered(v)
  BY <1>3 DEF Queued, Working, Answered
<1>6. /\ stdin'[w] = Append(stdin[w], m) /\ stdin[w] \in Seq(Line)
      /\ \A v \in Workers \ {w} : stdin'[v] = stdin[v]
  BY <1>2, <1>3, LinesTyped
<1>7. \A v \in Workers \ {w} : Asked(v)' = Asked(v)
  BY <1>6 DEF Asked
<1>8. CASE tool[t] = 0
  <2>1. m = Msg("execute", run[t])
    BY <1>2, <1>8 DEF Outgoing
  <2>2. m \in Line /\ m.type = "execute" /\ m.id = run[t]
    BY <2>1 DEF Msg, Line, MsgTypes
  <2>3. Awaited = {}
    BY <1>2, <1>8 DEF Awaited, Asking
  <2>4. Queued = {} /\ \A v \in Workers : Asked(v) = {} /\ Working(v) = {} /\ Answered(v) = {}
    BY <2>3 DEF OneAnswer
  <2>5. Asked(w)' = {run[t]} /\ Single(stdin'[w], "execute")
    <3>1. Ids(stdin[w], m.type) = {}
      BY <1>2, <2>2, <2>4 DEF Asked
    <3>2. Ids(Append(stdin[w], m), m.type) = {m.id} /\ Single(Append(stdin[w], m), m.type)
      <4> HIDE DEF m
      <4> QED  BY <1>6, <2>2, <3>1, AppendFirst
    <3> QED  BY <1>6, <2>2, <3>2 DEF Asked
  <2>6. \A v \in Workers : /\ Single(stdin'[v], "execute")
                           /\ Asked(v)' \subseteq {run[t]}
                           /\ Working(v)' = {} /\ Answered(v)' = {}
    <3>1. \A v \in Workers \ {w} : Single(stdin'[v], "execute") /\ Asked(v)' = {}
      BY <1>6, <1>7, <2>4 DEF OneAnswer
    <3> QED  BY <1>5, <2>4, <2>5, <3>1
  <2> QED  BY <1>3, <1>4, <1>5, <2>4, <2>6 DEF OneAnswer
<1>9. CASE tool[t] # 0
  <2>1. m = Msg("tool_response", tool[t])
    BY <1>2, <1>9 DEF Outgoing
  <2>2. m \in Line /\ m.type # "execute"
    BY <2>1 DEF Msg, Line, MsgTypes
  <2>3. Awaited = {run[t]}
    BY <1>2, <1>9 DEF Awaited, Asking
  <2>4. Asked(w)' = Asked(w) /\ Single(stdin'[w], "execute")
    <3>1. Single(stdin[w], "execute")
      BY <1>2 DEF OneAnswer
    <3> HIDE DEF m
    <3> QED  BY <1>6, <2>2, <3>1, AppendOther DEF Asked
  <2>5. \A v \in Workers : Asked(v)' = Asked(v) /\ Single(stdin'[v], "execute")
    BY <1>6, <1>7, <2>4 DEF OneAnswer
  <2> QED  BY <1>3, <1>4, <1>5, <2>3, <2>5 DEF OneAnswer
<1> QED  BY <1>2, <1>8, <1>9

\* Taking the head of the queue, in an open session.
LEMMA AnswerReceive ==
    ASSUME TypeOK, SessionInv, OneAnswer, OwnAnswer, NEW t \in Threads, Receive(t),
           ~ended, ~ended'
    PROVE  OneAnswer' /\ OwnAnswer'
<1>1. Shape /\ LockDiscipline /\ SharedTyped
  BY ShapeTyped, TypeParts DEF SessionInv
<1> USE <1>1, HostAssumption DEF Shape, CallsTyped, SharedTyped
<1> DEFINE m == Head(responses)
           R == "execution_result"
<1>2. /\ pc[t] \in {"ready", "receive"} /\ lock = t /\ run[t] \in 1..MaxRuns
      /\ responses # <<>> /\ responses' = Tail(responses)
      /\ UNCHANGED <<stdin, stdout, worker, job>>
  BY DEF Receive, LockDiscipline, guestVars
<1>3. /\ Single(responses, R) /\ Single(responses', R)
      /\ Queued' \subseteq Queued
  BY <1>2, TailLines DEF Queued, OneAnswer
<1>4. \A w \in Workers : /\ Asked(w)' = Asked(w) /\ Working(w)' = Working(w)
                         /\ Answered(w)' = Answered(w)
  BY <1>2 DEF Asked, Working, Answered
<1>5. \/ pc[t] = "ready" /\ Started(t) /\ UNCHANGED verdict
      \/ pc[t] = "receive" /\ Goto(t, "tool") /\ UNCHANGED <<lock, run, verdict>>
      \/ /\ pc[t] = "receive" /\ m.type = R /\ Leave(t, "ok")
         /\ verdict' = [verdict EXCEPT ![run[t]] = m.id]
  BY DEF Receive, Accepts, Terminal
<1>6. CASE pc[t] = "ready" /\ Started(t) /\ UNCHANGED verdict
  <2>1. Awaited = {}
    BY <1>2, <1>6 DEF Awaited, Asking
  <2>2. OneAnswer'
    BY <1>2, <1>3, <1>4, <2>1 DEF OneAnswer
  <2> QED  BY <1>6, <2>2 DEF OwnAnswer
<1>7. CASE pc[t] = "receive" /\ Goto(t, "tool") /\ UNCHANGED <<lock, run, verdict>>
  <2>1. Awaited' = Awaited
    BY <1>2, <1>7 DEF Awaited, Asking, Goto
  <2>2. OneAnswer'
    BY <1>2, <1>3, <1>4, <2>1 DEF OneAnswer
  <2> QED  BY <1>7, <2>2 DEF OwnAnswer
<1>8. CASE /\ pc[t] = "receive" /\ m.type = R /\ Leave(t, "ok")
           /\ verdict' = [verdict EXCEPT ![run[t]] = m.id]
  <2>1. m.id \in Queued /\ Queued' = {}
    BY <1>2, <1>3, <1>8, TailLines DEF Queued
  <2>2. m.id = run[t]
    BY <1>2, <1>8, <2>1 DEF OneAnswer, Awaited, Asking
  <2>3. OwnAnswer'
    BY <1>2, <1>8, <2>2 DEF OwnAnswer
  <2>4. \A w \in Workers : Asked(w)' = {} /\ Working(w)' = {} /\ Answered(w)' = {}
    <3>1. \A w \in Workers : Asked(w) \cup Working(w) \cup Answered(w) = {}
      BY <2>1 DEF OneAnswer
    <3> QED  BY <1>4, <3>1
  <2>5. OneAnswer'
    BY <1>2, <1>3, <2>1, <2>4 DEF OneAnswer
  <2> QED  BY <2>3, <2>5
<1> QED  BY <1>5, <1>6, <1>7, <1>8

\* The session has ended before the steps of shutdown and _kill, and none but
\* _terminal and shutdown ends it.
LEMMA OpenSteps ==
    ASSUME SessionInv, Starters = {}, Interrupts = FALSE,
           NEW t \in Threads, Advance(t) \/ Choose(t), ~ended'
    PROVE  /\ ~ended
           /\ \/ CallExecute(t) \/ CallBusy(t) \/ RejectInput(t)
              \/ StartCheck(t) \/ Attach(t) \/ Spawn(t) \/ SpawnFails(t)
              \/ Send(t) \/ Write(t) \/ Receive(t) \/ RunTool(t)
<1>1. LockDiscipline /\ EndDiscipline
  BY DEF SessionInv
<1>2. CASE CallExecute(t) \/ CallBusy(t) \/ RejectInput(t)
  BY <1>2 DEF CallExecute, CallBusy, RejectInput
<1>3. CASE StartCheck(t) \/ Attach(t) \/ Spawn(t) \/ SpawnFails(t)
  BY <1>3 DEF StartCheck, Attach, Spawn, SpawnFails
<1>4. CASE Send(t) \/ Write(t) \/ Receive(t) \/ RunTool(t)
  BY <1>4 DEF Send, Write, Receive, RunTool, Terminal, callVars
<1>5. ~(CallStart(t) \/ CallShutdown(t) \/ Interrupt(t) \/ Timeout(t))
  BY DEF CallStart, CallShutdown, Interrupt, Timeout, Terminal
<1>6. ~(Await(t) \/ Wait(t) \/ LastKill(t))
  BY <1>1 DEF Await, Wait, LastKill, LockDiscipline, EndDiscipline
<1>7. ~(Detach(t) \/ Reap(t) \/ CloseStdin(t) \/ CloseStdout(t))
  BY <1>1 DEF Detach, Reap, CloseStdin, CloseStdout, EndDiscipline
<1> QED  BY <1>2, <1>3, <1>4, <1>5, <1>6, <1>7 DEF Advance, Choose

LEMMA AnswerThread ==
    ASSUME Starters = {}, Interrupts = FALSE, TypeOK, SessionInv, Silence,
           ~ended => OneAnswer, OwnAnswer,
           NEW t \in Threads, Advance(t) \/ Choose(t), ~ended'
    PROVE  OneAnswer' /\ OwnAnswer'
<1>1. Shape /\ LockDiscipline /\ EndDiscipline
  BY ShapeTyped DEF SessionInv
<1>2. ~ended /\ OneAnswer
  BY OpenSteps
<1>3. \A u \in Threads : frame[u] = "call" /\ (pc[u] # "idle" => lock = u)
  BY <1>1, <1>2 DEF LockDiscipline, EndDiscipline
<1> DEFINE Quiet == /\ UNCHANGED <<stdin, stdout, responses, job, verdict>>
                    /\ \A w \in Workers : worker'[w] = "busy" <=> worker[w] = "busy"
                    /\ lock \in {t, None}
                    /\ lock = t /\ Asking(t) => lock' = t /\ run' = run /\ Asking(t)'
<1>4. Quiet => OneAnswer' /\ OwnAnswer'
  BY <1>1, <1>2, MoveAnswer DEF OwnAnswer
<1> USE HostAssumption DEF Shape, CallsTyped
<1>5. CASE CallExecute(t)
  <2>1. Quiet
    BY <1>1, <1>2, <1>3, <1>5 DEF CallExecute, Asking, Goto, guestVars
  <2> QED  BY <1>4, <2>1
<1>6. CASE RejectInput(t)
  <2>1. Quiet
    BY <1>1, <1>2, <1>3, <1>6 DEF RejectInput, Asking, Leave, Goto, guestVars
  <2> QED  BY <1>4, <2>1
<1>7. CASE StartCheck(t)
  <2>1. Quiet
    BY <1>1, <1>2, <1>3, <1>7 DEF StartCheck, Asking, Leave, Goto, guestVars
  <2> QED  BY <1>4, <2>1
<1>8. CASE Attach(t)
  <2>1. Quiet
    BY <1>1, <1>2, <1>3, <1>8 DEF Attach, Asking, Started, Leave, Goto, guestVars
  <2> QED  BY <1>4, <2>1
<1>9. CASE Spawn(t)
  <2>1. Quiet
    BY <1>1, <1>2, <1>3, <1>9 DEF Spawn, Asking, Become, Goto, callVars
  <2> QED  BY <1>4, <2>1
<1>10. CASE SpawnFails(t)
  <2>1. Quiet
    BY <1>1, <1>2, <1>3, <1>10 DEF SpawnFails, Asking, Leave, Goto, guestVars
  <2> QED  BY <1>4, <2>1
<1>11. CASE Send(t)
  <2>1. Quiet
    BY <1>1, <1>2, <1>3, <1>11 DEF Send, Asking, Terminal, Goto, guestVars, callVars
  <2> QED  BY <1>4, <2>1
<1>12. CASE RunTool(t)
  <2>1. Quiet
    BY <1>1, <1>2, <1>3, <1>12 DEF RunTool, Asking, Goto, guestVars, callVars, Silence
  <2> QED  BY <1>4, <2>1
<1>13. CASE CallBusy(t)
  <2>1. Awaited' = Awaited
    BY <1>13 DEF CallBusy, Awaited, Asking
  <2> QED  BY <1>2, <1>13, <2>1, KeepAnswer DEF CallBusy, OwnAnswer, guestVars
<1>14. CASE Write(t)
  <2>1. UNCHANGED verdict
    BY <1>14 DEF Write, Terminal, callVars
  <2> QED  BY <1>2, <1>14, <2>1, AnswerWrite DEF OwnAnswer
<1>15. CASE Receive(t)
  BY <1>2, <1>15, AnswerReceive
<1> QED  BY <1>5, <1>6, <1>7, <1>8, <1>9, <1>10, <1>11, <1>12, <1>13, <1>14, <1>15, OpenSteps

-----------------------------------------------------------------------------
(* Workers that are not born, and the numbers of tool requests. *)

LEMMA RequestSaid ==
    ASSUME TypeOK, Silence, NEW w \in Workers, NEW type \in MsgTypes, NEW id \in Nat,
           type = "tool_request" => id # 0, Say(w, Msg(type, id))
    PROVE  \A v \in Workers : 0 \notin Ids(stdout'[v], "tool_request")
<1>1. \A v \in Workers \ {w} : stdout'[v] = stdout[v]
  BY LinesTyped DEF Say
<1>2. stdout'[w] = Append(stdout[w], Msg(type, id)) /\ stdout[w] \in Seq(Line)
  BY LinesTyped DEF Say
<1>3. Msg(type, id) \in Line /\ Msg(type, id).type = type /\ Msg(type, id).id = id
  BY DEF Msg, Line
<1>4. 0 \notin Ids(stdout'[w], "tool_request")
  <2> SUFFICES ASSUME 0 \in Ids(stdout'[w], "tool_request") PROVE FALSE
    OBVIOUS
  <2>1. PICK i \in 1..Len(stdout'[w]) : stdout'[w][i].type = "tool_request" /\ stdout'[w][i].id = 0
    BY IdsPick
  <2>2. i \in 1..Len(stdout[w]) /\ stdout'[w][i] = stdout[w][i]
    BY <1>2, <1>3, <2>1
  <2> QED  BY <2>1, <2>2, IdsMember DEF Silence
<1> QED  BY <1>1, <1>4 DEF Silence

LEMMA SilenceGuest ==
    ASSUME TypeOK, Silence, GuestStep, UNCHANGED hostVars
    PROVE  Silence'
<1>1. PICK w \in Workers : Protocol(w) \/ Whim(w)
  BY DEF GuestStep
<1>2. worker[w] # "unborn"
  BY <1>1 DEF Protocol, Whim, Ready, TakeExecute, RejectRequest, TakeShutdown,
       TakeToolResponse, Finish, FinishBadly, Die, CallTool, Runs, StartChild,
       ChildSpeaks, ChildExits, HeldOpen, Alive, Silence
<1>3. \A v \in Workers \ {w} : /\ stdin'[v] = stdin[v] /\ stdout'[v] = stdout[v]
                               /\ child'[v] = child[v] /\ worker'[v] = worker[v]
  BY <1>1, LinesTyped
  DEF Protocol, Whim, Ready, TakeExecute, RejectRequest, TakeShutdown,
      TakeToolResponse, Finish, FinishBadly, Die, CallTool, StartChild,
      ChildSpeaks, ChildExits, Hear, Say, Become
<1>4. worker'[w] # "unborn"
  BY <1>2, GuestEffect
<1>5. \A v \in Workers : 0 \notin Ids(stdout'[v], "tool_request")
  <2>1. CASE Ready(w)
    BY <2>1, RequestSaid DEF Ready, MsgTypes
  <2>2. CASE RejectRequest(w)
    BY <2>2, RequestSaid DEF RejectRequest, MsgTypes
  <2>3. CASE Finish(w)
    BY <2>3, RequestSaid, LinesTyped DEF Finish, MsgTypes
  <2>4. CASE FinishBadly(w)
    BY <2>4, RequestSaid DEF FinishBadly, MsgTypes
  <2>5. CASE \E g \in Guests : CallTool(w, g)
    <3>1. issued' \in Nat \ {0} /\ Say(w, Msg("tool_request", issued'))
      BY <2>5, LinesTyped DEF CallTool
    <3> QED  BY <3>1, RequestSaid DEF MsgTypes
  <2>6. CASE ChildSpeaks(w)
    BY <2>6, RequestSaid DEF ChildSpeaks, MsgTypes
  <2>7. CASE UNCHANGED stdout
    BY <2>7 DEF Silence
  <2> QED
    BY <1>1, <2>1, <2>2, <2>3, <2>4, <2>5, <2>6, <2>7
    DEF Protocol, Whim, TakeExecute, TakeShutdown, TakeToolResponse, Die, StartChild, ChildExits
<1> QED  BY <1>2, <1>3, <1>4, <1>5 DEF Silence, hostVars

LEMMA SilenceReader ==
    ASSUME TypeOK, Silence, NEW w \in Workers, Read(w)
    PROVE  Silence'
<1> DEFINE Q == "tool_request"
<1>1. UNCHANGED <<stdin, child, worker, pc, tool, frame, lock>>
  BY DEF Read, ReaderLoop, ReaderLine, ReaderEnd, guestVars, callVars
<1>2. CASE ReaderLoop(w)
  BY <1>1, <1>2 DEF ReaderLoop, guestVars, Silence
<1>3. CASE ReaderEnd(w)
  <2> DEFINE m == [type |-> "eof", id |-> 0]
  <2>1. m \in Line /\ m.type # Q /\ responses' = Append(responses, m) /\ UNCHANGED stdout
    BY <1>3 DEF ReaderEnd, guestVars, Line
  <2>2. Ids(responses', Q) = Ids(responses, Q)
    <3> HIDE DEF m
    <3> QED  BY <2>1, LinesTyped, AppendOther
  <2> QED  BY <1>1, <2>1, <2>2 DEF Silence
<1>4. CASE ReaderLine(w)
  <2> DEFINE m == Head(stdout[w])
  <2>1. /\ stdout[w] # <<>> /\ stdout[w] \in Seq(Line) /\ responses \in Seq(Line)
        /\ m \in Line /\ responses' = Append(responses, m)
        /\ stdout'[w] = Tail(stdout[w])
        /\ \A v \in Workers \ {w} : stdout'[v] = stdout[v]
    BY <1>4, LinesTyped, QueueTypes DEF ReaderLine
  <2>2. Ids(stdout'[w], Q) \subseteq Ids(stdout[w], Q)
    BY <2>1, TailLines
  <2>3. m.type = Q => m.id # 0
    <3>1. m.type = Q => m.id \in Ids(stdout[w], Q)
      BY <2>1, TailLines
    <3> QED  BY <3>1 DEF Silence
  <2>4. 0 \notin Ids(responses', Q)
    <3> SUFFICES ASSUME 0 \in Ids(responses', Q) PROVE FALSE
      OBVIOUS
    <3>1. PICK i \in 1..Len(responses') : responses'[i].type = Q /\ responses'[i].id = 0
      BY IdsPick
    <3>2. responses'[i] = m \/ (i \in 1..Len(responses) /\ responses'[i] = responses[i])
      <4> HIDE DEF m
      <4> QED  BY <2>1, <3>1
    <3>3. responses'[i] # m
      BY <2>3, <3>1
    <3> QED  BY <3>1, <3>2, <3>3, IdsMember DEF Silence
  <2>5. \A v \in Workers : worker[v] = "unborn" => stdout'[v] = <<>>
    BY <2>1 DEF Silence
  <2>6. \A v \in Workers : 0 \notin Ids(stdout'[v], Q)
    BY <2>1, <2>2 DEF Silence
  <2> QED  BY <1>1, <2>4, <2>5, <2>6 DEF Silence
<1> QED  BY <1>2, <1>3, <1>4 DEF Read

LEMMA SilenceThread ==
    ASSUME Starters = {}, Interrupts = FALSE, TypeOK, SessionInv, Silence,
           NEW t \in Threads, Advance(t) \/ Choose(t)
    PROVE  Silence'
<1>1. Shape /\ LockDiscipline /\ EndDiscipline /\ WorkerDiscipline
  BY ShapeTyped DEF SessionInv
<1> USE <1>1, HostAssumption DEF Shape, CallsTyped, LockDiscipline
<1> DEFINE Mute == /\ UNCHANGED <<stdin, stdout, child, responses>>
                   /\ \A w \in Workers : worker'[w] = "unborn" => worker[w] = "unborn"
           Serves == \A u \in Threads :
                        pc[u] = "tool" \/ (frame[u] # "call" /\ lock = u) => tool[u] # 0
<1>2. Serves
  BY DEF Silence
<1>3. Mute /\ Serves' => Silence'
  BY DEF Silence
<1>4. CASE CallExecute(t)
  BY <1>2, <1>3, <1>4 DEF CallExecute, Goto, guestVars
<1>5. CASE CallBusy(t)
  BY <1>2, <1>3, <1>5 DEF CallBusy, guestVars
<1>6. CASE RejectInput(t)
  BY <1>2, <1>3, <1>6 DEF RejectInput, Leave, Goto, guestVars
<1>7. CASE CallShutdown(t)
  BY <1>2, <1>3, <1>7 DEF CallShutdown, MayStop, Goto, guestVars
<1>8. CASE StartCheck(t)
  BY <1>2, <1>3, <1>8 DEF StartCheck, Leave, Goto, guestVars
<1>9. CASE Attach(t)
  BY <1>2, <1>3, <1>9 DEF Attach, Started, Leave, Goto, guestVars
<1>10. CASE Spawn(t)
  BY <1>2, <1>3, <1>10 DEF Spawn, Become, Goto, callVars
<1>11. CASE SpawnFails(t)
  BY <1>2, <1>3, <1>11 DEF SpawnFails, Leave, Goto, guestVars
<1>12. CASE Send(t)
  BY <1>2, <1>3, <1>12 DEF Send, Terminal, Goto, guestVars, callVars
<1>13. CASE Timeout(t)
  BY <1>2, <1>3, <1>13 DEF Timeout, Terminal, Goto, guestVars, callVars
<1>14. CASE RunTool(t)
  BY <1>2, <1>3, <1>14 DEF RunTool, Goto, guestVars, callVars
<1>15. CASE Await(t)
  BY <1>2, <1>3, <1>15 DEF Await, LeaveShutdown, Goto, guestVars
<1>16. CASE Wait(t)
  BY <1>2, <1>3, <1>16 DEF Wait, Goto, guestVars, callVars
<1>17. CASE LastKill(t)
  BY <1>2, <1>3, <1>17 DEF LastKill, Goto, guestVars
<1>18. CASE Detach(t)
  BY <1>2, <1>3, <1>18 DEF Detach, Killed, Leave, LeaveShutdown, Goto, guestVars
<1>19. CASE Reap(t)
  BY <1>2, <1>3, <1>19 DEF Reap, Become, Goto, callVars
<1>20. CASE CloseStdin(t)
  BY <1>2, <1>3, <1>20 DEF CloseStdin, Escape, Leave, LeaveShutdown, Goto, guestVars
<1>21. CASE CloseStdout(t)
  BY <1>2, <1>3, <1>21 DEF CloseStdout, Killed, Leave, LeaveShutdown, Goto, guestVars
<1>22. CASE Write(t)
  <2>1. handle[t] \in Workers /\ worker[handle[t]] # "unborn"
    BY <1>1, <1>22 DEF Write, WorkerDiscipline
  <2>2. /\ UNCHANGED <<stdout, child, responses, worker>>
        /\ \A w \in Workers \ {handle[t]} : stdin'[w] = stdin[w]
    BY <1>22, LinesTyped DEF Write
  <2>3. Serves'
    BY <1>2, <1>22 DEF Write, Terminal, Goto, callVars
  <2> QED  BY <2>1, <2>2, <2>3 DEF Silence
<1>23. CASE Receive(t)
  <2> DEFINE m == Head(responses)
             Q == "tool_request"
  <2>1. /\ responses \in Seq(Line) /\ responses # <<>> /\ responses' = Tail(responses)
        /\ UNCHANGED <<stdin, stdout, child, worker>>
    BY <1>23 DEF Receive, guestVars, TypeOK, HostTypeOK
  <2>2. Ids(responses', Q) \subseteq Ids(responses, Q)
    BY <2>1, TailLines
  <2>3. m.type = Q => m.id # 0
    <3>1. m.type = Q => m.id \in Ids(responses, Q)
      BY <2>1, TailLines
    <3> QED  BY <3>1 DEF Silence
  <2>4. \/ Terminal(t) \/ Started(t) \/ Leave(t, "ok")
        \/ /\ m.type = Q /\ Goto(t, "tool") /\ tool' = [tool EXCEPT ![t] = m.id]
           /\ UNCHANGED <<frame, lock>>
    BY <1>23 DEF Receive
  <2>5. Serves'
    <3> HIDE DEF m
    <3> QED  BY <1>2, <2>3, <2>4 DEF Terminal, Started, Leave, Goto, callVars
  <2> QED  BY <2>1, <2>2, <2>5 DEF Silence
<1>24. CASE CallStart(t) \/ Interrupt(t)
  BY <1>24 DEF CallStart, Interrupt
<1> QED
  BY <1>4, <1>5, <1>6, <1>7, <1>8, <1>9, <1>10, <1>11, <1>12, <1>13, <1>14, <1>15, <1>16, <1>17, <1>18, <1>19, <1>20, <1>21, <1>22, <1>23, <1>24
  DEF Advance, Choose

\* A step that ends the session, or finds it ended, returns no result.
LEMMA VerdictEnds ==
    ASSUME SessionInv, Alone, NEW t \in Threads, Advance(t) \/ Choose(t), ended'
    PROVE  UNCHANGED verdict
<1>1. CASE Receive(t)
  <2>1. Terminal(t) \/ UNCHANGED verdict \/ (pc[t] = "receive" /\ UNCHANGED ended)
    BY <1>1 DEF Receive, Accepts
  <2> QED  BY <2>1 DEF Terminal, callVars, Alone
<1>2. CASE ~Receive(t)
  BY <1>2 DEF Advance, Choose, callVars, CallExecute, CallBusy, RejectInput, CallStart,
       CallShutdown, Interrupt, StartCheck, Attach, Spawn, SpawnFails, Send, Write, Timeout,
       RunTool, Await, Wait, LastKill, Detach, Reap, CloseStdin, CloseStdout, Terminal
<1> QED  BY <1>1, <1>2

-----------------------------------------------------------------------------

LEMMA AnswerInit == Init => AnswerInv
<1> SUFFICES ASSUME Init PROVE AnswerInv
  OBVIOUS
<1> USE GuestAssumption, HostAssumption DEF Init, GuestInit, HostInit
<1>1. Silence
  BY EmptyQueue DEF Silence
<1>2. Alone
  BY DEF Alone
<1>3. OneAnswer
  <2>1. Queued = {} /\ \A w \in Workers : Asked(w) = {} /\ Working(w) = {} /\ Answered(w) = {}
    BY EmptyQueue DEF Queued, Asked, Working, Answered
  <2>2. /\ Single(responses, "execution_result")
        /\ \A w \in Workers : Single(stdin[w], "execute") /\ Single(stdout[w], "execution_result")
    BY EmptyQueue
  <2> QED  BY <2>1, <2>2 DEF OneAnswer
<1>4. OwnAnswer
  BY DEF OwnAnswer
<1> QED  BY <1>1, <1>2, <1>3, <1>4 DEF AnswerInv

LEMMA AnswerStep ==
    ASSUME Starters = {}, Overlap = FALSE, Interrupts = FALSE,
           TypeOK, SessionInv, AnswerInv, [Next]_vars
    PROVE  AnswerInv'
<1>1. Silence /\ Alone /\ (~ended => OneAnswer) /\ OwnAnswer /\ WorkerDiscipline
  BY DEF AnswerInv, SessionInv
<1>2. CASE UNCHANGED vars
  BY <1>1, <1>2 DEF vars, guestVars, hostVars, AnswerInv, Silence, Alone, OwnAnswer, OneAnswer,
       Queued, Asked, Working, Answered, Awaited, Asking
<1>3. ASSUME NEW t \in Threads, Advance(t) \/ Choose(t) PROVE AnswerInv'
  <2>1. Silence' /\ Alone'
    BY <1>1, <1>3, SilenceThread, AloneThread
  <2>2. ~ended' => OneAnswer'
    BY <1>1, <1>3, AnswerThread
  <2>3. OwnAnswer'
    <3>1. CASE ended'
      BY <1>1, <1>3, <3>1, VerdictEnds DEF OwnAnswer
    <3>2. CASE ~ended'
      BY <1>1, <1>3, <3>2, AnswerThread
    <3> QED  BY <3>1, <3>2
  <2> QED  BY <2>1, <2>2, <2>3 DEF AnswerInv
<1>4. ASSUME NEW w \in Workers, Read(w) PROVE AnswerInv'
  <2>1. UNCHANGED <<ended, verdict, pc, lock, frame>>
    BY <1>4 DEF Read, ReaderLoop, ReaderLine, ReaderEnd, callVars
  <2>2. Alone' /\ OwnAnswer'
    BY <1>1, <2>1 DEF Alone, OwnAnswer
  <2>3. ~ended' => OneAnswer'
    BY <1>1, <1>4, <2>1, AnswerReader
  <2> QED  BY <1>1, <1>4, <2>2, <2>3, SilenceReader DEF AnswerInv
<1>5. ASSUME GuestStep, UNCHANGED hostVars PROVE AnswerInv'
  <2>1. Alone' /\ OwnAnswer'
    BY <1>1, <1>5 DEF Alone, OwnAnswer, hostVars
  <2>2. ~ended' => OneAnswer'
    BY <1>1, <1>5, AnswerGuest DEF hostVars
  <2> QED  BY <1>1, <1>5, <2>1, <2>2, SilenceGuest DEF AnswerInv
<1> QED  BY <1>2, <1>3, <1>4, <1>5 DEF Next

\* The answers a session still owes stay in step with its calls, for any number
\* of threads, executions, tool calls, guest threads and child processes, as
\* long as nobody calls start directly, shutdown does not overlap another
\* thread's execution and no BaseException leaves a call behind.
THEOREM AnswersInStep ==
    ASSUME Starters = {}, Overlap = FALSE, Interrupts = FALSE
    PROVE  Spec => []AnswerInv
<1>1. Init => AnswerInv
  BY AnswerInit
<1>2. TypeOK /\ SessionInv /\ AnswerInv /\ [Next]_vars => AnswerInv'
  BY AnswerStep
<1>3. Spec => [](TypeOK /\ SessionInv)
  BY SessionHolds
<1> QED  BY <1>1, <1>2, <1>3, PTL DEF Spec

\* execute returns what its own code computed, under the same assumptions.
THEOREM EachItsOwnAnswer ==
    ASSUME Starters = {}, Overlap = FALSE, Interrupts = FALSE
    PROVE  Spec => []OwnAnswer
<1>1. AnswerInv => OwnAnswer
  BY DEF AnswerInv
<1> QED  BY <1>1, AnswersInStep, PTL

-----------------------------------------------------------------------------
(* The session as the atomic object of CodeInterpreter.                    *)

\* The execute line of the call has not gone out.
Unasked(t) == \/ pc[t] \in {"check", "attach", "spawn", "ready"}
              \/ pc[t] \in {"send", "write"} /\ tool[t] = 0

\* Runs are numbered in the order of the calls; the one in progress is the last.
Numbered ==
    /\ \A t \in Threads : run[t] # 0 => run[t] = runs
    /\ \A w \in Workers : job[w] <= runs
    /\ \A r \in 1..MaxRuns : verdict[r] # 0 => r <= runs
    /\ lock # None => verdict[runs] = 0

\* A worker that may still read its stdin finds there at most one execute line,
\* that of the call in progress, and has not taken that call before: also after
\* the end of the session, until the worker is killed.
Unread ==
    /\ lock # None /\ Unasked(lock) => \A w \in Workers : job[w] < runs
    /\ \A w \in Workers : worker[w] # "exited" =>
          /\ Single(stdin[w], "execute")
          /\ Asked(w) # {} => /\ lock # None /\ ~Unasked(lock)
                              /\ Asked(w) = {runs} /\ job[w] < runs

\* A result on its way is that of the code that reached the namespace last.
Current ==
    /\ \A w \in Workers : Answered(w) \subseteq {job[w]}
    /\ Queued \subseteq {job[w] : w \in Workers}

OrderInv == Numbered /\ Unread /\ (~ended => Current)

\* A step that leaves lines, runs and answers alone, and with which the holder
\* of the lock does not go back to before its request.
LEMMA SteadyOrder ==
    ASSUME OrderInv, UNCHANGED <<stdin, stdout, job, lock, run, runs, verdict>>,
           Queued' \subseteq Queued, ~ended' => ~ended,
           \A w \in Workers : worker'[w] # "exited" => worker[w] # "exited",
           lock # None /\ Unasked(lock)' => Unasked(lock)
    PROVE  OrderInv'
<1>1. \A w \in Workers : Asked(w)' = Asked(w) /\ Answered(w)' = Answered(w)
  BY DEF Asked, Answered
<1>2. Numbered'
  BY DEF OrderInv, Numbered
<1>3. Unread'
  BY <1>1 DEF OrderInv, Unread
<1>4. ~ended' => Current'
  BY <1>1 DEF OrderInv, Current
<1> QED  BY <1>2, <1>3, <1>4 DEF OrderInv

\* execute leaves, and no worker may still take its call.
LEMMA LeaveOrder ==
    ASSUME Shape, SharedTyped, LockDiscipline, OrderInv,
           NEW t \in Threads, NEW how, Leave(t, how), lock = t,
           UNCHANGED <<ended, stdin, stdout, job, worker>>, Queued' \subseteq Queued,
           verdict' = verdict \/ \E x : verdict' = [verdict EXCEPT ![run[t]] = x],
           \A w \in Workers : worker[w] # "exited" => Asked(w) = {}
    PROVE  OrderInv'
<1> USE HostAssumption DEF OrderInv, Shape, CallsTyped, SharedTyped
<1>1. \A w \in Workers : Asked(w)' = Asked(w) /\ Answered(w)' = Answered(w)
  BY DEF Asked, Answered
<1>2. lock' = None /\ runs' = runs /\ run' = [run EXCEPT ![t] = 0] /\ run[t] = runs /\ runs # 0
  BY DEF Leave, Numbered, LockDiscipline
<1>3. Numbered'
  BY <1>2 DEF Numbered
<1>4. Unread'
  BY <1>1, <1>2 DEF Unread
<1>5. ~ended' => Current'
  BY <1>1 DEF Current
<1> QED  BY <1>3, <1>4, <1>5

\* Who has got to the end of _kill has no worker left.
LEMMA NoneLives ==
    ASSUME Shape, SessionInv, Alone, NEW t \in Threads, lock = t,
           pc[t] \in {"stdin", "stdout"} \/ (pc[t] = "detach" /\ handle[t] = None)
    PROVE  \A w \in Workers : worker[w] \in {"unborn", "exited"}
<1> USE HostAssumption DEF Shape, CallsTyped
<1>1. \A u \in Threads : u # t => pc[u] = "idle"
  BY DEF Alone
<1>2. process = None
  BY DEF SessionInv, WorkerDiscipline
<1>3. \A w \in Workers, u \in Threads : ~Killing(u, w)
  BY <1>1 DEF Killing
<1> QED  BY <1>2, <1>3 DEF SessionInv, NoOrphan, Alive

LEMMA UnaskedEmpty ==
    ASSUME OrderInv, NEW t \in Threads, lock = t, Unasked(t), HostAssumption
    PROVE  \A w \in Workers : worker[w] # "exited" => Asked(w) = {}
  BY DEF OrderInv, Unread, HostAssumption

LEMMA UnbornAsked ==
    ASSUME Silence, NEW w \in Workers, worker[w] = "unborn"
    PROVE  Asked(w) = {}
  BY EmptyQueue DEF Silence, Asked

LEMMA GuestOrder ==
    ASSUME TypeOK, SessionInv, Silence, ~ended => OneAnswer, OrderInv,
           GuestStep, UNCHANGED hostVars
    PROVE  OrderInv'
<1>1. PICK w \in Workers : Protocol(w) \/ Whim(w)
  BY DEF GuestStep
<1> USE DEF OrderInv
<1>2. /\ UNCHANGED <<lock, run, runs, verdict, ended, responses, pc, tool>>
      /\ Queued' = Queued
      /\ \A t : Unasked(t)' <=> Unasked(t)
  BY DEF hostVars, Queued, Unasked
<1>3. worker[w] # "unborn"
  BY <1>1 DEF Protocol, Whim, Ready, TakeExecute, RejectRequest, TakeShutdown,
       TakeToolResponse, Finish, FinishBadly, Die, CallTool, Runs, StartChild,
       ChildSpeaks, ChildExits, HeldOpen, Alive, Silence
<1>4. \A v \in Workers \ {w} : /\ stdin'[v] = stdin[v] /\ stdout'[v] = stdout[v]
                               /\ worker'[v] = worker[v] /\ job'[v] = job[v]
                               /\ Asked(v)' = Asked(v) /\ Answered(v)' = Answered(v)
  BY <1>1, LinesTyped
  DEF Protocol, Whim, Ready, TakeExecute, RejectRequest, TakeShutdown,
      TakeToolResponse, Finish, FinishBadly, Die, CallTool, StartChild,
      ChildSpeaks, ChildExits, Hear, Say, Become, Asked, Answered
<1>5. CASE job' = job
  <2>1. worker'[w] # "exited" => worker[w] # "exited"
    BY <1>1, <1>5, LinesTyped
    DEF Protocol, Whim, Ready, TakeExecute, RejectRequest, TakeShutdown,
        TakeToolResponse, Finish, FinishBadly, Die, CallTool, StartChild,
        ChildSpeaks, ChildExits, Become
  <2>2. stdin'[w] = stdin[w] \/ (stdin[w] # <<>> /\ stdin'[w] = Tail(stdin[w]))
    BY <1>1, LinesTyped
    DEF Protocol, Whim, Ready, TakeExecute, RejectRequest, TakeShutdown,
        TakeToolResponse, Finish, FinishBadly, Die, CallTool, StartChild,
        ChildSpeaks, ChildExits, Hear
  <2>3. /\ Asked(w)' \subseteq Asked(w)
        /\ Single(stdin[w], "execute") => Single(stdin'[w], "execute")
    <3>1. stdin[w] # <<>> => /\ Ids(Tail(stdin[w]), "execute") \subseteq Ids(stdin[w], "execute")
                             /\ Single(stdin[w], "execute") => Single(Tail(stdin[w]), "execute")
      BY LinesTyped, TailLines
    <3> QED  BY <2>2, <3>1 DEF Asked
  <2>4. ~ended => Answered(w)' \subseteq {job[w]}
    <3> SUFFICES ASSUME ~ended PROVE Answered(w)' \subseteq {job[w]}
      OBVIOUS
    <3>1. CASE Finish(w)
      <4> DEFINE m == Msg("execution_result", job[w])
      <4>1. m \in Line /\ m.type = "execution_result" /\ m.id = job[w]
        BY LinesTyped DEF Msg, Line, MsgTypes
      <4>2. Answered(w) = {}
        BY <3>1, LinesTyped DEF Finish, Working, OneAnswer
      <4>3. stdout'[w] = Append(stdout[w], m) /\ stdout[w] \in Seq(Line)
        BY <3>1, LinesTyped DEF Finish, Say
      <4>4. Answered(w)' = {job[w]}
        <5> HIDE DEF m
        <5>0. Ids(stdout[w], m.type) = {}
          BY <4>1, <4>2 DEF Answered
        <5>1. /\ Ids(Append(stdout[w], m), m.type) = {m.id}
              /\ Single(Append(stdout[w], m), m.type)
          BY <4>1, <4>3, <5>0, AppendFirst
        <5> QED  BY <4>1, <4>3, <5>1 DEF Answered
      <4> QED  BY <4>4
    <3>2. CASE \E type \in MsgTypes, id \in Nat :
                  type # "execution_result" /\ Say(w, Msg(type, id))
      <4>1. PICK type \in MsgTypes, id \in Nat :
                  type # "execution_result" /\ Say(w, Msg(type, id))
        BY <3>2
      <4>2. Msg(type, id) \in Line /\ Msg(type, id).type = type
        BY DEF Msg, Line
      <4>3. Answered(w)' = Answered(w)
        BY <4>1, <4>2, LinesTyped, AppendOther DEF Say, Answered
      <4> QED  BY <4>3 DEF Current
    <3>3. CASE UNCHANGED stdout
      BY <3>3 DEF Answered, Current
    <3>4. CASE \E g \in Guests : CallTool(w, g)
      <4>1. issued' \in Nat /\ Say(w, Msg("tool_request", issued'))
        BY <3>4, LinesTyped DEF CallTool
      <4> QED  BY <3>2, <4>1 DEF MsgTypes
    <3> QED
      BY <1>1, <3>1, <3>2, <3>3, <3>4
      DEF Protocol, Whim, Ready, TakeExecute, RejectRequest, TakeShutdown,
          TakeToolResponse, FinishBadly, Die, StartChild,
          ChildSpeaks, ChildExits, MsgTypes
  <2>5. Numbered'
    BY <1>2, <1>5 DEF Numbered
  <2>6. Unread'
    BY <1>2, <1>4, <1>5, <2>1, <2>3 DEF Unread
  <2>7. ~ended' => Current'
    BY <1>2, <1>4, <1>5, <2>4 DEF Current
  <2> QED  BY <2>5, <2>6, <2>7
<1>6. CASE TakeExecute(w)
  <2> DEFINE x == Head(stdin[w]).id
  <2>1. x \in Asked(w) /\ Asked(w)' = {} /\ Single(stdin'[w], "execute")
    <3>1. /\ stdin[w] # <<>> /\ stdin'[w] = Tail(stdin[w]) /\ worker[w] # "exited"
          /\ Head(stdin[w]).type = "execute"
      BY <1>6, LinesTyped DEF TakeExecute, Hear
    <3>2. Single(stdin[w], "execute") /\ stdin[w] \in Seq(Line)
      BY <3>1, LinesTyped DEF Unread
    <3>3. /\ Head(stdin[w]).id \in Ids(stdin[w], "execute")
          /\ Ids(Tail(stdin[w]), "execute") = {}
          /\ Single(Tail(stdin[w]), "execute")
      BY <3>1, <3>2, TailLines
    <3> QED  BY <3>1, <3>3 DEF Asked
  <2>2. lock # None /\ ~Unasked(lock) /\ x = runs /\ job[w] < runs
    BY <1>6, <2>1 DEF Unread, TakeExecute
  <2>3. job' = [job EXCEPT ![w] = runs] /\ UNCHANGED stdout
    BY <1>6, <2>2 DEF TakeExecute
  <2>4. runs \in Nat /\ job \in [Workers -> Nat]
    BY LinesTyped, TypeParts, HostAssumption DEF CallsTyped
  <2>5. Numbered'
    BY <1>2, <2>3, <2>4 DEF Numbered
  <2>6. Unread'
    BY <1>2, <1>4, <2>1, <2>2, <2>3, <2>4 DEF Unread
  <2>7. ~ended' => Current'
    <3>1. ~ended => Answered(w) = {} /\ Queued = {}
      BY <2>1 DEF OneAnswer
    <3>2. Answered(w)' = Answered(w)
      BY <2>3 DEF Answered
    <3> QED  BY <1>2, <1>4, <3>1, <3>2 DEF Current
  <2> QED  BY <2>5, <2>6, <2>7
<1> QED
  BY <1>1, <1>5, <1>6
  DEF Protocol, Whim, Ready, RejectRequest, TakeShutdown,
      TakeToolResponse, Finish, FinishBadly, Die, CallTool, StartChild,
      ChildSpeaks, ChildExits

LEMMA ReaderOrder ==
    ASSUME TypeOK, OrderInv, NEW w \in Workers, Read(w)
    PROVE  OrderInv'
<1> DEFINE R == "execution_result"
<1> USE DEF OrderInv
<1>1. /\ UNCHANGED <<stdin, worker, job, lock, run, runs, verdict, ended, pc, tool>>
      /\ \A t : Unasked(t)' <=> Unasked(t)
      /\ \A v \in Workers : Asked(v)' = Asked(v)
  BY DEF Read, ReaderLoop, ReaderLine, ReaderEnd, guestVars, callVars, Unasked, Asked
<1>2. Numbered' /\ Unread'
  BY <1>1 DEF Numbered, Unread
<1>3. CASE UNCHANGED <<stdout, responses>>
  BY <1>1, <1>2, <1>3 DEF Current, Answered, Queued
<1>4. CASE ReaderEnd(w)
  <2> DEFINE m == [type |-> "eof", id |-> 0]
  <2>1. m \in Line /\ m.type # R /\ responses' = Append(responses, m) /\ UNCHANGED stdout
    BY <1>4 DEF ReaderEnd, guestVars, Line
  <2>2. Queued' = Queued
    <3> HIDE DEF m
    <3> QED  BY <2>1, LinesTyped, AppendOther DEF Queued
  <2> QED  BY <1>1, <1>2, <2>1, <2>2 DEF Current, Answered
<1>5. CASE ReaderLine(w)
  <2> DEFINE m == Head(stdout[w])
  <2>1. /\ stdout[w] # <<>> /\ stdout[w] \in Seq(Line) /\ responses \in Seq(Line)
        /\ m \in Line /\ responses' = Append(responses, m)
        /\ stdout'[w] = Tail(stdout[w])
        /\ \A v \in Workers \ {w} : stdout'[v] = stdout[v]
    BY <1>5, LinesTyped, QueueTypes DEF ReaderLine
  <2>2. \A v \in Workers : Answered(v)' \subseteq Answered(v)
    BY <2>1, TailLines DEF Answered
  <2>3. m.type = R => m.id \in Answered(w)
    BY <2>1, TailLines DEF Answered
  <2>4. Queued' \subseteq Queued \cup (IF m.type = R THEN {m.id} ELSE {})
    <3> HIDE DEF m
    <3> SUFFICES ASSUME NEW x \in Queued'
                 PROVE  x \in Queued \cup (IF m.type = R THEN {m.id} ELSE {})
      OBVIOUS
    <3>1. PICK i \in 1..Len(responses') : responses'[i].type = R /\ responses'[i].id = x
      BY IdsPick DEF Queued
    <3>2. responses'[i] = m \/ (i \in 1..Len(responses) /\ responses'[i] = responses[i])
      BY <2>1, <3>1
    <3> QED  BY <3>1, <3>2, IdsMember DEF Queued
  <2>5. ~ended => Current'
    BY <1>1, <2>2, <2>3, <2>4 DEF Current
  <2> QED  BY <1>1, <1>2, <2>5
<1> QED  BY <1>3, <1>4, <1>5 DEF Read, ReaderLoop, guestVars

LEMMA WriteOrder ==
    ASSUME TypeOK, SessionInv, Silence, Alone, ~ended => OneAnswer, OrderInv,
           NEW t \in Threads, Write(t)
    PROVE  OrderInv'
<1>1. Shape /\ LockDiscipline /\ EndDiscipline /\ WorkerDiscipline
  BY ShapeTyped DEF SessionInv
<1> USE <1>1, HostAssumption DEF Shape, CallsTyped
<1>0. PICK w \in Workers : w = handle[t]
  BY DEF Write
<1>2. /\ pc[t] = "write"
      /\ UNCHANGED <<lock, run, runs, verdict, worker, job, stdout, responses>>
      /\ Queued' = Queued
  BY DEF Write, Terminal, callVars, Queued
<1>3. CASE UNCHANGED stdin
  <2>1. pc' = [pc EXCEPT ![t] = "detach"] /\ UNCHANGED tool /\ ended'
    <3>1. Terminal(t) \/ stdin' = [stdin EXCEPT ![w] = Append(@, Outgoing(t))]
      BY <1>0 DEF Write
    <3>2. stdin[w] \in Seq(Message) => Append(stdin[w], Outgoing(t)) # stdin[w]
      OBVIOUS
    <3>3. Terminal(t)
      BY <1>2, <1>3, <3>1, <3>2, LinesTyped
    <3> QED  BY <3>3 DEF Terminal, Goto, callVars
  <2>2. lock # None /\ Unasked(lock)' => Unasked(lock)
    BY <1>2, <2>1 DEF Unasked
  <2> QED  BY <1>2, <1>3, <2>1, <2>2, SteadyOrder
<1>4. CASE stdin' # stdin
  <2>1. /\ stdin' = [stdin EXCEPT ![w] = Append(@, Outgoing(t))]
        /\ pc' = [pc EXCEPT ![t] = IF frame[t] = "try" THEN "await" ELSE "receive"]
        /\ UNCHANGED <<ended, frame>> /\ \A u \in Threads \ {t} : tool'[u] = tool[u]
    BY <1>0, <1>4 DEF Write, Goto
  <2> DEFINE m == Outgoing(t)
  <2>2. m \in Line /\ stdin[w] \in Seq(Line)
    BY <1>2, LinesTyped DEF Outgoing, Msg, Line, MsgTypes
  <2>3. \A v \in Workers \ {w} : stdin'[v] = stdin[v] /\ Asked(v)' = Asked(v)
    BY <2>1, LinesTyped DEF Asked
  <2>4. \A v \in Workers : Answered(v)' = Answered(v)
    BY <1>2 DEF Answered
  <2>5. stdin'[w] = Append(stdin[w], m)
    BY <1>2, <2>1, LinesTyped
  <2>6. lock # None /\ Unasked(lock)' => Unasked(lock)
    BY <1>2, <2>1 DEF Unasked
  <2>7. Numbered' /\ (~ended' => Current')
    BY <1>2, <2>1, <2>4 DEF OrderInv, Numbered, Current
  <2>8. CASE m.type # "execute"
    <3>1. Asked(w)' = Asked(w) /\ (Single(stdin[w], "execute") => Single(stdin'[w], "execute"))
      <4> HIDE DEF m
      <4> QED  BY <2>2, <2>5, <2>8, AppendOther DEF Asked
    <3>2. Unread'
      BY <1>2, <2>3, <2>6, <3>1 DEF OrderInv, Unread
    <3> QED  BY <2>7, <3>2 DEF OrderInv
  <2>9. CASE m.type = "execute"
    <3>1. frame[t] = "call" /\ tool[t] = 0 /\ m.id = run[t]
      BY <1>2, <2>9 DEF Outgoing, Msg, LockDiscipline
    <3>2. lock = t /\ ~ended /\ run[t] # 0 /\ Unasked(t) /\ ~Asking(t)
      BY <1>2, <3>1 DEF LockDiscipline, Alone, Unasked, Asking
    <3>3. run[t] = runs /\ \A v \in Workers : job[v] < runs
      BY <3>2 DEF OrderInv, Numbered, Unread
    <3>4. \A v \in Workers : Asked(v) = {}
      BY <3>2 DEF OneAnswer, Awaited
    <3>5. Asked(w)' = {runs} /\ Single(stdin'[w], "execute")
      <4> HIDE DEF m
      <4>1. Ids(stdin[w], m.type) = {}
        BY <1>2, <2>9, <3>4 DEF Asked
      <4>2. Ids(Append(stdin[w], m), m.type) = {m.id} /\ Single(Append(stdin[w], m), m.type)
        BY <2>2, <4>1, AppendFirst
      <4> QED  BY <2>5, <2>9, <3>1, <3>3, <4>2 DEF Asked
    <3>6. lock' = t /\ ~Unasked(t)'
      BY <1>2, <2>1, <3>1, <3>2 DEF Unasked
    <3>7. Unread'
      BY <1>2, <2>3, <3>2, <3>3, <3>4, <3>5, <3>6 DEF OrderInv, Unread
    <3> QED  BY <2>7, <3>7 DEF OrderInv
  <2> QED  BY <2>8, <2>9
<1> QED  BY <1>3, <1>4

LEMMA ReceiveOrder ==
    ASSUME TypeOK, SessionInv, Silence, Alone, ~ended => OneAnswer, OrderInv,
           NEW t \in Threads, Receive(t)
    PROVE  OrderInv'
<1>1. Shape /\ LockDiscipline /\ EndDiscipline /\ SharedTyped
  BY ShapeTyped, TypeParts DEF SessionInv
<1> USE <1>1, HostAssumption DEF Shape, CallsTyped, LockDiscipline
<1> DEFINE m == Head(responses)
           R == "execution_result"
<1>2. /\ pc[t] \in {"ready", "receive"} /\ lock = t /\ run[t] # 0 /\ ~ended
      /\ responses # <<>> /\ responses' = Tail(responses)
      /\ UNCHANGED <<stdin, stdout, worker, job>>
  BY DEF Receive, guestVars, EndDiscipline, Alone
<1>3. Queued' \subseteq Queued
  BY <1>2, TailLines DEF Queued, SharedTyped
<1>4. \/ Terminal(t)
      \/ pc[t] = "ready" /\ Started(t) /\ UNCHANGED <<ended, verdict>>
      \/ Goto(t, "tool") /\ UNCHANGED <<ended, lock, run, runs, verdict>>
      \/ /\ m.type = R /\ Leave(t, "ok") /\ UNCHANGED ended
         /\ verdict' = [verdict EXCEPT ![run[t]] = m.id]
  BY DEF Receive, Accepts
<1>5. CASE Terminal(t)
  <2>1. UNCHANGED <<lock, run, runs, verdict>> /\ ended' /\ ~Unasked(t)'
    BY <1>2, <1>5 DEF Terminal, callVars, Goto, Unasked
  <2> QED  BY <1>2, <1>3, <2>1, SteadyOrder
<1>6. CASE pc[t] = "ready" /\ Started(t) /\ UNCHANGED <<ended, verdict>>
  <2>1. UNCHANGED <<lock, run, runs, verdict>> /\ Unasked(t)
    BY <1>2, <1>6 DEF Started, Unasked
  <2> QED  BY <1>2, <1>3, <1>6, <2>1, SteadyOrder
<1>7. CASE Goto(t, "tool") /\ UNCHANGED <<ended, lock, run, runs, verdict>>
  <2>1. ~Unasked(t)'
    BY <1>7 DEF Goto, Unasked
  <2> QED  BY <1>2, <1>3, <1>7, <2>1, SteadyOrder
<1>8. CASE /\ m.type = R /\ Leave(t, "ok") /\ UNCHANGED ended
           /\ verdict' = [verdict EXCEPT ![run[t]] = m.id]
  <2>1. m.id \in Queued
    BY <1>2, <1>8, TailLines DEF Queued, SharedTyped
  <2>2. \A w \in Workers : Asked(w) = {}
    BY <1>2, <2>1 DEF OneAnswer
  <2> QED  BY <1>2, <1>3, <1>8, <2>2, LeaveOrder
<1> QED  BY <1>4, <1>5, <1>6, <1>7, <1>8

LEMMA OrderThread ==
    ASSUME Starters = {}, Overlap = FALSE, Interrupts = FALSE, TypeOK, SessionInv,
           Silence, Alone, ~ended => OneAnswer, OrderInv,
           NEW t \in Threads, Advance(t) \/ Choose(t)
    PROVE  OrderInv'
<1>1. Shape /\ SharedTyped /\ LockDiscipline /\ EndDiscipline
  BY ShapeTyped, TypeParts DEF SessionInv
<1> USE <1>1, HostAssumption DEF Shape, CallsTyped
<1> DEFINE Steady == /\ UNCHANGED <<stdin, stdout, job, lock, run, runs, verdict>>
                     /\ UNCHANGED responses
                     /\ ~ended' => ~ended
                     /\ \A w \in Workers : worker'[w] # "exited" => worker[w] # "exited"
                     /\ lock # None /\ Unasked(lock)' => Unasked(lock)
           Parting == /\ \E how : Leave(t, how)
                      /\ lock = t
                      /\ UNCHANGED <<ended, stdin, stdout, job, worker, responses, verdict>>
<1>2. Steady => OrderInv'
  BY SteadyOrder DEF Queued
<1>3. Parting /\ (\A w \in Workers : worker[w] # "exited" => Asked(w) = {}) => OrderInv'
  <2> SUFFICES ASSUME Parting, \A w \in Workers : worker[w] # "exited" => Asked(w) = {}
               PROVE  OrderInv'
    OBVIOUS
  <2>1. PICK how : Leave(t, how)
    OBVIOUS
  <2>2. Queued' = Queued
    BY DEF Queued
  <2> QED  BY <2>1, <2>2, LeaveOrder
<1>4. Parting /\ Unasked(t) => OrderInv'
  BY <1>3, UnaskedEmpty
<1>5. ASSUME Parting, pc[t] \in {"stdin", "stdout"} \/ (pc[t] = "detach" /\ handle[t] = None)
      PROVE  OrderInv'
  <2>1. \A w \in Workers : worker[w] # "exited" => Asked(w) = {}
    BY <1>5, NoneLives, UnbornAsked
  <2> QED  BY <1>3, <1>5, <2>1
<1>6. CASE CallBusy(t)
  <2>1. Steady
    BY <1>6 DEF CallBusy, guestVars, Unasked
  <2> QED  BY <1>2, <2>1
<1>7. CASE Spawn(t)
  <2>1. Steady
    BY <1>7 DEF Spawn, Unasked, Goto, Become, callVars
  <2> QED  BY <1>2, <2>1
<1>8. CASE Send(t)
  <2>1. Steady
    BY <1>8 DEF Send, Unasked, Terminal, Goto, guestVars, callVars
  <2> QED  BY <1>2, <2>1
<1>9. CASE Timeout(t)
  <2>1. Steady
    BY <1>9 DEF Timeout, Unasked, Terminal, Goto, guestVars, callVars
  <2> QED  BY <1>2, <2>1
<1>10. CASE RunTool(t)
  <2>1. Steady
    BY <1>10 DEF RunTool, Unasked, Goto, guestVars, callVars, Silence
  <2> QED  BY <1>2, <2>1
<1>11. CASE Await(t)
  <2>1. Steady
    BY <1>11 DEF Await, Unasked, LeaveShutdown, Goto, guestVars, LockDiscipline
  <2> QED  BY <1>2, <2>1
<1>12. CASE Wait(t)
  <2>1. Steady
    BY <1>12 DEF Wait, Unasked, Goto, guestVars, callVars
  <2> QED  BY <1>2, <2>1
<1>13. CASE LastKill(t)
  <2>1. Steady
    BY <1>13 DEF LastKill, Unasked, Goto, guestVars
  <2> QED  BY <1>2, <2>1
<1>14. CASE Reap(t)
  <2>1. Steady
    BY <1>14 DEF Reap, Unasked, Goto, Become, callVars
  <2> QED  BY <1>2, <2>1
<1>15. CASE CallShutdown(t)
  <2>1. Steady
    BY <1>15 DEF CallShutdown, MayStop, Unasked, Goto, guestVars, Silence, LockDiscipline
  <2> QED  BY <1>2, <2>1
<1>16. CASE Attach(t)
  <2>1. Steady
    BY <1>16 DEF Attach, Started, Unasked, Goto, guestVars, LockDiscipline, EndDiscipline, Leave
  <2> QED  BY <1>2, <2>1
<1>17. CASE RejectInput(t)
  <2>1. Parting /\ Unasked(t)
    BY <1>17 DEF RejectInput, LockDiscipline, guestVars, Unasked
  <2> QED  BY <1>4, <2>1
<1>18. CASE SpawnFails(t)
  <2>1. Parting /\ Unasked(t)
    BY <1>18 DEF SpawnFails, LockDiscipline, EndDiscipline, guestVars, Unasked
  <2> QED  BY <1>4, <2>1
<1>19. CASE StartCheck(t)
  <2>1. pc[t] = "check" /\ Unasked(t) /\ lock = t
    BY <1>19 DEF StartCheck, Unasked, LockDiscipline
  <2>2. CASE ended
    <3>1. Parting
      BY <1>19, <2>1, <2>2 DEF StartCheck, guestVars
    <3> QED  BY <1>4, <2>1, <3>1
  <2>3. CASE ~ended
    <3>1. Steady
      BY <1>19, <2>1, <2>3 DEF StartCheck, guestVars
    <3> QED  BY <1>2, <3>1
  <2> QED  BY <2>2, <2>3
<1>20. CASE Detach(t)
  <2>1. (lock = t /\ frame[t] = "call" /\ Parting /\ pc[t] = "detach" /\ handle[t] = None) \/ Steady
    BY <1>20 DEF Detach, Killed, Leave, LeaveShutdown, Goto, Unasked, guestVars, LockDiscipline
  <2> QED  BY <1>2, <1>5, <2>1
<1>21. CASE CloseStdin(t)
  <2>1. (lock = t /\ frame[t] = "call" /\ Parting /\ pc[t] = "stdin") \/ Steady
    BY <1>21 DEF CloseStdin, Escape, Leave, LeaveShutdown, Goto, Unasked, guestVars, LockDiscipline
  <2> QED  BY <1>2, <1>5, <2>1
<1>22. CASE CloseStdout(t)
  <2>1. (lock = t /\ frame[t] = "call" /\ Parting /\ pc[t] = "stdout") \/ Steady
    BY <1>22 DEF CloseStdout, Killed, Leave, LeaveShutdown, Goto, Unasked, guestVars, LockDiscipline
  <2> QED  BY <1>2, <1>5, <2>1
<1>23. CASE Write(t)
  BY <1>23, WriteOrder
<1>24. CASE Receive(t)
  BY <1>24, ReceiveOrder
<1>25. CASE CallExecute(t)
  <2>1. /\ lock = None /\ lock' = t /\ runs' = runs + 1 /\ run' = [run EXCEPT ![t] = runs + 1]
        /\ runs + 1 \in 1..MaxRuns
        /\ UNCHANGED <<stdin, stdout, job, worker, responses, verdict, ended>>
    BY <1>25 DEF CallExecute, guestVars
  <2>2. /\ \A w \in Workers : Asked(w)' = Asked(w) /\ Answered(w)' = Answered(w)
        /\ Queued' = Queued
    BY <2>1 DEF Asked, Answered, Queued
  <2>3. \A w \in Workers : worker[w] # "exited" => Asked(w) = {}
    BY <2>1 DEF OrderInv, Unread
  <2>4. \A u \in Threads : run[u] = 0
    BY <2>1 DEF LockDiscipline
  <2>5. Numbered'
    BY <2>1, <2>4 DEF OrderInv, Numbered, SharedTyped
  <2>6. Unread'
    BY <2>1, <2>2, <2>3 DEF OrderInv, Unread, Numbered
  <2>7. ~ended' => Current'
    BY <2>1, <2>2 DEF OrderInv, Current
  <2> QED  BY <2>5, <2>6, <2>7 DEF OrderInv
<1>26. CASE CallStart(t) \/ Interrupt(t)
  BY <1>26 DEF CallStart, Interrupt
<1> QED
  BY <1>6, <1>7, <1>8, <1>9, <1>10, <1>11, <1>12, <1>13, <1>14, <1>15, <1>16, <1>17, <1>18, <1>19, <1>20, <1>21, <1>22, <1>23, <1>24, <1>25, <1>26
  DEF Advance, Choose

LEMMA OrderInit == Init => OrderInv
<1> SUFFICES ASSUME Init PROVE OrderInv
  OBVIOUS
<1> USE GuestAssumption, HostAssumption DEF Init, GuestInit, HostInit
<1>1. /\ Queued = {} /\ \A w \in Workers : Asked(w) = {} /\ Answered(w) = {}
      /\ \A w \in Workers : Single(stdin[w], "execute")
  BY EmptyQueue DEF Queued, Asked, Answered
<1>2. Numbered
  BY DEF Numbered
<1> QED  BY <1>1, <1>2 DEF OrderInv, Unread, Current

LEMMA OrderStep ==
    ASSUME Starters = {}, Overlap = FALSE, Interrupts = FALSE,
           TypeOK, SessionInv, AnswerInv, OrderInv, [Next]_vars
    PROVE  OrderInv'
<1>1. CASE UNCHANGED vars
  BY <1>1 DEF vars, guestVars, hostVars, OrderInv, Numbered, Unread, Current, Unasked,
       Asked, Answered, Queued
<1>2. CASE Next
  BY <1>2, OrderThread, ReaderOrder, GuestOrder DEF Next, AnswerInv
<1> QED  BY <1>1, <1>2

LEMMA OrderHolds ==
    ASSUME Starters = {}, Overlap = FALSE, Interrupts = FALSE
    PROVE  Spec => []OrderInv
<1>1. Init => OrderInv
  BY OrderInit
<1>2. TypeOK /\ SessionInv /\ AnswerInv /\ OrderInv /\ [Next]_vars => OrderInv'
  BY OrderStep
<1> QED  BY <1>1, <1>2, SessionHolds, AnswersInStep, PTL DEF Spec

\* The last run whose code reached the namespace is the job of the one worker.
LEMMA LatestIs ==
    ASSUME WorkerDiscipline
    PROVE  /\ \A w \in Workers : job[w] # 0 => Latest = job[w]
           /\ (\A w \in Workers : job[w] = 0) => Latest = 0
<1>1. ASSUME NEW w \in Workers, job[w] # 0 PROVE Latest = job[w]
  <2>1. \A v \in Workers : job[v] # 0 => v = w
    BY <1>1 DEF WorkerDiscipline
  <2>2. (CHOOSE v \in Workers : job[v] # 0) = w
    BY <1>1, <2>1
  <2> QED  BY <1>1, <2>2 DEF Latest
<1>2. ASSUME \A w \in Workers : job[w] = 0 PROVE Latest = 0
  BY <1>2 DEF Latest
<1> QED  BY <1>1, <1>2

\* What a step of the session may look like to its callers.
LEMMA ShownSteps ==
    ASSUME \/ UNCHANGED <<ended, verdict>> /\ Latest' = Latest /\ Active' = Active
           \/ /\ ~ended /\ Active = 0 /\ Active' \in 1..MaxRuns /\ Latest < Active'
              /\ verdict[Active'] = 0 /\ UNCHANGED <<ended, verdict>> /\ Latest' = Latest
           \/ /\ Active # 0 /\ Latest < Active /\ Latest' = Active
              /\ Active' = Active /\ UNCHANGED <<ended, verdict>>
           \/ /\ Active # 0 /\ Latest = Active /\ Active' = 0
              /\ verdict' = [verdict EXCEPT ![Active] = Active]
              /\ UNCHANGED ended /\ Latest' = Latest
           \/ /\ Active # 0 /\ Active' = 0
              /\ UNCHANGED <<ended, verdict>> /\ Latest' = Latest
           \/ /\ ~ended /\ ended' = TRUE /\ Active' = Active
              /\ UNCHANGED verdict /\ Latest' = Latest
    PROVE  [Contract!Next]_(Contract!vars)
<1> USE DEF Contract!Next, Contract!vars
<1>1. CASE UNCHANGED <<ended, verdict>> /\ Latest' = Latest /\ Active' = Active
  BY <1>1
<1>2. CASE /\ ~ended /\ Active = 0 /\ Active' \in 1..MaxRuns /\ Latest < Active'
           /\ verdict[Active'] = 0 /\ UNCHANGED <<ended, verdict>> /\ Latest' = Latest
  BY <1>2 DEF Contract!Begin
<1>3. CASE /\ Active # 0 /\ Latest < Active /\ Latest' = Active
           /\ Active' = Active /\ UNCHANGED <<ended, verdict>>
  BY <1>3 DEF Contract!Effect
<1>4. CASE /\ Active # 0 /\ Latest = Active /\ Active' = 0
           /\ verdict' = [verdict EXCEPT ![Active] = Active]
           /\ UNCHANGED ended /\ Latest' = Latest
  BY <1>4 DEF Contract!Return
<1>5. CASE /\ Active # 0 /\ Active' = 0
           /\ UNCHANGED <<ended, verdict>> /\ Latest' = Latest
  BY <1>5 DEF Contract!Raise
<1>6. CASE /\ ~ended /\ ended' = TRUE /\ Active' = Active
           /\ UNCHANGED verdict /\ Latest' = Latest
  BY <1>6 DEF Contract!Close
<1> QED  BY <1>1, <1>2, <1>3, <1>4, <1>5, <1>6

\* Only a worker that takes an execute line moves the namespace on.
LEMMA GuestImplements ==
    ASSUME TypeOK, SessionInv, OrderInv, GuestStep, UNCHANGED hostVars
    PROVE  [Contract!Next]_(Contract!vars)
<1>1. UNCHANGED <<ended, verdict, lock, pc, run>> /\ Active' = Active
  BY DEF hostVars, Active
<1>2. CASE UNCHANGED job
  BY <1>1, <1>2, ShownSteps DEF Latest
<1>3. ASSUME NEW w \in Workers, TakeExecute(w) PROVE [Contract!Next]_(Contract!vars)
  <2> DEFINE x == Head(stdin[w]).id
  <2>1. x \in Asked(w)
    <3>1. stdin[w] # <<>> /\ Head(stdin[w]).type = "execute"
      BY <1>3 DEF TakeExecute, Hear
    <3> QED  BY <3>1, LinesTyped, TailLines DEF Asked
  <2>2. lock # None /\ pc[lock] # "check" /\ x = runs /\ job[w] < runs
    BY <1>3, <2>1 DEF OrderInv, Unread, Unasked, TakeExecute
  <2>0. job \in [Workers -> Nat] /\ runs \in Nat
    BY LinesTyped, TypeParts, HostAssumption DEF CallsTyped
  <2>3. job' = [job EXCEPT ![w] = runs] /\ worker[w] # "unborn"
    BY <1>3, <2>2 DEF TakeExecute
  <2>4. lock \in Threads /\ run[lock] = runs /\ runs # 0
    BY <2>0, <2>2, TypeParts, HostAssumption
    DEF SessionInv, LockDiscipline, OrderInv, Numbered, CallsTyped
  <2>5. Active = runs /\ runs # 0
    BY <2>2, <2>4 DEF Active
  <2>6. \A v \in Workers \ {w} : job[v] = 0
    BY <2>0, <2>3 DEF SessionInv, WorkerDiscipline
  <2>7. Latest = job[w]
    BY <2>0, <2>6, LatestIs DEF SessionInv
  <2>8. Latest' = runs
    <3>1. SessionInv'
      BY SessionGuest
    <3>2. WorkerDiscipline' /\ job'[w] = runs
      BY <2>0, <2>3, <3>1 DEF SessionInv
    <3>3. \A v \in Workers : job'[v] # 0 => v = w
      BY <2>0, <2>3, <2>6
    <3>4. (CHOOSE v \in Workers : job'[v] # 0) = w
      BY <2>5, <3>2, <3>3
    <3> QED  BY <2>5, <3>2, <3>4 DEF Latest
  <2> QED  BY <1>1, <2>2, <2>5, <2>7, <2>8, ShownSteps
<1> QED
  BY <1>2, <1>3
  DEF GuestStep, Protocol, Whim, Ready, RejectRequest, TakeShutdown,
      TakeToolResponse, Finish, FinishBadly, Die, CallTool, StartChild,
      ChildSpeaks, ChildExits

LEMMA ReaderImplements ==
    ASSUME NEW w \in Workers, Read(w)
    PROVE  [Contract!Next]_(Contract!vars)
<1>1. UNCHANGED <<ended, verdict, lock, pc, run, job>>
  BY DEF Read, ReaderLoop, ReaderLine, ReaderEnd, guestVars, callVars
<1> QED  BY <1>1, ShownSteps DEF Active, Latest

\* The result that execute returns is that of the run in progress, whose code
\* was the last to reach the namespace.
LEMMA ReceiveImplements ==
    ASSUME TypeOK, SessionInv, AnswerInv, OrderInv, NEW t \in Threads, Receive(t)
    PROVE  [Contract!Next]_(Contract!vars)
<1>1. Shape /\ LockDiscipline /\ EndDiscipline /\ SharedTyped
  BY ShapeTyped, TypeParts DEF SessionInv
<1> USE <1>1, HostAssumption DEF Shape, CallsTyped
<1> DEFINE m == Head(responses)
<1>2. /\ pc[t] \in {"ready", "receive"} /\ lock = t /\ run[t] # 0 /\ ~ended
      /\ responses # <<>> /\ UNCHANGED job /\ run[t] = runs
  BY DEF Receive, guestVars, LockDiscipline, EndDiscipline, AnswerInv, Alone, OrderInv, Numbered
<1>3. Active = run[t] /\ Latest' = Latest
  BY <1>2 DEF Active, Latest
<1>4. \/ Terminal(t)
      \/ Started(t) /\ UNCHANGED <<ended, verdict>>
      \/ Goto(t, "tool") /\ UNCHANGED <<ended, lock, run, verdict>>
      \/ /\ m.type = "execution_result" /\ Leave(t, "ok") /\ UNCHANGED ended
         /\ verdict' = [verdict EXCEPT ![run[t]] = m.id]
  BY DEF Receive
<1>5. CASE Terminal(t)
  <2>1. /\ ended' = TRUE /\ UNCHANGED <<verdict, lock, run>>
        /\ Active' = Active
    BY <1>2, <1>3, <1>5 DEF Terminal, callVars, Goto, Active
  <2> QED  BY <1>2, <1>3, <2>1, ShownSteps
<1>6. CASE Started(t) /\ UNCHANGED <<ended, verdict>>
  <2>1. Active' = Active
    BY <1>2, <1>3, <1>6 DEF Started, Goto, Active
  <2> QED  BY <1>3, <1>6, <2>1, ShownSteps
<1>7. CASE Goto(t, "tool") /\ UNCHANGED <<ended, lock, run, verdict>>
  <2>1. Active' = Active
    BY <1>2, <1>3, <1>7 DEF Goto, Active
  <2> QED  BY <1>3, <1>7, <2>1, ShownSteps
<1>8. CASE /\ m.type = "execution_result" /\ Leave(t, "ok") /\ UNCHANGED ended
           /\ verdict' = [verdict EXCEPT ![run[t]] = m.id]
  <2>1. m.id \in Queued
    BY <1>2, <1>8, TailLines DEF Queued, SharedTyped
  <2>2. m.id = run[t]
    BY <1>2, <2>1 DEF AnswerInv, OneAnswer, Awaited
  <2>3. PICK w \in Workers : job[w] = run[t]
    BY <1>2, <2>1, <2>2 DEF OrderInv, Current
  <2>4. Latest = Active
    BY <1>2, <1>3, <2>3, LatestIs DEF SessionInv
  <2>5. Active' = 0
    BY <1>2, <1>8 DEF Leave, Active
  <2> QED  BY <1>2, <1>3, <1>8, <2>2, <2>4, <2>5, ShownSteps
<1> QED  BY <1>4, <1>5, <1>6, <1>7, <1>8

LEMMA ThreadImplements ==
    ASSUME Starters = {}, Overlap = FALSE, Interrupts = FALSE,
           TypeOK, SessionInv, AnswerInv, OrderInv,
           NEW t \in Threads, Advance(t) \/ Choose(t)
    PROVE  [Contract!Next]_(Contract!vars)
<1>1. Shape /\ SharedTyped /\ LockDiscipline /\ EndDiscipline /\ Alone /\ Silence
  BY ShapeTyped, TypeParts DEF SessionInv, AnswerInv
<1> USE <1>1, HostAssumption DEF Shape, CallsTyped
<1> DEFINE Hidden == /\ UNCHANGED <<ended, verdict, job>>
                     /\ Active' = Active
           Closing == /\ ended' = TRUE /\ UNCHANGED <<verdict, job>>
                      /\ Active' = Active
           Raising == /\ UNCHANGED <<ended, verdict, job>>
                      /\ Active # 0 /\ Active' = 0
<1>2. Hidden \/ Closing \/ Raising => [Contract!Next]_(Contract!vars)
  <2>1. job' = job => Latest' = Latest
    BY DEF Latest
  <2> QED  BY <2>1, ShownSteps
<1>3. CASE CallExecute(t)
  <2>1. Hidden
    BY <1>3 DEF CallExecute, Active, Goto, guestVars
  <2> QED  BY <1>2, <2>1
<1>4. CASE CallBusy(t)
  <2>1. Hidden
    BY <1>4 DEF CallBusy, Active, guestVars
  <2> QED  BY <1>2, <2>1
<1>5. CASE RejectInput(t)
  <2>1. Hidden
    BY <1>5 DEF RejectInput, Active, Leave, guestVars, LockDiscipline
  <2> QED  BY <1>2, <2>1
<1>6. CASE CallShutdown(t)
  <2>1. Hidden \/ Closing
    BY <1>6 DEF CallShutdown, Active, MayStop, Goto, guestVars, LockDiscipline
  <2> QED  BY <1>2, <2>1
<1>7. CASE Attach(t)
  <2>1. Hidden
    BY <1>7 DEF Attach, Active, Started, Leave, Goto, guestVars, LockDiscipline, EndDiscipline
  <2> QED  BY <1>2, <2>1
<1>8. CASE Spawn(t)
  <2>1. Hidden
    BY <1>8 DEF Spawn, Active, Goto, Become, callVars
  <2> QED  BY <1>2, <2>1
<1>9. CASE SpawnFails(t)
  <2>1. Raising
    BY <1>9 DEF SpawnFails, Active, Leave, guestVars, LockDiscipline, EndDiscipline
  <2> QED  BY <1>2, <2>1
<1>10. CASE Send(t)
  <2>1. Hidden \/ Closing
    BY <1>10 DEF Send, Active, Terminal, Goto, guestVars, callVars, LockDiscipline
  <2> QED  BY <1>2, <2>1
<1>11. CASE Write(t)
  <2>1. Hidden \/ Closing
    BY <1>11 DEF Write, Active, Terminal, Goto, callVars
  <2> QED  BY <1>2, <2>1
<1>12. CASE Timeout(t)
  <2>1. Closing
    BY <1>12 DEF Timeout, Active, Terminal, Goto, guestVars, callVars
  <2> QED  BY <1>2, <2>1
<1>13. CASE RunTool(t)
  <2>1. Hidden
    BY <1>13 DEF RunTool, Active, Goto, guestVars, callVars
  <2> QED  BY <1>2, <2>1
<1>14. CASE Await(t)
  <2>1. Hidden
    BY <1>14 DEF Await, Active, LeaveShutdown, Goto, guestVars, LockDiscipline
  <2> QED  BY <1>2, <2>1
<1>15. CASE Wait(t)
  <2>1. Hidden
    BY <1>15 DEF Wait, Active, Goto, guestVars, callVars
  <2> QED  BY <1>2, <2>1
<1>16. CASE LastKill(t)
  <2>1. Hidden
    BY <1>16 DEF LastKill, Active, Goto, guestVars
  <2> QED  BY <1>2, <2>1
<1>17. CASE Detach(t)
  <2>1. Hidden \/ Raising
    BY <1>17 DEF Detach, Active, Killed, Leave, LeaveShutdown, Goto, guestVars, LockDiscipline
  <2> QED  BY <1>2, <2>1
<1>18. CASE Reap(t)
  <2>1. Hidden
    BY <1>18 DEF Reap, Active, Goto, Become, callVars
  <2> QED  BY <1>2, <2>1
<1>19. CASE CloseStdin(t)
  <2>1. Hidden \/ Raising
    BY <1>19 DEF CloseStdin, Active, Escape, Leave, LeaveShutdown, Goto, guestVars, LockDiscipline
  <2> QED  BY <1>2, <2>1
<1>20. CASE CloseStdout(t)
  <2>1. Hidden \/ Raising
    BY <1>20 DEF CloseStdout, Active, Killed, Leave, LeaveShutdown, Goto, guestVars, LockDiscipline
  <2> QED  BY <1>2, <2>1
<1>21. CASE StartCheck(t)
  <2>1. pc[t] = "check" /\ lock = t /\ Active = 0 /\ Unasked(t) /\ run[t] \in 1..MaxRuns
        /\ UNCHANGED <<ended, verdict, job>> /\ Latest' = Latest
    BY <1>21 DEF StartCheck, LockDiscipline, Active, Unasked, guestVars, Latest
  <2>2. CASE ended
    <3>1. Hidden
      BY <1>21, <2>1, <2>2 DEF StartCheck, Leave, Active
    <3> QED  BY <1>2, <3>1
  <2>3. CASE ~ended
    <3>1. Active' = run[t]
      BY <1>21, <2>1, <2>3 DEF StartCheck, Goto, Active
    <3>2. run[t] = runs /\ verdict[runs] = 0 /\ \A w \in Workers : job[w] < runs
      BY <2>1 DEF OrderInv, Numbered, Unread
    <3>3. Latest < run[t]
      <4>1. CASE \E w \in Workers : job[w] # 0
        BY <3>2, <4>1, LatestIs DEF SessionInv
      <4>2. CASE \A w \in Workers : job[w] = 0
        BY <2>1, <4>2, LatestIs DEF SessionInv
      <4> QED  BY <4>1, <4>2
    <3> QED  BY <2>1, <2>3, <3>1, <3>2, <3>3, ShownSteps
  <2> QED  BY <2>2, <2>3
<1>22. CASE Receive(t)
  BY <1>22, ReceiveImplements
<1>23. CASE CallStart(t) \/ Interrupt(t)
  BY <1>23 DEF CallStart, Interrupt
<1> QED
  BY <1>3, <1>4, <1>5, <1>6, <1>7, <1>8, <1>9, <1>10, <1>11, <1>12, <1>13, <1>14, <1>15, <1>16, <1>17, <1>18, <1>19, <1>20, <1>21, <1>22, <1>23
  DEF Advance, Choose

\* Seen from its callers, the session with its threads, its queue, its worker
\* and whatever guest code leaves running is the atomic object of
\* CodeInterpreter: for any number of threads, executions, tool calls, guest
\* threads and child processes, as long as nobody calls start directly, shutdown
\* does not overlap another thread's execution and no BaseException leaves a
\* call behind.
THEOREM Implements ==
    ASSUME Starters = {}, Overlap = FALSE, Interrupts = FALSE
    PROVE  Spec => ImplementsContract
<1>1. Init => Contract!Init
  BY HostAssumption DEF Init, GuestInit, HostInit, Contract!Init, Active, Latest
<1>2. TypeOK /\ SessionInv /\ AnswerInv /\ OrderInv /\ [Next]_vars
         => [Contract!Next]_(Contract!vars)
  <2> SUFFICES ASSUME TypeOK, SessionInv, AnswerInv, OrderInv, [Next]_vars
               PROVE  [Contract!Next]_(Contract!vars)
    OBVIOUS
  <2>1. CASE UNCHANGED vars
    BY <2>1, ShownSteps DEF vars, guestVars, hostVars, Active, Latest
  <2>2. CASE Next
    BY <2>2, ThreadImplements, ReaderImplements, GuestImplements DEF Next
  <2> QED  BY <2>1, <2>2
<1> QED
  BY <1>1, <1>2, SessionHolds, AnswersInStep, OrderHolds, PTL
  DEF Spec, ImplementsContract, Contract!Spec

-----------------------------------------------------------------------------
(* Host tools, when guest code starts no threads.                          *)

\* The request the main thread of the worker waits for.
Waiting(w) == awaits[w][Main]

Requested(w) == Ids(stdout[w], "tool_request")
Pending == Ids(responses, "tool_request")
Served == IF lock # None /\ tool[lock] # 0 THEN {tool[lock]} ELSE {}

\* A request is in one place at a time, and whoever made it waits for the
\* answer, which is the next line of its stdin.
OneRequest ==
    /\ Single(responses, "tool_request")
    /\ Pending = {} \/ Served = {}
    /\ Pending \cup Served \subseteq {Waiting(w) : w \in Workers}
    /\ \A w \in Workers :
          /\ Single(stdout[w], "tool_request")
          /\ Requested(w) \subseteq {Waiting(w)}
          /\ Requested(w) = {} \/ Pending \cup Served = {}
          /\ stdin[w] # <<>> => /\ Requested(w) \cup Pending \cup Served = {}
                                /\ Len(stdin[w]) = 1
                                /\ Asked(w) # {} \/ Waiting(w) # 0
          /\ Waiting(w) # 0 => /\ lock # None /\ Asking(lock)
                               /\ Queued \cup Answered(w) = {}

\* Only code that runs, or that its worker did not survive, waits.
Busy == \A w \in Workers : Waiting(w) # 0 => worker[w] \in {"busy", "exited"}

\* Only the execute call serves requests.
Serving == \A t \in Threads : tool[t] # 0 => lock = t

RequestInv == Busy /\ Serving /\ (~ended => OneRequest)

\* Nothing moves between the places, and whoever awaits an answer still does.
LEMMA SteadyRequest ==
    ASSUME OneRequest, UNCHANGED <<stdin, stdout, awaits, responses>>,
           Served' \subseteq Served,
           lock # None /\ Asking(lock) => lock' # None /\ Asking(lock)'
    PROVE  OneRequest'
<1>1. /\ Pending' = Pending /\ Queued' = Queued
      /\ \A w \in Workers : /\ Waiting(w)' = Waiting(w) /\ Requested(w)' = Requested(w)
                            /\ Asked(w)' = Asked(w) /\ Answered(w)' = Answered(w)
  BY DEF Pending, Queued, Waiting, Requested, Asked, Answered
<1>2. {Waiting(w) : w \in Workers}' = {Waiting(w) : w \in Workers}
  BY DEF Waiting
<1> QED  BY <1>1, <1>2 DEF OneRequest

\* A step of one worker.
LEMMA WorkerRequest ==
    ASSUME OneRequest, NEW w \in Workers, UNCHANGED <<responses, lock>>,
           Served' = Served, lock # None /\ Asking(lock) => Asking(lock)',
           \A v \in Workers \ {w} : /\ stdin'[v] = stdin[v] /\ stdout'[v] = stdout[v]
                                    /\ awaits'[v] = awaits[v],
           Single(stdout'[w], "tool_request"),
           Requested(w)' \subseteq Requested(w),
           stdin'[w] = <<>> \/ (stdin'[w] = stdin[w] /\ Waiting(w)' = Waiting(w)),
           \/ Waiting(w)' = Waiting(w)
           \/ Waiting(w)' = 0 /\ Requested(w) \cup Pending \cup Served = {},
           Waiting(w) # 0 => Answered(w)' = {}
    PROVE  OneRequest'
<1>1. Pending' = Pending /\ Queued' = Queued
  BY DEF Pending, Queued
<1>2. \A v \in Workers \ {w} : /\ Waiting(v)' = Waiting(v) /\ Requested(v)' = Requested(v)
                               /\ Asked(v)' = Asked(v) /\ Answered(v)' = Answered(v)
  BY DEF Waiting, Requested, Asked, Answered
<1>3. stdin'[w] = stdin[w] => Asked(w)' = Asked(w)
  BY DEF Asked
<1>4. Pending' \cup Served' \subseteq {Waiting(v) : v \in Workers}'
  <2> SUFFICES ASSUME NEW x \in Pending \cup Served
               PROVE  \E v \in Workers : x = Waiting(v)'
    BY <1>1
  <2>1. PICK v \in Workers : x = Waiting(v)
    BY DEF OneRequest
  <2>2. CASE v = w
    BY <2>1, <2>2
  <2>3. CASE v # w
    BY <1>2, <2>1, <2>3
  <2> QED  BY <2>2, <2>3
<1>5. ASSUME NEW v \in Workers
      PROVE  /\ Single(stdout'[v], "tool_request")
             /\ Requested(v)' \subseteq {Waiting(v)'}
             /\ Requested(v)' = {} \/ Pending' \cup Served' = {}
             /\ stdin'[v] # <<>> => /\ Requested(v)' \cup Pending' \cup Served' = {}
                                    /\ Len(stdin'[v]) = 1
                                    /\ Asked(v)' # {} \/ Waiting(v)' # 0
             /\ Waiting(v)' # 0 => /\ lock' # None /\ Asking(lock)'
                                   /\ Queued' \cup Answered(v)' = {}
  <2>1. CASE v = w
    BY <1>1, <1>3, <2>1 DEF OneRequest
  <2>2. CASE v # w
    BY <1>1, <1>2, <2>2 DEF OneRequest
  <2> QED  BY <2>1, <2>2
<1> QED  BY <1>1, <1>4, <1>5 DEF OneRequest

\* When the main thread waits for nothing, no request is anywhere.
LEMMA NoRequest ==
    ASSUME Silence, OneRequest, \A v \in Workers : Waiting(v) = 0
    PROVE  Pending \cup Served = {} /\ \A v \in Workers : Requested(v) = {}
<1>1. 0 \notin Pending /\ 0 \notin Served /\ \A v \in Workers : 0 \notin Requested(v)
  BY DEF Silence, Pending, Served, Requested
<1> QED  BY <1>1 DEF OneRequest

LEMMA OthersUnborn ==
    ASSUME WorkerDiscipline, Silence, Busy, NEW w \in Workers, worker[w] # "unborn"
    PROVE  \A v \in Workers \ {w} : /\ worker[v] = "unborn" /\ stdin[v] = <<>>
                                    /\ stdout[v] = <<>> /\ Waiting(v) = 0
<1>1. \A v \in Workers \ {w} : worker[v] = "unborn"
  BY DEF WorkerDiscipline
<1> QED  BY <1>1 DEF Silence, Busy

LEMMA GuestRequest ==
    ASSUME Helpers = {}, TypeOK, SessionInv, Silence, ~ended => OneAnswer, RequestInv,
           GuestStep, UNCHANGED hostVars
    PROVE  RequestInv'
<1>1. PICK w \in Workers : Protocol(w) \/ Whim(w)
  BY DEF GuestStep
<1>2. Guests = {Main}
  BY DEF Guests
<1>3. /\ UNCHANGED <<lock, ended, responses, tool>> /\ Served' = Served
      /\ lock # None /\ Asking(lock) => Asking(lock)'
      /\ Pending' = Pending /\ Queued' = Queued
  BY DEF hostVars, Served, Asking, Pending, Queued
<1>4. worker[w] # "unborn"
  BY <1>1 DEF Protocol, Whim, Ready, TakeExecute, RejectRequest, TakeShutdown,
       TakeToolResponse, Finish, FinishBadly, Die, CallTool, Runs, StartChild,
       ChildSpeaks, ChildExits, HeldOpen, Alive, Silence
<1>5. \A v \in Workers \ {w} : /\ stdin'[v] = stdin[v] /\ stdout'[v] = stdout[v]
                               /\ worker'[v] = worker[v] /\ awaits'[v] = awaits[v]
  BY <1>1, LinesTyped
  DEF Protocol, Whim, Ready, TakeExecute, RejectRequest, TakeShutdown,
      TakeToolResponse, Finish, FinishBadly, Die, CallTool, StartChild,
      ChildSpeaks, ChildExits, Hear, Say, Become
<1>6. Serving'
  BY <1>3 DEF RequestInv, Serving
<1>7. Busy'
  <2>1. Waiting(w)' # 0 => worker'[w] \in {"busy", "exited"}
    BY <1>1, <1>2, LinesTyped, GuestAssumption
    DEF RequestInv, Busy, Protocol, Whim, Ready, TakeExecute, RejectRequest, TakeShutdown,
        TakeToolResponse, Finish, FinishBadly, Die, CallTool, Runs, StartChild,
        ChildSpeaks, ChildExits, Become, Waiting, Alive
  <2> QED  BY <1>5, <2>1 DEF RequestInv, Busy, Waiting
<1>8. ASSUME ~ended PROVE OneRequest'
  <2>1. OneRequest /\ OneAnswer /\ Single(stdout[w], "tool_request")
    BY <1>8 DEF RequestInv, OneRequest
  <2>2. stdin[w] # <<>> /\ stdin'[w] = Tail(stdin[w]) => stdin'[w] = <<>>
    BY <2>1, LinesTyped, OneLine DEF OneRequest
  <2>3. CASE \E type \in MsgTypes, id \in Nat :
                /\ type \notin {"execution_result", "tool_request"}
                /\ Say(w, Msg(type, id)) /\ UNCHANGED awaits
                /\ stdin'[w] = stdin[w] \/ stdin'[w] = <<>>
    <3>1. PICK type \in MsgTypes, id \in Nat :
                /\ type \notin {"execution_result", "tool_request"}
                /\ Say(w, Msg(type, id)) /\ UNCHANGED awaits
                /\ stdin'[w] = stdin[w] \/ stdin'[w] = <<>>
      BY <2>3
    <3>2. Msg(type, id) \in Line /\ Msg(type, id).type = type
      BY DEF Msg, Line
    <3>3. stdout'[w] = Append(stdout[w], Msg(type, id)) /\ stdout[w] \in Seq(Line)
      BY <3>1, LinesTyped DEF Say
    <3>4. /\ Answered(w)' = Answered(w) /\ Requested(w)' = Requested(w)
          /\ Single(stdout'[w], "tool_request")
      BY <2>1, <3>1, <3>2, <3>3, AppendOther DEF Answered, Requested
    <3> QED  BY <1>3, <1>5, <2>1, <3>1, <3>4, WorkerRequest DEF Waiting, OneRequest
  <2>4. CASE UNCHANGED <<stdout, awaits>> /\ (stdin'[w] = stdin[w] \/ stdin'[w] = <<>>)
    <3>1. /\ Answered(w)' = Answered(w) /\ Requested(w)' = Requested(w)
          /\ Waiting(w)' = Waiting(w)
      BY <2>4 DEF Answered, Requested, Waiting
    <3> QED  BY <1>3, <1>5, <2>1, <2>4, <3>1, WorkerRequest DEF OneRequest
  <2>5. CASE TakeToolResponse(w, Main)
    <3>1. stdin[w] # <<>> /\ stdin'[w] = <<>> /\ UNCHANGED stdout /\ Waiting(w)' = 0
      BY <2>2, <2>5, LinesTyped, <1>2 DEF TakeToolResponse, Hear, Waiting
    <3>2. Answered(w)' = Answered(w) /\ Requested(w)' = Requested(w)
      BY <3>1 DEF Answered, Requested
    <3> QED  BY <1>3, <1>5, <2>1, <3>1, <3>2, WorkerRequest DEF OneRequest
  <2>6. CASE Finish(w)
    <3> DEFINE m == Msg("execution_result", job[w])
    <3>1. m \in Line /\ m.type = "execution_result"
      BY LinesTyped DEF Msg, Line, MsgTypes
    <3>2. /\ stdout'[w] = Append(stdout[w], m) /\ stdout[w] \in Seq(Line)
          /\ UNCHANGED <<stdin, awaits>> /\ Waiting(w) = 0
      BY <2>6, LinesTyped DEF Finish, Say, Waiting
    <3>3. Requested(w)' = Requested(w) /\ Single(stdout'[w], "tool_request")
      <4> HIDE DEF m
      <4> QED  BY <2>1, <3>1, <3>2, AppendOther DEF Requested
    <3> QED  BY <1>3, <1>5, <2>1, <3>2, <3>3, WorkerRequest DEF Waiting
  <2>7. CASE CallTool(w, Main)
    <3> DEFINE m == Msg("tool_request", issued + 1)
    <3>1. /\ m \in Line /\ m.type = "tool_request" /\ m.id = issued + 1
          /\ issued + 1 \in Nat \ {0}
      BY LinesTyped DEF Msg, Line, MsgTypes
    <3>2. /\ worker[w] = "busy" /\ Waiting(w) = 0 /\ UNCHANGED stdin
          /\ stdout'[w] = Append(stdout[w], m) /\ stdout[w] \in Seq(Line)
          /\ Waiting(w)' = issued + 1
      BY <2>7, <1>2, LinesTyped, GuestAssumption DEF CallTool, Runs, Say, Waiting
    <3>3. \A v \in Workers \ {w} : stdin[v] = <<>> /\ stdout[v] = <<>> /\ Waiting(v) = 0
      BY <1>4, OthersUnborn DEF SessionInv, RequestInv
    <3>4. Pending \cup Served = {} /\ \A v \in Workers : Requested(v) = {}
      BY <2>1, <3>2, <3>3, NoRequest
    <3>5. /\ lock # None /\ Asking(lock) /\ Queued = {} /\ Answered(w) = {} /\ Asked(w) = {}
      BY <2>1, <3>2 DEF OneAnswer, Working, Awaited
    <3>6. stdin[w] = <<>>
      BY <2>1, <3>2, <3>5 DEF OneRequest
    <3>7. Requested(w)' = {issued + 1} /\ Single(stdout'[w], "tool_request")
      <4> HIDE DEF m
      <4>1. Ids(stdout[w], m.type) = {}
        BY <3>1, <3>4 DEF Requested
      <4>2. /\ Ids(Append(stdout[w], m), m.type) = {m.id}
            /\ Single(Append(stdout[w], m), m.type)
        BY <3>1, <3>2, <4>1, AppendFirst
      <4> QED  BY <3>1, <3>2, <4>2 DEF Requested
    <3>8. Answered(w)' = {}
      <4> HIDE DEF m
      <4> QED  BY <3>1, <3>2, <3>5, AppendOther DEF Answered
    <3>9. \A v \in Workers \ {w} : /\ Requested(v)' = {} /\ stdin'[v] = <<>>
                                   /\ Waiting(v)' = 0 /\ Single(stdout'[v], "tool_request")
      BY <1>5, <3>3, EmptyQueue DEF Requested, Waiting
    <3>10. Single(responses', "tool_request")
      BY <1>3, <2>1 DEF OneRequest
    <3> QED  BY <1>3, <3>2, <3>4, <3>5, <3>6, <3>7, <3>8, <3>9, <3>10 DEF OneRequest
  <2>8. CASE TakeExecute(w) \/ TakeShutdown(w)
    BY <2>2, <2>4, <2>8, LinesTyped DEF TakeExecute, TakeShutdown, Hear
  <2>9. CASE RejectRequest(w)
    BY <2>2, <2>3, <2>9, LinesTyped DEF RejectRequest, Hear, MsgTypes
  <2>10. CASE Ready(w) \/ FinishBadly(w) \/ ChildSpeaks(w)
    BY <2>3, <2>10 DEF Ready, FinishBadly, ChildSpeaks, MsgTypes
  <2>11. CASE Die(w) \/ StartChild(w) \/ ChildExits(w)
    BY <2>4, <2>11 DEF Die, StartChild, ChildExits
  <2> QED
    BY <1>1, <1>2, <2>5, <2>6, <2>7, <2>8, <2>9, <2>10, <2>11 DEF Protocol, Whim
<1> QED  BY <1>3, <1>6, <1>7, <1>8 DEF RequestInv

LEMMA ReaderRequest ==
    ASSUME TypeOK, SessionInv, Silence, RequestInv, NEW w \in Workers, Read(w)
    PROVE  RequestInv'
<1> DEFINE Q == "tool_request"
           R == "execution_result"
<1>1. /\ UNCHANGED <<stdin, worker, awaits, lock, ended, tool>> /\ Served' = Served
      /\ lock # None /\ Asking(lock) => Asking(lock)'
      /\ \A v \in Workers : Waiting(v)' = Waiting(v) /\ Asked(v)' = Asked(v)
  BY DEF Read, ReaderLoop, ReaderLine, ReaderEnd, guestVars, callVars, Served, Asking,
     Waiting, Asked
<1>2. Busy' /\ Serving'
  BY <1>1 DEF RequestInv, Busy, Serving
<1>3. ASSUME ~ended PROVE OneRequest'
  <2>1. OneRequest /\ Single(responses, Q)
    BY <1>3 DEF RequestInv, OneRequest
  <2>2. CASE ReaderLoop(w)
    BY <1>1, <2>1, <2>2, SteadyRequest DEF ReaderLoop, guestVars
  <2>3. CASE ReaderEnd(w)
    <3> DEFINE m == [type |-> "eof", id |-> 0]
    <3>1. /\ m \in Line /\ m.type \notin {Q, R} /\ responses' = Append(responses, m)
          /\ UNCHANGED stdout
      BY <2>3 DEF ReaderEnd, guestVars, Line
    <3>2. Queued' = Queued /\ Pending' = Pending /\ Single(responses', Q)
      <4> HIDE DEF m
      <4> QED  BY <2>1, <3>1, LinesTyped, AppendOther DEF Queued, Pending
    <3>3. \A v \in Workers : Answered(v)' = Answered(v) /\ Requested(v)' = Requested(v)
      BY <3>1 DEF Answered, Requested
    <3>4. {Waiting(v) : v \in Workers}' = {Waiting(v) : v \in Workers}
      BY <1>1
    <3> QED  BY <1>1, <2>1, <3>1, <3>2, <3>3, <3>4 DEF OneRequest
  <2>4. CASE ReaderLine(w)
    <3> DEFINE m == Head(stdout[w])
    <3>1. /\ stdout[w] # <<>> /\ stdout[w] \in Seq(Line) /\ responses \in Seq(Line)
          /\ m \in Line /\ responses' = Append(responses, m)
          /\ stdout'[w] = Tail(stdout[w])
          /\ \A v \in Workers \ {w} : stdout'[v] = stdout[v]
      BY <2>4, LinesTyped, QueueTypes DEF ReaderLine
    <3>2. worker[w] # "unborn"
      BY <3>1 DEF Silence
    <3>3. \A v \in Workers \ {w} : /\ stdin[v] = <<>> /\ stdout[v] = <<>> /\ Waiting(v) = 0
                                   /\ Requested(v)' = {} /\ Single(stdout'[v], Q)
      BY <3>1, <3>2, OthersUnborn, EmptyQueue DEF SessionInv, RequestInv, Requested
    <3>4. Single(stdout[w], Q)
      BY <2>1 DEF OneRequest
    <3>5. /\ Requested(w)' \subseteq Requested(w) /\ Single(stdout'[w], Q)
          /\ Answered(w)' \subseteq Answered(w)
      BY <3>1, <3>4, TailLines DEF Requested, Answered
    <3>6. /\ m.type = Q => m.id \in Requested(w) /\ Requested(w)' = {}
          /\ m.type = R => m.id \in Answered(w)
      BY <3>1, <3>4, TailLines DEF Requested, Answered
    <3>7. {Waiting(v) : v \in Workers}' = {Waiting(v) : v \in Workers}
      BY <1>1
    <3>8. CASE m.type = Q
      <4>1. /\ Pending \cup Served = {} /\ m.id = Waiting(w) /\ stdin[w] = <<>>
        BY <2>1, <3>6, <3>8 DEF OneRequest
      <4>2. Pending' = {m.id} /\ Single(responses', Q) /\ Queued' = Queued
        <5> HIDE DEF m
        <5>1. Ids(responses, m.type) = {} /\ R # m.type
          BY <3>8, <4>1 DEF Pending
        <5>2. /\ Ids(Append(responses, m), m.type) = {m.id}
              /\ Single(Append(responses, m), m.type)
          BY <3>1, <5>1, AppendFirst
        <5>3. Ids(Append(responses, m), R) = Ids(responses, R)
          BY <3>1, <5>1, AppendOther
        <5> QED  BY <3>1, <3>8, <5>2, <5>3 DEF Pending, Queued
      <4>3. \A v \in Workers : stdin'[v] = <<>> /\ Requested(v)' = {} /\ Single(stdout'[v], Q)
        BY <1>1, <3>3, <3>5, <3>6, <3>8, <4>1
      <4>4. \A v \in Workers : Waiting(v)' # 0 =>
               /\ lock' # None /\ Asking(lock)' /\ Queued' \cup Answered(v)' = {}
        BY <1>1, <2>1, <3>3, <3>5, <4>2 DEF OneRequest
      <4> QED  BY <1>1, <3>7, <4>1, <4>2, <4>3, <4>4 DEF OneRequest
    <3>9. CASE m.type # Q
      <4>1. Pending' = Pending /\ Single(responses', Q)
        <5> HIDE DEF m
        <5> QED  BY <2>1, <3>1, <3>9, AppendOther DEF Pending
      <4>2. Waiting(w) # 0 => Queued' = {} /\ Answered(w)' = {}
        <5>1. ASSUME Waiting(w) # 0 PROVE Queued' = {} /\ Answered(w)' = {}
          <6>1. Queued = {} /\ Answered(w) = {}
            BY <2>1, <5>1 DEF OneRequest
          <6>2. m.type # R
            BY <3>6, <6>1
          <6>3. Queued' = Queued
            <7> HIDE DEF m
            <7> QED  BY <3>1, <6>2, AppendOther DEF Queued
          <6> QED  BY <3>5, <6>1, <6>3
        <5> QED  BY <5>1
      <4>3. ASSUME NEW v \in Workers
            PROVE  /\ Single(stdout'[v], Q)
                   /\ Requested(v)' \subseteq {Waiting(v)'}
                   /\ Requested(v)' = {} \/ Pending' \cup Served' = {}
                   /\ stdin'[v] # <<>> => /\ Requested(v)' \cup Pending' \cup Served' = {}
                                          /\ Len(stdin'[v]) = 1
                                          /\ Asked(v)' # {} \/ Waiting(v)' # 0
                   /\ Waiting(v)' # 0 => /\ lock' # None /\ Asking(lock)'
                                         /\ Queued' \cup Answered(v)' = {}
        <5>1. CASE v = w
          BY <1>1, <2>1, <3>5, <4>1, <4>2, <5>1 DEF OneRequest
        <5>2. CASE v # w
          BY <1>1, <2>1, <3>3, <4>1, <5>2 DEF OneRequest
        <5> QED  BY <5>1, <5>2
      <4>4. /\ Pending' = {} \/ Served' = {}
            /\ Pending' \cup Served' \subseteq {Waiting(v) : v \in Workers}'
        BY <1>1, <2>1, <3>7, <4>1 DEF OneRequest
      <4> QED  BY <4>1, <4>3, <4>4 DEF OneRequest
    <3> QED  BY <3>8, <3>9
  <2> QED  BY <2>2, <2>3, <2>4 DEF Read
<1> QED  BY <1>1, <1>2, <1>3 DEF RequestInv

LEMMA WriteRequest ==
    ASSUME Helpers = {}, TypeOK, SessionInv, Silence, Alone, ~ended => OneAnswer, RequestInv,
           NEW t \in Threads, Write(t), ~ended, ~ended'
    PROVE  OneRequest'
<1>1. Shape /\ LockDiscipline /\ EndDiscipline /\ WorkerDiscipline /\ OneRequest /\ OneAnswer
  BY ShapeTyped DEF SessionInv, RequestInv
<1> USE <1>1, HostAssumption DEF Shape, CallsTyped
<1>2. PICK w \in Workers : w = handle[t]
  BY DEF Write
<1>3. /\ stdin' = [stdin EXCEPT ![w] = Append(@, Outgoing(t))]
      /\ pc[t] = "write" /\ frame[t] = "call" /\ lock = t
      /\ tool' = [tool EXCEPT ![t] = 0]
      /\ pc' = [pc EXCEPT ![t] = "receive"] /\ worker[w] # "unborn"
      /\ UNCHANGED <<lock, stdout, awaits, responses>>
  BY <1>2 DEF Write, Terminal, Goto, EndDiscipline, LockDiscipline, WorkerDiscipline
<1> DEFINE m == Outgoing(t)
<1>4. m \in Line /\ stdin[w] \in Seq(Line)
  BY LinesTyped DEF Outgoing, Msg, Line, MsgTypes
<1>5. \A v \in Workers \ {w} : stdin'[v] = <<>> /\ Waiting(v) = 0
  BY <1>3, LinesTyped, OthersUnborn DEF RequestInv
<1>6. Served' = {} /\ Asking(t)' /\ lock' = t
  BY <1>3 DEF Served, Asking
<1>7. /\ Pending' = Pending /\ Queued' = Queued
      /\ \A v \in Workers : /\ Waiting(v)' = Waiting(v) /\ Requested(v)' = Requested(v)
                            /\ Answered(v)' = Answered(v)
  BY <1>3 DEF Pending, Queued, Waiting, Requested, Answered
<1>8. {Waiting(v) : v \in Workers}' = {Waiting(v) : v \in Workers}
  BY <1>7
<1>9. /\ Pending = {} /\ \A v \in Workers : Requested(v) = {}
      /\ stdin[w] = <<>>
      /\ Waiting(w) # 0 \/ m.type = "execute"
  <2>1. CASE tool[t] # 0
    <3>1. Served # {} /\ tool[t] \in Served
      BY <1>3, <2>1 DEF Served
    <3>2. PICK v \in Workers : tool[t] = Waiting(v)
      BY <3>1 DEF OneRequest
    <3>3. Waiting(w) # 0
      BY <1>5, <2>1, <3>2
    <3> QED  BY <3>1, <3>3 DEF OneRequest
  <2>2. CASE tool[t] = 0
    <3>1. ~Asking(lock)
      BY <1>3, <2>2 DEF Asking
    <3>2. \A v \in Workers : Waiting(v) = 0
      BY <3>1 DEF OneRequest
    <3>3. Asked(w) = {}
      BY <3>1 DEF OneAnswer, Awaited
    <3>4. stdin[w] = <<>>
      BY <3>2, <3>3 DEF OneRequest
    <3>5. m.type = "execute"
      BY <1>3, <2>2 DEF Outgoing, Msg
    <3> QED  BY <3>2, <3>4, <3>5, NoRequest DEF RequestInv, Silence
  <2> QED  BY <2>1, <2>2
<1>10. Len(stdin'[w]) = 1 /\ (m.type = "execute" => Asked(w)' # {})
  <2> HIDE DEF m
  <2>1. stdin'[w] = Append(stdin[w], m)
    BY <1>3, LinesTyped DEF m
  <2>2. Len(Append(stdin[w], m)) = 1
    BY <1>4, <1>9
  <2>3. Ids(stdin[w], m.type) = {}
    BY <1>9, EmptyQueue
  <2>4. Ids(Append(stdin[w], m), m.type) = {m.id}
    BY <1>4, <2>3, AppendFirst
  <2> QED  BY <2>1, <2>2, <2>4 DEF Asked
<1>11. ASSUME NEW v \in Workers
      PROVE  /\ Single(stdout'[v], "tool_request")
             /\ Requested(v)' \subseteq {Waiting(v)'}
             /\ Requested(v)' = {} \/ Pending' \cup Served' = {}
             /\ stdin'[v] # <<>> => /\ Requested(v)' \cup Pending' \cup Served' = {}
                                    /\ Len(stdin'[v]) = 1
                                    /\ Asked(v)' # {} \/ Waiting(v)' # 0
             /\ Waiting(v)' # 0 => /\ lock' # None /\ Asking(lock)'
                                   /\ Queued' \cup Answered(v)' = {}
  <2>1. /\ Single(stdout'[v], "tool_request") /\ Requested(v)' = {}
        /\ Pending' \cup Served' = {}
        /\ Waiting(v) # 0 => Queued \cup Answered(v) = {}
    BY <1>3, <1>6, <1>7, <1>9 DEF OneRequest
  <2>2. CASE v = w
    BY <1>6, <1>7, <1>9, <1>10, <2>1, <2>2
  <2>3. CASE v # w
    BY <1>5, <1>6, <1>7, <2>1, <2>3
  <2> QED  BY <2>2, <2>3
<1>12. Single(responses', "tool_request") /\ Pending' \cup Served' = {}
  BY <1>3, <1>6, <1>7, <1>9 DEF OneRequest
<1> QED  BY <1>11, <1>12 DEF OneRequest

LEMMA RequestParts ==
    ASSUME Single(responses', "tool_request"),
           Pending' = {} \/ Served' = {},
           \A x \in Pending' \cup Served' : \E v \in Workers : x = Waiting(v)',
           \A v \in Workers :
              /\ Single(stdout'[v], "tool_request")
              /\ Requested(v)' \subseteq {Waiting(v)'}
              /\ Requested(v)' = {} \/ Pending' \cup Served' = {}
              /\ stdin'[v] # <<>> => /\ Requested(v)' \cup Pending' \cup Served' = {}
                                     /\ Len(stdin'[v]) = 1
                                     /\ Asked(v)' # {} \/ Waiting(v)' # 0
              /\ Waiting(v)' # 0 => /\ lock' # None /\ Asking(lock)'
                                    /\ Queued' \cup Answered(v)' = {}
    PROVE  OneRequest'
  BY DEF OneRequest

LEMMA ReceiveRequest ==
    ASSUME TypeOK, SessionInv, Silence, Alone, RequestInv,
           NEW t \in Threads, Receive(t), ~ended, ~ended'
    PROVE  OneRequest'
<1>1. Shape /\ LockDiscipline /\ SharedTyped /\ OneRequest
  BY ShapeTyped, TypeParts DEF SessionInv, RequestInv
<1> USE <1>1, HostAssumption DEF Shape, CallsTyped, SharedTyped
<1> DEFINE m == Head(responses)
           Q == "tool_request"
           R == "execution_result"
<1>2. /\ pc[t] \in {"ready", "receive"} /\ lock = t
      /\ responses # <<>> /\ responses' = Tail(responses)
      /\ UNCHANGED <<stdin, stdout, awaits>>
  BY DEF Receive, LockDiscipline, guestVars
<1>3. Single(responses, Q)
  BY DEF OneRequest
<1>4. /\ Pending' \subseteq Pending /\ Queued' \subseteq Queued /\ Single(responses', Q)
      /\ m.type = Q => m.id \in Pending /\ Pending' = {}
      /\ m.type = R => m.id \in Queued
  BY <1>2, <1>3, TailLines DEF Queued, Pending
<1>5. \A w \in Workers : /\ Waiting(w)' = Waiting(w) /\ Requested(w)' = Requested(w)
                         /\ Answered(w)' = Answered(w) /\ Asked(w)' = Asked(w)
  BY <1>2 DEF Waiting, Requested, Answered, Asked
<1>6. \A x \in Pending \cup Served : \E v \in Workers : x = Waiting(v)'
  BY <1>5 DEF OneRequest
<1>7. \/ pc[t] = "ready" /\ Started(t) /\ UNCHANGED verdict
      \/ /\ pc[t] = "receive" /\ m.type = Q /\ Goto(t, "tool") /\ UNCHANGED lock
         /\ tool' = [tool EXCEPT ![t] = m.id]
      \/ pc[t] = "receive" /\ m.type = R /\ Leave(t, "ok")
  BY DEF Receive, Accepts, Terminal
<1>8. CASE pc[t] = "ready" /\ Started(t) /\ UNCHANGED verdict
  <2>1. ~Asking(t) /\ (Served' = Served \/ Served' = {})
    BY <1>2, <1>8 DEF Asking, Started, Leave, Served
  <2>2. \A w \in Workers : Waiting(w) = 0
    BY <1>2, <2>1 DEF OneRequest
  <2>3. ASSUME NEW v \in Workers
        PROVE  /\ Single(stdout'[v], "tool_request")
               /\ Requested(v)' \subseteq {Waiting(v)'}
               /\ Requested(v)' = {} \/ Pending' \cup Served' = {}
               /\ stdin'[v] # <<>> => /\ Requested(v)' \cup Pending' \cup Served' = {}
                                      /\ Len(stdin'[v]) = 1
                                      /\ Asked(v)' # {} \/ Waiting(v)' # 0
               /\ Waiting(v)' # 0 => /\ lock' # None /\ Asking(lock)'
                                     /\ Queued' \cup Answered(v)' = {}
    <3>1. /\ Single(stdout[v], Q)
          /\ Requested(v) \subseteq {Waiting(v)}
          /\ Requested(v) = {} \/ Pending \cup Served = {}
          /\ stdin[v] # <<>> => /\ Requested(v) \cup Pending \cup Served = {}
                                /\ Len(stdin[v]) = 1
                                /\ Asked(v) # {} \/ Waiting(v) # 0
          /\ Waiting(v) # 0 => Queued \cup Answered(v) = {}
      BY DEF OneRequest
    <3>2. stdin'[v] = stdin[v] /\ stdout'[v] = stdout[v]
      BY <1>2
    <3> HIDE DEF m
    <3>3. Waiting(v) = 0 /\ Served' \subseteq Served
      BY <1>2, <1>4, <1>5, <2>1, <2>2, <3>1
    <3> QED  BY ONLY <1>2, <1>4, <1>5, <2>1, <2>2, <3>1, <3>2, <3>3
  <2>4. /\ Pending' = {} \/ Served' = {}
        /\ \A x \in Pending' \cup Served' : \E v \in Workers : x = Waiting(v)'
    BY <1>4, <1>6, <2>1 DEF OneRequest
  <2>5. Single(responses', "tool_request")
    BY <1>4
  <2> QED  BY ONLY <2>3, <2>4, <2>5, RequestParts
<1>9. CASE /\ pc[t] = "receive" /\ m.type = Q /\ Goto(t, "tool") /\ UNCHANGED lock
           /\ tool' = [tool EXCEPT ![t] = m.id]
  <2>1. Served' \subseteq {m.id} /\ Asking(t)' /\ Served = {} /\ lock' = t
    BY <1>2, <1>4, <1>9 DEF Served, Asking, Goto, OneRequest
  <2>2. m.id \in Pending /\ Pending' = {}
    BY <1>4, <1>9
  <2>3. ASSUME NEW v \in Workers
        PROVE  /\ Single(stdout'[v], "tool_request")
               /\ Requested(v)' \subseteq {Waiting(v)'}
               /\ Requested(v)' = {} \/ Pending' \cup Served' = {}
               /\ stdin'[v] # <<>> => /\ Requested(v)' \cup Pending' \cup Served' = {}
                                      /\ Len(stdin'[v]) = 1
                                      /\ Asked(v)' # {} \/ Waiting(v)' # 0
               /\ Waiting(v)' # 0 => /\ lock' # None /\ Asking(lock)'
                                     /\ Queued' \cup Answered(v)' = {}
    <3>1. /\ Single(stdout[v], Q)
          /\ Requested(v) \subseteq {Waiting(v)}
          /\ Requested(v) = {} \/ Pending \cup Served = {}
          /\ stdin[v] # <<>> => /\ Requested(v) \cup Pending \cup Served = {}
                                /\ Len(stdin[v]) = 1
                                /\ Asked(v) # {} \/ Waiting(v) # 0
          /\ Waiting(v) # 0 => Queued \cup Answered(v) = {}
      BY DEF OneRequest
    <3>2. stdin'[v] = stdin[v] /\ stdout'[v] = stdout[v]
      BY <1>2
    <3> HIDE DEF m
    <3>3. /\ Requested(v)' = {} /\ stdin[v] = <<>> /\ Pending # {}
          /\ lock' # None /\ Asking(lock)'
      BY <1>2, <1>4, <1>5, <2>1, <2>2, <3>1 DEF Asking
    <3> QED  BY ONLY <1>2, <1>4, <1>5, <2>1, <2>2, <3>1, <3>2, <3>3
  <2>4. /\ Pending' = {} \/ Served' = {}
        /\ \A x \in Pending' \cup Served' : \E v \in Workers : x = Waiting(v)'
    BY <1>6, <2>1, <2>2 DEF OneRequest
  <2>5. Single(responses', "tool_request")
    BY <1>4
  <2> QED  BY ONLY <2>3, <2>4, <2>5, RequestParts
<1>10. CASE pc[t] = "receive" /\ m.type = R /\ Leave(t, "ok")
  <2>1. Served' = {}
    BY <1>2, <1>10 DEF Leave, Served
  <2>2. \A w \in Workers : Waiting(w) = 0
    BY <1>4, <1>10 DEF OneRequest
  <2>3. ASSUME NEW v \in Workers
        PROVE  /\ Single(stdout'[v], "tool_request")
               /\ Requested(v)' \subseteq {Waiting(v)'}
               /\ Requested(v)' = {} \/ Pending' \cup Served' = {}
               /\ stdin'[v] # <<>> => /\ Requested(v)' \cup Pending' \cup Served' = {}
                                      /\ Len(stdin'[v]) = 1
                                      /\ Asked(v)' # {} \/ Waiting(v)' # 0
               /\ Waiting(v)' # 0 => /\ lock' # None /\ Asking(lock)'
                                     /\ Queued' \cup Answered(v)' = {}
    <3>1. /\ Single(stdout[v], Q)
          /\ Requested(v) \subseteq {Waiting(v)}
          /\ Requested(v) = {} \/ Pending \cup Served = {}
          /\ stdin[v] # <<>> => /\ Requested(v) \cup Pending \cup Served = {}
                                /\ Len(stdin[v]) = 1
                                /\ Asked(v) # {} \/ Waiting(v) # 0
          /\ Waiting(v) # 0 => Queued \cup Answered(v) = {}
      BY DEF OneRequest
    <3>2. stdin'[v] = stdin[v] /\ stdout'[v] = stdout[v]
      BY <1>2
    <3> HIDE DEF m
    <3>3. Waiting(v) = 0 /\ Served' \subseteq Served
      BY <1>2, <1>4, <1>5, <2>1, <2>2, <3>1
    <3> QED  BY ONLY <1>2, <1>4, <1>5, <2>1, <2>2, <3>1, <3>2, <3>3
  <2>4. /\ Pending' = {} \/ Served' = {}
        /\ \A x \in Pending' \cup Served' : \E v \in Workers : x = Waiting(v)'
    BY <1>4, <1>6, <2>1 DEF OneRequest
  <2>5. Single(responses', "tool_request")
    BY <1>4
  <2> QED  BY ONLY <2>3, <2>4, <2>5, RequestParts
<1> QED  BY <1>7, <1>8, <1>9, <1>10

LEMMA RequestThread ==
    ASSUME Helpers = {}, Starters = {}, Overlap = FALSE, Interrupts = FALSE,
           TypeOK, SessionInv, Silence, Alone, ~ended => OneAnswer, RequestInv,
           NEW t \in Threads, Advance(t) \/ Choose(t)
    PROVE  RequestInv'
<1>1. Shape /\ LockDiscipline /\ EndDiscipline
  BY ShapeTyped DEF SessionInv
<1> USE HostAssumption DEF Shape, CallsTyped
<1>2. Busy'
  <2>1. UNCHANGED awaits
    BY DEF Advance, Choose, guestVars, CallExecute, CallBusy, RejectInput, CallStart,
       CallShutdown, Interrupt, StartCheck, Attach, Spawn, SpawnFails, Send, Write,
       Receive, Timeout, RunTool, Await, Wait, LastKill, Detach, Reap, CloseStdin,
       CloseStdout
  <2>2. \A w \in Workers : worker'[w] = worker[w] \/ worker[w] = "unborn" \/ worker'[w] = "exited"
    BY <1>1
    DEF Advance, Choose, guestVars, CallExecute, CallBusy, RejectInput, CallStart,
       CallShutdown, Interrupt, StartCheck, Attach, Spawn, SpawnFails, Send, Write,
       Receive, Timeout, RunTool, Await, Wait, LastKill, Detach, Reap, CloseStdin,
       CloseStdout, Become
  <2> QED  BY <2>1, <2>2 DEF RequestInv, Busy, Waiting
<1>3. Serving'
  <2>1. \A u \in Threads : tool[u] # 0 => lock = u
    BY DEF RequestInv, Serving
  <2>2. CASE UNCHANGED <<tool, lock>>
    BY <2>1, <2>2 DEF Serving
  <2>3. CASE \E how : Leave(t, how)
    <3>1. /\ tool' = [tool EXCEPT ![t] = 0]
          /\ lock' = IF lock = t THEN None ELSE lock
      BY <2>3 DEF Leave
    <3>2. ASSUME NEW u \in Threads, tool'[u] # 0 PROVE lock' = u
      BY <1>1, <2>1, <3>1, <3>2
    <3> QED  BY <3>2 DEF Serving
  <2>4. CASE CallExecute(t)
    BY <2>1, <2>4 DEF CallExecute, Serving
  <2>5. CASE Receive(t)
    BY <1>1, <2>1, <2>2, <2>3, <2>5
    DEF Receive, Terminal, Started, callVars, Serving, LockDiscipline
  <2>6. CASE Write(t)
    <3>1. lock' = lock /\ (tool' = tool \/ tool' = [tool EXCEPT ![t] = 0])
      BY <2>6 DEF Write, Terminal, callVars
    <3> QED  BY <1>1, <2>1, <3>1 DEF Serving
  <2> QED
    BY <1>1, <2>2, <2>3, <2>4, <2>5, <2>6
    DEF Advance, Choose, callVars, CallBusy, RejectInput, CallStart,
       CallShutdown, Interrupt, StartCheck, Attach, Spawn, SpawnFails, Send,
       Timeout, RunTool, Await, Wait, LastKill, Detach, Reap, CloseStdin,
       CloseStdout, Terminal, Started, Killed, Escape, LeaveShutdown
<1>4. ASSUME ~ended' PROVE OneRequest'
  <2>1. ~ended /\ OneRequest
    BY <1>4, OpenSteps DEF RequestInv
  <2>2. \A u \in Threads : frame[u] = "call" /\ (pc[u] # "idle" => lock = u)
    BY <1>1, <2>1 DEF LockDiscipline, EndDiscipline
  <2> DEFINE Steady == /\ UNCHANGED <<stdin, stdout, awaits, responses>>
                       /\ Served' \subseteq Served
                       /\ lock # None /\ Asking(lock) => lock' # None /\ Asking(lock)'
  <2>3. Steady => OneRequest'
    BY <2>1, SteadyRequest
  <2>4. \A u \in Threads : tool[u] # 0 => lock = u
    BY DEF RequestInv, Serving
  <2>5. CASE CallExecute(t)
    <3>1. Steady
      BY <1>1, <2>1, <2>2, <2>4, <2>5 DEF CallExecute, Served, Asking, Goto, guestVars
    <3> QED  BY <2>3, <3>1
  <2>6. CASE CallBusy(t)
    <3>1. Steady
      BY <1>1, <2>1, <2>2, <2>4, <2>6 DEF CallBusy, Served, Asking, guestVars
    <3> QED  BY <2>3, <3>1
  <2>7. CASE RejectInput(t)
    <3>1. Steady
      BY <1>1, <2>1, <2>2, <2>4, <2>7 DEF RejectInput, Served, Asking, Leave, guestVars
    <3> QED  BY <2>3, <3>1
  <2>8. CASE StartCheck(t)
    <3>1. Steady
      BY <1>1, <2>1, <2>2, <2>4, <2>8 DEF StartCheck, Served, Asking, Leave, Goto, guestVars
    <3> QED  BY <2>3, <3>1
  <2>9. CASE Attach(t)
    <3>1. Steady
      BY <1>1, <2>1, <2>2, <2>4, <2>9 DEF Attach, Served, Asking, Started, Leave, Goto, guestVars
    <3> QED  BY <2>3, <3>1
  <2>10. CASE Spawn(t)
    <3>1. Steady
      BY <1>1, <2>1, <2>2, <2>4, <2>10 DEF Spawn, Served, Asking, Goto, callVars
    <3> QED  BY <2>3, <3>1
  <2>11. CASE SpawnFails(t)
    <3>1. Steady
      BY <1>1, <2>1, <2>2, <2>4, <2>11 DEF SpawnFails, Served, Asking, Leave, guestVars
    <3> QED  BY <2>3, <3>1
  <2>12. CASE Send(t)
    <3>1. pc[t] = "send" /\ Goto(t, "write") /\ UNCHANGED <<guestVars, callVars, responses>>
      BY <1>4, <2>12 DEF Send, Terminal
    <3>2. Steady
      BY <1>1, <2>1, <2>2, <2>4, <3>1 DEF Served, Asking, Goto, guestVars, callVars
    <3> QED  BY <2>3, <3>2
  <2>13. CASE RunTool(t)
    <3>1. Steady
      BY <1>1, <2>1, <2>2, <2>4, <2>13 DEF RunTool, Served, Asking, Goto, guestVars, callVars, Silence
    <3> QED  BY <2>3, <3>1
  <2>14. CASE Write(t)
    BY <1>4, <2>1, <2>14, WriteRequest
  <2>15. CASE Receive(t)
    BY <1>4, <2>1, <2>15, ReceiveRequest
  <2> QED
    BY <1>4, <2>5, <2>6, <2>7, <2>8, <2>9, <2>10, <2>11, <2>12, <2>13, <2>14, <2>15, OpenSteps
<1> QED  BY <1>2, <1>3, <1>4 DEF RequestInv

LEMMA RequestInit == Init => RequestInv
<1> SUFFICES ASSUME Init PROVE RequestInv
  OBVIOUS
<1> USE GuestAssumption, HostAssumption DEF Init, GuestInit, HostInit
<1>1. Busy /\ Serving
  BY DEF Busy, Serving, Waiting, Guests
<1>2. /\ Pending = {} /\ Served = {} /\ Single(responses, "tool_request")
      /\ \A w \in Workers : /\ Requested(w) = {} /\ Single(stdout[w], "tool_request")
                            /\ stdin[w] = <<>> /\ Waiting(w) = 0
  BY EmptyQueue DEF Pending, Served, Requested, Waiting, Guests
<1> QED  BY <1>1, <1>2 DEF RequestInv, OneRequest

LEMMA RequestStep ==
    ASSUME Helpers = {}, Starters = {}, Overlap = FALSE, Interrupts = FALSE,
           TypeOK, SessionInv, AnswerInv, RequestInv, [Next]_vars
    PROVE  RequestInv'
<1>1. CASE UNCHANGED vars
  <2>1. OneRequest => OneRequest'
    BY <1>1, SteadyRequest DEF vars, guestVars, hostVars, Served, Asking
  <2>2. Busy' /\ Serving'
    BY <1>1 DEF vars, guestVars, hostVars, RequestInv, Busy, Serving, Waiting
  <2> QED  BY <1>1, <2>1, <2>2 DEF vars, hostVars, RequestInv
<1>2. CASE Next
  BY <1>2, RequestThread, ReaderRequest, GuestRequest DEF Next, AnswerInv
<1> QED  BY <1>1, <1>2

\* The host runs a tool only while the guest code that asked for it waits for
\* the answer: for any number of threads, executions, tool calls and child
\* processes, under the same assumptions, as long as guest code calls tools from
\* its main thread only (two guest threads read each other's answers).
THEOREM ToolsAwaited ==
    ASSUME Starters = {}, Overlap = FALSE, Interrupts = FALSE, Helpers = {}
    PROVE  Spec => []ToolAwaited
<1>1. Init => RequestInv
  BY RequestInit
<1>2. TypeOK /\ SessionInv /\ AnswerInv /\ RequestInv /\ [Next]_vars => RequestInv'
  BY RequestStep
<1>3. AnswerInv /\ RequestInv => ToolAwaited
  <2> SUFFICES ASSUME AnswerInv, RequestInv, NEW t \in Threads, pc[t] = "tool", ~ended
               PROVE  \E w \in Workers, g \in Guests : awaits[w][g] = tool[t]
    BY DEF ToolAwaited
  <2>1. tool[t] # 0 /\ lock = t
    BY DEF AnswerInv, Silence, RequestInv, Serving
  <2>2. tool[t] \in Served
    BY <2>1, HostAssumption DEF Served
  <2>3. PICK w \in Workers : tool[t] = Waiting(w)
    BY <2>2 DEF RequestInv, OneRequest
  <2> QED  BY <2>3 DEF Waiting, Guests
<1> QED  BY <1>1, <1>2, <1>3, SessionHolds, AnswersInStep, PTL DEF Spec
=============================================================================
