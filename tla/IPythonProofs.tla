--------------------------- MODULE IPythonProofs ---------------------------
(***************************************************************************)
(* The safety properties of IPythonInterpreter and its refinement of       *)
(* CodeInterpreter, for any number of runs, tool calls and messages and in *)
(* every setting.                                                          *)
(***************************************************************************)
EXTENDS IPythonInterpreter, TLAPS

-----------------------------------------------------------------------------
(* The inductive invariant. *)

\* A kernel that the session does not refer to was never started, or the end
\* of the session killed it or lost it.
KernelOwned == kernel # "none" /\ ~manager => ended /\ (kernel = "dead" \/ "kernel" \in lost)

\* start and the sending of a cell are in an open session; once it has ended,
\* every step of the cleanup leaves behind what was lost and nothing else.
EndInv ==
    /\ Cleaning => ended
    /\ pc \in {"server", "launch", "ready"} => ~ended
    /\ pc \in {"input", "submit"} => ~ended \/ lost # {}
    /\ ended /\ pc # "cleanup" => (client => "channels" \in lost)
    /\ ended /\ pc \notin {"cleanup", "kill"} => (manager \/ Alive => "kernel" \in lost)
    /\ ended /\ ~Cleaning => (server => "server" \in lost)
    /\ pc = "server" => ~manager
    /\ pc = "launch" => manager
    /\ frame = "shutdown" => Cleaning
    /\ lost # {} => ended /\ (Interrupts \/ Unkillable)
    /\ KernelOwned

\* The value that _run_cell keeps is of the cell it waits for or one displayed,
\* the cell is of the call it is in, and neither outlives its call.
AnswerInv ==
    /\ cell \in {0, run}
    /\ value \in {0, cell, Displayed}
    /\ pc = "idle" \/ (frame = "shutdown" /\ serving = 0) => cell = 0
    /\ OwnAnswer

Inv == EndInv /\ AnswerInv

-----------------------------------------------------------------------------
(* Type correctness. *)

Messages == [parent : Cells, type : {"result", "display", "error", "idle"}]

\* The call, the session object, the kernel and the requests, apart.
CallTyped ==
    /\ pc \in Places
    /\ run \in Cells /\ cell \in Cells /\ runs \in Cells
    /\ value \in Cells \cup {Displayed}
    /\ late \in BOOLEAN /\ failed \in BOOLEAN
    /\ serving \in 0..MaxTools
    /\ frame \in {"call", "shutdown"}
    /\ verdict \in [1..MaxRuns -> Cells]
    /\ pc = "tool" => serving # 0

SessionTyped ==
    /\ ended \in BOOLEAN /\ manager \in BOOLEAN
    /\ client \in BOOLEAN /\ server \in BOOLEAN
    /\ lost \subseteq {"channels", "kernel", "server"}

KernelTyped ==
    /\ kernel \in {"none", "booting", "idle", "busy", "replied", "dead"}
    /\ defined \in BOOLEAN
    /\ current \in Cells /\ latest \in Cells
    /\ blocked \in 0..MaxTools
    /\ shell \in Seq(Cells)
    /\ iopub \in Seq(Messages)

ToolsTyped ==
    /\ issued \in 0..MaxTools
    /\ requests \in Seq(1..MaxTools)
    /\ handler \in [1..MaxTools -> {"none", "waiting", "answered", "gaveUp"}]
    /\ during \in [1..MaxTools -> Cells]

Typed ==
    /\ setting \in Settings
    /\ CallTyped /\ SessionTyped /\ KernelTyped /\ ToolsTyped
    /\ pc = "launch" => kernel = "none"

LEMMA TypeParts == (TypeOK <=> Typed) /\ (TypeOK' <=> Typed')
  BY DEF TypeOK, Typed, CallTyped, SessionTyped, KernelTyped, ToolsTyped, Messages

LEMMA Bounds ==
    /\ MaxRuns \in Nat /\ MaxTools \in Nat
    /\ 0 \in Cells /\ 0 \in 0..MaxTools
    /\ Displayed \notin Cells /\ Displayed # 0
    /\ \A s \in Settings : s.tools \in Nat /\ s.tools <= MaxTools
  BY IPythonAssumption DEF Cells, Displayed

LEMMA QueueParts ==
    ASSUME NEW S, NEW s \in Seq(S)
    PROVE  /\ s # <<>> => Head(s) \in S /\ Tail(s) \in Seq(S)
           /\ \A x \in S : Append(s, x) \in Seq(S)
  OBVIOUS

LEMMA PublishTyped ==
    ASSUME KernelTyped, NEW type \in {"result", "display", "error", "idle"}, Publish(type)
    PROVE  iopub' \in Seq(Messages)
<1>1. [parent |-> current, type |-> type] \in Messages
  BY DEF KernelTyped, Messages
<1> QED  BY <1>1, QueueParts DEF KernelTyped, Publish

LEMMA TypeInit == Init => Typed
<1> SUFFICES ASSUME Init PROVE Typed
  OBVIOUS
<1>1. CallTyped /\ SessionTyped
  BY Bounds DEF Init, CallTyped, SessionTyped, Places
<1>2. KernelTyped
  <2>1. shell \in Seq(Cells) /\ iopub \in Seq(Messages)
    BY DEF Init
  <2> QED  BY Bounds, <2>1 DEF Init, KernelTyped
<1>3. ToolsTyped
  BY Bounds DEF Init, ToolsTyped, Cells
<1> QED  BY <1>1, <1>2, <1>3 DEF Init, Typed

LEMMA KernelStep ==
    ASSUME Typed, Kernel, UNCHANGED setting
    PROVE  Typed'
<1>1. CallTyped' /\ SessionTyped'
  BY DEF Kernel, Typed, CallTyped, SessionTyped, sessionVars, callVars
<1>2. ToolsTyped'
  <2>1. UNCHANGED <<issued, requests, handler, during>>
    BY DEF Kernel, KernelReady, TakeCell, FinishCell, GoIdle, Display, KernelDies
  <2> QED  BY <2>1 DEF Typed, ToolsTyped
<1>3. KernelTyped'
  <2> USE DEF Typed, KernelTyped, Cells
  <2>1. CASE KernelReady
    BY <2>1 DEF KernelReady
  <2>2. CASE TakeCell
    BY <2>2, QueueParts DEF TakeCell
  <2>3. CASE FinishCell
    <3>1. iopub' \in Seq(Messages)
      BY <2>3, PublishTyped DEF FinishCell
    <3> QED  BY <2>3, <3>1 DEF FinishCell
  <2>4. CASE GoIdle
    BY <2>4, PublishTyped DEF GoIdle
  <2>5. CASE Display
    BY <2>5, PublishTyped DEF Display
  <2>6. CASE KernelDies
    BY <2>6 DEF KernelDies
  <2> QED  BY <2>1, <2>2, <2>3, <2>4, <2>5, <2>6 DEF Kernel
<1>4. pc' = "launch" => kernel' = "none"
  BY DEF Typed, Kernel, KernelReady, TakeCell, FinishCell, GoIdle, Display,
     KernelDies, Alive
<1> QED  BY <1>1, <1>2, <1>3, <1>4 DEF Typed

LEMMA ToolsStep ==
    ASSUME Typed, Tools, UNCHANGED setting
    PROVE  Typed'
<1>1. ASSUME NEW fromMain \in BOOLEAN, CallTool(fromMain) PROVE Typed'
  <2>1. issued' \in 1..MaxTools
    BY <1>1, Bounds DEF CallTool, Typed, ToolsTyped
  <2>2. ToolsTyped'
    <3>1. requests' \in Seq(1..MaxTools)
      BY <1>1, <2>1, QueueParts DEF CallTool, Typed, ToolsTyped
    <3>2. during' \in [1..MaxTools -> Cells]
      BY <1>1, <2>1, Bounds DEF CallTool, Typed, ToolsTyped, CallTyped, Cells
    <3> QED  BY <1>1, <2>1, <3>1, <3>2 DEF CallTool, Typed, ToolsTyped
  <2>3. KernelTyped'
    BY <1>1, <2>1 DEF CallTool, Typed, KernelTyped
  <2>4. CallTyped' /\ SessionTyped'
    BY <1>1 DEF CallTool, Typed, CallTyped, SessionTyped, callVars, sessionVars
  <2> QED  BY <1>1, <2>2, <2>3, <2>4 DEF CallTool, Typed
<1>2. ASSUME NEW q \in 1..MaxTools, GiveUp(q) PROVE Typed'
  <2>1. ToolsTyped' /\ KernelTyped'
    BY <1>2 DEF GiveUp, Typed, ToolsTyped, KernelTyped, kernelVars
  <2>2. CallTyped' /\ SessionTyped'
    BY <1>2 DEF GiveUp, Looping, Typed, CallTyped, SessionTyped, sessionVars
  <2> QED  BY <1>2, <2>1, <2>2 DEF GiveUp, Typed, kernelVars
<1>3. CASE ReadAnswer
  <2>1. ToolsTyped'
    BY <1>3 DEF ReadAnswer, Typed, ToolsTyped, toolVars
  <2>2. CallTyped' /\ SessionTyped'
    BY <1>3 DEF ReadAnswer, Typed, CallTyped, SessionTyped, callVars, sessionVars
  <2>3. KernelTyped'
    BY <1>3, Bounds DEF ReadAnswer, Typed, KernelTyped
  <2> QED  BY <1>3, <2>1, <2>2, <2>3 DEF ReadAnswer, Typed
<1> QED
  BY <1>1, <1>2, <1>3 DEF Tools

Host == Advance \/ CallExecute \/ CallStart \/ CallShutdown \/ Interrupt \/ DeadlinePasses

LEMMA LeaveTyped ==
    ASSUME CallTyped, Leave, verdict' \in [1..MaxRuns -> Cells]
    PROVE  CallTyped'
  BY Bounds DEF CallTyped, Leave, Places

LEMMA CleanedUpTyped ==
    ASSUME CallTyped, CleanedUp
    PROVE  CallTyped'
<1>1. CASE Leave /\ UNCHANGED verdict
  BY <1>1, LeaveTyped DEF CallTyped
<1>2. CASE /\ frame' = "call"
           /\ pc' = IF serving # 0 THEN "tool" ELSE "idle"
           /\ UNCHANGED <<run, cell, late, value, failed, serving, runs, verdict>>
  BY <1>2 DEF CallTyped, Places
<1> QED  BY <1>1, <1>2 DEF CleanedUp

LEMMA SameCall == ASSUME CallTyped, UNCHANGED callVars, pc' \in Places \ {"tool"}
                  PROVE  CallTyped'
  BY DEF CallTyped, callVars

LEMMA HostStep ==
    ASSUME Typed, EndInv, Host, UNCHANGED setting
    PROVE  Typed'
<1> USE Bounds
<1>1. CASE Check
  <2>1. CallTyped'
    <3>1. CASE Leave /\ UNCHANGED verdict
      BY <3>1, LeaveTyped DEF Typed, CallTyped
    <3>2. CASE pc' = (IF manager THEN "input" ELSE "server") /\ UNCHANGED callVars
      BY <3>2, SameCall DEF Typed, Places
    <3> QED  BY <1>1, <3>1, <3>2 DEF Check
  <2>2. SessionTyped'
    BY <1>1 DEF Check, Typed, SessionTyped, sessionVars
  <2>3. KernelTyped'
    BY <1>1 DEF Check, Typed, CallTyped, KernelTyped, kernelVars
  <2>4. ToolsTyped'
    BY <1>1 DEF Check, Typed, ToolsTyped, toolVars
  <2>5. pc' = "launch" => kernel' = "none"
    BY <1>1 DEF Check, Typed, EndInv, KernelOwned, kernelVars, Leave
  <2> QED  BY <2>1, <2>2, <2>3, <2>4, <2>5 DEF Typed
<1>2. CASE OpenServer
  <2>1. CallTyped'
    BY <1>2 DEF OpenServer, Typed, CallTyped, Places, Cells, callVars
  <2>2. SessionTyped'
    BY <1>2 DEF OpenServer, Typed, SessionTyped
  <2>3. KernelTyped'
    BY <1>2 DEF OpenServer, Typed, CallTyped, KernelTyped, kernelVars
  <2>4. ToolsTyped'
    BY <1>2 DEF OpenServer, Typed, ToolsTyped, toolVars
  <2>5. pc' = "launch" => kernel' = "none"
    BY <1>2 DEF OpenServer, Typed, EndInv, KernelOwned, kernelVars
  <2> QED  BY <2>1, <2>2, <2>3, <2>4, <2>5 DEF Typed
<1>3. CASE Launch
  <2>1. CallTyped'
    BY <1>3 DEF Launch, Typed, CallTyped, Places, Cells, callVars
  <2>2. SessionTyped'
    BY <1>3 DEF Launch, Typed, SessionTyped
  <2>3. KernelTyped'
    BY <1>3 DEF Launch, Typed, CallTyped, KernelTyped
  <2>4. ToolsTyped'
    BY <1>3 DEF Launch, Typed, ToolsTyped, toolVars
  <2>5. pc' = "launch" => kernel' = "none"
    BY <1>3 DEF Launch, Typed, EndInv, KernelOwned
  <2> QED  BY <2>1, <2>2, <2>3, <2>4, <2>5 DEF Typed
<1>4. CASE AwaitReady
  <2>1. CallTyped'
    BY <1>4 DEF AwaitReady, Typed, CallTyped, Places, Cells, callVars, Terminal
  <2>2. SessionTyped'
    BY <1>4 DEF AwaitReady, Typed, SessionTyped, sessionVars, Terminal
  <2>3. KernelTyped'
    BY <1>4 DEF AwaitReady, Typed, CallTyped, KernelTyped, kernelVars, Terminal
  <2>4. ToolsTyped'
    BY <1>4 DEF AwaitReady, Typed, ToolsTyped, toolVars, Terminal
  <2>5. pc' = "launch" => kernel' = "none"
    BY <1>4 DEF AwaitReady, Typed, EndInv, KernelOwned, kernelVars, Terminal
  <2> QED  BY <2>1, <2>2, <2>3, <2>4, <2>5 DEF Typed
<1>5. CASE Encode
  <2>1. CallTyped'
    <3>1. CASE Leave /\ UNCHANGED verdict
      BY <3>1, LeaveTyped DEF Typed, CallTyped
    <3>2. CASE /\ cell' = run
               /\ pc' = "submit"
               /\ UNCHANGED <<run, late, value, failed, serving, frame, runs, verdict>>
      BY <3>2 DEF Typed, CallTyped, Places
    <3> QED  BY <1>5, <3>1, <3>2 DEF Encode
  <2>2. SessionTyped'
    BY <1>5 DEF Encode, Typed, SessionTyped, sessionVars
  <2>3. KernelTyped'
    BY <1>5 DEF Encode, Typed, CallTyped, KernelTyped, kernelVars
  <2>4. ToolsTyped'
    BY <1>5 DEF Encode, Typed, ToolsTyped, toolVars
  <2>5. pc' = "launch" => kernel' = "none"
    BY <1>5 DEF Encode, Typed, EndInv, KernelOwned, kernelVars, Leave
  <2> QED  BY <2>1, <2>2, <2>3, <2>4, <2>5 DEF Typed
<1>6. CASE Submit
  <2>1. CallTyped'
    BY <1>6 DEF Submit, Typed, CallTyped, Places, Cells, callVars, Terminal
  <2>2. SessionTyped'
    BY <1>6 DEF Submit, Typed, SessionTyped, sessionVars, Terminal
  <2>3. KernelTyped'
    <3>1. shell' \in Seq(Cells)
      <4>1. shell' = shell \/ shell' = Append(shell, cell)
        BY <1>6 DEF Submit
      <4>2. shell \in Seq(Cells) /\ cell \in Cells
        BY DEF Typed, CallTyped, KernelTyped
      <4> QED  BY <4>1, <4>2, QueueParts
    <3> QED  BY <1>6, <3>1 DEF Submit, Typed, KernelTyped
  <2>4. ToolsTyped'
    BY <1>6 DEF Submit, Typed, ToolsTyped, toolVars, Terminal
  <2>5. pc' = "launch" => kernel' = "none"
    BY <1>6 DEF Submit, Typed, EndInv, KernelOwned, Terminal
  <2> QED  BY <2>1, <2>2, <2>3, <2>4, <2>5 DEF Typed
<1>7. CASE Dispatch
  <2>1. CallTyped'
    <3>1. serving' \in 0..MaxTools /\ (pc' = "tool" => serving' # 0)
      BY <1>7, QueueParts DEF Dispatch, Typed, CallTyped, ToolsTyped
    <3> QED  BY <1>7, <3>1 DEF Dispatch, Typed, CallTyped, Places
  <2>2. SessionTyped'
    BY <1>7 DEF Dispatch, Typed, SessionTyped, sessionVars
  <2>3. KernelTyped'
    BY <1>7 DEF Dispatch, Typed, CallTyped, KernelTyped, kernelVars
  <2>4. ToolsTyped'
    BY <1>7, QueueParts DEF Dispatch, Typed, ToolsTyped, toolVars
  <2>5. pc' = "launch" => kernel' = "none"
    BY <1>7 DEF Dispatch, Typed, EndInv, KernelOwned, kernelVars
  <2> QED  BY <2>1, <2>2, <2>3, <2>4, <2>5 DEF Typed
<1>8. CASE FinishTool
  <2>1. CallTyped'
    BY <1>8 DEF FinishTool, Typed, CallTyped, Places, Cells
  <2>2. SessionTyped'
    BY <1>8 DEF FinishTool, Typed, SessionTyped, sessionVars
  <2>3. KernelTyped'
    BY <1>8 DEF FinishTool, Typed, CallTyped, KernelTyped, kernelVars
  <2>4. ToolsTyped'
    BY <1>8 DEF FinishTool, Typed, ToolsTyped
  <2>5. pc' = "launch" => kernel' = "none"
    BY <1>8 DEF FinishTool, Typed, EndInv, KernelOwned, kernelVars
  <2> QED  BY <2>1, <2>2, <2>3, <2>4, <2>5 DEF Typed
<1>9. CASE TimedOut
  <2>1. CallTyped'
    BY <1>9 DEF TimedOut, Typed, CallTyped, Places, Cells, callVars, Terminal
  <2>2. SessionTyped'
    BY <1>9 DEF TimedOut, Typed, SessionTyped, Terminal
  <2>3. KernelTyped'
    BY <1>9 DEF TimedOut, Typed, CallTyped, KernelTyped, kernelVars, Terminal
  <2>4. ToolsTyped'
    BY <1>9 DEF TimedOut, Typed, ToolsTyped, toolVars, Terminal
  <2>5. pc' = "launch" => kernel' = "none"
    BY <1>9 DEF TimedOut, Typed, EndInv, KernelOwned, kernelVars, Terminal
  <2> QED  BY <2>1, <2>2, <2>3, <2>4, <2>5 DEF Typed
<1>10. CASE Poll
  <2>1. CallTyped'
    <3> DEFINE m == Head(iopub)
    <3>1. CASE Terminal
      BY <3>1, SameCall DEF Terminal, Typed, Places
    <3>2. CASE pc' = "dispatch" /\ UNCHANGED callVars
      BY <3>2, SameCall DEF Typed, Places
    <3>3. CASE /\ iopub # <<>>
               /\ pc' = "dispatch"
               /\ value' = IF Foreign(m) THEN value
                           ELSE CASE m.type = "result" -> m.parent
                                  [] m.type = "display" -> Displayed
                                  [] OTHER -> value
               /\ failed' = (failed \/ (~Foreign(m) /\ m.type = "error"))
               /\ UNCHANGED <<run, cell, late, serving, frame, runs, verdict>>
      <4>1. m \in Messages
        BY <3>3, QueueParts DEF Typed, KernelTyped
      <4>2. m.parent \in Cells /\ 0 \in Cells
        BY <4>1 DEF Messages, Cells
      <4>3. value' \in Cells \cup {Displayed} /\ failed' \in BOOLEAN
        BY <3>3, <4>2 DEF Typed, CallTyped
      <4> QED  BY <3>3, <4>3 DEF Typed, CallTyped, Places
    <3>4. CASE CellDone
      <4>1. CASE pc' = "input" /\ value' = 0
                 /\ UNCHANGED <<run, cell, late, failed, serving, frame, runs, verdict>>
        BY <4>1 DEF Typed, CallTyped, Places
      <4>2. CASE value \in Cells \ {0} /\ verdict' = [verdict EXCEPT ![run] = value] /\ Leave
        BY <4>2, LeaveTyped DEF Typed, CallTyped
      <4>3. CASE Leave /\ UNCHANGED verdict
        BY <4>3, LeaveTyped DEF Typed, CallTyped
      <4> QED  BY <3>1, <3>4, <4>1, <4>2, <4>3 DEF CellDone
    <3> QED  BY <1>10, <3>1, <3>2, <3>3, <3>4 DEF Poll
  <2>2. SessionTyped'
    BY <1>10 DEF Poll, CellDone, Foreign, Typed, SessionTyped, sessionVars, Terminal
  <2>3. KernelTyped'
    <3>1. iopub' \in Seq(Messages)
      BY <1>10, QueueParts DEF Poll, Typed, KernelTyped
    <3> QED  BY <1>10, <3>1 DEF Poll, Typed, KernelTyped
  <2>4. ToolsTyped'
    BY <1>10 DEF Poll, CellDone, Foreign, Typed, ToolsTyped, toolVars, Terminal
  <2>5. pc' = "launch" => kernel' = "none"
    BY <1>10 DEF Poll, CellDone, Foreign, Typed, EndInv, KernelOwned, Leave, Terminal
  <2> QED  BY <2>1, <2>2, <2>3, <2>4, <2>5 DEF Typed
<1>11. CASE StopChannels
  <2>1. CallTyped'
    BY <1>11, SameCall DEF StopChannels, Typed, Places
  <2>2. SessionTyped'
    BY <1>11 DEF StopChannels, Typed, SessionTyped
  <2>3. KernelTyped'
    BY <1>11 DEF StopChannels, Typed, CallTyped, KernelTyped, kernelVars
  <2>4. ToolsTyped'
    BY <1>11 DEF StopChannels, Typed, ToolsTyped, toolVars
  <2>5. pc' = "launch" => kernel' = "none"
    BY <1>11 DEF StopChannels, Typed, EndInv, KernelOwned
  <2> QED  BY <2>1, <2>2, <2>3, <2>4, <2>5 DEF Typed
<1>12. CASE ShutdownKernel
  <2>1. CallTyped'
    BY <1>12, SameCall DEF ShutdownKernel, Typed, Places
  <2>2. SessionTyped'
    BY <1>12 DEF ShutdownKernel, Typed, SessionTyped
  <2>3. KernelTyped'
    BY <1>12 DEF ShutdownKernel, Typed, CallTyped, KernelTyped, kernelVars
  <2>4. ToolsTyped'
    BY <1>12 DEF ShutdownKernel, Typed, ToolsTyped, toolVars
  <2>5. pc' = "launch" => kernel' = "none"
    BY <1>12 DEF ShutdownKernel, Typed, EndInv, KernelOwned
  <2> QED  BY <2>1, <2>2, <2>3, <2>4, <2>5 DEF Typed
<1>13. CASE CloseServer
  <2>1. CallTyped'
    BY <1>13, CleanedUpTyped DEF CloseServer, Typed
  <2>2. SessionTyped'
    BY <1>13 DEF CloseServer, Typed, SessionTyped
  <2>3. KernelTyped'
    BY <1>13 DEF CloseServer, Typed, CallTyped, KernelTyped, kernelVars
  <2>4. ToolsTyped'
    BY <1>13 DEF CloseServer, Typed, ToolsTyped, toolVars
  <2>5. pc' = "launch" => kernel' = "none"
    BY <1>13 DEF CloseServer, Typed, EndInv, KernelOwned, CleanedUp, Leave
  <2> QED  BY <2>1, <2>2, <2>3, <2>4, <2>5 DEF Typed
<1>14. CASE CallExecute
  <2>1. CallTyped'
    BY <1>14 DEF CallExecute, Typed, CallTyped, Places, Cells
  <2>2. SessionTyped'
    BY <1>14 DEF CallExecute, Typed, SessionTyped, sessionVars
  <2>3. KernelTyped'
    BY <1>14 DEF CallExecute, Typed, CallTyped, KernelTyped, kernelVars
  <2>4. ToolsTyped'
    BY <1>14 DEF CallExecute, Typed, ToolsTyped, toolVars
  <2>5. pc' = "launch" => kernel' = "none"
    BY <1>14 DEF CallExecute, Typed, EndInv, KernelOwned, kernelVars
  <2> QED  BY <2>1, <2>2, <2>3, <2>4, <2>5 DEF Typed
<1>15. CASE CallStart
  <2>1. CallTyped'
    BY <1>15 DEF CallStart, Typed, CallTyped, Places, Cells, callVars
  <2>2. SessionTyped'
    BY <1>15 DEF CallStart, Typed, SessionTyped, sessionVars
  <2>3. KernelTyped'
    BY <1>15 DEF CallStart, Typed, CallTyped, KernelTyped, kernelVars
  <2>4. ToolsTyped'
    BY <1>15 DEF CallStart, Typed, ToolsTyped, toolVars
  <2>5. pc' = "launch" => kernel' = "none"
    BY <1>15 DEF CallStart, Typed, EndInv, KernelOwned, kernelVars
  <2> QED  BY <2>1, <2>2, <2>3, <2>4, <2>5 DEF Typed
<1>16. CASE CallShutdown
  <2>1. CallTyped'
    BY <1>16 DEF CallShutdown, Typed, CallTyped, Places, Cells
  <2>2. SessionTyped'
    BY <1>16 DEF CallShutdown, Typed, SessionTyped
  <2>3. KernelTyped'
    BY <1>16 DEF CallShutdown, Typed, CallTyped, KernelTyped, kernelVars
  <2>4. ToolsTyped'
    BY <1>16 DEF CallShutdown, Typed, ToolsTyped, toolVars
  <2>5. pc' = "launch" => kernel' = "none"
    BY <1>16 DEF CallShutdown, Typed, EndInv, KernelOwned, kernelVars
  <2> QED  BY <2>1, <2>2, <2>3, <2>4, <2>5 DEF Typed
<1>17. CASE Interrupt
  <2>1. CallTyped'
    BY <1>17, LeaveTyped, CleanedUpTyped DEF Interrupt, Typed, CallTyped
  <2>2. SessionTyped'
    BY <1>17 DEF Interrupt, Pending, Typed, SessionTyped
  <2>3. KernelTyped'
    BY <1>17 DEF Interrupt, Typed, CallTyped, KernelTyped
  <2>4. ToolsTyped'
    BY <1>17 DEF Interrupt, Typed, ToolsTyped, toolVars
  <2>5. pc' = "launch" => kernel' = "none"
    BY <1>17 DEF Interrupt, Typed, EndInv, KernelOwned, CleanedUp, Leave
  <2> QED  BY <2>1, <2>2, <2>3, <2>4, <2>5 DEF Typed
<1>18. CASE DeadlinePasses
  <2>1. CallTyped'
    BY <1>18 DEF DeadlinePasses, Looping, Typed, CallTyped, Places, Cells
  <2>2. SessionTyped'
    BY <1>18 DEF DeadlinePasses, Looping, Typed, SessionTyped, sessionVars
  <2>3. KernelTyped'
    BY <1>18 DEF DeadlinePasses, Looping, Typed, CallTyped, KernelTyped, kernelVars
  <2>4. ToolsTyped'
    BY <1>18 DEF DeadlinePasses, Looping, Typed, ToolsTyped, toolVars
  <2>5. pc' = "launch" => kernel' = "none"
    BY <1>18 DEF DeadlinePasses, Looping, Typed, EndInv, KernelOwned, kernelVars
  <2> QED  BY <2>1, <2>2, <2>3, <2>4, <2>5 DEF Typed
<1> QED
  BY <1>1, <1>2, <1>3, <1>4, <1>5, <1>6, <1>7, <1>8, <1>9, <1>10, <1>11, <1>12, <1>13,
     <1>14, <1>15, <1>16, <1>17, <1>18 DEF Host, Advance

-----------------------------------------------------------------------------
(* The invariant. *)

LEMMA InvInit == Init => Inv
  BY Bounds DEF Init, Inv, EndInv, KernelOwned, AnswerInv, OwnAnswer, Cleaning, Alive

\* The kernel and the tool server change neither what the session refers to
\* nor what its call is about, and no kernel comes to life by itself.
LEMMA GuestInv ==
    ASSUME Typed, Inv, Kernel \/ Tools, UNCHANGED setting
    PROVE  Inv'
<1> USE DEF sessionVars, callVars, kernelVars, toolVars
<1>1. /\ UNCHANGED <<ended, manager, client, server, lost, pc, run, cell, value, serving,
                      frame, verdict>>
      /\ kernel' # kernel => kernel \notin {"none", "dead"}
      /\ Alive' => Alive
  <2>1. CASE Kernel
    BY <2>1 DEF Kernel, KernelReady, TakeCell, FinishCell, GoIdle, Display,
       KernelDies, Alive
  <2>2. CASE Tools
    BY <2>2 DEF Tools, CallTool, GiveUp, ReadAnswer, Alive
  <2> QED  BY <2>1, <2>2
<1> QED
  BY <1>1 DEF Inv, EndInv, KernelOwned, AnswerInv, OwnAnswer, Cleaning, Alive, Interrupts,
     Unkillable

LEMMA HostInv ==
    ASSUME Typed, Inv, Host, UNCHANGED setting
    PROVE  Inv'
<1> USE Bounds DEF Cleaning, Alive, Interrupts, Unkillable
<1>1. CASE Check
  <2>1. EndInv'
    BY <1>1 DEF Check, Typed, CallTyped, Inv, EndInv, KernelOwned, callVars,
       sessionVars, kernelVars, Leave
  <2>2. AnswerInv'
    BY <1>1 DEF Check, Typed, CallTyped, Cells, Inv, EndInv, AnswerInv, OwnAnswer,
       callVars, Leave
  <2> QED  BY <2>1, <2>2 DEF Inv
<1>2. CASE OpenServer
  <2>1. EndInv'
    BY <1>2 DEF OpenServer, Typed, CallTyped, Inv, EndInv, KernelOwned, callVars,
       kernelVars
  <2>2. AnswerInv'
    BY <1>2 DEF OpenServer, Typed, CallTyped, Cells, Inv, EndInv, AnswerInv,
       OwnAnswer, callVars
  <2> QED  BY <2>1, <2>2 DEF Inv
<1>3. CASE Launch
  <2>1. EndInv'
    BY <1>3 DEF Launch, Typed, CallTyped, Inv, EndInv, KernelOwned, callVars
  <2>2. AnswerInv'
    BY <1>3 DEF Launch, Typed, CallTyped, Cells, Inv, EndInv, AnswerInv, OwnAnswer,
       callVars
  <2> QED  BY <2>1, <2>2 DEF Inv
<1>4. CASE AwaitReady
  <2>1. EndInv'
    BY <1>4 DEF AwaitReady, Typed, CallTyped, Inv, EndInv, KernelOwned, callVars,
       sessionVars, kernelVars, Terminal
  <2>2. AnswerInv'
    BY <1>4 DEF AwaitReady, Typed, CallTyped, Cells, Inv, EndInv, AnswerInv,
       OwnAnswer, callVars, Terminal
  <2> QED  BY <2>1, <2>2 DEF Inv
<1>5. CASE Encode
  <2>1. EndInv'
    BY <1>5 DEF Encode, Typed, CallTyped, Inv, EndInv, KernelOwned, sessionVars,
       kernelVars, Leave
  <2>2. AnswerInv'
    BY <1>5 DEF Encode, Typed, CallTyped, Cells, Inv, EndInv, AnswerInv, OwnAnswer,
       Leave
  <2> QED  BY <2>1, <2>2 DEF Inv
<1>6. CASE Submit
  <2>1. EndInv'
    BY <1>6 DEF Submit, Typed, CallTyped, Inv, EndInv, KernelOwned, callVars,
       sessionVars, Terminal
  <2>2. AnswerInv'
    BY <1>6 DEF Submit, Typed, CallTyped, Cells, Inv, EndInv, AnswerInv, OwnAnswer,
       callVars, Terminal
  <2> QED  BY <2>1, <2>2 DEF Inv
<1>7. CASE Dispatch
  <2>1. EndInv'
    BY <1>7 DEF Dispatch, Typed, CallTyped, Inv, EndInv, KernelOwned, sessionVars,
       kernelVars
  <2>2. AnswerInv'
    BY <1>7 DEF Dispatch, Typed, CallTyped, Cells, Inv, EndInv, AnswerInv, OwnAnswer
  <2> QED  BY <2>1, <2>2 DEF Inv
<1>8. CASE FinishTool
  <2>1. EndInv'
    BY <1>8 DEF FinishTool, Typed, CallTyped, Inv, EndInv, KernelOwned, sessionVars,
       kernelVars
  <2>2. AnswerInv'
    BY <1>8 DEF FinishTool, Typed, CallTyped, Cells, Inv, EndInv, AnswerInv, OwnAnswer
  <2> QED  BY <2>1, <2>2 DEF Inv
<1>9. CASE TimedOut
  <2>1. EndInv'
    BY <1>9 DEF TimedOut, Typed, CallTyped, Inv, EndInv, KernelOwned, callVars,
       kernelVars, Terminal
  <2>2. AnswerInv'
    BY <1>9 DEF TimedOut, Typed, CallTyped, Cells, Inv, EndInv, AnswerInv,
       OwnAnswer, callVars, Terminal
  <2> QED  BY <2>1, <2>2 DEF Inv
<1>10. CASE Poll
  <2>1. EndInv'
    <3>1. pc = "poll" /\ UNCHANGED <<setting, manager, client, server, lost, kernel>>
      BY <1>10 DEF Poll, CellDone, Terminal, sessionVars
    <3>2. \/ pc' = "cleanup" /\ ended' = TRUE /\ frame' = frame
          \/ pc' \in {"input", "idle", "dispatch"} /\ UNCHANGED <<ended, frame>> /\ client
      BY <1>10 DEF Poll, CellDone, Terminal, Leave, sessionVars, callVars
    <3>3. pc' = "input" => ~ended \/ lost # {}
      BY <3>1, <3>2 DEF Inv, EndInv
    <3> QED  BY <3>1, <3>2, <3>3 DEF Inv, EndInv, KernelOwned
  <2>2. AnswerInv'
    BY <1>10 DEF Poll, CellDone, Foreign, Typed, CallTyped, Cells, Inv, EndInv,
       AnswerInv, OwnAnswer, callVars, Leave, Terminal
  <2> QED  BY <2>1, <2>2 DEF Inv
<1>11. CASE StopChannels
  <2>1. EndInv'
    BY <1>11 DEF StopChannels, Typed, CallTyped, Inv, EndInv, KernelOwned, callVars, kernelVars
  <2>2. AnswerInv'
    BY <1>11 DEF StopChannels, Typed, CallTyped, Cells, Inv, EndInv, AnswerInv, OwnAnswer, callVars
  <2> QED  BY <2>1, <2>2 DEF Inv
<1>12. CASE ShutdownKernel
  <2>1. EndInv'
    BY <1>12 DEF ShutdownKernel, Typed, CallTyped, Inv, EndInv, KernelOwned, callVars, kernelVars
  <2>2. AnswerInv'
    BY <1>12 DEF ShutdownKernel, Typed, CallTyped, Cells, Inv, EndInv, AnswerInv, OwnAnswer, callVars
  <2> QED  BY <2>1, <2>2 DEF Inv
<1>13. CASE CloseServer
  <2>1. EndInv'
    BY <1>13 DEF CloseServer, Typed, CallTyped, Inv, EndInv, KernelOwned, callVars, kernelVars, CleanedUp, Leave
  <2>2. AnswerInv'
    BY <1>13 DEF CloseServer, Typed, CallTyped, Cells, Inv, EndInv, AnswerInv, OwnAnswer, callVars, CleanedUp, Leave
  <2> QED  BY <2>1, <2>2 DEF Inv
<1>14. CASE CallExecute
  <2>1. EndInv'
    BY <1>14 DEF CallExecute, Typed, CallTyped, Inv, EndInv, KernelOwned,
       sessionVars, kernelVars
  <2>2. AnswerInv'
    BY <1>14 DEF CallExecute, Typed, CallTyped, Cells, Inv, EndInv, AnswerInv, OwnAnswer
  <2> QED  BY <2>1, <2>2 DEF Inv
<1>15. CASE CallStart
  <2>1. EndInv'
    BY <1>15 DEF CallStart, Typed, CallTyped, Inv, EndInv, KernelOwned, callVars,
       sessionVars, kernelVars
  <2>2. AnswerInv'
    BY <1>15 DEF CallStart, Typed, CallTyped, Cells, Inv, EndInv, AnswerInv,
       OwnAnswer, callVars
  <2> QED  BY <2>1, <2>2 DEF Inv
<1>16. CASE CallShutdown
  <2>1. EndInv'
    BY <1>16 DEF CallShutdown, Typed, CallTyped, Inv, EndInv, KernelOwned, kernelVars
  <2>2. AnswerInv'
    BY <1>16 DEF CallShutdown, Typed, CallTyped, Cells, Inv, EndInv, AnswerInv,
       OwnAnswer
  <2> QED  BY <2>1, <2>2 DEF Inv
<1>17. CASE Interrupt
  <2>1. EndInv'
    BY <1>17 DEF Interrupt, Typed, CallTyped, Inv, EndInv, KernelOwned, Pending,
       CleanedUp, Leave
  <2>2. AnswerInv'
    BY <1>17 DEF Interrupt, Typed, CallTyped, Cells, Inv, EndInv, AnswerInv,
       OwnAnswer, CleanedUp, Leave
  <2> QED  BY <2>1, <2>2 DEF Inv
<1>18. CASE DeadlinePasses
  <2>1. EndInv'
    BY <1>18 DEF DeadlinePasses, Looping, Typed, CallTyped, Inv, EndInv,
       KernelOwned, sessionVars, kernelVars
  <2>2. AnswerInv'
    BY <1>18 DEF DeadlinePasses, Looping, Typed, CallTyped, Cells, Inv, EndInv,
       AnswerInv, OwnAnswer
  <2> QED  BY <2>1, <2>2 DEF Inv
<1> QED
  BY <1>1, <1>2, <1>3, <1>4, <1>5, <1>6, <1>7, <1>8, <1>9, <1>10, <1>11, <1>12, <1>13,
     <1>14, <1>15, <1>16, <1>17, <1>18 DEF Host, Advance

LEMMA StutterInv == Typed /\ Inv /\ UNCHANGED vars => Typed' /\ Inv'
<1> SUFFICES ASSUME Typed, Inv, UNCHANGED vars PROVE Typed' /\ Inv'
  OBVIOUS
<1> USE DEF vars, sessionVars, callVars, kernelVars, toolVars
<1>1. CallTyped' /\ SessionTyped'
  BY DEF Typed, CallTyped, SessionTyped
<1>2. KernelTyped' /\ ToolsTyped'
  BY DEF Typed, KernelTyped, ToolsTyped
<1> QED
  BY <1>1, <1>2 DEF Typed, Inv, EndInv, KernelOwned, AnswerInv, OwnAnswer, Cleaning,
     Alive, Interrupts, Unkillable

LEMMA Invariant == Spec => [](TypeOK /\ Inv)
<1>1. Init => TypeOK /\ Inv
  BY TypeInit, InvInit, TypeParts
<1>2. TypeOK /\ Inv /\ [Next]_vars => TypeOK' /\ Inv'
  BY KernelStep, ToolsStep, HostStep, GuestInv, HostInv, StutterInv, TypeParts DEF
     Next, Host, Inv
<1> QED
  BY <1>1, <1>2, PTL DEF Spec

-----------------------------------------------------------------------------
(* Which tools are run. *)

Queued == 1..Len(requests)

\* Requests are queued in the order of their numbers, behind the one whose tool
\* runs, and nobody has answered them.
QueueInv ==
    /\ \A i \in Queued :
          /\ serving < requests[i] /\ requests[i] <= issued
          /\ handler[requests[i]] \in {"waiting", "gaveUp"}
    /\ \A i, j \in Queued : i < j => requests[i] < requests[j]
    /\ serving <= issued
    /\ pc # "tool" /\ ~(Cleaning /\ frame = "shutdown") => serving = 0

\* The call may still come to the loop of _run_cell, also through a shutdown
\* from inside a tool.
InCell == Looping \/ serving # 0

\* What is queued is of the cell in progress, and guest code awaits it unless
\* its handler gave up, which takes so long that the cell will time out.
RequestInv ==
    Quiet => \A i \in Queued :
        /\ InCell => during[requests[i]] = cell
        /\ Looping /\ ~ended /\ handler[requests[i]] = "gaveUp" => late
        /\ handler[requests[i]] = "waiting" => blocked = requests[i]

Working == kernel \in {"busy", "replied"}

IdleAt(i) == iopub[i].type = "idle"

\* An open session has one cell at a time on its way, as an entry of shell, in
\* the kernel, or as the idle status that tells its end.
KernelInv ==
    Quiet /\ ~ended =>
        /\ ~Looping => requests = <<>>
        /\ ~Looping => shell = <<>> /\ ~Working /\ iopub = <<>>
        /\ shell # <<>> => shell = <<cell>> /\ ~Working
        /\ Working => current = cell
        /\ kernel = "replied" => blocked = 0
        /\ \A i \in 1..Len(iopub) :
              IdleAt(i) => i = Len(iopub) /\ shell = <<>> /\ ~Working /\ blocked = 0

\* Where the execution in progress is: its code begins at most once, after all
\* earlier ones, and a value says that it did.
RunInv ==
    /\ run \in {0, runs}
    /\ \A r \in 1..MaxRuns : verdict[r] # 0 => r <= runs /\ r # run
    /\ pc = "idle" \/ (frame = "shutdown" /\ serving = 0) => run = 0 /\ value = 0
    /\ pc \in {"check", "server", "launch", "ready", "input"} => cell = 0
    /\ ~Looping /\ ~Cleaning => value = 0
    /\ Quiet =>
        /\ latest <= runs
        /\ run # 0 /\ (cell = 0 \/ pc = "submit") => latest < run
        /\ Alive /\ shell # <<>> =>
              /\ shell = <<cell>> /\ ~Working
              /\ cell # 0 => latest < cell

\* In an open session a result is on its way, or kept as the value, only after
\* the code of the cell has begun.
ValueInv ==
    Quiet /\ ~ended =>
        /\ shell # <<>> =>
              /\ value \in {0, Displayed}
              /\ \A i \in 1..Len(iopub) : iopub[i].type # "result"
        /\ kernel = "busy" /\ cell # 0 /\ defined => latest = cell
        /\ \A i \in 1..Len(iopub) : iopub[i].type = "result" => latest = cell
        /\ value \notin {0, Displayed} => latest = cell

CellInv == QueueInv /\ RequestInv /\ KernelInv

LEMMA ElementAt == ASSUME NEW S, NEW s \in Seq(S)
                   PROVE  Len(s) \in Nat /\ \A i \in 1..Len(s) : s[i] \in S
  OBVIOUS

LEMMA TailAt ==
    ASSUME NEW S, NEW s \in Seq(S), s # <<>>
    PROVE  /\ Len(s) \in Nat /\ Len(s) >= 1 /\ s[1] = Head(s)
           /\ Len(Tail(s)) = Len(s) - 1
           /\ \A i \in 1..Len(Tail(s)) : i + 1 \in 1..Len(s) /\ Tail(s)[i] = s[i + 1]
  OBVIOUS

LEMMA AppendAt ==
    ASSUME NEW S, NEW s \in Seq(S), NEW x \in S
    PROVE  /\ Len(s) \in Nat
           /\ Len(Append(s, x)) = Len(s) + 1
           /\ \A i \in 1..Len(s) : Append(s, x)[i] = s[i]
           /\ Append(s, x)[Len(s) + 1] = x
  OBVIOUS

LEMMA QueuedAt == Typed => /\ Len(requests) \in Nat
                           /\ \A i \in Queued : requests[i] \in 1..MaxTools
                           /\ requests = <<>> => Queued = {}
<1> SUFFICES ASSUME Typed PROVE  /\ Len(requests) \in Nat
                                 /\ \A i \in Queued : requests[i] \in 1..MaxTools
                                 /\ requests = <<>> => Queued = {}
  OBVIOUS
<1>1. requests \in Seq(1..MaxTools)
  BY DEF Typed, ToolsTyped
<1>2. Len(requests) \in Nat /\ \A i \in 1..Len(requests) : requests[i] \in 1..MaxTools
  BY <1>1, ElementAt
<1>3. requests = <<>> => Len(requests) = 0
  BY <1>1
<1> QED  BY <1>2, <1>3 DEF Queued

LEMMA CellInit == Init => CellInv
  BY DEF Init, CellInv, QueueInv, RequestInv, KernelInv, Queued, Looping, Working, Cleaning

\* What the host does that leaves requests in the queue.
LEMMA QueueKeeps ==
    ASSUME Typed, QueueInv, UNCHANGED <<requests, issued>>, serving' \in {0, serving},
           \A q \in 1..MaxTools : handler'[q] = handler[q] \/ q <= serving
                                  \/ handler'[q] = "gaveUp",
           pc' # "tool" /\ ~(Cleaning' /\ frame' = "shutdown") => serving' = 0
    PROVE  QueueInv'
  BY QueuedAt, Bounds DEF QueueInv, Queued, Typed, CallTyped, ToolsTyped

LEMMA RequestKeeps ==
    ASSUME Typed, QueueInv, RequestInv, UNCHANGED <<setting, requests, during>>,
           InCell' => InCell /\ cell' = cell,
           Looping' /\ ~ended' => Looping /\ ~ended /\ (late => late'),
           \A q \in 1..MaxTools :
               /\ handler'[q] = handler[q] \/ q <= serving
               /\ blocked' = blocked
    PROVE  RequestInv'
  BY QueuedAt, Bounds DEF QueueInv, RequestInv, Quiet, Helpers, Interrupts, Unkillable, Queued,
     Typed, CallTyped, ToolsTyped

LEMMA KernelKeeps ==
    ASSUME KernelInv, UNCHANGED <<setting, requests, shell, iopub, current, blocked, kernel>>,
           ~ended' => /\ ~ended
                      /\ ~Looping' => ~Looping
                      /\ Looping' => cell' = cell
    PROVE  KernelInv'
  BY DEF KernelInv, Quiet, Helpers, Interrupts, Unkillable, Working, IdleAt

\* A step of the host keeps its requests and the cell on its way in order.
LEMMA HostCell ==
    ASSUME Typed, EndInv, CellInv, Host, UNCHANGED setting
    PROVE  CellInv'
<1> USE DEF CellInv, Cleaning
<1>1. CASE Check
  <2>1. QueueInv'
    BY <1>1, QueueKeeps DEF Check, QueueInv, EndInv, Typed, CallTyped, Looping,
       callVars, toolVars, Leave
  <2>2. RequestInv'
    BY <1>1, RequestKeeps DEF Check, EndInv, Typed, QueueInv, InCell, Looping,
       sessionVars, callVars, kernelVars, toolVars, Leave
  <2>3. KernelInv'
    BY <1>1, KernelKeeps DEF Check, EndInv, Looping, sessionVars, callVars,
       kernelVars, Leave
  <2> QED  BY <2>1, <2>2, <2>3
<1>2. CASE OpenServer
  <2>1. QueueInv'
    BY <1>2, QueueKeeps DEF OpenServer, QueueInv, EndInv, Typed, CallTyped, Looping,
       callVars, toolVars
  <2>2. RequestInv'
    BY <1>2, RequestKeeps DEF OpenServer, EndInv, Typed, QueueInv, InCell, Looping,
       callVars, kernelVars, toolVars
  <2>3. KernelInv'
    BY <1>2, KernelKeeps DEF OpenServer, EndInv, Looping, callVars, kernelVars
  <2> QED  BY <2>1, <2>2, <2>3
<1>3. CASE Launch
  <2>1. QueueInv'
    BY <1>3, QueueKeeps DEF Launch, QueueInv, EndInv, Typed, CallTyped, Looping,
       callVars, toolVars
  <2>2. RequestInv'
    BY <1>3, RequestKeeps DEF Launch, EndInv, Typed, QueueInv, InCell, Looping,
       callVars, toolVars
  <2>3. KernelInv'
    BY <1>3 DEF Launch, Typed, EndInv, KernelInv, Quiet, Helpers, Interrupts, Unkillable,
       Working, Looping, IdleAt
  <2> QED  BY <2>1, <2>2, <2>3
<1>4. CASE AwaitReady
  <2>1. QueueInv'
    BY <1>4, QueueKeeps DEF AwaitReady, QueueInv, EndInv, Typed, CallTyped, Looping,
       callVars, toolVars, Terminal
  <2>2. RequestInv'
    BY <1>4, RequestKeeps DEF AwaitReady, EndInv, Typed, QueueInv, InCell, Looping,
       sessionVars, callVars, kernelVars, toolVars, Terminal
  <2>3. KernelInv'
    BY <1>4, KernelKeeps DEF AwaitReady, EndInv, Looping, sessionVars, callVars,
       kernelVars, Terminal
  <2> QED  BY <2>1, <2>2, <2>3
<1>5. CASE Encode
  <2>1. QueueInv'
    BY <1>5, QueueKeeps DEF Encode, QueueInv, EndInv, Typed, CallTyped, Looping,
       toolVars, Leave
  <2>2. RequestInv'
    BY <1>5, RequestKeeps DEF Encode, EndInv, Typed, QueueInv, InCell, Looping,
       sessionVars, kernelVars, toolVars, Leave
  <2>3. KernelInv'
    BY <1>5, KernelKeeps DEF Encode, EndInv, Looping, sessionVars, kernelVars, Leave
  <2> QED  BY <2>1, <2>2, <2>3
<1>6. CASE Submit
  <2>1. QueueInv'
    BY <1>6, QueueKeeps DEF Submit, QueueInv, EndInv, Typed, CallTyped, Looping,
       callVars, toolVars, Terminal
  <2>2. RequestInv'
    <3>1. CASE Terminal
      BY <1>6, <3>1, RequestKeeps DEF Submit, QueueInv, InCell, Looping, callVars,
         toolVars, Terminal
    <3>2. CASE ~Terminal
      <4>1. Quiet => requests = <<>>
        BY <1>6 DEF Submit, EndInv, KernelInv, Looping, Quiet
      <4> QED
        BY <1>6, <3>2, <4>1, QueuedAt DEF Submit, RequestInv, Quiet, Helpers,
           Interrupts, Unkillable, Queued
    <3> QED  BY <3>1, <3>2
  <2>3. KernelInv'
    <3>1. CASE Terminal
      BY <3>1, KernelKeeps DEF Terminal, KernelInv
    <3>2. CASE ~Terminal
      <4>1. shell = <<>> => shell' = <<cell>> /\ shell' # <<>>
        BY <1>6, <3>2 DEF Submit
      <4>2. pc' = "dispatch" /\ UNCHANGED <<setting, ended, cell, kernel, current, blocked, iopub, requests>>
        BY <1>6, <3>2 DEF Submit, sessionVars, callVars
      <4>3. pc = "submit" /\ (Quiet => ~ended)
        BY <1>6 DEF Submit, EndInv, Quiet
      <4> QED
        BY <4>1, <4>2, <4>3 DEF KernelInv, Quiet, Helpers, Interrupts, Unkillable, Working,
           Looping, IdleAt
    <3> QED  BY <3>1, <3>2
  <2> QED  BY <2>1, <2>2, <2>3
<1>7. CASE Dispatch
  <2>1. CASE requests = <<>>
    <3>1. pc' = "poll" /\ UNCHANGED <<requests, serving>>
      BY <1>7, <2>1 DEF Dispatch
    <3>2. QueueInv'
      BY <1>7, <3>1, QueueKeeps DEF Dispatch, QueueInv, toolVars
    <3>3. RequestInv'
      BY <1>7, <3>1, RequestKeeps DEF Dispatch, InCell, Looping, sessionVars,
         kernelVars, toolVars
    <3>4. KernelInv'
      BY <1>7, <3>1, KernelKeeps DEF Dispatch, Looping, sessionVars, kernelVars
    <3> QED  BY <3>2, <3>3, <3>4
  <2>2. CASE requests # <<>>
    <3>1. /\ requests' = Tail(requests) /\ serving' = Head(requests) /\ pc' = "tool"
          /\ UNCHANGED <<setting, ended, cell, late, issued, handler, during, kernel, blocked,
                         shell, iopub, current>>
      BY <1>7, <2>2 DEF Dispatch, sessionVars, kernelVars, toolVars
    <3>2. /\ serving' = requests[1] /\ 1 \in Queued /\ requests[1] \in 1..MaxTools
          /\ \A i \in Queued' : i + 1 \in Queued /\ requests'[i] = requests[i + 1]
          /\ \A i \in Queued : i \in Nat /\ requests[i] \in Nat
          /\ \A i \in Queued' : i \in Nat /\ 1 < i + 1
      <4>1. requests \in Seq(1..MaxTools)
        BY DEF Typed, ToolsTyped
      <4> QED  BY <2>2, <3>1, <4>1, TailAt, QueuedAt DEF Queued
    <3>3. QueueInv'
      <4>1. ASSUME NEW i \in Queued'
            PROVE  /\ serving' < requests'[i] /\ requests'[i] <= issued'
                   /\ handler'[requests'[i]] \in {"waiting", "gaveUp"}
        BY <3>1, <3>2 DEF QueueInv
      <4>2. ASSUME NEW i \in Queued', NEW j \in Queued', i < j PROVE requests'[i] < requests'[j]
        <5>1. i + 1 < j + 1
          BY <3>2, <4>2
        <5> QED  BY <3>2, <4>2, <5>1 DEF QueueInv
      <4>3. serving' <= issued'
        BY <3>1, <3>2 DEF QueueInv
      <4> QED  BY <3>1, <4>1, <4>2, <4>3 DEF QueueInv
    <3>4. RequestInv'
      <4> SUFFICES ASSUME Quiet, NEW i \in Queued'
                   PROVE  /\ during'[requests'[i]] = cell'
                          /\ ~ended' /\ handler'[requests'[i]] = "gaveUp" => late'
                          /\ handler'[requests'[i]] = "waiting" => blocked' = requests'[i]
        BY <3>1 DEF RequestInv, Quiet, Helpers, Interrupts, Unkillable
      <4>1. Looping /\ InCell /\ i + 1 \in Queued
        BY <1>7, <3>2 DEF Dispatch, Looping, InCell
      <4> QED  BY <3>1, <3>2, <4>1 DEF RequestInv
    <3>5. KernelInv'
      BY <1>7, <3>1 DEF Dispatch, KernelInv, Quiet, Helpers, Interrupts, Unkillable, Working,
         Looping, IdleAt
    <3> QED  BY <3>3, <3>4, <3>5
  <2> QED  BY <2>1, <2>2
<1>8. CASE FinishTool
  <2>1. QueueInv'
    BY <1>8, QueueKeeps DEF FinishTool, QueueInv, EndInv, Typed, CallTyped, Looping
  <2>2. RequestInv'
    BY <1>8, RequestKeeps DEF FinishTool, EndInv, Typed, QueueInv, InCell, Looping,
       sessionVars, kernelVars
  <2>3. KernelInv'
    BY <1>8, KernelKeeps DEF FinishTool, EndInv, Looping, sessionVars, kernelVars
  <2> QED  BY <2>1, <2>2, <2>3
<1>9. CASE TimedOut
  <2>1. QueueInv'
    BY <1>9, QueueKeeps DEF TimedOut, QueueInv, EndInv, Typed, CallTyped, Looping,
       callVars, toolVars, Terminal
  <2>2. RequestInv'
    BY <1>9, RequestKeeps DEF TimedOut, EndInv, Typed, QueueInv, InCell, Looping,
       callVars, kernelVars, toolVars, Terminal
  <2>3. KernelInv'
    BY <1>9, KernelKeeps DEF TimedOut, EndInv, Looping, callVars, kernelVars, Terminal
  <2> QED  BY <2>1, <2>2, <2>3
<1>10. CASE Poll
  <2>1. QueueInv'
    BY <1>10, QueueKeeps DEF Poll, CellDone, Foreign, QueueInv, EndInv, Typed,
       CallTyped, Looping, callVars, toolVars, Leave, Terminal
  <2>2. RequestInv'
    BY <1>10, RequestKeeps DEF Poll, CellDone, Foreign, EndInv, Typed, QueueInv,
       InCell, Looping, sessionVars, callVars, toolVars, Leave, Terminal
  <2>3. KernelInv'
    <3>1. ASSUME ended' PROVE KernelInv'
      BY <3>1 DEF KernelInv
    <3>2. CASE ~ended' /\ iopub = <<>>
      BY <1>10, <3>2, KernelKeeps DEF Poll, Looping, Terminal, sessionVars, callVars
    <3>3. CASE ~ended' /\ iopub # <<>>
      <4>1. /\ ~ended /\ client /\ pc = "poll" /\ ~late
            /\ UNCHANGED <<setting, requests, kernel, current, blocked, shell>>
            /\ iopub' = Tail(iopub)
        BY <1>10, <3>3 DEF Poll, Remaining, Terminal, CellDone, sessionVars
      <4>2. /\ Head(iopub) = iopub[1] /\ 1 \in 1..Len(iopub)
            /\ \A i \in 1..Len(iopub') : /\ i + 1 \in 1..Len(iopub)
                                         /\ iopub'[i] = iopub[i + 1]
                                         /\ i \in Nat /\ i + 1 # 1
        BY <3>3, <4>1, TailAt DEF Typed, KernelTyped
      <4>3. CASE pc' = "dispatch" /\ cell' = cell
        BY <3>3, <4>1, <4>2, <4>3 DEF KernelInv, Quiet, Helpers, Interrupts, Unkillable,
           Working, Looping, IdleAt
      <4>4. CASE IdleAt(1) /\ pc' \in {"input", "idle"}
        <5>1. Quiet => requests = <<>>
          <6> SUFFICES ASSUME Quiet, requests # <<>> PROVE FALSE
            OBVIOUS
          <6>1. blocked = 0
            BY <4>1, <4>2, <4>4 DEF KernelInv
          <6>2. 1 \in Queued /\ requests[1] \in 1..MaxTools
            BY TailAt, QueuedAt DEF Typed, ToolsTyped, Queued
          <6>3. handler[requests[1]] = "waiting"
            BY <4>1, <6>2 DEF QueueInv, RequestInv, Looping
          <6> QED  BY <6>1, <6>2, <6>3 DEF RequestInv
        <5> QED
          BY <3>3, <4>1, <4>2, <4>4, <5>1 DEF KernelInv, Quiet, Helpers,
             Interrupts, Unkillable, Working, Looping, IdleAt
      <4> QED
        BY <1>10, <3>3, <4>1, <4>2, <4>3, <4>4 DEF Poll, CellDone, Leave,
           Terminal, IdleAt, Foreign
    <3> QED  BY <3>1, <3>2, <3>3
  <2> QED  BY <2>1, <2>2, <2>3
<1>11. CASE StopChannels
  <2>1. QueueInv'
    BY <1>11, QueueKeeps DEF StopChannels, QueueInv, EndInv, Typed, CallTyped, Looping, callVars,
       toolVars
  <2>2. RequestInv'
    BY <1>11, RequestKeeps DEF StopChannels, EndInv, Typed, QueueInv, InCell, Looping, callVars,
       kernelVars, toolVars
  <2>3. KernelInv'
    BY <1>11 DEF StopChannels, EndInv, KernelInv
  <2> QED  BY <2>1, <2>2, <2>3
<1>12. CASE ShutdownKernel
  <2>1. QueueInv'
    BY <1>12, QueueKeeps DEF ShutdownKernel, QueueInv, EndInv, Typed, CallTyped, Looping, callVars,
       toolVars
  <2>2. RequestInv'
    BY <1>12, RequestKeeps DEF ShutdownKernel, EndInv, Typed, QueueInv, InCell, Looping, callVars,
       kernelVars, toolVars
  <2>3. KernelInv'
    BY <1>12 DEF ShutdownKernel, EndInv, KernelInv
  <2> QED  BY <2>1, <2>2, <2>3
<1>13. CASE CloseServer
  <2>1. QueueInv'
    BY <1>13, QueueKeeps DEF CloseServer, QueueInv, EndInv, Typed, CallTyped, Looping, callVars,
       toolVars, CleanedUp, Leave
  <2>2. RequestInv'
    BY <1>13, RequestKeeps DEF CloseServer, EndInv, Typed, QueueInv, InCell, Looping, callVars,
       kernelVars, toolVars, CleanedUp, Leave
  <2>3. KernelInv'
    BY <1>13 DEF CloseServer, EndInv, KernelInv
  <2> QED  BY <2>1, <2>2, <2>3
<1>14. CASE CallExecute
  <2>1. QueueInv'
    BY <1>14, QueueKeeps DEF CallExecute, QueueInv, EndInv, Typed, CallTyped,
       Looping, toolVars
  <2>2. RequestInv'
    BY <1>14, RequestKeeps DEF CallExecute, EndInv, Typed, QueueInv, InCell,
       Looping, sessionVars, kernelVars, toolVars
  <2>3. KernelInv'
    BY <1>14, KernelKeeps DEF CallExecute, EndInv, Looping, sessionVars, kernelVars
  <2> QED  BY <2>1, <2>2, <2>3
<1>15. CASE CallStart
  <2>1. QueueInv'
    BY <1>15, QueueKeeps DEF CallStart, QueueInv, EndInv, Typed, CallTyped, Looping,
       callVars, toolVars
  <2>2. RequestInv'
    BY <1>15, RequestKeeps DEF CallStart, EndInv, Typed, QueueInv, InCell, Looping,
       sessionVars, callVars, kernelVars, toolVars
  <2>3. KernelInv'
    BY <1>15, KernelKeeps DEF CallStart, EndInv, Looping, sessionVars, callVars,
       kernelVars
  <2> QED  BY <2>1, <2>2, <2>3
<1>16. CASE CallShutdown
  <2>1. QueueInv'
    BY <1>16, QueueKeeps DEF CallShutdown, QueueInv, EndInv, Typed, CallTyped,
       Looping, toolVars
  <2>2. RequestInv'
    BY <1>16, RequestKeeps DEF CallShutdown, EndInv, Typed, QueueInv, InCell,
       Looping, kernelVars, toolVars
  <2>3. KernelInv'
    BY <1>16, KernelKeeps DEF CallShutdown, EndInv, Looping, kernelVars
  <2> QED  BY <2>1, <2>2, <2>3
<1>17. CASE Interrupt
  <2>1. QueueInv'
    BY <1>17, QueueKeeps DEF Interrupt, QueueInv, EndInv, Typed, CallTyped, Looping,
       toolVars, CleanedUp, Leave
  <2>2. RequestInv'
    BY <1>17, RequestKeeps DEF Interrupt, EndInv, Typed, QueueInv, InCell, Looping,
       toolVars, CleanedUp, Leave
  <2>3. KernelInv'
    BY <1>17 DEF Interrupt, KernelInv, Quiet, Helpers, Interrupts, Unkillable
  <2> QED  BY <2>1, <2>2, <2>3
<1>18. CASE DeadlinePasses
  <2>1. QueueInv'
    BY <1>18, QueueKeeps DEF DeadlinePasses, QueueInv, EndInv, Typed, CallTyped,
       Looping, toolVars
  <2>2. RequestInv'
    BY <1>18, RequestKeeps DEF DeadlinePasses, EndInv, Typed, QueueInv, InCell,
       Looping, sessionVars, kernelVars, toolVars
  <2>3. KernelInv'
    BY <1>18, KernelKeeps DEF DeadlinePasses, EndInv, Looping, sessionVars, kernelVars
  <2> QED  BY <2>1, <2>2, <2>3
<1> QED
  BY <1>1, <1>2, <1>3, <1>4, <1>5, <1>6, <1>7, <1>8, <1>9, <1>10, <1>11, <1>12, <1>13,
     <1>14, <1>15, <1>16, <1>17, <1>18 DEF Host, Advance

\* The kernel's next message behind the others.
LEMMA PublishAt ==
    ASSUME KernelTyped, NEW type \in {"result", "display", "error", "idle"}, Publish(type)
    PROVE  /\ Len(iopub) \in Nat /\ Len(iopub') = Len(iopub) + 1
           /\ \A i \in 1..Len(iopub) : iopub'[i] = iopub[i]
           /\ iopub'[Len(iopub) + 1].type = type
<1> DEFINE m == [parent |-> current, type |-> type]
<1>1. m \in Messages /\ m.type = type
  BY DEF KernelTyped, Messages
<1>2. iopub' = Append(iopub, m) /\ iopub \in Seq(Messages)
  BY DEF Publish, KernelTyped
<1> HIDE DEF m
<1> QED  BY <1>1, <1>2, AppendAt

\* A message that is no idle status tells nothing.
LEMMA PublishKeeps ==
    ASSUME KernelTyped, KernelInv, NEW type \in {"result", "display", "error"}, Publish(type),
           UNCHANGED <<setting, ended, pc, cell, requests, shell, current, blocked>>,
           kernel' = "replied" => blocked = 0,
           kernel = "busy", kernel' \in {"busy", "replied"}
    PROVE  KernelInv'
<1>1. \A i \in 1..Len(iopub') : IdleAt(i)' => i \in 1..Len(iopub) /\ IdleAt(i)
  BY PublishAt DEF IdleAt
<1> QED
  BY <1>1 DEF KernelInv, Quiet, Helpers, Interrupts, Unkillable, Working, Looping

LEMMA KernelCell ==
    ASSUME Typed, CellInv, Kernel, UNCHANGED setting
    PROVE  CellInv'
<1> USE DEF CellInv, Cleaning
<1>1. /\ UNCHANGED <<ended, requests, pc, cell, late, serving, frame, blocked, issued,
                     handler, during>>
  BY DEF Kernel, KernelReady, TakeCell, FinishCell, GoIdle, Display, KernelDies,
     sessionVars, callVars
<1>2. QueueInv'
  BY <1>1, QueueKeeps DEF QueueInv
<1>3. RequestInv'
  BY <1>1, RequestKeeps DEF InCell, Looping
<1>4. KernelInv'
  <2>1. ASSUME UNCHANGED <<shell, iopub, current>>, Working' => Working,
               kernel' = "replied" => blocked = 0 \/ kernel = "replied"
        PROVE  KernelInv'
    BY <1>1, <2>1 DEF KernelInv, Quiet, Helpers, Interrupts, Unkillable, Looping, IdleAt
  <2>2. CASE KernelReady
    BY <2>1, <2>2 DEF KernelReady, Working
  <2>3. CASE TakeCell
    <3>1. /\ kernel' = "busy" /\ shell' = Tail(shell) /\ current' = Head(shell)
          /\ shell # <<>> /\ iopub' = iopub
      BY <2>3 DEF TakeCell
    <3>2. shell = <<cell>> => Tail(shell) = <<>> /\ Head(shell) = cell
      BY DEF Typed, KernelTyped
    <3> QED
      BY <1>1, <3>1, <3>2 DEF KernelInv, Quiet, Helpers, Interrupts, Unkillable, Looping,
         IdleAt, Working
  <2>4. CASE FinishCell
    <3>1. CASE UNCHANGED iopub
      BY <2>1, <2>4, <3>1 DEF FinishCell, Working
    <3>2. CASE Publish("result") \/ Publish("error")
      BY <1>1, <2>4, <3>2, PublishKeeps DEF FinishCell, Typed
    <3> QED  BY <2>4, <3>1, <3>2 DEF FinishCell
  <2>5. CASE GoIdle
    <3>1. /\ kernel = "replied" /\ kernel' = "idle" /\ Publish("idle")
          /\ UNCHANGED <<shell, current, blocked>>
      BY <2>5 DEF GoIdle
    <3>2. /\ Len(iopub) \in Nat /\ Len(iopub') = Len(iopub) + 1
          /\ \A i \in 1..Len(iopub) : iopub'[i] = iopub[i]
      BY <3>1, PublishAt DEF Typed
    <3>3. Quiet /\ ~ended =>
             /\ Looping /\ shell = <<>> /\ blocked = 0
             /\ \A i \in 1..Len(iopub') : IdleAt(i)' => i = Len(iopub')
      BY <3>1, <3>2 DEF KernelInv, Working, IdleAt
    <3> QED
      BY <1>1, <3>1, <3>3 DEF KernelInv, Quiet, Helpers, Interrupts, Unkillable, Looping, Working
  <2>6. CASE Display
    <3>1. CASE Quiet
      BY <1>1, <2>6, <3>1, PublishKeeps DEF Display, Typed, Quiet
    <3> QED  BY <3>1 DEF KernelInv, Quiet, Helpers, Interrupts, Unkillable
  <2>7. CASE KernelDies
    BY <2>1, <2>7 DEF KernelDies, Working
  <2> QED  BY <2>2, <2>3, <2>4, <2>5, <2>6, <2>7 DEF Kernel
<1> QED  BY <1>2, <1>3, <1>4

LEMMA ToolsCell ==
    ASSUME Typed, CellInv, Tools, UNCHANGED setting
    PROVE  CellInv'
<1> USE DEF CellInv, Cleaning
<1>1. ASSUME NEW fromMain \in BOOLEAN, CallTool(fromMain) PROVE CellInv'
  <2>1. /\ UNCHANGED <<ended, pc, cell, late, serving, frame, kernel, current, shell, iopub>>
        /\ issued' = issued + 1 /\ issued \in Nat /\ issued' \in 1..MaxTools
        /\ requests' = Append(requests, issued')
        /\ handler' = [handler EXCEPT ![issued'] = "waiting"]
        /\ during' = [during EXCEPT ![issued'] = IF Looping \/ serving # 0 THEN cell ELSE 0]
    BY <1>1, Bounds DEF CallTool, Typed, ToolsTyped, callVars, sessionVars
  <2>2. Quiet => kernel = "busy" /\ blocked = 0 /\ blocked' = issued'
    BY <1>1 DEF CallTool, Quiet
  <2>3. /\ Queued' = Queued \cup {Len(requests) + 1} /\ Len(requests) \in Nat
        /\ requests'[Len(requests) + 1] = issued'
        /\ \A i \in Queued : /\ requests'[i] = requests[i]
                             /\ requests[i] \in 1..MaxTools /\ requests[i] # issued'
                             /\ handler'[requests[i]] = handler[requests[i]]
                             /\ during'[requests[i]] = during[requests[i]]
    <3>1. requests \in Seq(1..MaxTools)
      BY DEF Typed, ToolsTyped
    <3>2. /\ Len(requests') = Len(requests) + 1 /\ Len(requests) \in Nat
          /\ requests'[Len(requests) + 1] = issued'
          /\ \A i \in Queued : requests'[i] = requests[i]
      BY <2>1, <3>1, AppendAt DEF Queued
    <3>3. \A i \in Queued : requests[i] \in 1..MaxTools /\ requests[i] # issued'
      BY <2>1, QueuedAt DEF QueueInv
    <3> QED  BY <2>1, <3>2, <3>3 DEF Queued, Typed, ToolsTyped
  <2>4. /\ handler'[issued'] = "waiting"
        /\ during'[issued'] = IF Looping \/ serving # 0 THEN cell ELSE 0
    BY <2>1 DEF Typed, ToolsTyped
  <2>5. QueueInv'
    <3>1. serving \in Nat
      BY DEF Typed, CallTyped
    <3> QED  BY <2>1, <2>3, <2>4, <3>1 DEF QueueInv, Queued
  <2>6. RequestInv'
    <3> SUFFICES ASSUME Quiet, NEW i \in Queued'
                 PROVE  /\ InCell => during'[requests'[i]] = cell
                        /\ Looping /\ ~ended /\ handler'[requests'[i]] = "gaveUp" => late
                        /\ handler'[requests'[i]] = "waiting" => blocked' = requests'[i]
      BY <2>1 DEF RequestInv, InCell, Looping, Quiet, Helpers, Interrupts, Unkillable
    <3>1. CASE i \in Queued
      <4>1. handler[requests[i]] # "waiting"
        BY <2>2, <2>3, <3>1 DEF RequestInv
      <4> QED  BY <2>3, <3>1, <4>1 DEF RequestInv
    <3>2. CASE i = Len(requests) + 1
      BY <2>2, <2>3, <2>4, <3>2 DEF InCell
    <3> QED  BY <2>3, <3>1, <3>2
  <2>7. KernelInv'
    BY <2>1, <2>2 DEF KernelInv, Quiet, Helpers, Interrupts, Unkillable, Looping, Working, IdleAt
  <2> QED  BY <2>5, <2>6, <2>7
<1>2. ASSUME NEW q \in 1..MaxTools, GiveUp(q) PROVE CellInv'
  <2>1. /\ UNCHANGED <<ended, requests, pc, cell, serving, frame, kernel, current, shell, iopub,
                       blocked, issued, during>>
        /\ handler' = [handler EXCEPT ![q] = "gaveUp"]
        /\ late' = (late \/ (Looping /\ during[q] = cell))
    BY <1>2 DEF GiveUp, sessionVars, kernelVars
  <2>2. QueueInv'
    BY <2>1, QueueKeeps DEF QueueInv, Typed, ToolsTyped
  <2>3. RequestInv'
    <3> SUFFICES ASSUME Quiet, NEW i \in Queued
                 PROVE  /\ InCell => during[requests[i]] = cell
                        /\ Looping /\ ~ended /\ handler'[requests[i]] = "gaveUp" => late'
                        /\ handler'[requests[i]] = "waiting" => blocked = requests[i]
      BY <2>1 DEF RequestInv, InCell, Looping, Quiet, Helpers, Interrupts, Unkillable, Queued
    <3>1. requests[i] \in 1..MaxTools
      BY QueuedAt
    <3> QED  BY <2>1, <3>1 DEF RequestInv, InCell, Typed, ToolsTyped
  <2>4. KernelInv'
    BY <2>1, KernelKeeps DEF Looping
  <2> QED  BY <2>2, <2>3, <2>4
<1>3. CASE ReadAnswer
  <2>1. /\ UNCHANGED <<ended, requests, pc, cell, late, serving, frame, kernel, current, shell,
                       iopub, issued, handler, during>>
        /\ handler[blocked] # "waiting" /\ blocked' = 0
    BY <1>3 DEF ReadAnswer, sessionVars, callVars, toolVars
  <2>2. QueueInv'
    BY <2>1, QueueKeeps DEF QueueInv
  <2>3. RequestInv'
    BY <2>1 DEF RequestInv, InCell, Looping, Quiet, Helpers, Interrupts, Unkillable, Queued
  <2>4. KernelInv'
    BY <2>1 DEF KernelInv, Looping, Quiet, Helpers, Interrupts, Unkillable, Working, IdleAt
  <2> QED  BY <2>2, <2>3, <2>4
<1> QED
  BY <1>1, <1>2, <1>3 DEF Tools

-----------------------------------------------------------------------------
(* What a result is worth. *)

LEMMA RunInit == Init => RunInv /\ ValueInv
  BY Bounds DEF Init, RunInv, ValueInv

LEMMA RunKeeps ==
    ASSUME RunInv, UNCHANGED <<setting, run, runs, verdict, cell, value, latest, shell, kernel>>,
           pc' = "idle" \/ (frame' = "shutdown" /\ serving' = 0)
               => pc = "idle" \/ (frame = "shutdown" /\ serving = 0),
           pc' \in {"check", "server", "launch", "ready", "input"} => cell = 0,
           ~Looping' /\ ~Cleaning' => value = 0,
           pc' = "submit" => cell = 0
    PROVE  RunInv'
  BY DEF RunInv, Quiet, Helpers, Interrupts, Unkillable, Alive, Working

LEMMA ValueKeeps ==
    ASSUME ValueInv, UNCHANGED <<setting, shell, iopub, kernel, defined, latest>>,
           ~ended' => ~ended /\ cell' = cell /\ value' = value
    PROVE  ValueInv'
  BY DEF ValueInv, Quiet, Helpers, Interrupts, Unkillable

\* Nothing is on its way.
LEMMA ValueRests ==
    ASSUME Quiet' /\ ~ended' => shell' = <<>> /\ iopub' = <<>> /\ kernel' # "busy" /\ value' = 0
    PROVE  ValueInv'
  BY DEF ValueInv

LEMMA HostRun ==
    ASSUME Typed, Inv, KernelInv, RunInv, Host, UNCHANGED setting
    PROVE  RunInv'
<1> USE Bounds DEF Cleaning
<1>1. CASE Check
  BY <1>1, RunKeeps DEF Check, Inv, EndInv, AnswerInv, KernelInv, RunInv, Typed,
     CallTyped, Looping, Quiet, Helpers, Interrupts, Unkillable, Alive, Working, sessionVars,
     callVars, kernelVars, Leave
<1>2. CASE OpenServer
  BY <1>2, RunKeeps DEF OpenServer, Inv, EndInv, AnswerInv, KernelInv, RunInv, Typed,
     CallTyped, Looping, Quiet, Helpers, Interrupts, Unkillable, Alive, Working, callVars,
     kernelVars
<1>3. CASE Launch
  BY <1>3, RunKeeps DEF Launch, Inv, EndInv, AnswerInv, KernelInv, RunInv, Typed,
     CallTyped, Looping, Quiet, Helpers, Interrupts, Unkillable, Alive, Working, callVars
<1>4. CASE AwaitReady
  BY <1>4, RunKeeps DEF AwaitReady, Inv, EndInv, AnswerInv, KernelInv, RunInv, Typed,
     CallTyped, Looping, Quiet, Helpers, Interrupts, Unkillable, Alive, Working, sessionVars,
     callVars, kernelVars, Terminal
<1>5. CASE Encode
  BY <1>5, RunKeeps DEF Encode, Inv, EndInv, AnswerInv, KernelInv, RunInv, Typed,
     CallTyped, Looping, Quiet, Helpers, Interrupts, Unkillable, Alive, Working, sessionVars,
     kernelVars, Leave
<1>6. CASE Submit
  <2>1. CASE Terminal
    BY <1>6, <2>1, RunKeeps DEF Submit, RunInv, Looping, callVars, Terminal
  <2>2. CASE ~Terminal
    <3>1. /\ pc = "submit" /\ pc' = "dispatch" /\ shell' = Append(shell, cell)
          /\ UNCHANGED <<setting, run, runs, verdict, cell, value, latest, kernel, serving, frame>>
          /\ Quiet => ~ended
      BY <1>6, <2>2 DEF Submit, Inv, EndInv, callVars, Quiet
    <3>2. cell = 0 \/ cell = run
      BY DEF Inv, AnswerInv
    <3>3. Quiet => shell' = <<cell>> /\ ~Working
      BY <3>1 DEF KernelInv, Looping
    <3>4. frame # "shutdown" /\ (Quiet /\ cell # 0 => latest < cell)
      BY <3>1, <3>2 DEF Inv, EndInv, RunInv
    <3>5. Quiet => latest <= runs /\ (run # 0 /\ cell = 0 => latest < run)
      BY DEF RunInv
    <3> QED
      BY <3>1, <3>3, <3>4, <3>5 DEF RunInv, Quiet, Helpers, Interrupts, Unkillable, Working, Looping
  <2> QED  BY <2>1, <2>2
<1>7. CASE Dispatch
  BY <1>7, RunKeeps DEF Dispatch, Inv, EndInv, AnswerInv, KernelInv, RunInv, Typed,
     CallTyped, Looping, Quiet, Helpers, Interrupts, Unkillable, Alive, Working, sessionVars,
     kernelVars
<1>8. CASE FinishTool
  BY <1>8, RunKeeps DEF FinishTool, Inv, EndInv, AnswerInv, KernelInv, RunInv, Typed,
     CallTyped, Looping, Quiet, Helpers, Interrupts, Unkillable, Alive, Working, sessionVars,
     kernelVars
<1>9. CASE TimedOut
  BY <1>9, RunKeeps DEF TimedOut, Inv, EndInv, AnswerInv, KernelInv, RunInv, Typed,
     CallTyped, Looping, Quiet, Helpers, Interrupts, Unkillable, Alive, Working, callVars,
     kernelVars, Terminal
<1>10. CASE Poll
  <2>1. CASE Terminal
    BY <1>10, <2>1, RunKeeps DEF Poll, RunInv, Looping, callVars, Terminal
  <2>2. CASE pc' = "dispatch"
    <3>1. /\ pc = "poll"
          /\ UNCHANGED <<setting, run, runs, verdict, cell, latest, shell, kernel, serving, frame>>
      BY <1>10, <2>2 DEF Poll, CellDone, Leave, Terminal, callVars
    <3>2. frame # "shutdown"
      BY <3>1 DEF Inv, EndInv
    <3> QED
      BY <2>2, <3>1, <3>2 DEF RunInv, Quiet, Helpers, Interrupts, Unkillable, Alive,
         Working, Looping
  <2>3. CASE pc' = "input" /\ ~Terminal
    <3>1. /\ cell = 0 /\ value' = 0 /\ pc = "poll"
          /\ UNCHANGED <<setting, latest, shell, kernel, run, cell, runs, verdict, serving, frame>>
      BY <1>10, <2>3 DEF Poll, CellDone, Leave
    <3>2. frame # "shutdown"
      BY <3>1 DEF Inv, EndInv
    <3>3. Quiet' => Quiet
      BY <3>1 DEF Quiet, Helpers, Interrupts, Unkillable
    <3>4. (Alive' <=> Alive) /\ (Working' <=> Working)
      BY <3>1 DEF Alive, Working
    <3> QED
      BY <2>3, <3>1, <3>2, <3>3, <3>4 DEF RunInv, Looping
  <2>4. CASE pc' = "idle"
    <3>1. /\ pc = "poll" /\ ~late /\ client /\ iopub # <<>>
          /\ Head(iopub).type = "idle"
          /\ cell # 0
          /\ verdict' = [verdict EXCEPT ![run] = value] \/ UNCHANGED verdict
          /\ Leave
          /\ UNCHANGED <<setting, latest, shell, kernel>>
      BY <1>10, <2>4 DEF Poll, CellDone, Terminal, Remaining
    <3>2. IdleAt(1) /\ 1 \in 1..Len(iopub)
      BY <3>1, TailAt DEF Typed, KernelTyped, IdleAt
    <3>9. Quiet => ~ended
      BY <3>1 DEF Quiet, Inv, EndInv
    <3>3. Quiet => shell = <<>>
      BY <3>2, <3>9 DEF KernelInv
    <3>4. run = runs
      BY <3>1 DEF Inv, AnswerInv, RunInv
    <3>5. \A r \in 1..MaxRuns : verdict'[r] # 0 => r <= runs
      BY <3>1, <3>4 DEF RunInv, Typed, CallTyped, Cells
    <3>6. run' = 0 /\ cell' = 0 /\ value' = 0 /\ runs' = runs /\ pc' = "idle"
      BY <3>1 DEF Leave
    <3>7. Quiet => latest <= runs
      BY DEF RunInv
    <3>8. \A r \in 1..MaxRuns : r # 0
      OBVIOUS
    <3> QED
      BY <3>1, <3>3, <3>5, <3>6, <3>7, <3>8 DEF RunInv, Quiet, Helpers,
         Interrupts, Unkillable, Looping
  <2> QED
    BY <1>10, <2>1, <2>2, <2>3, <2>4 DEF Poll, CellDone, Leave
<1>11. CASE StopChannels
  BY <1>11, RunKeeps DEF StopChannels, Inv, EndInv, RunInv, Looping, callVars, kernelVars
<1>12. CASE ShutdownKernel
  <2>1. /\ UNCHANGED <<setting, shell, latest, callVars>>
        /\ pc = "kill" /\ pc' = "close"
        /\ Alive' => Alive
        /\ Alive' => Working' = Working
    BY <1>12 DEF ShutdownKernel, Alive, Working
  <2> QED
    BY <2>1 DEF RunInv, Quiet, Helpers, Interrupts, Unkillable, Looping, callVars
<1>13. CASE CloseServer
  <2>1. /\ pc = "close" /\ UNCHANGED <<setting, kernel, shell, latest>>
        /\ Quiet => ~Alive'
    BY <1>13 DEF CloseServer, Inv, EndInv, Quiet, Interrupts, Unkillable, Alive, kernelVars
  <2>2. CASE Leave /\ UNCHANGED verdict
    <3>1. run' = 0 /\ cell' = 0 /\ value' = 0 /\ runs' = runs /\ pc' = "idle"
      BY <2>2 DEF Leave
    <3>2. \A r \in 1..MaxRuns : r # 0
      OBVIOUS
    <3> QED
      BY <2>1, <2>2, <3>1, <3>2 DEF RunInv, Quiet, Helpers, Interrupts, Unkillable, Looping
  <2>3. CASE /\ frame = "shutdown"
             /\ frame' = "call"
             /\ pc' = IF serving # 0 THEN "tool" ELSE "idle"
             /\ UNCHANGED <<run, cell, late, value, failed, serving, runs, verdict>>
    <3>1. pc' = "idle" => run = 0 /\ cell = 0
      BY <2>3 DEF RunInv, Inv, AnswerInv
    <3>2. pc' = "idle" => value = 0
      BY <2>3, <3>1 DEF RunInv
    <3> QED
      BY <2>1, <2>3, <3>1, <3>2 DEF RunInv, Quiet, Helpers, Interrupts, Unkillable,
         Looping
  <2> QED  BY <1>13, <2>2, <2>3 DEF CloseServer, CleanedUp
<1>14. CASE CallExecute
  <2>1. /\ pc = "idle" /\ pc' = "check" /\ runs' = runs + 1 /\ run' = runs'
        /\ UNCHANGED <<setting, verdict, cell, value, latest, shell, kernel, serving, frame>>
    BY <1>14 DEF CallExecute, kernelVars
  <2>2. runs \in Nat /\ latest \in Nat /\ runs' \in Nat /\ cell = 0 /\ value = 0
        /\ frame # "shutdown"
    BY <2>1 DEF Typed, CallTyped, KernelTyped, Cells, Inv, AnswerInv, EndInv, RunInv
  <2>3. \A r \in 1..MaxRuns : verdict[r] # 0 => r <= runs'/\ r # run'
    BY <2>1, <2>2 DEF RunInv
  <2> QED
    BY <2>1, <2>2, <2>3 DEF RunInv, Quiet, Helpers, Interrupts, Unkillable, Alive, Working, Looping
<1>15. CASE CallStart
  BY <1>15, RunKeeps DEF CallStart, Inv, EndInv, AnswerInv, KernelInv, RunInv, Typed,
     CallTyped, Looping, Quiet, Helpers, Interrupts, Unkillable, Alive, Working, sessionVars,
     callVars, kernelVars
<1>16. CASE CallShutdown
  BY <1>16, RunKeeps DEF CallShutdown, Inv, EndInv, AnswerInv, KernelInv, RunInv,
     Typed, CallTyped, Looping, Quiet, Helpers, Interrupts, Unkillable, Alive, Working, kernelVars
<1>17. CASE Interrupt
  <2>1. ~Quiet' /\ UNCHANGED runs
    BY <1>17 DEF Interrupt, CleanedUp, Leave, Quiet, Interrupts
  <2>2. CASE Leave /\ UNCHANGED verdict
    BY <2>1, <2>2 DEF RunInv, Leave, Looping
  <2>3. CASE /\ Cleaning /\ frame = "shutdown"
             /\ frame' = "call"
             /\ pc' = IF serving # 0 THEN "tool" ELSE "idle"
             /\ UNCHANGED <<run, cell, late, value, failed, serving, runs, verdict>>
    BY <2>1, <2>3 DEF RunInv, Looping
  <2> QED  BY <1>17, <2>2, <2>3 DEF Interrupt, CleanedUp
<1>18. CASE DeadlinePasses
  BY <1>18, RunKeeps DEF DeadlinePasses, Inv, EndInv, AnswerInv, KernelInv, RunInv,
     Typed, CallTyped, Looping, Quiet, Helpers, Interrupts, Unkillable, Alive, Working,
     sessionVars, kernelVars
<1> QED
  BY <1>1, <1>2, <1>3, <1>4, <1>5, <1>6, <1>7, <1>8, <1>9, <1>10, <1>11, <1>12, <1>13,
     <1>14, <1>15, <1>16, <1>17, <1>18 DEF Host, Advance

LEMMA HostValue ==
    ASSUME Typed, Inv, KernelInv, RunInv, ValueInv, Host, UNCHANGED setting
    PROVE  ValueInv'
<1> USE DEF Cleaning
<1>1. CASE Check
  BY <1>1, ValueKeeps, ValueRests DEF Check, Inv, EndInv, AnswerInv, KernelInv,
     RunInv, Looping, Working, Quiet, Helpers, Interrupts, Unkillable, sessionVars, callVars,
     kernelVars, Leave
<1>2. CASE OpenServer
  BY <1>2, ValueKeeps, ValueRests DEF OpenServer, Inv, EndInv, AnswerInv, KernelInv,
     RunInv, Looping, Working, Quiet, Helpers, Interrupts, Unkillable, callVars, kernelVars
<1>3. CASE Launch
  <2>1. Quiet' /\ ~ended' => Quiet /\ ~ended /\ UNCHANGED <<shell, iopub, value>>
    BY <1>3 DEF Launch, Quiet, Helpers, Interrupts, Unkillable, callVars
  <2>2. kernel' # "busy" /\ pc = "launch"
    BY <1>3 DEF Launch, Typed
  <2> QED
    BY <2>1, <2>2, ValueRests DEF KernelInv, RunInv, Looping
<1>4. CASE AwaitReady
  BY <1>4, ValueKeeps, ValueRests DEF AwaitReady, Inv, EndInv, AnswerInv, KernelInv,
     RunInv, Looping, Working, Quiet, Helpers, Interrupts, Unkillable, sessionVars, callVars,
     kernelVars, Terminal
<1>5. CASE Encode
  <2>1. /\ pc = "input" /\ (Quiet => ~ended) /\ cell = 0
        /\ UNCHANGED <<setting, shell, iopub, kernel>>
    BY <1>5 DEF Encode, Inv, EndInv, RunInv, kernelVars, Quiet
  <2>2. value' = 0
    BY <1>5, <2>1 DEF Encode, Inv, RunInv, Looping, Leave
  <2> QED
    BY <2>1, <2>2, ValueRests DEF KernelInv, Looping, Working, Quiet, Helpers,
       Interrupts, Unkillable
<1>6. CASE Submit
  <2>1. CASE Terminal
    BY <2>1, ValueRests DEF Terminal
  <2>2. CASE ~Terminal
    <3>1. /\ pc = "submit" /\ (Quiet => ~ended)
          /\ UNCHANGED <<setting, iopub, kernel, value, latest, cell, defined>>
      BY <1>6, <2>2 DEF Submit, Inv, EndInv, callVars, Quiet
    <3>2. Quiet => iopub = <<>> /\ ~Working /\ value = 0
      BY <3>1 DEF KernelInv, RunInv, Looping
    <3>3. iopub = <<>> => Len(iopub) = 0
      OBVIOUS
    <3> QED
      BY <3>1, <3>2, <3>3 DEF ValueInv, Working, Quiet, Helpers, Interrupts, Unkillable
  <2> QED  BY <2>1, <2>2
<1>7. CASE Dispatch
  BY <1>7, ValueKeeps, ValueRests DEF Dispatch, Inv, EndInv, AnswerInv, KernelInv,
     RunInv, Looping, Working, Quiet, Helpers, Interrupts, Unkillable, sessionVars, kernelVars
<1>8. CASE FinishTool
  BY <1>8, ValueKeeps, ValueRests DEF FinishTool, Inv, EndInv, AnswerInv, KernelInv,
     RunInv, Looping, Working, Quiet, Helpers, Interrupts, Unkillable, sessionVars, kernelVars
<1>9. CASE TimedOut
  BY <1>9, ValueKeeps, ValueRests DEF TimedOut, Inv, EndInv, AnswerInv, KernelInv,
     RunInv, Looping, Working, Quiet, Helpers, Interrupts, Unkillable, callVars, kernelVars,
     Terminal
<1>10. CASE Poll
  <2>1. CASE ended' \/ iopub = <<>>
    <3>1. CASE ended'
      BY <3>1, ValueRests
    <3>2. CASE ~ended'
      <4>1. UNCHANGED <<setting, ended, shell, iopub, kernel, defined, latest, cell, value>>
        BY <1>10, <2>1, <3>2 DEF Poll, Terminal, sessionVars, callVars
      <4> QED  BY <4>1, ValueKeeps
    <3> QED  BY <3>1, <3>2
  <2>2. CASE ~ended' /\ iopub # <<>>
    <3>1. /\ ~ended /\ client /\ pc = "poll"
          /\ UNCHANGED <<setting, kernel, shell, latest, defined>>
          /\ iopub' = Tail(iopub)
      BY <1>10, <2>2 DEF Poll, Terminal, CellDone, sessionVars
    <3>2. /\ Head(iopub) = iopub[1] /\ 1 \in 1..Len(iopub)
          /\ \A i \in 1..Len(iopub') : i + 1 \in 1..Len(iopub) /\ iopub'[i] = iopub[i + 1]
      BY <2>2, <3>1, TailAt DEF Typed, KernelTyped
    <3>3. CASE pc' = "dispatch"
      <4>1. cell' = cell /\ value' \in {Displayed, value, iopub[1].parent}
        BY <1>10, <2>2, <3>2, <3>3 DEF Poll, CellDone, Leave, Terminal
      <4>2. value' # Displayed => value' = value \/ iopub[1].type = "result"
        BY <1>10, <2>2, <3>2, <3>3 DEF Poll, CellDone, Leave, Terminal
      <4> QED
        BY <2>2, <3>1, <3>2, <4>1, <4>2 DEF ValueInv, Quiet, Helpers, Interrupts, Unkillable
    <3>4. CASE IdleAt(1) /\ pc' \in {"input", "idle"}
      <4>1. Quiet => shell = <<>> /\ ~Working /\ Len(iopub) = 1
        BY <3>1, <3>2, <3>4 DEF KernelInv
      <4>2. iopub \in Seq(Messages)
        BY DEF Typed, KernelTyped
      <4>3. Quiet => iopub' = <<>>
        BY <3>1, <4>1, <4>2
      <4>4. value' = 0
        BY <1>10, <2>2, <3>1, <3>4 DEF Poll, CellDone, Leave, Terminal,
           callVars, Inv, AnswerInv
      <4> QED
        BY <3>1, <4>1, <4>3, <4>4, ValueRests DEF Working, Quiet, Helpers, Interrupts, Unkillable
    <3> QED
      BY <1>10, <2>2, <3>2, <3>3, <3>4 DEF Poll, CellDone, Leave, Terminal, IdleAt
  <2> QED  BY <2>1, <2>2
<1>11. CASE StopChannels
  BY <1>11, ValueRests DEF StopChannels, Inv, EndInv
<1>12. CASE ShutdownKernel
  BY <1>12, ValueRests DEF ShutdownKernel, Inv, EndInv
<1>13. CASE CloseServer
  BY <1>13, ValueRests DEF CloseServer, Inv, EndInv
<1>14. CASE CallExecute
  BY <1>14, ValueKeeps, ValueRests DEF CallExecute, Inv, EndInv, AnswerInv, KernelInv,
     RunInv, Looping, Working, Quiet, Helpers, Interrupts, Unkillable, sessionVars, kernelVars
<1>15. CASE CallStart
  BY <1>15, ValueKeeps, ValueRests DEF CallStart, Inv, EndInv, AnswerInv, KernelInv,
     RunInv, Looping, Working, Quiet, Helpers, Interrupts, Unkillable, sessionVars, callVars,
     kernelVars
<1>16. CASE CallShutdown
  BY <1>16, ValueKeeps, ValueRests DEF CallShutdown, Inv, EndInv, AnswerInv,
     KernelInv, RunInv, Looping, Working, Quiet, Helpers, Interrupts, Unkillable, kernelVars
<1>17. CASE Interrupt
  BY <1>17, ValueRests DEF Interrupt, Quiet, Helpers, Interrupts, Unkillable
<1>18. CASE DeadlinePasses
  BY <1>18, ValueKeeps, ValueRests DEF DeadlinePasses, Inv, EndInv, AnswerInv,
     KernelInv, RunInv, Looping, Working, Quiet, Helpers, Interrupts, Unkillable, sessionVars,
     kernelVars
<1> QED
  BY <1>1, <1>2, <1>3, <1>4, <1>5, <1>6, <1>7, <1>8, <1>9, <1>10, <1>11, <1>12, <1>13,
     <1>14, <1>15, <1>16, <1>17, <1>18 DEF Host, Advance

LEMMA KernelRun ==
    ASSUME Typed, Inv, KernelInv, RunInv, ValueInv, Kernel, UNCHANGED setting
    PROVE  RunInv' /\ ValueInv'
<1>1. /\ UNCHANGED <<setting, ended, requests, pc, callVars>>
      /\ UNCHANGED <<run, runs, verdict, cell, value, serving, frame>>
  BY DEF Kernel, sessionVars, callVars
<1>2. ASSUME UNCHANGED <<shell, latest>>, Alive' => Alive, Working' => Working
      PROVE  RunInv'
  BY <1>1, <1>2 DEF RunInv, Cleaning, Quiet, Helpers, Interrupts, Unkillable, Looping
<1>3. ASSUME UNCHANGED <<shell, latest, iopub, defined>>, kernel' # "busy" \/ kernel = "busy"
      PROVE  ValueInv'
  BY <1>1, <1>3 DEF ValueInv, Quiet, Helpers, Interrupts, Unkillable
<1>4. ASSUME NEW type \in {"result", "display", "error", "idle"}, Publish(type),
             UNCHANGED <<shell, latest, defined>>, kernel' # "busy" \/ kernel = "busy",
             type = "result" => kernel = "busy" /\ current # 0 /\ defined,
             Working
      PROVE  ValueInv'
  <2>1. /\ Len(iopub) \in Nat /\ Len(iopub') = Len(iopub) + 1
        /\ \A i \in 1..Len(iopub) : iopub'[i] = iopub[i]
        /\ iopub'[Len(iopub) + 1].type = type
    BY <1>4, PublishAt DEF Typed
  <2>2. Quiet /\ ~ended => shell = <<>> /\ current = cell
    BY <1>4 DEF KernelInv
  <2>3. \A i \in 1..Len(iopub') : i \in 1..Len(iopub) \/ i = Len(iopub) + 1
    BY <2>1
  <2> QED
    BY <1>1, <1>4, <2>1, <2>2, <2>3 DEF ValueInv, Quiet, Helpers, Interrupts, Unkillable
<1>5. CASE KernelReady
  BY <1>2, <1>3, <1>5 DEF KernelReady, Alive, Working
<1>6. CASE TakeCell
  <2>1. /\ kernel = "idle" /\ kernel' = "busy" /\ shell # <<>> /\ UNCHANGED <<iopub, defined>>
        /\ current' = Head(shell) /\ shell' = Tail(shell)
        /\ latest' = IF defined /\ current' # 0 THEN current' ELSE latest
    BY <1>6 DEF TakeCell
  <2>2. shell = <<cell>> => Head(shell) = cell /\ Tail(shell) = <<>>
    BY DEF Typed, KernelTyped
  <2>3. Quiet => /\ shell' = <<>> /\ current' = cell
                 /\ cell # 0 => latest < cell /\ cell = run /\ cell = runs
    BY <2>1, <2>2 DEF RunInv, Alive, Inv, AnswerInv
  <2>4. Quiet => \/ cell # 0 /\ latest' = runs /\ pc # "submit"
                 \/ latest' = latest
    <3>1. ASSUME Quiet, pc = "submit" PROVE FALSE
      BY <2>1, <3>1 DEF Inv, EndInv, KernelInv, Looping, Quiet
    <3> QED  BY <2>1, <2>3, <3>1
  <2>5. RunInv'
    <3>1. runs \in Nat
      BY DEF Typed, CallTyped, Cells
    <3> QED
      BY <1>1, <2>3, <2>4, <3>1 DEF RunInv, Cleaning, Quiet, Helpers, Interrupts, Unkillable, Looping
  <2>6. ValueInv'
    BY <1>1, <2>1, <2>3 DEF ValueInv, Quiet, Helpers, Interrupts, Unkillable
  <2> QED  BY <2>5, <2>6
<1>7. CASE FinishCell
  <2>1. RunInv'
    BY <1>2, <1>7 DEF FinishCell, Alive, Working
  <2>2. kernel = "busy" /\ kernel' = "replied" /\ UNCHANGED <<latest, shell>>
    BY <1>7 DEF FinishCell
  <2>3. CASE UNCHANGED iopub
    BY <1>1, <2>1, <2>2, <2>3 DEF ValueInv, Quiet, Helpers, Interrupts, Unkillable
  <2>4. CASE current # 0 /\ defined /\ Publish("result") /\ UNCHANGED defined
    BY <1>4, <2>1, <2>2, <2>4 DEF Working
  <2>5. CASE Publish("error") /\ UNCHANGED defined
    BY <1>4, <2>1, <2>2, <2>5 DEF Working
  <2> QED  BY <1>7, <2>1, <2>3, <2>4, <2>5 DEF FinishCell
<1>8. CASE GoIdle
  BY <1>2, <1>4, <1>8 DEF GoIdle, Alive, Working
<1>9. CASE Display
  <2>1. RunInv'
    BY <1>2, <1>9 DEF Display, Alive, Working
  <2>2. CASE Quiet
    BY <1>4, <1>9, <2>1, <2>2 DEF Display, Quiet, Working
  <2>3. CASE ~Quiet
    BY <1>1, <2>1, <2>3 DEF ValueInv, Quiet, Helpers, Interrupts, Unkillable
  <2> QED  BY <2>2, <2>3
<1>10. CASE KernelDies
  BY <1>2, <1>3, <1>10 DEF KernelDies, Alive, Working
<1> QED
  BY <1>5, <1>6, <1>7, <1>8, <1>9, <1>10 DEF Kernel

LEMMA ToolsRun ==
    ASSUME RunInv, ValueInv, Tools, UNCHANGED setting
    PROVE  RunInv' /\ ValueInv'
<1>1. UNCHANGED <<setting, ended, pc, run, runs, verdict, cell, value, serving, frame, latest,
                  shell, iopub, kernel, defined>>
  BY DEF Tools, CallTool, GiveUp, ReadAnswer, sessionVars, callVars, kernelVars
<1> QED
  BY <1>1 DEF RunInv, Cleaning, ValueInv, Quiet, Helpers, Interrupts, Unkillable, Looping, Alive, Working

-----------------------------------------------------------------------------
(* The contract. *)

\* The execution that the contract sees.
Active == IF pc # "check" THEN run ELSE 0

\* What a step that shows in the contract looks like from here.
LEMMA ShownSteps ==
    ASSUME Quiet, UNCHANGED setting,
           \/ UNCHANGED <<ended, latest, verdict>> /\ Active' = Active
           \/ /\ ~ended /\ Active = 0 /\ Active' \in 1..MaxRuns /\ latest < Active'
              /\ verdict[Active'] = 0 /\ UNCHANGED <<ended, latest, verdict>>
           \/ /\ Active # 0 /\ latest < Active /\ latest' = Active
              /\ Active' = Active /\ UNCHANGED <<ended, verdict>>
           \/ /\ Active # 0 /\ latest = Active /\ Active' = 0
              /\ verdict' = [verdict EXCEPT ![Active] = Active] /\ UNCHANGED <<ended, latest>>
           \/ Active' = 0 /\ UNCHANGED <<ended, latest, verdict>>
           \/ ended' = TRUE /\ ended \in BOOLEAN /\ Active' = Active
              /\ UNCHANGED <<latest, verdict>>
    PROVE  [Contract!Next]_(Contract!vars)
<1>1. Quiet'
  BY DEF Quiet, Helpers, Interrupts, Unkillable
<1> USE <1>1 DEF Active, Contract!Next, Contract!vars
<1>2. CASE UNCHANGED <<ended, latest, verdict>> /\ Active' = Active
  BY <1>2
<1>3. CASE /\ ~ended /\ Active = 0 /\ Active' \in 1..MaxRuns /\ latest < Active'
           /\ verdict[Active'] = 0 /\ UNCHANGED <<ended, latest, verdict>>
  BY <1>3 DEF Contract!Begin
<1>4. CASE /\ Active # 0 /\ latest < Active /\ latest' = Active
           /\ Active' = Active /\ UNCHANGED <<ended, verdict>>
  BY <1>4 DEF Contract!Effect
<1>5. CASE /\ Active # 0 /\ latest = Active /\ Active' = 0
           /\ verdict' = [verdict EXCEPT ![Active] = Active] /\ UNCHANGED <<ended, latest>>
  BY <1>5 DEF Contract!Return
<1>6. CASE Active' = 0 /\ UNCHANGED <<ended, latest, verdict>>
  BY <1>6 DEF Contract!Raise
<1>7. CASE ended' = TRUE /\ ended \in BOOLEAN /\ Active' = Active
           /\ UNCHANGED <<latest, verdict>>
  BY <1>7 DEF Contract!Close
<1> QED  BY <1>2, <1>3, <1>4, <1>5, <1>6, <1>7

LEMMA HostImplements ==
    ASSUME Typed, Inv, KernelInv, RunInv, ValueInv, Quiet, Host, UNCHANGED setting
    PROVE  [Contract!Next]_(Contract!vars)
<1> USE DEF Cleaning
<1>1. CASE Check
  <2>1. pc = "check" /\ UNCHANGED <<ended, latest>> /\ Active = 0
    BY <1>1 DEF Check, sessionVars, kernelVars, Active
  <2>2. CASE ended
    BY <1>1, <2>1, <2>2, ShownSteps DEF Check, Leave, Active
  <2>3. CASE ~ended
    <3>1. Active' = run /\ UNCHANGED verdict
      BY <1>1, <2>3 DEF Check, Active, callVars
    <3>2. CASE run = 0
      BY <2>1, <3>1, <3>2, ShownSteps
    <3>3. CASE run # 0
      <4>1. run \in 1..MaxRuns
        BY <3>3, Bounds DEF Typed, CallTyped, Cells
      <4>2. latest < run /\ verdict[run] = 0
        BY <2>1, <3>3, <4>1 DEF RunInv
      <4> QED  BY <2>1, <2>3, <3>1, <4>1, <4>2, ShownSteps
    <3> QED  BY <3>2, <3>3
  <2> QED  BY <2>2, <2>3
<1>2. CASE OpenServer
  BY <1>2, ShownSteps DEF OpenServer, Active, Inv, EndInv, RunInv, Typed,
     SessionTyped, Quiet, callVars, kernelVars
<1>3. CASE Launch
  BY <1>3, ShownSteps DEF Launch, Active, Inv, EndInv, RunInv, Typed, SessionTyped,
     Quiet, callVars
<1>4. CASE AwaitReady
  BY <1>4, ShownSteps DEF AwaitReady, Active, Inv, EndInv, RunInv, Typed,
     SessionTyped, Quiet, sessionVars, callVars, kernelVars, Terminal
<1>5. CASE Encode
  BY <1>5, ShownSteps DEF Encode, Active, Inv, EndInv, RunInv, Typed, SessionTyped,
     Quiet, sessionVars, kernelVars, Leave
<1>6. CASE Submit
  BY <1>6, ShownSteps DEF Submit, Active, Inv, EndInv, RunInv, Typed, SessionTyped,
     Quiet, sessionVars, callVars, Terminal
<1>7. CASE Dispatch
  BY <1>7, ShownSteps DEF Dispatch, Active, Inv, EndInv, RunInv, Typed, SessionTyped,
     Quiet, sessionVars, kernelVars
<1>8. CASE FinishTool
  BY <1>8, ShownSteps DEF FinishTool, Active, Inv, EndInv, RunInv, Typed,
     SessionTyped, Quiet, sessionVars, kernelVars
<1>9. CASE TimedOut
  BY <1>9, ShownSteps DEF TimedOut, Active, Inv, EndInv, RunInv, Typed, SessionTyped,
     Quiet, callVars, kernelVars, Terminal
<1>10. CASE Poll
  <2>1. pc = "poll" /\ UNCHANGED latest /\ Active = run
    BY <1>10 DEF Poll, Active
  <2>2. CASE Terminal
    BY <1>10, <2>1, <2>2, ShownSteps DEF Terminal, callVars, Active, Typed, SessionTyped
  <2>3. CASE pc' \in {"dispatch", "input"} /\ ~Terminal
    <3>1. UNCHANGED <<ended, run, verdict>>
      BY <1>10, <2>3 DEF Poll, CellDone, Leave, sessionVars, callVars
    <3> QED  BY <2>1, <2>3, <3>1, ShownSteps DEF Active
  <2>4. CASE pc' = "idle"
    <3>1. /\ client /\ UNCHANGED ended /\ cell # 0 /\ run' = 0
          /\ \/ value \in Cells \ {0} /\ verdict' = [verdict EXCEPT ![run] = value]
             \/ UNCHANGED verdict
      BY <1>10, <2>4 DEF Poll, CellDone, Terminal, Leave, sessionVars
    <3>2. CASE UNCHANGED verdict
      BY <2>1, <2>4, <3>1, <3>2, ShownSteps DEF Active
    <3>3. CASE value \in Cells \ {0} /\ verdict' = [verdict EXCEPT ![run] = value]
      <4>1. value \notin {0, Displayed}
        BY <3>3, Bounds
      <4>2. value = run /\ run # 0 /\ ~ended /\ latest = run
        BY <2>1, <3>1, <4>1 DEF Inv, AnswerInv, EndInv, ValueInv, Quiet
      <4> QED  BY <2>1, <2>4, <3>1, <3>3, <4>2, ShownSteps DEF Active
    <3> QED  BY <3>1, <3>2, <3>3
  <2> QED
    BY <1>10, <2>2, <2>3, <2>4 DEF Poll, CellDone, Leave
<1>11. CASE StopChannels
  BY <1>11, ShownSteps DEF StopChannels, Active, Inv, EndInv, RunInv, Typed, SessionTyped,
     Quiet, callVars, kernelVars
<1>12. CASE ShutdownKernel
  BY <1>12, ShownSteps DEF ShutdownKernel, Active, Inv, EndInv, RunInv, Typed, SessionTyped,
     Quiet, callVars, kernelVars
<1>13. CASE CloseServer
  BY <1>13, ShownSteps DEF CloseServer, Active, Inv, EndInv, RunInv, Typed, SessionTyped,
     Quiet, callVars, kernelVars, CleanedUp, Leave
<1>14. CASE CallExecute
  BY <1>14, ShownSteps DEF CallExecute, Active, Inv, EndInv, RunInv, Typed,
     SessionTyped, Quiet, sessionVars, kernelVars
<1>15. CASE CallStart
  BY <1>15, ShownSteps DEF CallStart, Active, Inv, EndInv, RunInv, Typed,
     SessionTyped, Quiet, sessionVars, callVars, kernelVars
<1>16. CASE CallShutdown
  BY <1>16, ShownSteps DEF CallShutdown, Active, Inv, EndInv, RunInv, Typed,
     SessionTyped, Quiet, kernelVars
<1>17. CASE Interrupt
  BY <1>17, ShownSteps DEF Interrupt, Active, Inv, EndInv, RunInv, Typed,
     SessionTyped, Quiet, sessionVars, Leave
<1>18. CASE DeadlinePasses
  BY <1>18, ShownSteps DEF DeadlinePasses, Active, Inv, EndInv, RunInv, Typed,
     SessionTyped, Quiet, sessionVars, kernelVars
<1> QED
  BY <1>1, <1>2, <1>3, <1>4, <1>5, <1>6, <1>7, <1>8, <1>9, <1>10, <1>11, <1>12, <1>13,
     <1>14, <1>15, <1>16, <1>17, <1>18 DEF Host, Advance

LEMMA GuestImplements ==
    ASSUME Typed, Inv, RunInv, Quiet, Kernel \/ Tools, UNCHANGED setting
    PROVE  [Contract!Next]_(Contract!vars)
<1>1. UNCHANGED <<ended, verdict, pc, run>>
  BY DEF Kernel, Tools, CallTool, GiveUp, ReadAnswer, sessionVars, callVars
<1>2. CASE UNCHANGED latest
  BY <1>1, <1>2, ShownSteps DEF Active
<1>3. CASE latest' # latest
  <2>1. TakeCell
    BY <1>3 DEF Kernel, KernelReady, FinishCell, GoIdle, Display, KernelDies, Tools,
       CallTool, GiveUp, ReadAnswer, kernelVars
  <2>2. cell # 0 /\ latest' = cell /\ latest < cell
    <3>1. shell # <<>> /\ Alive /\ latest' = Head(shell) /\ Head(shell) # 0
      BY <1>3, <2>1 DEF TakeCell, Alive
    <3>2. shell = <<cell>>
      BY <3>1 DEF RunInv
    <3> QED  BY <3>1, <3>2 DEF RunInv
  <2>3. cell = run /\ pc # "check"
    BY <2>2 DEF Inv, AnswerInv, RunInv
  <2> QED  BY <1>1, <2>2, <2>3, ShownSteps DEF Active
<1> QED  BY <1>2, <1>3

LEMMA StepImplements ==
    ASSUME Typed, Inv, CellInv, RunInv, ValueInv, [Next]_vars
    PROVE  [Contract!Next]_(Contract!vars)
<1>1. CASE UNCHANGED vars
  BY <1>1 DEF vars, sessionVars, callVars, kernelVars, Contract!vars, Quiet, Helpers,
     Interrupts, Unkillable
<1>2. CASE Next /\ Quiet
  BY <1>2, HostImplements, GuestImplements DEF Next, Host, CellInv
<1>3. CASE Next /\ ~Quiet
  BY <1>3 DEF Next, Contract!vars, Quiet, Helpers, Interrupts, Unkillable
<1> QED  BY <1>1, <1>2, <1>3

\* Only the loop of _run_cell begins a tool.
LEMMA StepTools ==
    ASSUME Typed, CellInv, Next, Quiet, pc # "tool", serving' # serving, pc' = "tool"
    PROVE  during[serving'] = cell /\ handler[serving'] # "answered"
<1>1. Dispatch /\ requests # <<>>
  BY DEF Next, Advance, Check, OpenServer, Launch, AwaitReady, Encode, Submit,
     Dispatch, FinishTool, TimedOut, Poll, CellDone, StopChannels, ShutdownKernel,
     CloseServer, CleanedUp, CallExecute, CallStart, CallShutdown, Interrupt,
     DeadlinePasses, Kernel, Tools, CallTool, GiveUp, ReadAnswer, callVars, Leave,
     Terminal
<1>2. Looping /\ serving' = Head(requests)
  BY <1>1 DEF Dispatch, Looping
<1>3. serving' = requests[1] /\ 1 \in Queued
  BY <1>1, <1>2, TailAt DEF Typed, ToolsTyped, Queued
<1> QED
  BY <1>2, <1>3 DEF CellInv, QueueInv, RequestInv, InCell

LEMMA StutterCell == CellInv /\ RunInv /\ ValueInv /\ UNCHANGED vars
                        => CellInv' /\ RunInv' /\ ValueInv'
<1> SUFFICES ASSUME CellInv, RunInv, ValueInv, UNCHANGED vars
             PROVE  CellInv' /\ RunInv' /\ ValueInv'
  OBVIOUS
<1> USE DEF vars, sessionVars, callVars, kernelVars, toolVars, Quiet, Helpers, Interrupts,
        Unkillable, Looping, Cleaning
<1>1. QueueInv' /\ RequestInv'
  BY DEF CellInv, QueueInv, RequestInv, Queued, InCell
<1>2. KernelInv'
  BY DEF CellInv, KernelInv, Working, IdleAt
<1>3. RunInv' /\ ValueInv'
  BY DEF RunInv, ValueInv, Alive, Working
<1> QED  BY <1>1, <1>2, <1>3 DEF CellInv

LEMMA CellInvariant == Spec => [](CellInv /\ RunInv /\ ValueInv)
<1>1. Init => CellInv /\ RunInv /\ ValueInv
  BY CellInit, RunInit
<1>2. TypeOK /\ Inv /\ CellInv /\ RunInv /\ ValueInv /\ [Next]_vars
         => CellInv' /\ RunInv' /\ ValueInv'
  <2> SUFFICES ASSUME Typed, Inv, EndInv, CellInv, KernelInv, RunInv, ValueInv, Next
               PROVE  CellInv' /\ RunInv' /\ ValueInv'
    BY StutterCell, TypeParts DEF Inv, CellInv
  <2>1. CASE Host
    BY <2>1, HostCell, HostRun, HostValue DEF Next
  <2>2. CASE Kernel
    BY <2>2, KernelCell, KernelRun DEF Next
  <2>3. CASE Tools
    BY <2>3, ToolsCell, ToolsRun DEF Next
  <2> QED  BY <2>1, <2>2, <2>3 DEF Next, Host
<1> QED
  BY <1>1, <1>2, Invariant, PTL DEF Spec

-----------------------------------------------------------------------------
(* The properties. *)

\* The session, its kernel and its requests stay in their types, and start
\* never launches a second kernel.
THEOREM TypeCorrect == Spec => []TypeOK
  BY Invariant, PTL

\* An ended session with its call back has left neither kernel nor channels
\* nor tool server, at whatever step start or execute failed, but for what an
\* interrupt of the cleanup or a failing shutdown_kernel kept it from.
THEOREM NothingLeaks == Spec => []NoLeak
<1>1. Inv => NoLeak
  BY DEF Inv, EndInv, KernelOwned, NoLeak, Cleaning, Alive
<1> QED  BY <1>1, Invariant, PTL

\* A value that execute returns is of its own cell, although abandoned cells
\* publish into the same channel.
THEOREM EachItsOwnAnswer == Spec => []OwnAnswer
<1>1. Inv => OwnAnswer
  BY DEF Inv, AnswerInv
<1> QED  BY <1>1, Invariant, PTL

\* In the quiet setting the host begins a tool only for a request of the code it
\* waits for, and once, however many handlers gave up meanwhile.
THEOREM ToolsOfTheirCell == Spec => ToolOfCell
<1>1. TypeOK /\ CellInv /\ [Next]_vars
         => [Quiet /\ pc # "tool" /\ serving' # serving /\ pc' = "tool" =>
               during[serving'] = cell /\ handler[serving'] # "answered"]_vars
  BY StepTools, TypeParts
<1> QED
  BY <1>1, Invariant, CellInvariant, PTL DEF Spec, ToolOfCell

\* Seen from its caller, the session with its kernel, its tool server and its
\* handler threads is the atomic object of CodeInterpreter.
THEOREM Implements == Spec => ImplementsContract
<1>1. Init => Contract!Init
  BY DEF Init, Contract!Init, Quiet, Helpers, Interrupts, Unkillable
<1>2. TypeOK /\ Inv /\ CellInv /\ RunInv /\ ValueInv /\ [Next]_vars
         => [Contract!Next]_(Contract!vars)
  BY StepImplements, TypeParts
<1> QED
  BY <1>1, <1>2, Invariant, CellInvariant, PTL DEF Spec, ImplementsContract,
     Contract!Spec
=============================================================================
