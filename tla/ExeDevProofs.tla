---------------------------- MODULE ExeDevProofs ----------------------------
(***************************************************************************)
(* Theorems about ExeDevInterpreter, for every set of threads and machines *)
(* and any number of threads that start.                                   *)
(***************************************************************************)
EXTENDS ExeDevInterpreter, TLAPS

\* A machine that is about to be entered or removed has a name.
Named == \A t \in Threads : pc[t] \in {"dest", "rm"} => vmName # None

\* The machine that _remove_owned_vm would remove is the session's own.
Owned == /\ owns /\ vmName # None =>
               vmName \in provisioned \/ (handed /\ vmName = Given)
         /\ \A t \in Threads : pc[t] = "rm" => owns

MachineInv == TypeOK /\ Named

LEMMA MachineInit == Init => MachineInv
  BY ExeAssumption DEF Init, MachineInv, TypeOK, Named, Places

LEMMA MachineStep ==
    ASSUME MachineInv, NEW t \in Threads, Step(t)
    PROVE  MachineInv'
<1> USE ExeAssumption DEF MachineInv, TypeOK, Named, Places, machineVars, Goto
<1>1. CASE CallStart(t)
  BY <1>1 DEF CallStart
<1>2. CASE Check(t)
  BY <1>2 DEF Check
<1>3. CASE New(t)
  BY <1>3 DEF New
<1>4. CASE NewFails(t)
  BY <1>4 DEF NewFails
<1>5. CASE StoreDest(t)
  BY <1>5 DEF StoreDest
<1>6. CASE Probe(t)
  BY <1>6 DEF Probe
<1>7. CASE Resume(t)
  BY <1>7 DEF Resume
<1>8. CASE Open(t)
  BY <1>8 DEF Open
<1>9. CASE Run(t)
  BY <1>9 DEF Run
<1>10. CASE Interrupt(t)
  BY <1>10 DEF Interrupt
<1>11. CASE CallShutdown(t)
  BY <1>11 DEF CallShutdown
<1>12. CASE EndSession(t)
  BY <1>12 DEF EndSession
<1>13. CASE RemoveOwnedVM(t)
  BY <1>13 DEF RemoveOwnedVM
<1>14. CASE Rm(t)
  BY <1>14 DEF Rm
<1> QED
  BY <1>1, <1>2, <1>3, <1>4, <1>5, <1>6, <1>7, <1>8, <1>9, <1>10, <1>11, <1>12, <1>13, <1>14 DEF Step
\* The session and its machine keep their types, and no step uses a machine
\* that has no name or no destination.
THEOREM TypeCorrect == Spec => []TypeOK
<1>1. Init => MachineInv
  BY MachineInit
<1>2. MachineInv /\ [Next]_vars => MachineInv'
  <2>1. ASSUME MachineInv, UNCHANGED vars PROVE MachineInv'
    BY <2>1 DEF vars, machineVars, MachineInv, TypeOK, Named
  <2> QED  BY <2>1, MachineStep DEF Next
<1>3. MachineInv => TypeOK
  BY DEF MachineInv
<1> QED  BY <1>1, <1>2, <1>3, PTL DEF Spec

LEMMA OwnedStep ==
    ASSUME MachineInv, Owned, NEW t \in Threads, Step(t)
    PROVE  Owned'
<1> USE ExeAssumption DEF MachineInv, TypeOK, Named, Owned, machineVars, Goto
<1>1. CASE CallStart(t)
  BY <1>1 DEF CallStart
<1>2. CASE Check(t)
  BY <1>2 DEF Check
<1>3. CASE New(t)
  BY <1>3 DEF New
<1>4. CASE NewFails(t)
  BY <1>4 DEF NewFails
<1>5. CASE StoreDest(t)
  BY <1>5 DEF StoreDest
<1>6. CASE Probe(t)
  BY <1>6 DEF Probe
<1>7. CASE Resume(t)
  BY <1>7 DEF Resume
<1>8. CASE Open(t)
  BY <1>8 DEF Open
<1>9. CASE Run(t)
  BY <1>9 DEF Run
<1>10. CASE Interrupt(t)
  BY <1>10 DEF Interrupt
<1>11. CASE CallShutdown(t)
  BY <1>11 DEF CallShutdown
<1>12. CASE EndSession(t)
  BY <1>12 DEF EndSession
<1>13. CASE RemoveOwnedVM(t)
  BY <1>13 DEF RemoveOwnedVM
<1>14. CASE Rm(t)
  BY <1>14 DEF Rm
<1> QED
  BY <1>1, <1>2, <1>3, <1>4, <1>5, <1>6, <1>7, <1>8, <1>9, <1>10, <1>11, <1>12, <1>13, <1>14 DEF Step
\* Whatever fails, whoever starts, shuts down or interrupts, and however the
\* steps interleave: a session that was not given a bare vm_name removes only
\* machines it provisioned or was handed.
THEOREM OnlyOwn == ASSUME NameOnly = FALSE PROVE Spec => OnlyOwnRemoved
<1> DEFINE Own == \A v \in VMs : vm[v] = "up" /\ vm'[v] = "gone" =>
                     owns /\ (v \in provisioned \/ (handed /\ v = Given))
<1>1. Init => MachineInv /\ Owned
  BY MachineInit, ExeAssumption DEF Init, Owned
<1>2. MachineInv /\ Owned /\ [Next]_vars => (MachineInv /\ Owned)'
  <2>1. ASSUME MachineInv, Owned, UNCHANGED vars PROVE (MachineInv /\ Owned)'
    BY <2>1 DEF vars, machineVars, MachineInv, TypeOK, Named, Owned
  <2> QED  BY <2>1, MachineStep, OwnedStep DEF Next
<1>3. MachineInv /\ Owned /\ [Next]_vars => [Own]_vars
  <2> SUFFICES ASSUME MachineInv, Owned, NEW t \in Threads, Step(t) PROVE Own
    BY DEF Next
  <2>1. CASE Rm(t) \/ Interrupt(t)
    BY <2>1 DEF Rm, Interrupt, MachineInv, TypeOK, Named, Owned
  <2>2. CASE New(t) \/ NewFails(t)
    BY <2>2 DEF New, NewFails, MachineInv, TypeOK
  <2>3. CASE UNCHANGED vm
    BY <2>3
  <2> QED
    BY <2>1, <2>2, <2>3
    DEF Step, CallStart, Check, StoreDest, Probe, Resume, Open, Run,
        CallShutdown, EndSession, RemoveOwnedVM, machineVars
<1>4. Spec => [][Own]_vars
  BY <1>1, <1>2, <1>3, PTL DEF Spec
<1> QED  BY <1>4 DEF OnlyOwnRemoved
-----------------------------------------------------------------------------
(* One thread starts the session: what shutdown and a failed start leave.  *)

\* Nobody starts but s.
Sole(s) == Starters = {s}

\* Who goes through start finds the session without its process, or ended;
\* shutdown has ended it before it removes anything.
Orderly(s) ==
    /\ \A t \in Threads : pc[t] \in {"check", "new", "dest", "probe", "session", "open", "run", "undo"} => t = s
    /\ \A t \in Threads : pc[t] = "remove" => ended
    /\ \A t \in Threads :
          pc[t] \in {"new", "dest", "probe", "session", "open", "undo", "rm"} => ended \/ ~sandbox
    /\ \A t \in Threads : pc[t] = "rm" /\ t # s => ended

\* A session opens with a factory; with one of the caller's, nothing is removed
\* before the end.
Foreign(s) ==
    /\ pc[s] \in {"session", "open"} => factory # "none"
    /\ factory = "caller" =>
          /\ pc[s] \notin {"new", "dest", "probe"}
          /\ pc[s] \in {"undo", "rm"} => ended
          /\ sshDest # None /\ ~ended => vm[sshDest] = "up"

UpInv(s) == Orderly(s) /\ Foreign(s) /\ NeverPulled

LEMMA UpStep ==
    ASSUME NEW s, Sole(s), MachineInv, UpInv(s), NEW t \in Threads, Step(t)
    PROVE  UpInv(s)'
<1> USE ExeAssumption DEF Sole, MachineInv, TypeOK, Named, UpInv, Orderly, Foreign, NeverPulled, machineVars, Goto
<1>1. CASE CallStart(t)
  BY <1>1 DEF CallStart
<1>2. CASE Check(t)
  BY <1>2 DEF Check
<1>3. CASE New(t)
  BY <1>3 DEF New
<1>4. CASE NewFails(t)
  BY <1>4 DEF NewFails
<1>5. CASE StoreDest(t)
  BY <1>5 DEF StoreDest
<1>6. CASE Probe(t)
  BY <1>6 DEF Probe
<1>7. CASE Resume(t)
  BY <1>7 DEF Resume
<1>8. CASE Open(t)
  BY <1>8 DEF Open
<1>9. CASE Run(t)
  BY <1>9 DEF Run
<1>10. CASE Interrupt(t)
  BY <1>10 DEF Interrupt
<1>11. CASE CallShutdown(t)
  BY <1>11 DEF CallShutdown
<1>12. CASE EndSession(t)
  BY <1>12 DEF EndSession
<1>13. CASE RemoveOwnedVM(t)
  BY <1>13 DEF RemoveOwnedVM
<1>14. CASE Rm(t)
  BY <1>14 DEF Rm
<1> QED
  BY <1>1, <1>2, <1>3, <1>4, <1>5, <1>6, <1>7, <1>8, <1>9, <1>10, <1>11, <1>12, <1>13, <1>14
  DEF Step

\* Nobody removes the machine of a session that is open, for any machines and
\* any number of threads that shut the session down while one thread starts it.
THEOREM NotPulled ==
    ASSUME NEW s, Starters = {s}
    PROVE  Spec => []NeverPulled
<1>1. Init => MachineInv /\ UpInv(s)
  BY MachineInit, ExeAssumption DEF Init, UpInv, Orderly, Foreign, NeverPulled
<1>2. MachineInv /\ UpInv(s) /\ [Next]_vars => (MachineInv /\ UpInv(s))'
  <2>1. ASSUME MachineInv, UpInv(s), UNCHANGED vars PROVE (MachineInv /\ UpInv(s))'
    BY <2>1 DEF vars, machineVars, MachineInv, TypeOK, Named, UpInv, Orderly, Foreign, NeverPulled
  <2> QED  BY <2>1, MachineStep, UpStep DEF Next, Sole
<1>3. UpInv(s) => NeverPulled
  BY DEF UpInv
<1> QED  BY <1>1, <1>2, <1>3, PTL DEF Spec

\* The session provisions at most one machine, and knows it from then on.
Known(s) ==
    /\ provisioned # {} => /\ provisioned = {vmName}
                           /\ vmName \in VMs
                           /\ vm[vmName] # "none"
                           /\ sshDest = vmName \/ pc[s] = "dest"
    /\ pc[s] = "new" => sshDest = None /\ provisioned = {}
    /\ removed /\ provisioned # {} => vm[vmName] = "gone"
    /\ vmName # None => sshDest # None \/ provisioned # {}
    /\ removed => vmName # None

\* Once shutdown was called, whoever can still leave the machine up has its
\* removal before it.
Leaving(s) ==
    /\ closed => ended
    /\ closed /\ owns /\ provisioned # {} =>
          \/ vm[vmName] = "gone" \/ warned
          \/ \E t \in Threads : pc[t] \in {"undo", "remove", "rm"}
          \/ pc[s] \in {"new", "dest", "probe", "session"}

GoneInv(s) == Orderly(s) /\ Known(s) /\ Leaving(s)

LEMMA GoneStep ==
    ASSUME NEW s \in Threads, Sole(s), NameOnly = FALSE, BadAnswers = FALSE,
           MachineInv, GoneInv(s), NEW t \in Threads, Step(t)
    PROVE  GoneInv(s)'
<1> USE ExeAssumption DEF Sole, MachineInv, TypeOK, Named, GoneInv, Orderly, Known, Leaving, machineVars, Goto
<1>1. CASE CallStart(t)
  BY <1>1 DEF CallStart
<1>2. CASE Check(t)
  BY <1>2 DEF Check
<1>3. CASE New(t)
  <2>1. t = s /\ provisioned = {} /\ sshDest = None /\ ~removed
    BY <1>3 DEF New
  <2>2. PICK v \in VMs : /\ vm[v] = "none" /\ vm' = [vm EXCEPT ![v] = "up"]
                        /\ provisioned' = provisioned \cup {v} /\ vmName' = v
    BY <1>3 DEF New
  <2>3. /\ pc' = [pc EXCEPT ![t] = "dest"]
        /\ UNCHANGED <<owns, sshDest, removed, closed, ended, sandbox, warned>>
    BY <1>3 DEF New
  <2>4. Orderly(s)'
    <3>1. \A u \in Threads : pc'[u] = IF u = s THEN "dest" ELSE pc[u]
      BY <2>1, <2>3
    <3>2. ended' = ended /\ sandbox' = sandbox /\ (ended \/ ~sandbox)
      BY <1>3, <2>1, <2>3 DEF New
    <3> QED  BY <3>1, <3>2
  <2>5. Known(s)'
    BY <2>1, <2>2, <2>3
  <2>6. Leaving(s)'
    BY <2>1, <2>3
  <2> QED  BY <2>4, <2>5, <2>6
<1>4. CASE NewFails(t)
  BY <1>4 DEF NewFails
<1>5. CASE StoreDest(t)
  BY <1>5 DEF StoreDest
<1>6. CASE Probe(t)
  BY <1>6 DEF Probe
<1>7. CASE Resume(t)
  BY <1>7 DEF Resume
<1>8. CASE Open(t)
  BY <1>8 DEF Open
<1>9. CASE Run(t)
  BY <1>9 DEF Run
<1>10. CASE Interrupt(t)
  BY <1>10 DEF Interrupt
<1>11. CASE CallShutdown(t)
  BY <1>11 DEF CallShutdown
<1>12. CASE EndSession(t)
  BY <1>12 DEF EndSession
<1>13. CASE RemoveOwnedVM(t)
  BY <1>13 DEF RemoveOwnedVM
<1>14. CASE Rm(t)
  BY <1>14 DEF Rm
<1> QED
  BY <1>1, <1>2, <1>3, <1>4, <1>5, <1>6, <1>7, <1>8, <1>9, <1>10, <1>11, <1>12, <1>13, <1>14
  DEF Step

\* Once shutdown was called and every call is back, the machine that the
\* session provisioned is gone or was warned about, unless owns_vm=False: for any machines and any
\* number of threads that shut the session down while one thread starts it,
\* whatever the provider does, as long as it does not answer `new' with a
\* destination that is refused.
THEOREM AllRemoved ==
    ASSUME NEW s, Starters = {s}, BadAnswers = FALSE, NameOnly = FALSE
    PROVE  Spec => []VMsRemoved
<1>1. s \in Threads
  BY ExeAssumption
<1>2. Init => MachineInv /\ GoneInv(s)
  BY <1>1, MachineInit, ExeAssumption DEF Init, GoneInv, Orderly, Known, Leaving
<1>3. MachineInv /\ GoneInv(s) /\ [Next]_vars => (MachineInv /\ GoneInv(s))'
  <2>1. ASSUME MachineInv, GoneInv(s), UNCHANGED vars PROVE (MachineInv /\ GoneInv(s))'
    BY <2>1 DEF vars, machineVars, MachineInv, TypeOK, Named, GoneInv, Orderly, Known, Leaving
  <2> QED  BY <1>1, <2>1, MachineStep, GoneStep DEF Next, Sole
<1>4. MachineInv /\ GoneInv(s) => VMsRemoved
  BY <1>1 DEF MachineInv, TypeOK, GoneInv, Known, Leaving, VMsRemoved
<1> QED  BY <1>2, <1>3, <1>4, PTL DEF Spec
=============================================================================
