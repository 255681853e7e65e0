-------------------------- MODULE ExeDevInterpreter --------------------------
(***************************************************************************)
(* The virtual machine behind a session of ExeDevInterpreter: created by   *)
(* `new' when the caller names none, waited for, used over ssh, and        *)
(* removed by `rm' at shutdown or when start fails.                        *)
(*                                                                         *)
(* The session inside the machine is ModalInterpreter's and is reduced to  *)
(* `ended' and `sandbox': super().start() and super().shutdown() are one   *)
(* step each, with the outcomes ModalInterpreter gives them.  Every call   *)
(* to the provider may fail before or after it took effect.                *)
(***************************************************************************)
EXTENDS Naturals

CONSTANTS
    Threads,      \* host threads that share the session object
    Starters,     \* those that call start or execute
    Stoppers,     \* those that call shutdown
    VMs,          \* machines the provider can ever create
    Given,        \* the machine a caller may name in ssh_dest or vm_name
    BadAnswers,   \* TRUE: `new' may answer with a destination that is refused
    NameOnly,     \* TRUE: a caller may give vm_name without ssh_dest
    None

ASSUME ExeAssumption ==
    /\ Starters \subseteq Threads
    /\ Stoppers \subseteq Threads
    /\ Given \in VMs
    /\ {BadAnswers, NameOnly} \subseteq BOOLEAN
    /\ None \notin VMs

VARIABLES
    vm,           \* [VMs -> "none" | "up" | "gone"], at the provider
    provisioned,  \* machines that a `new' of this session created and answered
    handed,       \* the caller gave ssh_dest with owns_vm=True
    vmName,       \* self._vm_name: a machine, or None
    sshDest,      \* self._ssh_dest: a machine, or None
    owns,         \* self._owns_vm
    factory,      \* self._sandbox_factory: none, the caller's, or the one over ssh
    removed,      \* self._vm_removed
    warned,       \* the last removal printed its warning
    closed,       \* history: shutdown was called, and no call interrupted since
    ended,        \* self._ended
    sandbox,      \* self._sandbox is not None
    pc            \* [Threads -> where the thread is]

machineVars == <<vm, provisioned, handed, owns>>
vars == <<machineVars, vmName, sshDest, factory, removed, warned,
          closed, ended, sandbox, pc>>

Places == {"idle", "check", "new", "dest", "probe", "session", "open",
           "run", "end", "undo", "remove", "rm"}

\* Type correctness.
TypeOK ==
    /\ vm \in [VMs -> {"none", "up", "gone"}]
    /\ provisioned \subseteq VMs
    /\ {vmName, sshDest} \subseteq VMs \cup {None}
    /\ {handed, owns, removed, warned, closed, ended, sandbox} \subseteq BOOLEAN
    /\ factory \in {"none", "caller", "ssh"}
    /\ pc \in [Threads -> Places]
    /\ \A t \in Threads : pc[t] = "probe" => sshDest # None

\* Every combination of ssh_dest, vm_name, owns_vm and process_factory that
\* __init__ can be given, and what it leaves in the object.  ssh_dest and
\* vm_name speak of the same machine; a destination need not yield a name.
Init ==
    /\ sshDest \in {None, Given}
    /\ vmName \in IF sshDest = Given \/ NameOnly THEN {None, Given} ELSE {None}
    /\ owns \in BOOLEAN
    /\ factory \in {"none", "caller"}
    /\ handed = (owns /\ sshDest # None)        \* the caller lets us remove it
    /\ vm = [v \in VMs |-> IF v = Given THEN "up" ELSE "none"]
    /\ provisioned = {}
    /\ removed = FALSE
    /\ warned = FALSE
    /\ closed = FALSE
    /\ ended = FALSE
    /\ sandbox = FALSE
    /\ pc = [t \in Threads |-> "idle"]

-----------------------------------------------------------------------------

Goto(t, place) == pc' = [pc EXCEPT ![t] = place]

\* start, and execute, which calls it.
CallStart(t) ==
    /\ t \in Starters
    /\ pc[t] = "idle"
    /\ Goto(t, "check")
    /\ UNCHANGED <<machineVars, vmName, sshDest, factory, removed, warned,
                   closed, ended, sandbox>>

\* Mutant: start takes for granted that there is a machine.
CheckNeverProvisions(t) ==
    /\ pc[t] = "check"
    /\ Goto(t, IF ended THEN "idle"
               ELSE IF sandbox THEN "run"
               ELSE IF factory # "none" THEN "session" ELSE "probe")
    /\ UNCHANGED <<machineVars, vmName, sshDest, factory, removed, warned,
                   closed, ended, sandbox>>

\* _check_active, the session that has started already, and which of the
\* steps of start are still to do.
Check(t) ==
    /\ pc[t] = "check"
    /\ Goto(t, IF ended THEN "idle"
               ELSE IF sandbox THEN "run"
               ELSE IF factory # "none" THEN "session"
               ELSE IF sshDest = None THEN "new" ELSE "probe")
    /\ UNCHANGED <<machineVars, vmName, sshDest, factory, removed, warned,
                   closed, ended, sandbox>>

\* _control("new") answers with the name and the destination of a machine.
\* _provision stores the name first.
New(t) ==
    /\ pc[t] = "new"
    /\ \E v \in VMs :
          /\ vm[v] = "none"
          /\ vm' = [vm EXCEPT ![v] = "up"]
          /\ provisioned' = provisioned \cup {v}
          /\ vmName' = v
    /\ Goto(t, "dest")
    /\ UNCHANGED <<handed, owns, sshDest, factory, removed, warned,
                   closed, ended, sandbox>>

\* _control("new") fails, with no machine or with one nobody knows the name of.
NewFails(t) ==
    /\ pc[t] = "new"
    /\ \/ UNCHANGED vm
       \/ \E v \in VMs : vm[v] = "none" /\ vm' = [vm EXCEPT ![v] = "up"]
    /\ Goto(t, "undo")
    /\ UNCHANGED <<provisioned, handed, owns, vmName, sshDest, factory, removed,
                   warned, closed, ended, sandbox>>

\* Then the destination, unless _validate_identifier refuses it.
StoreDest(t) ==
    /\ pc[t] = "dest"
    /\ \/ /\ sshDest' = vmName
          /\ Goto(t, "probe")
       \/ /\ BadAnswers
          /\ Goto(t, "undo")
          /\ UNCHANGED sshDest
    /\ UNCHANGED <<machineVars, vmName, factory, removed, warned,
                   closed, ended, sandbox>>

\* _wait_until_ready: the machine answers, or the deadline passes.
Probe(t) ==
    /\ pc[t] = "probe"
    /\ \/ /\ vm[sshDest] = "up"
          /\ factory' = "ssh"
          /\ Goto(t, "session")
       \/ /\ Goto(t, "undo")
          /\ UNCHANGED factory
    /\ UNCHANGED <<machineVars, vmName, sshDest, removed, warned,
                   closed, ended, sandbox>>

\* super().start() looks at _ended and at _sandbox.
Resume(t) ==
    /\ pc[t] = "session"
    /\ Goto(t, IF ended THEN "undo" ELSE IF sandbox THEN "run" ELSE "open")
    /\ UNCHANGED <<machineVars, vmName, sshDest, factory, removed, warned,
                   closed, ended, sandbox>>

\* Then it uploads the worker, connects and waits for the ready line; a
\* failure on the way ends the session.
Open(t) ==
    /\ pc[t] = "open"
    /\ \/ /\ factory = "ssh" => vm[sshDest] = "up"
          /\ sandbox' = TRUE
          /\ Goto(t, "run")
          /\ UNCHANGED ended
       \/ /\ ended' = TRUE
          /\ Goto(t, "undo")
          /\ UNCHANGED sandbox
    /\ UNCHANGED <<machineVars, vmName, sshDest, factory, removed, warned, closed>>

\* KeyboardInterrupt while a call waits for the provider or the machine.  No
\* `except Exception' stops it: nothing is removed, and the caller is expected
\* to call shutdown (once more).  Until then `new' may have made a machine
\* whose name never arrived; the ready line may be missing from a process that
\* is in place, or from one that _terminal was about to put away; and `rm' may
\* have worked without anyone taking note.
Interrupt(t) ==
    /\ \/ /\ pc[t] = "new"
          /\ \/ UNCHANGED vm
             \/ \E v \in VMs : vm[v] = "none" /\ vm' = [vm EXCEPT ![v] = "up"]
          /\ UNCHANGED <<ended, sandbox>>
       \/ /\ pc[t] = "probe"
          /\ UNCHANGED <<vm, ended, sandbox>>
       \/ /\ pc[t] = "open"
          /\ \/ UNCHANGED <<ended, sandbox>>
             \/ /\ factory = "ssh" => vm[sshDest] = "up"
                /\ sandbox' = TRUE
                /\ UNCHANGED ended
             \/ /\ ended' = TRUE
                /\ UNCHANGED sandbox
          /\ UNCHANGED vm
       \/ /\ pc[t] = "rm"
          /\ vm' \in {vm, [vm EXCEPT ![vmName] = "gone"]}
          /\ UNCHANGED <<ended, sandbox>>
    /\ closed' = FALSE
    /\ Goto(t, "idle")
    /\ UNCHANGED <<provisioned, handed, owns, vmName, sshDest, factory, removed,
                   warned>>

\* What the caller wanted the session for: it ends well, or in _terminal.
Run(t) ==
    /\ pc[t] = "run"
    /\ Goto(t, "idle")
    /\ \/ UNCHANGED <<ended, sandbox>>
       \/ ended' = TRUE /\ sandbox' = FALSE
    /\ UNCHANGED <<machineVars, vmName, sshDest, factory, removed, warned, closed>>

-----------------------------------------------------------------------------
(* The end. *)

CallShutdown(t) ==
    /\ t \in Stoppers
    /\ pc[t] = "idle"
    /\ Goto(t, "end")
    /\ UNCHANGED <<machineVars, vmName, sshDest, factory, removed, warned,
                   closed, ended, sandbox>>

\* Mutant: shutdown forgets the session and only removes the machine.
EndNothing(t) ==
    /\ pc[t] = "end"
    /\ closed' = TRUE
    /\ Goto(t, "remove")
    /\ UNCHANGED <<machineVars, vmName, sshDest, factory, removed, warned,
                   ended, sandbox>>

\* super().shutdown(): nothing when the session has ended; whatever it raises,
\* an interrupt included, is kept for later.  One that comes while the shutdown
\* line goes out leaves the process where it is.
EndSession(t) ==
    /\ pc[t] = "end"
    /\ closed' = TRUE
    /\ ended' = TRUE
    /\ sandbox' \in {sandbox /\ ended, sandbox}
    /\ Goto(t, "remove")
    /\ UNCHANGED <<machineVars, vmName, sshDest, factory, removed, warned>>

\* Mutant: every machine counts as owned.
RemoveForeign(t) ==
    /\ pc[t] \in {"undo", "remove"}
    /\ Goto(t, IF vmName = None \/ removed THEN "idle" ELSE "rm")
    /\ warned' = FALSE
    /\ UNCHANGED <<machineVars, vmName, sshDest, factory, removed, closed,
                   ended, sandbox>>

\* _remove_owned_vm, after a start that failed or in shutdown: is there
\* anything to remove?
RemoveOwnedVM(t) ==
    /\ pc[t] \in {"undo", "remove"}
    /\ Goto(t, IF ~owns \/ vmName = None \/ removed THEN "idle" ELSE "rm")
    /\ warned' = FALSE
    /\ UNCHANGED <<machineVars, vmName, sshDest, factory, removed, closed,
                   ended, sandbox>>

\* Mutant: a removal that failed counts as done.
RmAlwaysCounts(t) ==
    /\ pc[t] = "rm"
    /\ removed' = TRUE
    /\ \/ /\ vm[vmName] = "up"
          /\ vm' = [vm EXCEPT ![vmName] = "gone"]
          /\ UNCHANGED warned
       \/ /\ vm' = vm
          /\ warned' = TRUE
    /\ Goto(t, "idle")
    /\ UNCHANGED <<provisioned, handed, owns, vmName, sshDest, factory, closed,
                   ended, sandbox>>

\* _control("rm"): it works, or fails with or without the machine, which is
\* warned about.
Rm(t) ==
    /\ pc[t] = "rm"
    /\ \/ /\ vm[vmName] = "up"
          /\ vm' = [vm EXCEPT ![vmName] = "gone"]
          /\ removed' = TRUE
          /\ UNCHANGED warned
       \/ /\ vm' \in {vm, [vm EXCEPT ![vmName] = "gone"]}
          /\ warned' = TRUE
          /\ UNCHANGED removed
    /\ Goto(t, "idle")
    /\ UNCHANGED <<provisioned, handed, owns, vmName, sshDest, factory, closed,
                   ended, sandbox>>

-----------------------------------------------------------------------------

Step(t) ==
    \/ CallStart(t) \/ Check(t) \/ New(t) \/ NewFails(t) \/ StoreDest(t)
    \/ Probe(t) \/ Resume(t) \/ Open(t) \/ Run(t) \/ Interrupt(t)
    \/ CallShutdown(t) \/ EndSession(t) \/ RemoveOwnedVM(t) \/ Rm(t)

Next == \E t \in Threads : Step(t)

Spec == Init /\ [][Next]_vars
-----------------------------------------------------------------------------
(* Properties. *)

\* When shutdown was called (after the last call that KeyboardInterrupt cut
\* off) and every call is back, each machine whose name the session learnt from
\* `new' is gone, or the last removal warned that it is not, unless owns_vm=False
\* told the session to keep it.  That includes starts that failed half-way,
\* retried ones, removals that were interrupted, and a start that was still
\* under way in another thread when shutdown returned.
VMsRemoved ==
    closed /\ owns /\ ~warned /\ (\A t \in Threads : pc[t] = "idle") =>
        \A v \in provisioned : vm[v] # "up"

\* The session removes only machines that it provisioned or that the caller
\* handed over with ssh_dest and owns_vm, and with owns_vm=False none at all.
OnlyOwnRemoved ==
    [][\A v \in VMs : vm[v] = "up" /\ vm'[v] = "gone" =>
          owns /\ (v \in provisioned \/ (handed /\ v = Given))]_vars

\* No machine is removed under a session that is still open.
NeverPulled == sandbox /\ ~ended /\ sshDest # None => vm[sshDest] = "up"
=============================================================================
