----------------------------- MODULE HostProcess -----------------------------
(***************************************************************************)
(* One thread of the host process and the executions it is inside of.      *)
(*                                                                         *)
(* A host tool is called by guest code while its execution waits, and may  *)
(* itself execute code, shut sessions down or replace their tools: the     *)
(* executions form a stack.  Sessions are of any backend.  Those that      *)
(* have a worker take one execution at a time (IPythonInterpreter asks     *)
(* that of its caller); InProcessInterpreter and MontyInterpreter may be   *)
(* entered again.  What an execution changes in the process itself,        *)
(* sys.stdout and sys.modules["dspy"] in process and the terminating       *)
(* SUBMIT in the tools of Monty, it puts back.                             *)
(*                                                                         *)
(* Threads, timeouts and failing workers are the subject of the modules    *)
(* of the single backends.                                                 *)
(***************************************************************************)
EXTENDS GuestNamespace, SequencesExt

CONSTANTS
    Sessions,
    Hosts,       \* the choices of a backend for each session
    Names,       \* names of tools and variables
    Grants,      \* [Sessions -> the sets of tools that the host gives it]
    FieldLists,  \* [Sessions -> the output fields that the host declares]
    Inputs,      \* the sets of variables that it passes
    Calls,       \* the arguments that guest code gives SUBMIT
    MaxDepth     \* bound: executions inside each other

ASSUME HostAssumption ==
    /\ Hosts \subseteq [Sessions -> Backends]
    /\ Grants \in [Sessions -> SUBSET SUBSET Names]
    /\ FieldLists \in [Sessions -> SUBSET Seq(STRING)]
    /\ Inputs \subseteq SUBSET Names
    /\ Names \cap {Nothing, Given} = {}
    /\ MaxDepth \in Nat

\* args is a sequence, kwargs a function.
ASSUME CallAssumption ==
    \A call \in Calls :
        /\ call.args \in Seq({call.args[i] : i \in DOMAIN call.args})
        /\ call.kwargs = [field \in DOMAIN call.kwargs |-> call.kwargs[field]]

VARIABLES
    backend,   \* [Sessions -> its class]
    tools,     \* [Sessions -> names in self.tools]
    fields,    \* [Sessions -> self.output_fields]
    ended,     \* [Sessions -> self._ended]
    caps,      \* [Sessions -> the names bound as tools by the last execution]
    copied,    \* [Sessions -> its code has kept a tool under another name]
    ns,        \* [Sessions -> [Names -> what the name is bound to]]
    router,    \* [Sessions -> execution that tools[_TERMINATING_SUBMIT] belongs to, 0 if none]
    stdout,    \* execution whose buffer is sys.stdout, 0 for the stream of the host
    module,    \* execution whose code replaced sys.modules["dspy"], 0 if none
    facades,   \* history: the executions under way whose code has replaced it
    stack,     \* the executions under way, the innermost one last
    submitted  \* what the last step made of a SUBMIT

hostVars == <<backend, tools, fields, ended>>
guestVars == <<caps, copied, ns>>
processVars == <<router, stdout, module, facades>>
vars == <<hostVars, guestVars, processVars, stack, submitted>>

Declared == UNION {FieldLists[s] : s \in Sessions}

\* What execute keeps in locals: the fields the worker was sent, the tool its
\* guest waits for, and what it found in the process when it began.
Frames == [session : Sessions, fields : Declared, tool : Names \cup {Nothing},
           stdout : 0..MaxDepth, module : 0..MaxDepth, router : 0..MaxDepth]

NoSubmit == <<>>

Depth == Len(stack)
Top == stack[Depth]
InProcess(i) == backend[stack[i].session] = "inProcess"
OnMonty(i) == backend[stack[i].session] = "monty"
OnRemote(i) == backend[stack[i].session] \in Remote

\* The thread runs host code, on its own or in a tool; else guest code.
GuestRuns == stack # <<>> /\ Top.tool = Nothing
HostRuns == ~GuestRuns

\* An execution of s is under way.
Busy(s) == \E i \in DOMAIN stack : stack[i].session = s

\* Type correctness; a session with one worker has one execution at a time.
TypeOK ==
    /\ backend \in Hosts
    /\ tools \in [Sessions -> SUBSET Names]
    /\ fields \in [Sessions -> Declared]
    /\ {ended, copied} \subseteq [Sessions -> BOOLEAN]
    /\ caps \in [Sessions -> SUBSET Names]
    /\ ns \in [Sessions -> [Names -> Names \cup {Nothing, Given}]]
    /\ router \in [Sessions -> 0..MaxDepth]
    /\ {stdout, module} \subseteq 0..MaxDepth
    /\ facades \subseteq 1..MaxDepth
    /\ stack \in Seq(Frames)
    /\ Len(stack) <= MaxDepth
    /\ \A i, j \in DOMAIN stack : stack[i].session = stack[j].session /\ OnRemote(i) => i = j

Init ==
    /\ backend \in Hosts
    /\ tools \in {f \in [Sessions -> SUBSET Names] : \A s \in Sessions : f[s] \in Grants[s]}
    /\ fields \in {f \in [Sessions -> Declared] : \A s \in Sessions : f[s] \in FieldLists[s]}
    /\ ended = [s \in Sessions |-> FALSE]
    /\ caps = [s \in Sessions |-> {}]
    /\ copied = [s \in Sessions |-> FALSE]
    /\ ns = [s \in Sessions |-> [n \in Names |-> Nothing]]
    /\ router = [s \in Sessions |-> 0]
    /\ stdout = 0
    /\ module = 0
    /\ facades = {}
    /\ stack = <<>>
    /\ submitted = NoSubmit

-----------------------------------------------------------------------------
(* What host code does to a session between and inside of executions. *)

\* tools and output_fields are public attributes; tools.clear() also drops the
\* terminating SUBMIT of Monty.
Configure(s) ==
    /\ HostRuns
    /\ tools' \in {[tools EXCEPT ![s] = granted] : granted \in Grants[s]}
    /\ fields' \in {[fields EXCEPT ![s] = names] : names \in FieldLists[s]}
    /\ router' \in {router, [router EXCEPT ![s] = 0]}
    /\ UNCHANGED <<backend, ended, guestVars, stdout, module, facades, stack>>

\* In process the namespace is cleared under whatever code still runs.
Shutdown(s) ==
    /\ HostRuns
    /\ ended' = [ended EXCEPT ![s] = TRUE]
    /\ ns' = IF backend[s] = "inProcess"
             THEN [ns EXCEPT ![s] = [n \in Names |-> Nothing]] ELSE ns
    /\ UNCHANGED <<backend, tools, fields, caps, copied, processVars, stack>>

-----------------------------------------------------------------------------
(* execute, up to the first statement of the code. *)

\* Mutant: sessions with one worker take no execution lock.
MayExecuteUnlocked(s) == HostRuns /\ ~ended[s]

MayExecute(s) ==
    /\ HostRuns
    /\ ~ended[s]
    /\ backend[s] \in Remote => ~Busy(s)

\* Tools, SUBMIT and variables are bound.  Monty keeps its namespace to itself
\* and looks tools up when they are called.
Refresh(s, inputs) ==
    IF backend[s] = "monty" THEN UNCHANGED <<caps, ns>>
    ELSE /\ caps' = [caps EXCEPT ![s] = tools[s]]
         /\ ns' = [ns EXCEPT ![s] = Bind(backend[s], @, caps[s], tools[s], inputs)]

\* SyntaxError: the names are bound before the code is parsed.
ExecuteBadSyntax(s, inputs) ==
    /\ MayExecute(s)
    /\ Refresh(s, inputs)
    /\ UNCHANGED <<hostVars, copied, processVars, stack>>

Execute(s, inputs) ==
    /\ MayExecute(s)
    /\ Depth < MaxDepth
    /\ Refresh(s, inputs)
    /\ stack' = Append(stack, [session |-> s, fields |-> fields[s], tool |-> Nothing,
                               stdout |-> stdout, module |-> module, router |-> router[s]])
    /\ stdout' = IF backend[s] = "inProcess" THEN Depth + 1 ELSE stdout
    /\ router' = IF backend[s] = "monty" THEN [router EXCEPT ![s] = Depth + 1] ELSE router
    /\ UNCHANGED <<hostVars, copied, module, facades>>

\* Mutants of what an execution puts back: the stream of the process, not the
\* one it found; no module, as if it had found none; nothing in the tools of
\* Monty.
StdoutOfHost == IF InProcess(Depth) THEN 0 ELSE stdout
ModuleDropped == IF InProcess(Depth) THEN 0 ELSE module
RouterKept == router

RestoredStdout == IF InProcess(Depth) THEN Top.stdout ELSE stdout
RestoredModule == IF InProcess(Depth) THEN Top.module ELSE module
RestoredRouter == IF OnMonty(Depth) THEN [router EXCEPT ![Top.session] = Top.router] ELSE router

\* The innermost execution returns or raises; with and finally run either way.
Leave ==
    /\ stack' = Front(stack)
    /\ stdout' = RestoredStdout
    /\ module' = RestoredModule
    /\ facades' = facades \ {Depth}
    /\ router' = RestoredRouter

-----------------------------------------------------------------------------
(* Guest code of the innermost execution, and the tools it calls. *)

\* The code returns, or raises anything.
Finish ==
    /\ GuestRuns
    /\ Leave
    /\ UNCHANGED <<hostVars, guestVars>>

\* The code keeps a tool under another name.
KeepCopy(m, n) ==
    /\ GuestRuns
    /\ ns[Top.session][n] \in Names
    /\ ns' = [ns EXCEPT ![Top.session][m] = ns[Top.session][n]]
    /\ copied' = [copied EXCEPT ![Top.session] = TRUE]
    /\ UNCHANGED <<hostVars, caps, processVars, stack>>

\* The DSPy facade: sys.modules["dspy"] of the process that runs the code.
ReplaceModule ==
    /\ GuestRuns
    /\ InProcess(Depth)
    /\ module' = Depth
    /\ facades' = facades \cup {Depth}
    /\ UNCHANGED <<hostVars, guestVars, router, stdout, stack>>

\* Mutant: the host serves what it bound for the execution.
ServedFromBinding(s) == {n \in Names : \E m \in Names : ns[s][m] = n} \cup caps[s]

\* The tools whose call by the code of s runs something: its own callables in
\* process, else what self.tools has by then.
Served(s) ==
    LET bound == {n \in Names : \E m \in Names : ns[s][m] = n} IN
    CASE backend[s] = "inProcess" -> bound
      [] backend[s] = "monty" -> tools[s]
      [] backend[s] \in Remote -> bound \cap tools[s]

CallTool(n) ==
    /\ GuestRuns
    /\ n \in Served(Top.session)
    /\ stack' = [stack EXCEPT ![Depth].tool = n]
    /\ UNCHANGED <<hostVars, guestVars, processVars>>

\* The tool returns or raises an Exception.  A remote session that was shut
\* down meanwhile has nobody to send the answer to, and execute raises.
ToolReturns ==
    /\ stack # <<>>
    /\ HostRuns
    /\ \/ /\ ~(ended[Top.session] /\ OnRemote(Depth))
          /\ stack' = [stack EXCEPT ![Depth].tool = Nothing]
          /\ UNCHANGED processVars
       \/ /\ ended[Top.session] /\ ~InProcess(Depth)
          /\ Leave
    /\ UNCHANGED <<hostVars, guestVars>>

\* A BaseException such as KeyboardInterrupt passes through the code as well.
\* What it does to a worker is the subject of SubprocessInterpreter.
ToolInterrupts ==
    /\ stack # <<>>
    /\ HostRuns
    /\ ~OnRemote(Depth)
    /\ Leave
    /\ UNCHANGED <<hostVars, guestVars>>

\* SUBMIT.  In process and with Monty it reads self.output_fields when it is
\* called; a worker has the fields of its execution.  What is not accepted is
\* an exception of the code.
InForce == IF OnRemote(Depth) THEN Top.fields ELSE fields[Top.session]

Accepted(call) ==
    IF GuestRuns /\ (OnMonty(Depth) => router[Top.session] # 0)
    THEN Submitted(backend[Top.session], InForce, call) ELSE {}

Submit(call) ==
    /\ \E final \in Accepted(call) : \E result \in Received(backend[Top.session], final) :
          submitted' = [fields |-> InForce, call |-> call, final |-> result,
                        encodes |-> Encodes(final)]
    /\ Leave
    /\ UNCHANGED <<hostVars, guestVars>>

\* The worker cannot send what was accepted, and the session ends.
SubmitBreaks(call) ==
    /\ \E final \in Accepted(call) : Received(backend[Top.session], final) = {}
    /\ ended' = [ended EXCEPT ![Top.session] = TRUE]
    /\ Leave
    /\ UNCHANGED <<backend, tools, fields, guestVars>>

-----------------------------------------------------------------------------

Host ==
    \E s \in Sessions :
        \/ Configure(s) \/ Shutdown(s)
        \/ \E inputs \in Inputs : Execute(s, inputs) \/ ExecuteBadSyntax(s, inputs)

Guest ==
    \/ Finish \/ ReplaceModule \/ ToolReturns \/ ToolInterrupts
    \/ \E n \in Names : CallTool(n) \/ \E m \in Names \ {n} : KeepCopy(m, n)

Next ==
    \/ (Host \/ Guest \/ \E call \in Calls : SubmitBreaks(call)) /\ submitted' = NoSubmit
    \/ \E call \in Calls : Submit(call)

Spec == Init /\ [][Next]_vars
-----------------------------------------------------------------------------
(* Properties. *)

\* o is the innermost execution in process below level i, 0 if there is none.
Innermost(i, o) ==
    /\ o \in 0..(i - 1)
    /\ o # 0 => InProcess(o)
    /\ \A j \in 1..(i - 1) : InProcess(j) => j <= o

\* Whatever is nested in whatever, and however it ends, what guest code prints
\* in process goes to the buffer of its own execution; when no execution in
\* process is left, sys.stdout is the stream of the host again.
OwnOutput == Innermost(Depth + 1, stdout)

\* m is the innermost execution below level i that has put in a module.
Newest(i, m) ==
    /\ m \in 0..(i - 1)
    /\ m # 0 => m \in facades
    /\ \A j \in facades : j < i => j <= m

\* sys.modules["dspy"] is the module of the innermost execution under way that
\* put one there, be it the one that runs or one that waits for a tool; when
\* none of those is left, it is the module of the host again.
ModuleRestored == Newest(Depth + 1, module)

\* SUBMIT of Monty leads to the innermost execution of its session, or nowhere
\* when the host cleared the tools; between executions the tools of the host
\* hold no SUBMIT.
OwnRouter ==
    \A s \in Sessions : router[s] # 0 =>
        /\ router[s] <= Depth
        /\ stack[router[s]].session = s
        /\ \A i \in DOMAIN stack : stack[i].session = s => i <= router[s]

\* Guest code of a remote session or of Monty runs no tool that the host has
\* taken away, in process none that the last execution did not bind, unless
\* the code kept a copy.
Authorised ==
    [][\A n \in Names : (GuestRuns /\ stack' = [stack EXCEPT ![Depth].tool = n]) =>
          LET s == Top.session IN
          IF backend[s] = "inProcess" THEN copied[s] \/ n \in caps[s] ELSE n \in tools[s]]_vars

\* A submission that JSON can encode has the declared fields, no more and no
\* fewer, whatever the backend and the shape of the call.
SubmitExact ==
    submitted # NoSubmit /\ submitted.encodes /\ submitted.fields # Untyped =>
        DOMAIN submitted.final = Named(submitted.fields)

\* Backends may differ in what they accept; what two of them accept they
\* understand alike, except for dicts and for keywords without declared fields,
\* which Monty unpacks.
Portable ==
    submitted # NoSubmit /\ submitted.encodes =>
        LET call == submitted.call IN
        (/\ \A i \in DOMAIN call.args : call.args[i].tag # "dict"
         /\ submitted.fields # Untyped \/ DOMAIN call.kwargs = {}) =>
            \A other \in Backends :
                Submitted(other, submitted.fields, call) \subseteq {submitted.final}
=============================================================================
