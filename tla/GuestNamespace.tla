--------------------------- MODULE GuestNamespace ---------------------------
(***************************************************************************)
(* What an execution finds in the namespace of its session, and what       *)
(* SUBMIT makes of its arguments, for each backend that defines them:      *)
(* InProcessInterpreter, the subprocess worker, the worker text of Modal   *)
(* (also of exe.dev), the IPython bootstrap and the SUBMIT of              *)
(* MontyInterpreter.  These are functions of their arguments; HostProcess  *)
(* puts them to work.                                                      *)
(***************************************************************************)
EXTENDS Naturals, Sequences

Backends == {"inProcess", "subprocess", "modal", "ipython", "monty"}

\* Those whose guest code runs in another process behind a line protocol.
Remote == {"subprocess", "modal", "ipython"}

-----------------------------------------------------------------------------
(* A namespace maps each name to Nothing, to Given (a variable of the      *)
(* caller) or to the tool of some name.                                    *)

Nothing == "nothing"
Given == "given"

Merge(ns, values) == [n \in DOMAIN ns |-> IF n \in DOMAIN values THEN values[n] ELSE ns[n]]
Unbind(ns, names) == [n \in DOMAIN ns |-> IF n \in names THEN Nothing ELSE ns[n]]

GivenTo(inputs) == [n \in inputs |-> Given]
ToolsOf(tools) == [n \in tools |-> n]

\* InProcessInterpreter.execute: the variables first, then the names of the
\* last execution's tools go, then the tools come.
BindInProcess(ns, caps, tools, inputs) ==
    Merge(Unbind(Merge(ns, GivenTo(inputs)), caps), ToolsOf(tools))

\* The three workers: the last tools go, the tools come, then the variables.
BindRemote(ns, caps, tools, inputs) ==
    Merge(Merge(Unbind(ns, caps), ToolsOf(tools)), GivenTo(inputs))

\* The namespace in which the code of an execution starts.
Bind(backend, ns, caps, tools, inputs) ==
    IF backend = "inProcess" THEN BindInProcess(ns, caps, tools, inputs)
    ELSE BindRemote(ns, caps, tools, inputs)

-----------------------------------------------------------------------------
(* A call of SUBMIT is [args, kwargs]; a value is plain, a dict from field *)
(* names to plain values, None, or an Opaque one that JSON cannot encode.  *)
(* Each operator gives the set of what is accepted: empty when the call    *)
(* raises, else the one mapping that was submitted.  Untyped stands for    *)
(* output_fields = None; a declared list has at least one field, and no    *)
(* field twice.                                                            *)

Untyped == <<>>

Plain(id) == [tag |-> "plain", id |-> id]
Dict(items) == [tag |-> "dict", items |-> items]
NoValue == [tag |-> "none"]
Opaque == [tag |-> "opaque"]

Named(names) == {names[i] : i \in DOMAIN names}

\* The one positional value of a call that has no other.
Sole(args) == IF Len(args) = 1 THEN {args[1]} ELSE {}

Output(value) == [field \in {"output"} |-> value]

\* dict(zip(names, args)): the longer one is cut.
Zipped(names, args) ==
    [f \in {names[i] : i \in DOMAIN names \cap DOMAIN args} |->
        args[CHOOSE i \in DOMAIN names : names[i] = f]]

\* Both of two mappings without a common field.
Joined(f, g) == [x \in DOMAIN f \cup DOMAIN g |-> IF x \in DOMAIN f THEN f[x] ELSE g[x]]

\* inspect.Signature.bind: positional and keyword values may be mixed.
SignatureBind(names, call) ==
    LET values == Zipped(names, call.args) IN
    {final \in {Joined(values, call.kwargs)} :
        /\ Len(call.args) <= Len(names)
        /\ DOMAIN values \cap DOMAIN call.kwargs = {}
        /\ DOMAIN final = Named(names)}

\* Mutant: bind_partial for declared fields, which accepts missing ones.
SubmitInProcessPartial(names, call) ==
    LET values == Zipped(names, call.args) IN
    IF names # Untyped
    THEN {final \in {Joined(values, call.kwargs)} :
             /\ Len(call.args) <= Len(names)
             /\ DOMAIN values \cap DOMAIN call.kwargs = {}
             /\ DOMAIN final \subseteq Named(names)}
    ELSE {Output(v["value"]) : v \in SignatureBind(<<"value">>, call)}

\* _submit: the signature of the declared fields, or one value for all.
SubmitInProcess(names, call) ==
    IF names # Untyped THEN SignatureBind(names, call)
    ELSE {Output(values["value"]) : values \in SignatureBind(<<"value">>, call)}

\* Mutant: values go to the fields in another order.
SubmitReversed(names, call) ==
    {final \in {IF call.args # <<>> THEN Zipped([i \in DOMAIN names |-> names[Len(names) + 1 - i]], call.args)
                ELSE call.kwargs} : names # Untyped /\ DOMAIN final = Named(names)}

\* The workers of Modal and IPython: surplus positional values are cut off.
SubmitModal(names, call) ==
    IF names = Untyped
    THEN {Output(value) : value \in {v \in Sole(call.args) : DOMAIN call.kwargs = {}}}
    ELSE {final \in {IF call.args # <<>> THEN Zipped(names, call.args) ELSE call.kwargs} :
             /\ call.args = <<>> \/ DOMAIN call.kwargs = {}
             /\ DOMAIN final = Named(names)}

\* The subprocess worker refuses them.
SubmitSubprocess(names, call) ==
    {final \in SubmitModal(names, call) : names = Untyped \/ Len(call.args) <= Len(names)}

\* What terminating_submit makes of the arguments ...
MontyOutput(names, call) ==
    IF DOMAIN call.kwargs # {} THEN Dict(call.kwargs)
    ELSE IF call.args # <<>> /\ names # Untyped
    THEN IF \E v \in Sole(call.args) : v.tag = "dict" /\ DOMAIN v.items \subseteq Named(names)
         THEN call.args[1]
         ELSE Dict(Zipped(names, call.args))
    ELSE IF Len(call.args) = 1 THEN call.args[1] ELSE NoValue

\* ... and what _normalize_submission accepts of it.
SubmitMonty(names, call) ==
    LET output == MontyOutput(names, call) IN
    IF output.tag = "dict"
    THEN {final \in {output.items} : names = Untyped \/ DOMAIN final = Named(names)}
    ELSE {final \in {Output(output)} : names = Untyped}

Submitted(backend, names, call) ==
    CASE backend = "inProcess" -> SubmitInProcess(names, call)
      [] backend = "subprocess" -> SubmitSubprocess(names, call)
      [] backend \in {"modal", "ipython"} -> SubmitModal(names, call)
      [] backend = "monty" -> SubmitMonty(names, call)

Encodes(final) == \A field \in DOMAIN final : final[field] # Opaque

\* What FinalOutput gets of it.  What JSON cannot encode arrives as the text
\* of the whole mapping (jsonable), or breaks the protocol: no result at all.
Text == "text"

Received(backend, final) ==
    CASE Encodes(final) \/ backend \notin Remote -> {final}
      [] ~Encodes(final) /\ backend = "subprocess" -> {Text}
      [] ~Encodes(final) /\ backend \in {"modal", "ipython"} -> {}
=============================================================================
