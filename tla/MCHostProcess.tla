---------------------------- MODULE MCHostProcess ----------------------------
(***************************************************************************)
(* HostProcess on small instances: a name that may be a tool and one that  *)
(* may keep a copy of it or be a variable, and executions three deep, so   *)
(* that the one in the middle is neither the host's nor the innermost.     *)
(***************************************************************************)
EXTENDS HostProcess

CONSTANTS p, q, t, x

TwoSessions == {p, q}
TwoNames == {t, x}

Pairs == {p :> k @@ q :> l : k \in Backends \ {"ipython"}, l \in {"inProcess", "monty"}}

\* Only p is reconfigured.
PChanges == p :> {{}, {t}} @@ q :> {{t}}
PDeclares == p :> {Untyped, <<"score", "answer">>} @@ q :> {<<"answer">>}

OneInput == {{}, {t}}

NoKeywords == [f \in {} |-> Plain(0)]
Arguments == {Plain(1), Opaque, Dict("answer" :> Plain(2))}

SmallCalls ==
    {[args |-> args, kwargs |-> NoKeywords] :
        args \in {<<>>, <<Plain(1), Plain(2)>>, <<Plain(1), Plain(2), Plain(3)>>}
                 \cup {<<v>> : v \in Arguments}}
    \cup {[args |-> args, kwargs |-> kwargs] :
             args \in {<<>>, <<Plain(1)>>},
             kwargs \in {"answer" :> Plain(4), "answer" :> Plain(4) @@ "score" :> Plain(5),
                         "value" :> Plain(6)}}
=============================================================================
