----------------------------- MODULE Conformance -----------------------------
(***************************************************************************)
(* The conformance suite of checks.py and benchmark_interpreter: host      *)
(* programs that construct sessions, use them and shut them down.          *)
(*                                                                         *)
(* Each check is a list of statements, some of them inside try ... finally.*)
(* The subject is InProcessInterpreter or one of the broken variants that  *)
(* the tests of the suite define (brokenTools and acceptsMissing are two   *)
(* more of the kind); besides, any call into the subject may fail, as the  *)
(* calls of a backend with a provider do, and so may what is asserted of   *)
(* the subject that a factory returned.                                    *)
(***************************************************************************)
EXTENDS Integers, Sequences

CONSTANTS
    ColdRuns, WarmRuns,   \* sets of arguments of benchmark_interpreter
    MaxFaults             \* bound: calls that fail

ASSUME ConformanceAssumption ==
    ColdRuns \subseteq Int /\ WarmRuns \subseteq Int /\ MaxFaults \in Nat

Slots == {"first", "second"}

Defects == {"none", "sharedNamespace", "nonterminalShutdown", "terminalErrors", "losesNamespace",
            "corruptsOutput", "continuesAfterSubmit", "brokenTools", "acceptsMissing"}

-----------------------------------------------------------------------------
(* Statements.  "want" holds the outcomes after which the program goes on; *)
(* all others raise, in the subject or as an assertion about it.           *)

Outcomes == {"value", "final", "wrongFinal", "SyntaxError", "CodeExecutionError", "CodeInterpreterError"}

Statement(op, who, what, want) == [op |-> op, who |-> who, what |-> what, want |-> want, metric |-> "none"]
New(who) == Statement("new", who, "none", {"value"})
Assert(who) == Statement("assert", who, "none", {"value"})
Start(who, want) == Statement("start", who, "none", want)
Execute(who, code, want) == Statement("execute", who, code, want)
Configure(who, given) == Statement("configure", who, given, {"value"})
ToolCalls(number) == Statement("calls", "first", number, {"value"})
Shut(who) == Statement("shutdown", who, "none", {"value"})

Repeat(n, statement) == [i \in 1..n |-> statement]

\* try: body finally: cleanup.  A block without try has both positions at its end.
Try(before, body, cleanup) ==
    [lines |-> before \o body \o cleanup,
     try |-> Len(before) + 1, finally |-> Len(before \o body) + 1]
Unguarded(lines) == [lines |-> lines, try |-> Len(lines) + 1, finally |-> Len(lines) + 1]

\* Mutant: _with without finally.
WithUnguarded(body) == Unguarded(<<New("first")>> \o body \o <<Shut("first")>>)

With(body) == Try(<<New("first")>>, body, <<Shut("first")>>)

Good == {"value"}
Final == {"final", "wrongFinal"}

Lifecycle == With(<<Start("first", Good), Start("first", Good), Execute("first", "arithmetic", Good)>>)

Persistence ==
    With(<<Execute("first", "remember", Good), Execute("first", "recall", Good),
           Execute("first", "variable", Good)>>)

\* Mutant: no assertion when the name of the other session is found.
IsolationLax ==
    Try(<<New("first"), New("second")>>,
        <<Execute("first", "keepPrivate", Good), Execute("second", "readPrivate", Outcomes)>>,
        <<Shut("first"), Shut("second")>>)

Isolation ==
    Try(<<New("first"), New("second")>>,
        <<Execute("first", "keepPrivate", Good),
          Execute("second", "readPrivate", {"CodeExecutionError"})>>,
        <<Shut("first"), Shut("second")>>)

Errors ==
    With(<<Execute("first", "syntax", {"SyntaxError"}),
           Execute("first", "divide", {"CodeExecutionError"}),
           Execute("first", "arithmetic", Good)>>)

Tools == With(<<Configure("first", "tool"), Execute("first", "callTool", Good), ToolCalls(1)>>)

Untyped == With(<<Configure("first", "nothing"), Execute("first", "submit", {"final"})>>)

Typed ==
    With(<<Configure("first", "fields"), Execute("first", "submitFields", {"final"}),
           Execute("first", "submitMissing", {"CodeExecutionError"}),
           Execute("first", "arithmetic", Good)>>)

Terminates == With(<<Configure("first", "tool"), Execute("first", "submitThenTool", Final), ToolCalls(0)>>)

\* The two assertions, that the subject is a CodeInterpreter and its tools are a
\* dict, come between the factory and shutdown without try.
Protocol == Unguarded(<<New("first"), Assert("first"), Shut("first")>>)

Terminal ==
    Unguarded(<<New("first"), Shut("first"), Shut("first"), Start("first", {"CodeInterpreterError"}),
                Execute("first", "arithmetic", {"CodeInterpreterError"})>>)

\* INTERPRETER_CHECKS, in order; each runs its blocks one after the other.
Checks ==
    << <<Protocol>>,
       <<Lifecycle>>,
       <<With(<<Execute("first", "print", Good), Execute("first", "arithmetic", Good)>>)>>,
       <<Persistence>>,
       <<Isolation>>,
       <<Errors>>,
       <<Tools>>,
       <<Untyped, Typed>>,
       <<Terminates>>,
       <<Terminal>> >>

\* The check that the test of each defect names; the last two have none.
CaughtBy ==
    [losesNamespace |-> 4, sharedNamespace |-> 5, terminalErrors |-> 6, corruptsOutput |-> 8,
     continuesAfterSubmit |-> 9, nonterminalShutdown |-> 10, brokenTools |-> 7, acceptsMissing |-> 8]

-----------------------------------------------------------------------------
(* benchmark_interpreter: one block for each cold run, then the warm runs, *)
(* whose try begins after start and the first probe of memory.             *)

Metrics == {"construction", "start", "first_execute", "warm_execute", "host_tool_round_trip",
            "one_megabyte_variable", "shutdown"}

Timed(line, metric) == [line EXCEPT !.metric = metric]
Probe == Execute("first", "arithmetic", Outcomes)   \* _guest_rss, which catches every Exception

ColdRun ==
    Try(<<Timed(New("first"), "construction")>>,
        <<Timed(Start("first", Good), "start"),
          Timed(Execute("first", "arithmetic", Good), "first_execute")>>,
        <<Timed(Shut("first"), "shutdown")>>)

WarmRun(warm) ==
    Try(<<New("first"), Start("first", Good), Probe>>,
        Repeat(warm, Timed(Execute("first", "arithmetic", Good), "warm_execute"))
        \o <<Configure("first", "tool")>>
        \o Repeat(warm, Timed(Execute("first", "callTool", Good), "host_tool_round_trip"))
        \o Repeat(IF warm < 5 THEN warm ELSE 5,
                  Timed(Execute("first", "variable", Good), "one_megabyte_variable"))
        \o <<Execute("first", "arithmetic", Good), Probe>>,
        <<Shut("first")>>)

\* Mutant: warm_runs is not checked.
AcceptsCold(cold, warm) == cold >= 1

\* allocation_bytes is taken to be valid.
Accepts(cold, warm) == cold >= 1 /\ warm >= 1

Benchmark(cold, warm) == << [i \in 1..cold |-> ColdRun] \o <<WarmRun(warm)>> >>

\* Distribution.from_samples: the place of the 95th percentile among n samples.
P95Index(n) == LET ceiling == (95 * n + 99) \div 100 IN IF ceiling > 0 THEN ceiling - 1 ELSE 0

-----------------------------------------------------------------------------

VARIABLES
    program,   \* "collect", "raise" (the values of on_fail) or "benchmark"
    cold, warm,
    defect,
    check, block, line,   \* where the program is
    raised,    \* an exception is on its way through finally
    session,   \* [Slots -> the session constructed by this block, or None]
    names,     \* [Slots -> its namespace]
    calls,     \* calls of the host tool in this block
    results,   \* CheckResult.passed, one by one
    samples,   \* [Metrics -> number of timings]
    struck,    \* checks in which a call failed
    cleanup,   \* a statement failed in this block that the sessions are not guarded against
    faults,
    outcome    \* "running", "report", or "raised"

subjectVars == <<session, names, calls>>
placeVars == <<check, block, line, raised>>
choiceVars == <<program, cold, warm, defect>>
vars == <<choiceVars, placeVars, subjectVars, results, samples, struck, cleanup, faults, outcome>>

None == [ended |-> FALSE, shut |-> TRUE, given |-> "nothing"]
Fresh == [ended |-> FALSE, shut |-> FALSE, given |-> "nothing"]

Plan == IF program = "benchmark" THEN Benchmark(cold, warm) ELSE Checks
Block == Plan[check][block]
Here == Block.lines[line]
Running == outcome = "running"

TypeOK ==
    /\ program \in {"collect", "raise", "benchmark"}
    /\ cold \in ColdRuns /\ warm \in WarmRuns /\ defect \in Defects
    /\ session \in [Slots -> [ended : BOOLEAN, shut : BOOLEAN, given : {"nothing", "tool", "fields"}]]
    /\ names \in [Slots -> SUBSET {"remembered", "private_value"}]
    /\ results \in Seq(BOOLEAN) /\ Len(results) <= Len(Checks)
    /\ samples \in [Metrics -> Nat]
    /\ struck \subseteq 1..Len(Checks) /\ cleanup \in BOOLEAN /\ faults \in 0..MaxFaults
    /\ calls \in Nat /\ raised \in BOOLEAN
    /\ outcome \in {"running", "report", "raised"}
    /\ Running => check \in 1..Len(Plan) /\ block \in 1..Len(Plan[check]) /\ line \in 1..(Len(Block.lines) + 1)

Init ==
    /\ program \in {"collect", "raise", "benchmark"}
    /\ cold \in ColdRuns /\ warm \in WarmRuns
    /\ defect \in Defects
    /\ program # "benchmark" => cold = 1 /\ warm = 1
    /\ check = 1 /\ block = 1 /\ line = 1
    /\ raised = FALSE
    /\ session = [who \in Slots |-> None]
    /\ names = [who \in Slots |-> {}]
    /\ calls = 0
    /\ results = <<>>
    /\ samples = [m \in Metrics |-> 0]
    /\ struck = {} /\ cleanup = FALSE /\ faults = 0
    /\ outcome = IF program = "benchmark" /\ ~Accepts(cold, warm) THEN "raised" ELSE "running"

-----------------------------------------------------------------------------
(* How the program goes on. *)

\* Where an exception goes: to finally, or out of the block.
Escape == IF line >= Block.try /\ line < Block.finally THEN Block.finally ELSE Len(Block.lines) + 1

\* After a statement with this result; the time it took counts if it went well.
Continue(result) ==
    /\ Running
    /\ line <= Len(Block.lines)
    /\ IF result \in Here.want
       THEN /\ line' = line + 1
            /\ samples' = IF Here.metric = "none" THEN samples ELSE [samples EXCEPT ![Here.metric] = @ + 1]
            /\ UNCHANGED raised
       ELSE /\ line' = Escape
            /\ raised' = TRUE
            /\ UNCHANGED samples
    /\ UNCHANGED <<choiceVars, check, block, results, outcome>>

NoFault == UNCHANGED <<struck, cleanup, faults>>

\* Where the program is not guarded against a failure.
Unprotected ==
    \/ Here.op \in {"new", "assert", "shutdown"}
    \/ Here.op = "start" /\ program = "benchmark" /\ line < Block.try

\* The call fails, and the subject is at its end; or an assertion fails, and the
\* subject is none the wiser.
CallFails ==
    /\ Running /\ line <= Len(Block.lines)
    /\ Here.op \in {"new", "assert", "start", "execute", "shutdown"}
    /\ faults < MaxFaults
    /\ faults' = faults + 1
    /\ struck' = struck \cup {check}
    /\ cleanup' = (cleanup \/ Unprotected)
    /\ session' = IF Here.op \in {"new", "assert"} THEN session
                  ELSE [session EXCEPT ![Here.who].ended = TRUE,
                                       ![Here.who].shut = @ \/ Here.op = "shutdown"]
    /\ Continue("CodeInterpreterError")
    /\ UNCHANGED <<names, calls>>

\* After the last statement of a block comes the next block ...
BlockEnds ==
    /\ Running
    /\ line > Len(Block.lines)
    /\ line' = 1
    /\ raised' = FALSE
    /\ session' = [who \in Slots |-> None]
    /\ calls' = 0
    /\ cleanup' = FALSE
    /\ UNCHANGED <<choiceVars, names, samples, struck, faults>>

NextBlock ==
    /\ BlockEnds
    /\ ~raised /\ block < Len(Plan[check])
    /\ block' = block + 1
    /\ UNCHANGED <<check, results, outcome>>

\* Mutant: the end is found by the results there are.
IsLastByResults == Len(results) = Len(Plan)

IsLast == check = Len(Plan)

\* ... or the check is over: _run_checks notes the result and goes on, unless
\* on_fail says to raise.
CheckEnds ==
    /\ BlockEnds
    /\ program # "benchmark"
    /\ raised \/ block = Len(Plan[check])
    /\ results' = Append(results, ~raised)
    /\ outcome' = IF raised /\ program = "raise" THEN "raised"
                  ELSE IF IsLast THEN "report" ELSE "running"
    /\ check' = IF outcome' = "running" THEN check + 1 ELSE check
    /\ block' = 1

BenchmarkEnds ==
    /\ BlockEnds
    /\ program = "benchmark"
    /\ raised \/ block = Len(Plan[check])
    /\ outcome' = IF raised THEN "raised" ELSE "report"
    /\ UNCHANGED <<check, block, results>>

-----------------------------------------------------------------------------
(* The subject. *)

Construct ==
    /\ Here.op = "new"
    /\ session' = [session EXCEPT ![Here.who] = Fresh]
    /\ names' = IF defect = "sharedNamespace" THEN names ELSE [names EXCEPT ![Here.who] = {}]
    /\ Continue("value")
    /\ UNCHANGED calls

Assertion ==
    /\ Here.op = "assert"
    /\ Continue("value")
    /\ UNCHANGED subjectVars

StartSession ==
    /\ Here.op = "start"
    /\ Continue(IF session[Here.who].ended THEN "CodeInterpreterError" ELSE "value")
    /\ UNCHANGED subjectVars

\* _configure: tools, and output_fields or None.
ConfigureSession ==
    /\ Here.op = "configure"
    /\ session' = [session EXCEPT ![Here.who].given = Here.what]
    /\ Continue("value")
    /\ UNCHANGED <<names, calls>>

CompareCalls ==
    /\ Here.op = "calls"
    /\ Continue(IF calls = Here.what THEN "value" ELSE "wrong")
    /\ UNCHANGED subjectVars

\* What the code does in a session that has not ended.
Runs(who, code) ==
    CASE code \in {"arithmetic", "print", "variable", "remember", "keepPrivate"} -> "value"
      [] code = "recall" -> IF "remembered" \in names[who] THEN "value" ELSE "CodeExecutionError"
      [] code = "readPrivate" -> IF "private_value" \in names[who] THEN "value" ELSE "CodeExecutionError"
      [] code = "syntax" -> "SyntaxError"
      [] code = "divide" -> "CodeExecutionError"
      [] code = "callTool" ->
            IF session[who].given = "tool" /\ defect # "brokenTools" THEN "value" ELSE "CodeExecutionError"
      [] code \in {"submit", "submitThenTool"} ->
            IF session[who].given # "fields" THEN "final" ELSE "CodeExecutionError"
      [] code = "submitFields" -> IF session[who].given = "fields" THEN "final" ELSE "CodeExecutionError"
      [] code = "submitMissing" ->
            IF defect = "acceptsMissing" THEN "final" ELSE "CodeExecutionError"

\* What execute makes of it.
Answer(who, code) ==
    LET result == Runs(who, code) IN
    CASE session[who].ended -> "CodeInterpreterError"
      [] ~session[who].ended /\ result = "CodeExecutionError" /\ defect = "terminalErrors" ->
            "CodeInterpreterError"
      [] ~session[who].ended /\ result = "final" /\ defect = "corruptsOutput" -> "wrongFinal"
      [] OTHER -> result

Assigned(code) ==
    CASE code = "remember" -> {"remembered"}
      [] code = "keepPrivate" -> {"private_value"}
      [] OTHER -> {}

ExecuteCode ==
    LET who == Here.who
        code == Here.what
        left == IF defect = "losesNamespace" THEN {} ELSE names[who] \cup Assigned(code)
    IN
    /\ Here.op = "execute"
    /\ names' = [other \in Slots |->
                    IF session[who].ended \/ (other # who /\ defect # "sharedNamespace")
                    THEN names[other] ELSE left]
    /\ calls' = IF ~session[who].ended
                   /\ \/ code = "callTool" /\ Runs(who, code) = "value"
                      \/ code = "submitThenTool" /\ defect = "continuesAfterSubmit"
                THEN calls + 1 ELSE calls
    /\ Continue(Answer(who, code))
    /\ UNCHANGED session

ShutDown ==
    /\ Here.op = "shutdown"
    /\ session' = [session EXCEPT ![Here.who].shut = TRUE,
                                  ![Here.who].ended = defect # "nonterminalShutdown"]
    /\ names' = [other \in Slots |->
                    IF defect # "nonterminalShutdown"
                       /\ (other = Here.who \/ defect = "sharedNamespace")
                    THEN {} ELSE names[other]]
    /\ Continue("value")
    /\ UNCHANGED calls

-----------------------------------------------------------------------------

Subject ==
    /\ Running /\ line <= Len(Block.lines)
    /\ \/ Construct \/ Assertion \/ StartSession \/ ConfigureSession \/ CompareCalls
       \/ ExecuteCode \/ ShutDown
    /\ NoFault

Done == ~Running /\ UNCHANGED vars

Next == Subject \/ CallFails \/ NextBlock \/ CheckEnds \/ BenchmarkEnds \/ Done

Spec == Init /\ [][Next]_vars
-----------------------------------------------------------------------------
(* Properties. *)

Failed == {i \in DOMAIN results : ~results[i]}

\* The suite tells the broken variants from the good one, and a call that fails
\* spoils only the check that made it: without a defect all other checks pass;
\* with one, the check named for it fails.  A report has a result for every check,
\* and no call fails unnoticed: the check that made it has failed, unless it is
\* the one that asks for CodeInterpreterError.  With on_fail="raise" a report says
\* that every check passed, and the suite raises over the check that failed, which
\* was the last one to run (_run_checks, check_interpreter).
Distinguishes ==
    /\ defect = "none" => Failed \subseteq struck
    /\ outcome = "report" /\ program # "benchmark" =>
          /\ Len(results) = Len(Checks)
          /\ struck \ {CaughtBy["nonterminalShutdown"]} \subseteq Failed
          /\ defect # "none" => CaughtBy[defect] \in Failed \cup struck
    /\ program = "raise" /\ outcome = "report" => Failed = {}
    /\ program = "raise" /\ outcome = "raised" => Failed = {Len(results)}

\* Every session that a check or a benchmark constructs is shut down when it is
\* done with it, whatever it found out and whichever call failed.  The program is
\* not guarded, and a session may stay open, when a factory or a shutdown fails
\* (_isolation has two sessions), an assertion of _protocol, or start before the
\* try of benchmark_interpreter.
SessionsShut ==
    ~cleanup /\ (~Running \/ line > Len(Block.lines)) =>
        \A who \in Slots : session[who].shut

\* A report of benchmark_interpreter is made of as many timings as were asked
\* for, never of none, and p95 is the least sample that 95% do not exceed.
ReportComplete ==
    outcome = "report" /\ program = "benchmark" =>
        /\ \A m \in {"construction", "start", "first_execute", "shutdown"} : samples[m] = cold
        /\ samples["warm_execute"] = warm /\ samples["host_tool_round_trip"] = warm
        /\ \A m \in Metrics :
              /\ P95Index(samples[m]) \in 0..(samples[m] - 1)
              /\ 100 * (P95Index(samples[m]) + 1) >= 95 * samples[m]
              /\ 100 * P95Index(samples[m]) < 95 * samples[m]

=============================================================================
