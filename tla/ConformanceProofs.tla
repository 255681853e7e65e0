-------------------------- MODULE ConformanceProofs --------------------------
(***************************************************************************)
(* Theorems about Conformance, for every argument of benchmark_interpreter *)
(* and every number of calls that fail.                                    *)
(***************************************************************************)
EXTENDS Conformance, TLAPS

-----------------------------------------------------------------------------
(* The programs.  What the proofs need to know of a block is how it ends   *)
(* what it began, whatever statement fails.                                *)

Codes == {"arithmetic", "print", "variable", "remember", "recall", "keepPrivate", "readPrivate",
          "syntax", "divide", "callTool", "submit", "submitThenTool", "submitFields",
          "submitMissing"}

Given == {"nothing", "tool", "fields"}

\* The statements that the programs are made of.
Statements ==
    {s \in [op : {"new", "assert", "start", "execute", "configure", "calls", "shutdown"},
            who : Slots, what : Codes \cup Given \cup {"none"} \cup Nat, want : SUBSET Outcomes,
            metric : Metrics \cup {"none"}] :
        /\ s.op = "execute" => s.what \in Codes
        /\ s.op = "configure" => s.what \in Given
        /\ s.op \in {"new", "assert", "configure", "calls", "shutdown"} => s.want = {"value"}}

Proper(b) == /\ b.lines \in Seq(Statements)
             /\ b.try \in 1..b.finally
             /\ b.finally \in 1..(Len(b.lines) + 1)

Shuts(s, who) == s.op = "shutdown" /\ s.who = who

\* An exception at position k of block b does not skip position s, or it is
\* the failure of a factory, of a shutdown, of an assertion or, in
\* benchmark_interpreter, of start before try: these are excused.  (The probe of
\* memory before try does not fail.)
Kept(b, late, k, s) ==
    \/ b.lines[k].op \in {"new", "assert", "shutdown"}
    \/ b.try <= k /\ k < b.finally /\ b.finally <= s
    \/ /\ late /\ k < b.try /\ b.try <= Len(b.lines)
       /\ \/ b.lines[k].want = Outcomes
          \/ b.lines[k].op = "start" /\ "value" \in b.lines[k].want

\* From position l on, block b will shut down the session in slot who.
Ensured(b, late, l, who) ==
    \E s \in l..Len(b.lines) : /\ Shuts(b.lines[s], who)
                               /\ \A k \in l..(s - 1) : Kept(b, late, k, s)

Closes(b, late) ==
    \A l \in 1..Len(b.lines) :
        b.lines[l].op = "new" => Ensured(b, late, l + 1, b.lines[l].who)

\* Before try a session is started right after its construction.
StartsFresh(b) ==
    \A l \in 1..Len(b.lines) :
        b.lines[l].op = "start" /\ "value" \in b.lines[l].want /\ l < b.try /\ b.try <= Len(b.lines)
           => l > 1 /\ b.lines[l - 1].op = "new" /\ b.lines[l - 1].who = b.lines[l].who

Sound(b, late) == Proper(b) /\ Closes(b, late) /\ StartsFresh(b)

LEMMA Spoken ==
    /\ \A who \in Slots :
          New(who) \in Statements /\ Assert(who) \in Statements /\ Shut(who) \in Statements
    /\ \A who \in Slots, want \in SUBSET Outcomes : Start(who, want) \in Statements
    /\ \A who \in Slots, code \in Codes, want \in SUBSET Outcomes :
          Execute(who, code, want) \in Statements
    /\ \A who \in Slots, given \in Given : Configure(who, given) \in Statements
    /\ \A number \in Nat : ToolCalls(number) \in Statements
    /\ \A s \in Statements, m \in Metrics : Timed(s, m) \in Statements
<1> USE DEF Statements, Statement
<1>1. /\ \A who \in Slots :
            New(who) \in Statements /\ Assert(who) \in Statements /\ Shut(who) \in Statements
      /\ \A who \in Slots, want \in SUBSET Outcomes : Start(who, want) \in Statements
  BY DEF New, Assert, Shut, Start, Outcomes
<1>2. \A who \in Slots, code \in Codes, want \in SUBSET Outcomes :
          Execute(who, code, want) \in Statements
  BY DEF Execute
<1>3. /\ \A who \in Slots, given \in Given : Configure(who, given) \in Statements
      /\ \A number \in Nat : ToolCalls(number) \in Statements
  BY DEF Configure, ToolCalls, Slots, Outcomes
<1>4. \A s \in Statements, m \in Metrics : Timed(s, m) \in Statements
  BY DEF Timed
<1> QED  BY <1>1, <1>2, <1>3, <1>4

LEMMA Cat ==
    ASSUME NEW S, NEW p \in Seq(S), NEW q \in Seq(S)
    PROVE  /\ p \o q \in Seq(S)
           /\ Len(p \o q) = Len(p) + Len(q)
           /\ \A i \in 1..Len(p) : (p \o q)[i] = p[i]
           /\ \A i \in 1..Len(q) : (p \o q)[Len(p) + i] = q[i]
  OBVIOUS

LEMMA One == ASSUME NEW S, NEW e \in S PROVE <<e>> \in Seq(S) /\ Len(<<e>>) = 1 /\ <<e>>[1] = e
  OBVIOUS

LEMMA Repeated ==
    ASSUME NEW S, NEW e \in S, NEW n \in Nat
    PROVE  /\ Repeat(n, e) \in Seq(S) /\ Len(Repeat(n, e)) = n
           /\ \A i \in 1..n : Repeat(n, e)[i] = e
  BY DEF Repeat

\* A block that does not end in a cleanup of a benchmark ends the same in one.
LEMMA SoundLate == ASSUME NEW b, Sound(b, FALSE), NEW late \in BOOLEAN PROVE Sound(b, late)
  BY DEF Sound, Closes, Ensured, Kept

\* b is try: body finally: last, for the one session that first constructs.
Keeper(b, first, body, last) ==
    /\ first \in Statements /\ first.op = "new"
    /\ last \in Statements /\ Shuts(last, first.who)
    /\ body \in Seq(Statements) /\ \A i \in 1..Len(body) : body[i].op # "new"
    /\ b.lines = <<first>> \o body \o <<last>>
    /\ b.try = 2 /\ b.finally = Len(body) + 2

Holds(b, body) == \A i \in 1..Len(body) : b.lines[i + 1] = body[i]

LEMMA OneSession ==
    ASSUME NEW b, NEW first, NEW body, NEW last, Keeper(b, first, body, last)
    PROVE  /\ Sound(b, FALSE)
           /\ Len(b.lines) = Len(body) + 2
           /\ b.lines[1] = first /\ Holds(b, body) /\ b.lines[Len(body) + 2] = last
<1>0. /\ first \in Statements /\ first.op = "new"
      /\ last \in Statements /\ Shuts(last, first.who)
      /\ body \in Seq(Statements) /\ \A i \in 1..Len(body) : body[i].op # "new"
  BY DEF Keeper
<1> DEFINE n == Len(body)
           p == <<first>> \o body
<1>1. /\ p \in Seq(Statements) /\ Len(p) = n + 1 /\ n \in Nat
      /\ p[1] = first /\ \A i \in 1..n : p[i + 1] = body[i]
  <2>1. <<first>> \in Seq(Statements) /\ Len(<<first>>) = 1 /\ <<first>>[1] = first
    BY <1>0, One
  <2> QED  BY <1>0, <2>1, Cat
<1>2. b.lines = p \o <<last>> /\ b.try = 2 /\ b.finally = n + 2
  BY DEF Keeper
<1> HIDE DEF p, n
<1>3. /\ b.lines \in Seq(Statements) /\ Len(b.lines) = n + 2
      /\ b.try = 2 /\ b.finally = n + 2
      /\ \A i \in 1..(n + 1) : b.lines[i] = p[i]
      /\ b.lines[n + 2] = last
  <2>1. /\ p \o <<last>> \in Seq(Statements) /\ Len(p \o <<last>>) = n + 2
        /\ \A i \in 1..(n + 1) : (p \o <<last>>)[i] = p[i]
        /\ (p \o <<last>>)[n + 2] = last
    <3>1. <<last>> \in Seq(Statements) /\ Len(<<last>>) = 1 /\ <<last>>[1] = last
      BY <1>0, One
    <3> QED  BY <1>1, <3>1, Cat
  <2> QED  BY <1>2, <2>1
<1>4. /\ b.lines[1] = first
      /\ \A i \in 1..n : b.lines[i + 1] = body[i]
  BY <1>1, <1>3
<1>5. Proper(b)
  BY <1>1, <1>3 DEF Proper
<1>6. \A l \in 2..(n + 2) : b.lines[l].op # "new"
  <2>1. \A i \in 1..n : b.lines[i + 1].op # "new"
    BY <1>0, <1>4 DEF n
  <2>2. \A l \in 2..(n + 1) : l - 1 \in 1..n /\ (l - 1) + 1 = l
    BY <1>1
  <2>3. \A l \in 2..(n + 1) : b.lines[l].op # "new"
    BY <2>1, <2>2
  <2>4. b.lines[n + 2].op # "new"
    BY <1>0, <1>3 DEF Shuts
  <2> QED  BY <1>1, <2>3, <2>4
<1>7. Closes(b, FALSE)
  <2> SUFFICES ASSUME NEW l \in 1..Len(b.lines), b.lines[l].op = "new"
               PROVE  Ensured(b, FALSE, l + 1, b.lines[l].who)
    BY DEF Closes
  <2>1. l + 1 = 2 /\ b.lines[l].who = first.who
    BY <1>1, <1>3, <1>4, <1>6
  <2>2. n + 2 \in 2..Len(b.lines) /\ Shuts(b.lines[n + 2], first.who)
    BY <1>0, <1>1, <1>3
  <2>3. \A k \in 2..((n + 2) - 1) : Kept(b, FALSE, k, n + 2)
    BY <1>1, <1>3 DEF Kept
  <2>4. Ensured(b, FALSE, 2, first.who)
    BY <2>2, <2>3 DEF Ensured
  <2> QED  BY <2>1, <2>4, Zenon
<1>8. StartsFresh(b)
  BY <1>0, <1>1, <1>3, <1>4 DEF StartsFresh
<1> QED
  BY <1>3, <1>4, <1>5, <1>7, <1>8 DEF Sound, Holds, n

LEMMA Tried ==
    ASSUME NEW first \in Statements, NEW body \in Seq(Statements), NEW last
    PROVE  LET b == Try(<<first>>, body, <<last>>) IN
           b.lines = <<first>> \o body \o <<last>> /\ b.try = 2 /\ b.finally = Len(body) + 2
<1>1. Len(<<first>>) = 1 /\ Len(<<first>> \o body) = Len(body) + 1 /\ Len(body) \in Nat
  BY One, Cat
<1> QED  BY <1>1 DEF Try

\* What a block does with the session that it has constructed.
Inner == {s \in Statements : s.op # "new"}

LEMMA InnerSpoken ==
    /\ \A who \in Slots, want \in SUBSET Outcomes : Start(who, want) \in Inner
    /\ \A who \in Slots, code \in Codes, want \in SUBSET Outcomes : Execute(who, code, want) \in Inner
    /\ \A who \in Slots, given \in {"nothing", "tool", "fields"} : Configure(who, given) \in Inner
    /\ \A number \in Nat : ToolCalls(number) \in Inner
    /\ \A who \in Slots : Shut(who) \in Inner
    /\ \A s \in Inner, m \in Metrics : Timed(s, m) \in Inner
<1>1. /\ \A who \in Slots, want \in SUBSET Outcomes : Start(who, want) \in Inner
      /\ \A who \in Slots : Shut(who) \in Inner
  BY Spoken DEF Inner, Start, Shut, Statement
<1>2. \A who \in Slots, code \in Codes, want \in SUBSET Outcomes : Execute(who, code, want) \in Inner
  BY Spoken DEF Inner, Execute, Statement
<1>3. /\ \A who \in Slots, given \in {"nothing", "tool", "fields"} : Configure(who, given) \in Inner
      /\ \A number \in Nat : ToolCalls(number) \in Inner
  BY Spoken DEF Inner, Configure, ToolCalls, Statement, Given
<1>4. \A s \in Inner, m \in Metrics : Timed(s, m) \in Inner
  BY Spoken DEF Inner, Timed, Statements
<1> QED  BY <1>1, <1>2, <1>3, <1>4

LEMMA InnerBody ==
    ASSUME NEW body \in Seq(Inner)
    PROVE  body \in Seq(Statements) /\ \A i \in 1..Len(body) : body[i].op # "new"
<1>1. \A s \in Inner : s \in Statements /\ s.op # "new"
  BY DEF Inner
<1>2. \A i \in 1..Len(body) : body[i] \in Inner
  OBVIOUS
<1> QED  BY <1>1, <1>2

LEMMA WithSound == ASSUME NEW body \in Seq(Inner) PROVE Sound(With(body), FALSE)
<1>1. /\ New("first") \in Statements /\ New("first").op = "new"
      /\ Shut("first") \in Statements /\ Shuts(Shut("first"), New("first").who)
  BY Spoken DEF New, Shut, Statement, Shuts, Slots
<1> DEFINE b == With(body)
<1>2. /\ b.lines = <<New("first")>> \o body \o <<Shut("first")>>
      /\ b.try = 2 /\ b.finally = Len(body) + 2
  BY <1>1, InnerBody, Tried DEF With
<1> HIDE DEF b
<1>3. Keeper(b, New("first"), body, Shut("first"))
  BY <1>1, <1>2, InnerBody DEF Keeper
<1> QED  BY <1>3, OneSession DEF b

\* One to four statements.
LEMMA Few == ASSUME NEW S, NEW p \in S, NEW q \in S, NEW r \in S, NEW s \in S
             PROVE  {<<p>>, <<p, q>>, <<p, q, r>>, <<p, q, r, s>>} \subseteq Seq(S)
  OBVIOUS

\* A block without try whose first session is shut down at once.
LEMMA AtOnce ==
    ASSUME NEW lines \in Seq(Statements), Len(lines) > 1,
           lines[1] = New("first"), lines[2] = Shut("first"),
           \A l \in 2..Len(lines) : lines[l].op # "new"
    PROVE  Sound(Unguarded(lines), FALSE)
<1> DEFINE b == Unguarded(lines)
<1>1. b.lines = lines /\ b.try = Len(lines) + 1 /\ b.finally = Len(lines) + 1 /\ Len(lines) \in Nat
  BY DEF Unguarded
<1> HIDE DEF b
<1>2. Proper(b)
  BY <1>1 DEF Proper
<1>3. Closes(b, FALSE)
  <2> SUFFICES ASSUME NEW l \in 1..Len(lines), lines[l].op = "new"
               PROVE  Ensured(b, FALSE, l + 1, lines[l].who)
    BY <1>1 DEF Closes
  <2>1. l + 1 = 2 /\ lines[l].who = "first"
    BY <1>1 DEF New, Statement
  <2>2. 2 \in 2..Len(b.lines) /\ Shuts(b.lines[2], "first")
    BY <1>1 DEF Shuts, Shut, Statement
  <2>3. \A k \in 2..(2 - 1) : Kept(b, FALSE, k, 2)
    OBVIOUS
  <2>4. Ensured(b, FALSE, 2, "first")
    BY <2>2, <2>3 DEF Ensured
  <2> QED  BY <2>1, <2>4, Zenon
<1>4. StartsFresh(b)
  BY <1>1 DEF StartsFresh
<1> QED  BY <1>2, <1>3, <1>4 DEF Sound, b

LEMMA IsolationIs ==
    /\ Isolation.lines \in Seq(Statements) /\ Len(Isolation.lines) = 6
    /\ Isolation.try = 3 /\ Isolation.finally = 5
    /\ Isolation.lines[1] = New("first") /\ Isolation.lines[2] = New("second")
    /\ Isolation.lines[3] = Execute("first", "keepPrivate", Good)
    /\ Isolation.lines[4] = Execute("second", "readPrivate", {"CodeExecutionError"})
    /\ Isolation.lines[5] = Shut("first") /\ Isolation.lines[6] = Shut("second")
<1> DEFINE p == <<New("first"), New("second")>>
           q == <<Execute("first", "keepPrivate", Good),
                  Execute("second", "readPrivate", {"CodeExecutionError"})>>
           r == <<Shut("first"), Shut("second")>>
           b == Isolation
<1>1. {p, q, r} \subseteq Seq(Statements) /\ Len(p) = 2 /\ Len(q) = 2 /\ Len(r) = 2
  BY Spoken, Few DEF Slots, Codes, Outcomes, Good
<1>2. /\ b.lines = p \o q \o r
      /\ b.try = Len(p) + 1 /\ b.finally = Len(p \o q) + 1
  BY DEF Isolation, Try
<1>3. /\ p \o q \in Seq(Statements) /\ Len(p \o q) = 4
      /\ \A i \in 1..2 : (p \o q)[i] = p[i] /\ (p \o q)[2 + i] = q[i]
  <2> HIDE DEF p, q
  <2>1. /\ p \o q \in Seq(Statements) /\ Len(p \o q) = Len(p) + Len(q)
        /\ \A i \in 1..Len(p) : (p \o q)[i] = p[i]
        /\ \A i \in 1..Len(q) : (p \o q)[Len(p) + i] = q[i]
    <3>1. p \in Seq(Statements) /\ q \in Seq(Statements)
      BY <1>1
    <3> QED  BY <3>1, Cat
  <2> QED  BY <1>1, <2>1
<1>4. /\ b.lines \in Seq(Statements) /\ Len(b.lines) = 6 /\ b.try = 3 /\ b.finally = 5
      /\ \A i \in 1..4 : b.lines[i] = (p \o q)[i]
      /\ \A i \in 1..2 : b.lines[4 + i] = r[i]
  <2> HIDE DEF p, q, r, b
  <2> QED  BY <1>1, <1>2, <1>3, Cat
<1>5. /\ b.lines[1] = p[1] /\ b.lines[2] = p[2] /\ b.lines[3] = q[1] /\ b.lines[4] = q[2]
      /\ b.lines[5] = r[1] /\ b.lines[6] = r[2]
  <2> HIDE DEF p, q, r, b
  <2>1. 1 \in 1..2 /\ 2 \in 1..2 /\ 2 + 1 = 3 /\ 2 + 2 = 4 /\ 4 + 1 = 5 /\ 4 + 2 = 6
        /\ {1, 2, 3, 4} \subseteq 1..4
    OBVIOUS
  <2> QED  BY <1>3, <1>4, <2>1
<1> QED  BY <1>4, <1>5

LEMMA IsolationSound == Sound(Isolation, FALSE)
<1> DEFINE b == Isolation
<1>4. /\ b.lines \in Seq(Statements) /\ Len(b.lines) = 6 /\ b.try = 3 /\ b.finally = 5
  BY IsolationIs
<1>5. /\ b.lines[1] = New("first") /\ b.lines[2] = New("second")
      /\ b.lines[3].op = "execute" /\ b.lines[4].op = "execute"
      /\ b.lines[5] = Shut("first") /\ b.lines[6] = Shut("second")
  BY IsolationIs DEF Execute, Statement
<1> HIDE DEF b
<1>6. Proper(b)
  BY <1>4 DEF Proper
<1>7. Closes(b, FALSE)
  <2>1. Ensured(b, FALSE, 2, "first")
    <3>1. 5 \in 2..Len(b.lines) /\ Shuts(b.lines[5], "first")
      BY <1>4, <1>5 DEF Shuts, Shut, Statement
    <3>2. \A k \in 2..(5 - 1) : Kept(b, FALSE, k, 5)
      BY <1>4, <1>5 DEF Kept, New, Statement
    <3> QED  BY <3>1, <3>2 DEF Ensured
  <2>2. Ensured(b, FALSE, 3, "second")
    <3>1. 6 \in 3..Len(b.lines) /\ Shuts(b.lines[6], "second")
      BY <1>4, <1>5 DEF Shuts, Shut, Statement
    <3>2. \A k \in 3..(6 - 1) : Kept(b, FALSE, k, 6)
      BY <1>4, <1>5 DEF Kept, Shut, Statement
    <3> QED  BY <3>1, <3>2 DEF Ensured
  <2> SUFFICES ASSUME NEW l \in 1..Len(b.lines), b.lines[l].op = "new"
               PROVE  Ensured(b, FALSE, l + 1, b.lines[l].who)
    BY DEF Closes
  <2>3. (l + 1 = 2 /\ b.lines[l].who = "first") \/ (l + 1 = 3 /\ b.lines[l].who = "second")
    BY <1>4, <1>5 DEF New, Shut, Statement
  <2> QED  BY <2>1, <2>2, <2>3, Zenon
<1>8. StartsFresh(b)
  BY <1>4, <1>5 DEF StartsFresh, New, Statement
<1> QED  BY <1>6, <1>7, <1>8 DEF Sound, b

LEMMA ProtocolIs ==
    /\ Protocol.lines \in Seq(Statements) /\ Len(Protocol.lines) = 3
    /\ Protocol.try = 4 /\ Protocol.finally = 4
    /\ Protocol.lines[1] = New("first") /\ Protocol.lines[2] = Assert("first")
    /\ Protocol.lines[3] = Shut("first")
<1> DEFINE lines == <<New("first"), Assert("first"), Shut("first")>>
<1>1. /\ lines \in Seq(Statements) /\ Len(lines) = 3
      /\ lines[1] = New("first") /\ lines[2] = Assert("first") /\ lines[3] = Shut("first")
  BY Spoken DEF Slots
<1>2. Protocol = Unguarded(lines)
  BY DEF Protocol
<1> HIDE DEF lines
<1> QED  BY <1>1, <1>2 DEF Unguarded

\* The session of _protocol is shut down unless an assertion fails.
LEMMA ProtocolSound == Sound(Protocol, FALSE)
<1> DEFINE b == Protocol
<1>1. /\ b.lines \in Seq(Statements) /\ Len(b.lines) = 3 /\ b.try = 4 /\ b.finally = 4
  BY ProtocolIs
<1>2. /\ b.lines[1].op = "new" /\ b.lines[1].who = "first"
      /\ b.lines[2].op = "assert" /\ b.lines[3].op = "shutdown" /\ b.lines[3].who = "first"
  BY ProtocolIs DEF New, Assert, Shut, Statement
<1> HIDE DEF b
<1>3. Proper(b)
  BY <1>1 DEF Proper
<1>4. Ensured(b, FALSE, 2, "first")
  <2>1. 3 \in 2..Len(b.lines) /\ Shuts(b.lines[3], "first")
    BY <1>1, <1>2 DEF Shuts
  <2>2. \A k \in 2..(3 - 1) : Kept(b, FALSE, k, 3)
    BY <1>2 DEF Kept
  <2> QED  BY <2>1, <2>2 DEF Ensured
<1>5. Closes(b, FALSE)
  <2> SUFFICES ASSUME NEW l \in 1..Len(b.lines), b.lines[l].op = "new"
               PROVE  Ensured(b, FALSE, l + 1, b.lines[l].who)
    BY DEF Closes
  <2>1. l + 1 = 2 /\ b.lines[l].who = "first"
    BY <1>1, <1>2
  <2> QED  BY <1>4, <2>1, Zenon
<1>6. StartsFresh(b)
  BY <1>1, <1>2 DEF StartsFresh
<1> QED  BY <1>3, <1>5, <1>6 DEF Sound, b

LEMMA OneBlock ==
    ASSUME NEW blocks, NEW b, blocks = <<b>>, Sound(b, FALSE)
    PROVE  /\ Len(blocks) \in Nat \ {0}
           /\ \A i \in 1..Len(blocks) : Sound(blocks[i], FALSE)
<1>1. Len(blocks) \in Nat \ {0} /\ \A i \in 1..Len(blocks) : blocks[i] = b
  OBVIOUS
<1> QED  BY <1>1, Zenon

LEMMA TwoBlocks ==
    ASSUME NEW blocks, NEW a, NEW b, blocks = <<a, b>>, Sound(a, FALSE), Sound(b, FALSE)
    PROVE  /\ Len(blocks) \in Nat \ {0}
           /\ \A i \in 1..Len(blocks) : Sound(blocks[i], FALSE)
<1>1. Len(blocks) \in Nat \ {0} /\ \A i \in 1..Len(blocks) : blocks[i] \in {a, b}
  OBVIOUS
<1> QED  BY <1>1, Zenon

\* The ten checks.
LEMMA ChecksSound ==
    /\ Len(Checks) = 10
    /\ \A c \in 1..10 : /\ Len(Checks[c]) \in Nat \ {0}
                        /\ \A b \in 1..Len(Checks[c]) : Sound(Checks[c][b], FALSE)
<1>1. /\ Len(Checks) = 10
      /\ Checks[1] = <<Protocol>>
      /\ Checks[2] = <<Lifecycle>>
      /\ Checks[3] = <<With(<<Execute("first", "print", Good),
                              Execute("first", "arithmetic", Good)>>)>>
      /\ Checks[4] = <<Persistence>>
      /\ Checks[5] = <<Isolation>>
      /\ Checks[6] = <<Errors>>
      /\ Checks[7] = <<Tools>>
      /\ Checks[8] = <<Untyped, Typed>>
      /\ Checks[9] = <<Terminates>>
      /\ Checks[10] = <<Terminal>>
  BY DEF Checks
<1>2. Sound(Protocol, FALSE)
  BY ProtocolSound
<1>3. Sound(Terminal, FALSE)
  <2> DEFINE lines == <<New("first"), Shut("first"), Shut("first"),
                        Start("first", {"CodeInterpreterError"}),
                        Execute("first", "arithmetic", {"CodeInterpreterError"})>>
  <2>1. /\ lines \in Seq(Statements) /\ Len(lines) = 5
        /\ lines[1] = New("first") /\ lines[2] = Shut("first")
    BY Spoken DEF Slots, Codes, Outcomes, Good
  <2>2. \A l \in 2..5 : lines[l].op # "new"
    BY DEF Shut, Start, Execute, Statement
  <2> HIDE DEF lines
  <2>3. Len(lines) > 1 /\ \A l \in 2..Len(lines) : lines[l].op # "new"
    BY <2>1, <2>2
  <2>4. Sound(Unguarded(lines), FALSE)
    BY <2>1, <2>3, AtOnce
  <2> QED  BY <2>4 DEF lines, Terminal
<1>4. Sound(Lifecycle, FALSE)
  BY InnerSpoken, Few, WithSound
  DEF Lifecycle, Slots, Codes, Outcomes, Good
<1>5. Sound(With(<<Execute("first", "print", Good), Execute("first", "arithmetic", Good)>>), FALSE)
  BY InnerSpoken, Few, WithSound
  DEF Slots, Codes, Outcomes, Good
<1>6. Sound(Persistence, FALSE)
  BY InnerSpoken, Few, WithSound
  DEF Persistence, Slots, Codes, Outcomes, Good
<1>7. Sound(Errors, FALSE)
  BY InnerSpoken, Few, WithSound
  DEF Errors, Slots, Codes, Outcomes, Good
<1>8. Sound(Tools, FALSE)
  BY InnerSpoken, Few, WithSound
  DEF Tools, Slots, Codes, Outcomes, Good
<1>9. Sound(Untyped, FALSE) /\ Sound(Typed, FALSE)
  BY InnerSpoken, Few, WithSound
  DEF Untyped, Typed, Slots, Codes, Outcomes, Good
<1>10. Sound(Terminates, FALSE)
  BY InnerSpoken, Few, WithSound
  DEF Terminates, Final, Slots, Codes, Outcomes, Good
<1> DEFINE Fine(c) == /\ Len(Checks[c]) \in Nat \ {0}
                      /\ \A b \in 1..Len(Checks[c]) : Sound(Checks[c][b], FALSE)
<1>11. Fine(1)
  BY <1>1, <1>2, OneBlock
<1>12. Fine(2)
  BY <1>1, <1>4, OneBlock
<1>13. Fine(3)
  BY <1>1, <1>5, OneBlock
<1>14. Fine(4)
  BY <1>1, <1>6, OneBlock
<1>15. Fine(5)
  BY <1>1, IsolationSound, OneBlock
<1>16. Fine(6)
  BY <1>1, <1>7, OneBlock
<1>17. Fine(7)
  BY <1>1, <1>8, OneBlock
<1>18. Fine(8)
  BY <1>1, <1>9, TwoBlocks
<1>19. Fine(9)
  BY <1>1, <1>10, OneBlock
<1>20. Fine(10)
  BY <1>1, <1>3, OneBlock
<1>21. ASSUME NEW c \in 1..10 PROVE Fine(c)
  <2> HIDE DEF Fine
  <2>1. c \in {1, 2, 3, 4, 5, 6, 7, 8, 9, 10}
    OBVIOUS
  <2> QED  BY <1>11, <1>12, <1>13, <1>14, <1>15, <1>16, <1>17,
     <1>18, <1>19, <1>20, <2>1
<1> QED  BY <1>1, <1>21

-----------------------------------------------------------------------------
(* The program of benchmark_interpreter, line by line. *)

\* A statement that is timed, and ends the program unless it succeeds.
Clocked(s, op, metric) == s.op = op /\ s.metric = metric /\ s.want = {"value"} /\ s.who = "first"

\* One that is not timed.
Plain(s, op) == s.op = op /\ s.metric = "none" /\ s.who = "first"

LEMMA ColdIs ==
    /\ Sound(ColdRun, FALSE)
    /\ Len(ColdRun.lines) = 4
    /\ Clocked(ColdRun.lines[1], "new", "construction")
    /\ Clocked(ColdRun.lines[2], "start", "start")
    /\ Clocked(ColdRun.lines[3], "execute", "first_execute")
    /\ Clocked(ColdRun.lines[4], "shutdown", "shutdown")
<1> DEFINE first == Timed(New("first"), "construction")
           body == <<Timed(Start("first", Good), "start"),
                     Timed(Execute("first", "arithmetic", Good), "first_execute")>>
           last == Timed(Shut("first"), "shutdown")
           b == Try(<<first>>, body, <<last>>)
<1>1. first \in Statements /\ Clocked(first, "new", "construction")
  BY Spoken DEF Slots, Metrics, Clocked, Timed, New, Statement
<1>2. last \in Statements /\ Clocked(last, "shutdown", "shutdown")
  BY Spoken DEF Slots, Metrics, Clocked, Timed, Shut, Statement
<1>3. /\ body[1] \in Inner /\ body[2] \in Inner /\ Len(body) = 2 /\ body = <<body[1], body[2]>>
      /\ Clocked(body[1], "start", "start") /\ Clocked(body[2], "execute", "first_execute")
  <2>1. Start("first", Good) \in Inner /\ Execute("first", "arithmetic", Good) \in Inner
    BY InnerSpoken DEF Slots, Codes, Outcomes, Good
  <2>2. body[1] \in Inner /\ body[2] \in Inner
    BY <2>1, InnerSpoken DEF Metrics
  <2> QED  BY <2>2 DEF Clocked, Timed, Start, Execute, Statement, Good
<1>4. body \in Seq(Inner)
  BY <1>3, Few
<1>5. body \in Seq(Statements) /\ \A i \in 1..Len(body) : body[i].op # "new"
  <2> HIDE DEF body
  <2> QED  BY <1>4, InnerBody
<1>6. /\ Sound(b, FALSE) /\ Len(b.lines) = Len(body) + 2 /\ b.lines[1] = first
      /\ \A i \in 1..Len(body) : b.lines[i + 1] = body[i]
      /\ b.lines[Len(body) + 2] = last
  <2> HIDE DEF body, first, last, b
  <2>1. first.op = "new" /\ Shuts(last, first.who)
    BY <1>1, <1>2 DEF Clocked, Shuts
  <2>2. first \in Statements /\ last \in Statements
    BY <1>1, <1>2
  <2>3. b.lines = <<first>> \o body \o <<last>> /\ b.try = 2 /\ b.finally = Len(body) + 2
    BY <1>5, <2>2, Tried DEF b
  <2>4. Keeper(b, first, body, last)
    BY <1>5, <2>1, <2>2, <2>3 DEF Keeper
  <2>5. Sound(b, FALSE)
    BY <2>4, OneSession
  <2>6. Len(b.lines) = Len(body) + 2 /\ b.lines[1] = first
    BY <2>4, OneSession
  <2>7. \A i \in 1..Len(body) : b.lines[i + 1] = body[i]
    <3>1. Holds(b, body)
      BY <2>4, OneSession
    <3> QED  BY <3>1 DEF Holds
  <2>8. b.lines[Len(body) + 2] = last
    BY <2>4, OneSession, Zenon
  <2> QED  BY <2>5, <2>6, <2>7, <2>8
<1>7. /\ Len(b.lines) = 4 /\ b.lines[1] = first /\ b.lines[2] = body[1]
      /\ b.lines[3] = body[2] /\ b.lines[4] = last
  <2> HIDE DEF b, body, first, last
  <2>1. 1 \in 1..2 /\ 2 \in 1..2 /\ 1 + 1 = 2 /\ 2 + 1 = 3 /\ 2 + 2 = 4
    OBVIOUS
  <2> QED  BY <1>3, <1>6, <2>1
<1>8. ColdRun = b
  BY DEF ColdRun
<1> QED
  <2> HIDE DEF b, body, first, last
  <2> QED  BY <1>1, <1>2, <1>3, <1>6, <1>7, <1>8

Large(n) == IF n < 5 THEN n ELSE 5

\* Where the statements of a warm run with n of each call are.
LEMMA WarmIs ==
    ASSUME NEW n \in Nat \ {0}
    PROVE  LET b == WarmRun(n)
               at == b.lines
               m == Large(n)
           IN  /\ at \in Seq(Statements) /\ Len(at) = 2 * n + m + 7 /\ m \in 1..5 /\ m <= n
               /\ b.try = 4 /\ b.finally = 2 * n + m + 7
               /\ at[1] = New("first") /\ at[2] = Start("first", Good) /\ at[3] = Probe
               /\ \A i \in 1..n : Clocked(at[3 + i], "execute", "warm_execute")
               /\ Plain(at[n + 4], "configure")
               /\ \A i \in 1..n : Clocked(at[n + 4 + i], "execute", "host_tool_round_trip")
               /\ \A i \in 1..m : Clocked(at[2 * n + 4 + i], "execute", "one_megabyte_variable")
               /\ Plain(at[2 * n + m + 5], "execute")
               /\ at[2 * n + m + 6] = Probe
               /\ at[2 * n + m + 7] = Shut("first")
<1> DEFINE m == Large(n)
           p == <<New("first"), Start("first", Good), Probe>>
           e1 == Timed(Execute("first", "arithmetic", Good), "warm_execute")
           e2 == Timed(Execute("first", "callTool", Good), "host_tool_round_trip")
           e3 == Timed(Execute("first", "variable", Good), "one_megabyte_variable")
           c == Configure("first", "tool")
           e4 == Execute("first", "arithmetic", Good)
           last == Shut("first")
           q1 == Repeat(n, e1) \o <<c>>
           q2 == q1 \o Repeat(n, e2)
           q3 == q2 \o Repeat(m, e3)
           q4 == q3 \o <<e4, Probe>>
           q5 == p \o q4
           at == q5 \o <<last>>
<1>1. m \in Nat /\ m \in 1..5 /\ m <= n
  BY DEF Large
<1>2. /\ e1 \in Statements /\ e2 \in Statements /\ e3 \in Statements /\ e4 \in Statements
      /\ c \in Statements /\ last \in Statements /\ Probe \in Statements
      /\ New("first") \in Statements /\ Start("first", Good) \in Statements
  <2>1. /\ \A code \in {"arithmetic", "callTool", "variable"} :
              Execute("first", code, Good) \in Statements
        /\ Execute("first", "arithmetic", Outcomes) \in Statements
        /\ c \in Statements /\ last \in Statements
        /\ New("first") \in Statements /\ Start("first", Good) \in Statements
    BY Spoken DEF Slots, Codes, Given, Outcomes, Good
  <2> QED  BY <2>1, Spoken DEF Metrics, Probe
<1>3. /\ Clocked(e1, "execute", "warm_execute")
      /\ Clocked(e2, "execute", "host_tool_round_trip")
      /\ Clocked(e3, "execute", "one_megabyte_variable")
      /\ Plain(c, "configure") /\ Plain(e4, "execute")
  BY DEF Clocked, Plain, Timed, Execute, Configure, Statement, Good
<1>4. WarmRun(n) = [lines |-> at, try |-> Len(p) + 1, finally |-> Len(q5) + 1]
  BY DEF WarmRun, Try, Large
<1>5. p \in Seq(Statements) /\ Len(p) = 3 /\ p[1] = New("first")
      /\ p[2] = Start("first", Good) /\ p[3] = Probe
  BY <1>2, Few
<1>6. /\ q1 \in Seq(Statements) /\ Len(q1) = n + 1
      /\ \A i \in 1..n : q1[i] = e1
      /\ q1[n + 1] = c
  <2> HIDE DEF e1, c
  <2> DEFINE r == Repeat(n, e1)
             s == <<c>>
  <2>1. r \in Seq(Statements) /\ Len(r) = n /\ \A i \in 1..n : r[i] = e1
    BY <1>2, Repeated
  <2>2. s \in Seq(Statements) /\ Len(s) = 1 /\ s[1] = c
    BY <1>2, One
  <2> HIDE DEF r, s
  <2>3. /\ r \o s \in Seq(Statements) /\ Len(r \o s) = Len(r) + Len(s)
        /\ \A i \in 1..Len(r) : (r \o s)[i] = r[i]
        /\ \A i \in 1..Len(s) : (r \o s)[Len(r) + i] = s[i]
    <3>1. r \in Seq(Statements) /\ s \in Seq(Statements)
      BY <2>1, <2>2
    <3> QED  BY <3>1, Cat
  <2>4. q1 = r \o s
    BY DEF r, s
  <2> HIDE DEF q1
  <2> QED  BY <2>1, <2>2, <2>3, <2>4
<1>7. /\ q2 \in Seq(Statements) /\ Len(q2) = 2 * n + 1
      /\ \A i \in 1..n : q2[i] = e1
      /\ q2[n + 1] = c
      /\ \A i \in 1..n : q2[n + 1 + i] = e2
  <2> HIDE DEF e1, e2, c, q1
  <2> DEFINE s == Repeat(n, e2)
  <2>1. s \in Seq(Statements) /\ Len(s) = n /\ \A i \in 1..n : s[i] = e2
    BY <1>2, Repeated
  <2>2. q2 = q1 \o s
    OBVIOUS
  <2> HIDE DEF s, q2
  <2>3. /\ q2 \in Seq(Statements) /\ Len(q2) = Len(q1) + Len(s)
        /\ \A i \in 1..Len(q1) : q2[i] = q1[i]
        /\ \A i \in 1..Len(s) : q2[Len(q1) + i] = s[i]
    <3>1. q1 \in Seq(Statements) /\ s \in Seq(Statements)
      BY <1>6, <2>1
    <3>2. /\ q1 \o s \in Seq(Statements) /\ Len(q1 \o s) = Len(q1) + Len(s)
          /\ \A i \in 1..Len(q1) : (q1 \o s)[i] = q1[i]
          /\ \A i \in 1..Len(s) : (q1 \o s)[Len(q1) + i] = s[i]
      BY <3>1, Cat
    <3> QED  BY <2>2, <3>2
  <2>4. /\ q2 \in Seq(Statements) /\ Len(q2) = 2 * n + 1
        /\ \A i \in 1..(n + 1) : q2[i] = q1[i]
        /\ \A i \in 1..n : q2[n + 1 + i] = e2
    <3>1. Len(q1) = n + 1 /\ Len(s) = n /\ \A i \in 1..n : s[i] = e2
      BY <1>6, <2>1
    <3>2. /\ q2 \in Seq(Statements) /\ Len(q2) = 2 * n + 1
          /\ \A i \in 1..(n + 1) : q2[i] = q1[i]
      BY <2>3, <3>1
    <3>3. \A i \in 1..n : q2[n + 1 + i] = s[i]
      BY <2>3, <3>1
    <3> QED  BY <3>1, <3>2, <3>3
  <2>5. n + 1 \in 1..(n + 1) /\ \A i \in 1..n : i \in 1..(n + 1)
    OBVIOUS
  <2> QED  BY <1>6, <2>4, <2>5
<1>8. /\ q3 \in Seq(Statements) /\ Len(q3) = 2 * n + 1 + m
      /\ \A i \in 1..n : q3[i] = e1
      /\ q3[n + 1] = c
      /\ \A i \in 1..n : q3[n + 1 + i] = e2
      /\ \A i \in 1..m : q3[2 * n + 1 + i] = e3
  <2> HIDE DEF e1, e2, e3, c, m, q2
  <2> DEFINE s == Repeat(m, e3)
  <2>1. s \in Seq(Statements) /\ Len(s) = m /\ \A i \in 1..m : s[i] = e3
    BY <1>1, <1>2, Repeated
  <2>2. q3 = q2 \o s
    OBVIOUS
  <2> HIDE DEF s, q3
  <2>3. /\ q3 \in Seq(Statements) /\ Len(q3) = Len(q2) + Len(s)
        /\ \A i \in 1..Len(q2) : q3[i] = q2[i]
        /\ \A i \in 1..Len(s) : q3[Len(q2) + i] = s[i]
    <3>1. q2 \in Seq(Statements) /\ s \in Seq(Statements)
      BY <1>7, <2>1
    <3>2. /\ q2 \o s \in Seq(Statements) /\ Len(q2 \o s) = Len(q2) + Len(s)
          /\ \A i \in 1..Len(q2) : (q2 \o s)[i] = q2[i]
          /\ \A i \in 1..Len(s) : (q2 \o s)[Len(q2) + i] = s[i]
      BY <3>1, Cat
    <3> QED  BY <2>2, <3>2
  <2>4. \A i \in 1..(2 * n + 1) : q3[i] = q2[i]
    BY <1>7, <2>3
  <2>5. \A i \in 1..n : n + 1 + i \in 1..(2 * n + 1) /\ i \in 1..(2 * n + 1)
    OBVIOUS
  <2>6. /\ q3 \in Seq(Statements) /\ Len(q3) = 2 * n + 1 + m
        /\ \A i \in 1..m : q3[2 * n + 1 + i] = e3
    BY <1>1, <1>7, <2>1, <2>3
  <2>7. \A i \in 1..n : q3[i] = e1 /\ q3[n + 1 + i] = e2
    BY <1>7, <2>4, <2>5
  <2>8. n + 1 \in 1..(2 * n + 1)
    OBVIOUS
  <2> QED  BY <1>7, <2>4, <2>6, <2>7, <2>8
<1>9. /\ q4 \in Seq(Statements) /\ Len(q4) = 2 * n + m + 3
      /\ \A i \in 1..(2 * n + m + 1) : q4[i] = q3[i]
      /\ q4[2 * n + m + 2] = e4 /\ q4[2 * n + m + 3] = Probe
  <2> HIDE DEF e4, m, q3
  <2> DEFINE s == <<e4, Probe>>
  <2>1. s \in Seq(Statements) /\ Len(s) = 2 /\ s[1] = e4 /\ s[2] = Probe
    BY <1>2, Few
  <2>2. q4 = q3 \o s
    OBVIOUS
  <2> HIDE DEF s, q4
  <2>3. /\ q4 \in Seq(Statements) /\ Len(q4) = Len(q3) + Len(s)
        /\ \A i \in 1..Len(q3) : q4[i] = q3[i]
        /\ \A i \in 1..Len(s) : q4[Len(q3) + i] = s[i]
    <3>1. q3 \in Seq(Statements) /\ s \in Seq(Statements)
      BY <1>8, <2>1
    <3>2. /\ q3 \o s \in Seq(Statements) /\ Len(q3 \o s) = Len(q3) + Len(s)
          /\ \A i \in 1..Len(q3) : (q3 \o s)[i] = q3[i]
          /\ \A i \in 1..Len(s) : (q3 \o s)[Len(q3) + i] = s[i]
      BY <3>1, Cat
    <3> QED  BY <2>2, <3>2
  <2>4. 1 \in 1..2 /\ 2 \in 1..2
    OBVIOUS
  <2>5. q4[Len(q3) + 1] = e4 /\ q4[Len(q3) + 2] = Probe
    BY <2>1, <2>3, <2>4
  <2> QED  BY <1>1, <1>8, <2>1, <2>3, <2>5
<1>10. /\ q5 \in Seq(Statements) /\ Len(q5) = 2 * n + m + 6
       /\ \A i \in 1..3 : q5[i] = p[i]
       /\ \A i \in 1..(2 * n + m + 3) : q5[3 + i] = q4[i]
  <2> HIDE DEF p, m, q4
  <2>1. q5 = p \o q4
    OBVIOUS
  <2> HIDE DEF q5
  <2>2. /\ q5 \in Seq(Statements) /\ Len(q5) = Len(p) + Len(q4)
        /\ \A i \in 1..Len(p) : q5[i] = p[i]
        /\ \A i \in 1..Len(q4) : q5[Len(p) + i] = q4[i]
    <3>1. p \in Seq(Statements) /\ q4 \in Seq(Statements)
      BY <1>5, <1>9
    <3>2. /\ p \o q4 \in Seq(Statements) /\ Len(p \o q4) = Len(p) + Len(q4)
          /\ \A i \in 1..Len(p) : (p \o q4)[i] = p[i]
          /\ \A i \in 1..Len(q4) : (p \o q4)[Len(p) + i] = q4[i]
      BY <3>1, Cat
    <3> QED  BY <2>1, <3>2
  <2> QED  BY <1>1, <1>5, <1>9, <2>2
<1>11. /\ at \in Seq(Statements) /\ Len(at) = 2 * n + m + 7
       /\ \A i \in 1..(2 * n + m + 6) : at[i] = q5[i]
       /\ at[2 * n + m + 7] = last
  <2> HIDE DEF last, m, q5
  <2> DEFINE s == <<last>>
  <2>1. s \in Seq(Statements) /\ Len(s) = 1 /\ s[1] = last
    BY <1>2, One
  <2>2. at = q5 \o s
    OBVIOUS
  <2> HIDE DEF s, at
  <2>3. /\ at \in Seq(Statements) /\ Len(at) = Len(q5) + Len(s)
        /\ \A i \in 1..Len(q5) : at[i] = q5[i]
        /\ \A i \in 1..Len(s) : at[Len(q5) + i] = s[i]
    <3>1. q5 \in Seq(Statements) /\ s \in Seq(Statements)
      BY <1>10, <2>1
    <3>2. /\ q5 \o s \in Seq(Statements) /\ Len(q5 \o s) = Len(q5) + Len(s)
          /\ \A i \in 1..Len(q5) : (q5 \o s)[i] = q5[i]
          /\ \A i \in 1..Len(s) : (q5 \o s)[Len(q5) + i] = s[i]
      BY <3>1, Cat
    <3> QED  BY <2>2, <3>2
  <2>4. at[Len(q5) + 1] = last
    BY <2>1, <2>3
  <2> QED  BY <1>1, <1>10, <2>1, <2>3, <2>4
<1> HIDE DEF m, p, e1, e2, e3, e4, c, last, q1, q2, q3, q4, q5, at
<1>12. at[1] = New("first") /\ at[2] = Start("first", Good) /\ at[3] = Probe
  BY <1>1, <1>5, <1>10, <1>11
<1>13. \A i \in 1..(2 * n + m + 3) : at[3 + i] = q4[i]
  <2>1. \A i \in 1..(2 * n + m + 3) : 3 + i \in 1..(2 * n + m + 6)
    BY <1>1
  <2> QED  BY <1>10, <1>11, <2>1
<1>14. \A i \in 1..(2 * n + m + 1) : at[3 + i] = q3[i]
  <2>1. \A i \in 1..(2 * n + m + 1) : i \in 1..(2 * n + m + 3)
    BY <1>1
  <2> QED  BY <1>9, <1>13, <2>1
<1>15. \A i \in 1..n : at[3 + i] = e1
  <2>1. \A i \in 1..n : i \in 1..(2 * n + m + 1)
    BY <1>1
  <2> QED  BY <1>8, <1>14, <2>1
<1>16. at[n + 4] = c
  <2>1. n + 1 \in 1..(2 * n + m + 1) /\ 3 + (n + 1) = n + 4
    BY <1>1
  <2> QED  BY <1>8, <1>14, <2>1
<1>17. \A i \in 1..n : at[n + 4 + i] = e2
  <2>1. \A i \in 1..n : n + 1 + i \in 1..(2 * n + m + 1) /\ 3 + (n + 1 + i) = n + 4 + i
    BY <1>1
  <2> QED  BY <1>8, <1>14, <2>1
<1>18. \A i \in 1..m : at[2 * n + 4 + i] = e3
  <2>1. \A i \in 1..m : /\ 2 * n + 1 + i \in 1..(2 * n + m + 1)
                        /\ 3 + (2 * n + 1 + i) = 2 * n + 4 + i
    BY <1>1
  <2> QED  BY <1>8, <1>14, <2>1
<1>19. at[2 * n + m + 5] = e4 /\ at[2 * n + m + 6] = Probe
  <2>1. /\ 2 * n + m + 2 \in 1..(2 * n + m + 3) /\ 3 + (2 * n + m + 2) = 2 * n + m + 5
        /\ 2 * n + m + 3 \in 1..(2 * n + m + 3) /\ 3 + (2 * n + m + 3) = 2 * n + m + 6
    BY <1>1
  <2> QED  BY <1>9, <1>13, <2>1
<1>20. WarmRun(n).lines = at /\ WarmRun(n).try = 4 /\ WarmRun(n).finally = 2 * n + m + 7
  BY <1>1, <1>4, <1>5, <1>10
<1> QED
  BY <1>1, <1>3, <1>11, <1>12, <1>15, <1>16, <1>17, <1>18, <1>19, <1>20 DEF m, last

LEMMA WarmSound == ASSUME NEW n \in Nat \ {0} PROVE Sound(WarmRun(n), TRUE)
<1> DEFINE b == WarmRun(n)
           m == Large(n)
           last == 2 * n + m + 7
<1>1. /\ b.lines \in Seq(Statements) /\ Len(b.lines) = last /\ m \in 1..5
      /\ b.try = 4 /\ b.finally = last
      /\ b.lines[1] = New("first") /\ b.lines[2] = Start("first", Good) /\ b.lines[3] = Probe
      /\ \A i \in 1..n : Clocked(b.lines[3 + i], "execute", "warm_execute")
      /\ Plain(b.lines[n + 4], "configure")
      /\ \A i \in 1..n : Clocked(b.lines[n + 4 + i], "execute", "host_tool_round_trip")
      /\ \A i \in 1..m : Clocked(b.lines[2 * n + 4 + i], "execute", "one_megabyte_variable")
      /\ Plain(b.lines[2 * n + m + 5], "execute")
      /\ b.lines[2 * n + m + 6] = Probe
      /\ b.lines[last] = Shut("first")
  BY WarmIs
<1> HIDE DEF b, m
<1>2. \A l \in 2..last : b.lines[l].op # "new"
  <2> SUFFICES ASSUME NEW l \in 2..last PROVE b.lines[l].op # "new"
    OBVIOUS
  <2>1. CASE l \in 2..3 \/ l = last \/ l = last - 1
    BY <1>1, <2>1 DEF Start, Probe, Execute, Shut, Statement
  <2>2. CASE l \in 4..(n + 3)
    <3>1. l - 3 \in 1..n /\ 3 + (l - 3) = l
      BY <2>2
    <3> QED  BY <1>1, <3>1 DEF Clocked
  <2>3. CASE l = n + 4 \/ l = 2 * n + m + 5
    BY <1>1, <2>3 DEF Plain
  <2>4. CASE l \in (n + 5)..(2 * n + 4)
    <3>1. l - (n + 4) \in 1..n /\ n + 4 + (l - (n + 4)) = l
      BY <2>4
    <3> QED  BY <1>1, <3>1 DEF Clocked
  <2>5. CASE l \in (2 * n + 5)..(2 * n + m + 4)
    <3>1. l - (2 * n + 4) \in 1..m /\ 2 * n + 4 + (l - (2 * n + 4)) = l
      BY <1>1, <2>5
    <3> QED  BY <1>1, <3>1 DEF Clocked
  <2> QED  BY <1>1, <2>1, <2>2, <2>3, <2>4, <2>5
<1>3. last \in Nat /\ last > 8
  <2>1. m \in 1..5
    BY <1>1
  <2> QED  BY <2>1
<1>4. /\ b.lines[2].op = "start" /\ "value" \in b.lines[2].want
      /\ b.lines[3].op = "execute" /\ b.lines[3].want = Outcomes
      /\ b.lines[1].op = "new" /\ b.lines[1].who = "first" /\ b.lines[2].who = "first"
      /\ Shuts(b.lines[last], "first")
  BY <1>1 DEF Start, Probe, Execute, New, Shut, Statement, Shuts, Good
<1>5. /\ b.lines \in Seq(Statements) /\ Len(b.lines) = last
      /\ b.try = 4 /\ b.finally = last
  BY <1>1
<1> HIDE DEF last
<1>6. Proper(b)
  BY <1>3, <1>5 DEF Proper
<1>7. Closes(b, TRUE)
  <2> SUFFICES ASSUME NEW l \in 1..Len(b.lines), b.lines[l].op = "new"
               PROVE  Ensured(b, TRUE, l + 1, b.lines[l].who)
    BY DEF Closes
  <2>1. l + 1 = 2 /\ b.lines[l].who = "first"
    BY <1>2, <1>3, <1>4, <1>5
  <2>2. last \in 2..Len(b.lines)
    BY <1>3, <1>5
  <2>3. ASSUME NEW k \in 2..(last - 1) PROVE Kept(b, TRUE, k, last)
    BY <1>3, <1>4, <1>5 DEF Kept
  <2>4. Ensured(b, TRUE, 2, "first")
    BY <1>4, <2>2, <2>3 DEF Ensured
  <2> QED  BY <2>1, <2>4, Zenon
<1>8. StartsFresh(b)
  BY <1>3, <1>4, <1>5 DEF StartsFresh
<1> QED  BY <1>6, <1>7, <1>8 DEF Sound, b

-----------------------------------------------------------------------------
(* All the programs. *)

\* The programs that Init can choose.
Choice ==
    /\ program \in {"collect", "raise", "benchmark"}
    /\ cold \in ColdRuns /\ warm \in WarmRuns
    /\ defect \in Defects
    /\ program = "benchmark" /\ Running => cold \in Nat \ {0} /\ warm \in Nat \ {0}

\* The blocks of a benchmark.
LEMMA BenchmarkIs ==
    ASSUME NEW c \in Nat \ {0}, NEW w
    PROVE  /\ Len(Benchmark(c, w)) = 1
           /\ Len(Benchmark(c, w)[1]) = c + 1
           /\ \A i \in 1..c : Benchmark(c, w)[1][i] = ColdRun
           /\ Benchmark(c, w)[1][c + 1] = WarmRun(w)
<1> DEFINE p == [i \in 1..c |-> ColdRun]
           q == <<WarmRun(w)>>
           S == {ColdRun, WarmRun(w)}
<1>1. Len(Benchmark(c, w)) = 1 /\ Benchmark(c, w)[1] = p \o q
  BY DEF Benchmark
<1>2. p \in Seq(S) /\ Len(p) = c /\ \A i \in 1..c : p[i] = ColdRun
  OBVIOUS
<1>3. q \in Seq(S) /\ Len(q) = 1 /\ q[1] = WarmRun(w)
  OBVIOUS
<1> HIDE DEF p, q, S
<1>4. /\ Len(p \o q) = Len(p) + Len(q)
      /\ \A i \in 1..Len(p) : (p \o q)[i] = p[i]
      /\ \A i \in 1..Len(q) : (p \o q)[Len(p) + i] = q[i]
  <2>1. p \in Seq(S) /\ q \in Seq(S)
    BY <1>2, <1>3
  <2> QED  BY <2>1, Cat
<1> QED  BY <1>1, <1>2, <1>3, <1>4

\* The blocks of a check or a benchmark.
Fine(blocks, late) == /\ Len(blocks) \in Nat \ {0}
                      /\ \A i \in 1..Len(blocks) : Sound(blocks[i], late)

Late == program = "benchmark"

LEMMA PlanSound ==
    ASSUME Choice, Running
    PROVE  /\ Len(Plan) \in 1..Len(Checks)
           /\ \A c \in 1..Len(Plan) : Fine(Plan[c], Late)
<1>1. CASE program = "benchmark"
  <2>1. Plan = Benchmark(cold, warm) /\ cold \in Nat \ {0} /\ warm \in Nat \ {0} /\ Late = TRUE
    BY <1>1 DEF Plan, Choice, Late
  <2>2. Len(Checks) = 10
    BY ChecksSound
  <2>3. \A i \in 1..(cold + 1) : Sound(Benchmark(cold, warm)[1][i], TRUE)
    <3>1. Sound(ColdRun, TRUE)
      BY ColdIs, SoundLate
    <3>2. Sound(WarmRun(warm), TRUE)
      BY <2>1, WarmSound
    <3>3. \A i \in 1..(cold + 1) : i \in 1..cold \/ i = cold + 1
      BY <2>1
    <3>4. \A i \in 1..(cold + 1) : Benchmark(cold, warm)[1][i] \in {ColdRun, WarmRun(warm)}
      BY <2>1, <3>3, BenchmarkIs
    <3> QED  BY <3>1, <3>2, <3>4, Zenon
  <2>4. Len(Benchmark(cold, warm)) = 1 /\ Len(Benchmark(cold, warm)[1]) = cold + 1
    BY <2>1, BenchmarkIs
  <2>5. Fine(Benchmark(cold, warm)[1], TRUE)
    <3>1. cold + 1 \in Nat \ {0}
      BY <2>1
    <3> QED  BY <2>3, <2>4, <3>1 DEF Fine
  <2>6. ASSUME NEW c \in 1..1 PROVE Fine(Benchmark(cold, warm)[c], TRUE)
    <3>1. c = 1
      OBVIOUS
    <3> QED  BY <2>5, <3>1
  <2>7. Len(Plan) = 1 /\ \A c \in 1..1 : Fine(Plan[c], Late)
    BY <2>1, <2>4, <2>6
  <2> QED  BY <2>2, <2>7
<1>2. CASE program # "benchmark"
  <2>1. Plan = Checks /\ Late = FALSE
    BY <1>2 DEF Plan, Late
  <2>2. Len(Checks) = 10 /\ \A c \in 1..10 : Fine(Checks[c], FALSE)
    BY ChecksSound DEF Fine
  <2>3. Len(Plan) = 10
    BY <2>1, <2>2
  <2>4. \A c \in 1..10 : Fine(Plan[c], Late)
    BY <2>1, <2>2, Zenon
  <2> QED  BY <2>2, <2>3, <2>4
<1> QED  BY <1>1, <1>2

-----------------------------------------------------------------------------
(* Types, and where the program is. *)

Place == Running => /\ check \in 1..Len(Plan)
                    /\ block \in 1..Len(Plan[check])
                    /\ line \in 1..(Len(Block.lines) + 1)

Data == /\ session \in [Slots -> [ended : BOOLEAN, shut : BOOLEAN, given : Given]]
        /\ names \in [Slots -> SUBSET {"remembered", "private_value"}]
        /\ calls \in Nat

Notes == /\ samples \in [Metrics -> Nat]
         /\ struck \subseteq 1..Len(Checks) /\ faults \in 0..MaxFaults
         /\ cleanup \in BOOLEAN /\ raised \in BOOLEAN
         /\ outcome \in {"running", "report", "raised"}

\* There is one result for each check that is over.
Marks == /\ results \in Seq(BOOLEAN) /\ Len(results) <= Len(Checks)
         /\ Running /\ program # "benchmark" => Len(results) = check - 1

TypeInv == Choice /\ Place /\ Data /\ Notes /\ Marks

LEMMA BlockIs ==
    ASSUME Choice, Place, Running
    PROVE  /\ Sound(Block, Late) /\ Proper(Block) /\ Len(Block.lines) \in Nat
           /\ Len(Plan) \in 1..Len(Checks) /\ Len(Plan[check]) \in Nat
           /\ line \in 1..(Len(Block.lines) + 1)
           /\ line <= Len(Block.lines) => Here \in Statements
<1>1. /\ check \in 1..Len(Plan) /\ block \in 1..Len(Plan[check])
      /\ line \in 1..(Len(Block.lines) + 1)
  BY DEF Place
<1>2. Len(Plan) \in 1..Len(Checks) /\ Fine(Plan[check], Late)
  BY <1>1, PlanSound
<1>3. Sound(Block, Late) /\ Len(Plan[check]) \in Nat
  BY <1>1, <1>2 DEF Fine, Block
<1>4. Proper(Block)
  BY <1>3 DEF Sound
<1>5. Block.lines \in Seq(Statements)
  BY <1>4 DEF Proper
<1>6. Len(Block.lines) \in Nat
  BY <1>5
<1>7. line <= Len(Block.lines) => Here \in Statements
  BY <1>1, <1>5, <1>6 DEF Here
<1> QED  BY <1>1, <1>2, <1>3, <1>4, <1>6, <1>7

\* After a statement the program is further on in the same block.
LEMMA Onward ==
    ASSUME Choice, Place, NEW result, Continue(result)
    PROVE  /\ Choice' /\ Place' /\ Running /\ Running' /\ Block' = Block /\ Late' = Late
           /\ line' \in (line + 1)..(Len(Block.lines) + 1)
           /\ results' = results /\ check' = check /\ program' = program
<1>1. Running /\ line <= Len(Block.lines)
  BY DEF Continue
<1>2. /\ UNCHANGED <<choiceVars, check, block, results, outcome>>
      /\ line' = line + 1 \/ line' = Escape
  BY DEF Continue
<1>3. /\ Plan' = Plan /\ Block' = Block /\ Running' = Running /\ Late' = Late
  BY <1>2 DEF Plan, Block, Running, choiceVars, Late
<1>4. Choice'
  BY <1>2, <1>3 DEF Choice, choiceVars
<1>5. line' \in (line + 1)..(Len(Block.lines) + 1)
  <2>1. /\ Block.finally \in 1..(Len(Block.lines) + 1) /\ Len(Block.lines) \in Nat
        /\ line \in Nat
    BY <1>1, BlockIs DEF Proper
  <2> QED  BY <1>1, <1>2, <2>1 DEF Escape
<1>6. Place'
  <2>1. line \in 1..(Len(Block.lines) + 1) /\ Len(Block.lines) \in Nat
    BY <1>1, BlockIs
  <2>2. line' \in 1..(Len(Block.lines) + 1)
    BY <1>5, <2>1
  <2> QED  BY <1>1, <1>2, <1>3, <2>2 DEF Place
<1> QED  BY <1>1, <1>2, <1>3, <1>4, <1>5, <1>6 DEF choiceVars

\* What a statement does to the session that it is about.
LEMMA SubjectSteps ==
    ASSUME TypeInv, Subject
    PROVE  Data' /\ \E result : Continue(result)
<1>1. Choice /\ Place /\ Running /\ line <= Len(Block.lines)
  BY DEF TypeInv, Subject
<1>2. Here \in Statements
  BY <1>1, BlockIs
<1>3. /\ Here.who \in Slots
      /\ Here.op = "execute" => Here.what \in Codes
      /\ Here.op = "configure" => Here.what \in Given
  BY <1>2 DEF Statements
<1>4. Data
  BY DEF TypeInv
<1>5. CASE Construct
  <2>1. Fresh \in [ended : BOOLEAN, shut : BOOLEAN, given : Given]
    BY DEF Fresh, Given
  <2> QED  BY <1>3, <1>4, <1>5, <2>1 DEF Construct, Data
<1>6. CASE StartSession
  BY <1>4, <1>6 DEF StartSession, Data, subjectVars
<1>11. CASE Assertion
  BY <1>4, <1>11 DEF Assertion, Data, subjectVars
<1>7. CASE ConfigureSession
  BY <1>3, <1>4, <1>7 DEF ConfigureSession, Data
<1>8. CASE CompareCalls
  BY <1>4, <1>8 DEF CompareCalls, Data, subjectVars
<1>9. CASE ExecuteCode
  <2>1. \E result : Continue(result)
    BY <1>9 DEF ExecuteCode
  <2>2. session' = session /\ calls' \in {calls, calls + 1}
    BY <1>9 DEF ExecuteCode
  <2>3. \E left : /\ left \in SUBSET {"remembered", "private_value"}
                  /\ \E S \in SUBSET Slots :
                        names' = [other \in Slots |-> IF other \in S THEN names[other] ELSE left]
    <3> DEFINE left == IF defect = "losesNamespace" THEN {} ELSE names[Here.who] \cup Assigned(Here.what)
               S == {other \in Slots : session[Here.who].ended
                                          \/ (other # Here.who /\ defect # "sharedNamespace")}
    <3>1. left \in SUBSET {"remembered", "private_value"}
      <4>1. names[Here.who] \in SUBSET {"remembered", "private_value"}
        BY <1>3, <1>4 DEF Data
      <4>2. Assigned(Here.what) \in SUBSET {"remembered", "private_value"}
        BY DEF Assigned
      <4> QED  BY <4>1, <4>2
    <3>2. names' = [other \in Slots |-> IF other \in S THEN names[other] ELSE left]
      BY <1>9 DEF ExecuteCode
    <3> QED  BY <3>1, <3>2
  <2>4. names' \in [Slots -> SUBSET {"remembered", "private_value"}]
    BY <1>4, <2>3 DEF Data
  <2> QED  BY <1>4, <2>1, <2>2, <2>4 DEF Data
<1>10. CASE ShutDown
  <2>1. session' \in [Slots -> [ended : BOOLEAN, shut : BOOLEAN, given : Given]]
    <3>1. session \in [Slots -> [ended : BOOLEAN, shut : BOOLEAN, given : Given]]
      BY <1>4 DEF Data
    <3>2. PICK over \in BOOLEAN :
              session' = [session EXCEPT ![Here.who].shut = TRUE, ![Here.who].ended = over]
      BY <1>10, Zenon DEF ShutDown
    <3> QED  BY <1>3, <3>1, <3>2
  <2>2. names' \in [Slots -> SUBSET {"remembered", "private_value"}]
    BY <1>4, <1>10 DEF ShutDown, Data
  <2> QED  BY <1>4, <1>10, <2>1, <2>2 DEF ShutDown, Data
<1> QED  BY <1>5, <1>6, <1>7, <1>8, <1>9, <1>10, <1>11 DEF Subject

LEMMA NotesKept ==
    ASSUME Choice, Place, Notes, NEW result, Continue(result)
    PROVE  samples' \in [Metrics -> Nat] /\ raised' \in BOOLEAN
           /\ outcome' \in {"running", "report", "raised"}
<1>1. Here \in Statements
  BY BlockIs DEF Continue
<1>2. Here.metric \in Metrics \cup {"none"}
  BY <1>1 DEF Statements
<1>3. samples' \in [Metrics -> Nat]
  BY <1>2 DEF Continue, Notes
<1> QED  BY <1>3 DEF Continue, Notes

LEMMA MarksKept ==
    ASSUME Choice, Place, Marks, NEW result, Continue(result) PROVE Marks'
  BY Onward DEF Marks

\* The first line of any block is a place where the program may be.
LEMMA FirstLine ==
    ASSUME Choice, Running, NEW c \in 1..Len(Plan)
    PROVE  /\ 1 \in 1..Len(Plan[c])
           /\ \A k \in 1..Len(Plan[c]) : 1 \in 1..(Len(Plan[c][k].lines) + 1)
<1>1. Fine(Plan[c], Late)
  BY PlanSound
<1>2. \A k \in 1..Len(Plan[c]) : Proper(Plan[c][k])
  BY <1>1 DEF Fine, Sound
<1>3. ASSUME NEW k \in 1..Len(Plan[c]) PROVE 1 \in 1..(Len(Plan[c][k].lines) + 1)
  <2>1. Plan[c][k].lines \in Seq(Statements)
    BY <1>2 DEF Proper
  <2>2. Len(Plan[c][k].lines) \in Nat
    BY <2>1
  <2> QED  BY <2>2
<1>4. Len(Plan[c]) \in Nat \ {0}
  BY <1>1 DEF Fine
<1> QED  BY <1>3, <1>4

\* Between two blocks.
LEMMA BlockEndsKeeps ==
    ASSUME TypeInv, BlockEnds
    PROVE  /\ Data' /\ samples' = samples /\ struck' = struck /\ faults' = faults
           /\ cleanup' = FALSE /\ raised' = FALSE /\ UNCHANGED choiceVars
           /\ Plan' = Plan /\ Late' = Late
<1>1. session' = [who \in Slots |-> None] /\ names' = names /\ calls' = 0
  BY DEF BlockEnds
<1>2. Data'
  <2>1. None \in [ended : BOOLEAN, shut : BOOLEAN, given : Given]
    BY DEF None, Given
  <2> QED  BY <1>1, <2>1 DEF TypeInv, Data
<1>3. UNCHANGED choiceVars
  BY DEF BlockEnds
<1>4. Plan' = Plan /\ Late' = Late
  BY <1>3 DEF Plan, Late, choiceVars
<1> QED  BY <1>2, <1>3, <1>4 DEF BlockEnds

LEMMA TypeInit == Init => TypeInv
<1> SUFFICES ASSUME Init PROVE TypeInv
  OBVIOUS
<1>1. Choice
  BY ConformanceAssumption DEF Init, Choice, Accepts, Running
<1>2. Place
  <2> SUFFICES ASSUME Running PROVE Place
    BY DEF Place
  <2>1. Len(Plan) \in Nat \ {0}
    BY <1>1, PlanSound
  <2>2. check = 1 /\ block = 1 /\ line = 1
    BY DEF Init
  <2>3. 1 \in 1..Len(Plan)
    BY <2>1
  <2>4. 1 \in 1..Len(Plan[1]) /\ \A k \in 1..Len(Plan[1]) : 1 \in 1..(Len(Plan[1][k].lines) + 1)
    BY <1>1, <2>3, FirstLine
  <2> QED  BY <2>2, <2>3, <2>4 DEF Place, Block
<1>3. Data
  <2>1. None \in [ended : BOOLEAN, shut : BOOLEAN, given : Given]
    BY DEF None, Given
  <2> QED  BY <2>1 DEF Init, Data
<1>4. Notes
  <2>1. /\ samples = [m \in Metrics |-> 0] /\ struck = {} /\ faults = 0 /\ cleanup = FALSE
        /\ raised = FALSE /\ outcome \in {"running", "raised"}
    BY DEF Init
  <2>2. samples \in [Metrics -> Nat]
    BY <2>1
  <2>3. faults \in 0..MaxFaults
    BY <2>1, ConformanceAssumption
  <2> QED  BY <2>1, <2>2, <2>3 DEF Notes
<1>5. Marks
  <2>1. Len(Checks) \in Nat
    BY ChecksSound
  <2>2. results = <<>> /\ check = 1
    BY DEF Init
  <2> QED  BY <2>1, <2>2 DEF Marks
<1> QED  BY <1>1, <1>2, <1>3, <1>4, <1>5 DEF TypeInv

LEMMA TypeNext == TypeInv /\ [Next]_vars => TypeInv'
<1> SUFFICES ASSUME TypeInv, [Next]_vars PROVE TypeInv'
  OBVIOUS
<1>0. Choice /\ Place /\ Data /\ Notes /\ Marks
  BY DEF TypeInv
<1>1. CASE Subject
  <2>1. Data' /\ \E result : Continue(result)
    BY <1>1, SubjectSteps
  <2>2. PICK result : Continue(result)
    BY <2>1
  <2>3. Choice' /\ Place' /\ Marks'
    BY <1>0, <2>2, Onward, MarksKept
  <2>4. UNCHANGED <<struck, cleanup, faults>>
    BY <1>1 DEF Subject, NoFault
  <2>5. Notes'
    BY <1>0, <2>2, <2>4, NotesKept DEF Notes
  <2> QED  BY <2>1, <2>3, <2>5 DEF TypeInv
<1>2. CASE CallFails
  <2>1. Continue("CodeInterpreterError") /\ Running
    BY <1>2 DEF CallFails
  <2>2. Choice' /\ Place' /\ Marks'
    BY <1>0, <2>1, Onward, MarksKept
  <2>3. Here.who \in Slots
    BY <1>0, <1>2, BlockIs DEF CallFails, Statements
  <2>4. Data'
    BY <1>0, <1>2, <2>3 DEF CallFails, Data
  <2>5. check \in 1..Len(Checks)
    <3>1. check \in 1..Len(Plan)
      BY <1>0, <2>1 DEF Place
    <3>2. Len(Plan) \in 1..10
      BY <1>0, <2>1, ChecksSound, BlockIs
    <3>3. \A n \in 1..10 : \A c \in 1..n : c \in 1..10
      OBVIOUS
    <3>4. check \in 1..10
      BY <3>1, <3>2, <3>3
    <3> QED  BY <3>4, ChecksSound
  <2>6. struck' \subseteq 1..Len(Checks)
    BY <1>0, <1>2, <2>5 DEF CallFails, Notes
  <2>7. faults' \in 0..MaxFaults
    BY <1>0, <1>2, ConformanceAssumption DEF CallFails, Notes
  <2>8. cleanup' \in BOOLEAN
    BY <1>0, <1>2 DEF CallFails, Notes
  <2>9. Notes'
    BY <1>0, <2>1, <2>6, <2>7, <2>8, NotesKept DEF Notes
  <2> QED  BY <2>2, <2>4, <2>9 DEF TypeInv
<1>3. CASE NextBlock \/ CheckEnds \/ BenchmarkEnds
  <2> BlockEnds
    BY <1>3 DEF NextBlock, CheckEnds, BenchmarkEnds
  <2>0. Running /\ check \in 1..Len(Plan) /\ block \in 1..Len(Plan[check]) /\ line' = 1
    BY <1>0 DEF BlockEnds, Place
  <2>1. /\ Data' /\ UNCHANGED <<samples, struck, faults, choiceVars>>
        /\ cleanup' = FALSE /\ raised' = FALSE /\ Plan' = Plan
    BY BlockEndsKeeps
  <2>2. Len(Plan) \in 1..10 /\ Len(Checks) = 10 /\ Len(Plan[check]) \in Nat
    BY <1>0, <2>0, ChecksSound, BlockIs
  <2>3. ASSUME outcome' \in {"running", "report", "raised"} PROVE Notes'
    BY <1>0, <2>1, <2>3 DEF Notes
  <2>4. Choice'
    BY <1>0, <2>0, <2>1 DEF Choice, choiceVars
  <2>5. ASSUME check' \in 1..Len(Plan), block' \in 1..Len(Plan[check']) PROVE Place'
    <3>1. 1 \in 1..(Len(Plan[check'][block'].lines) + 1)
      BY <1>0, <2>0, <2>5, FirstLine
    <3>2. Block' = Plan[check'][block']
      BY <2>1 DEF Block
    <3> QED  BY <2>0, <2>1, <2>5, <3>1, <3>2 DEF Place
  <2>6. CASE NextBlock
    <3>1. block' = block + 1 /\ block < Len(Plan[check]) /\ UNCHANGED <<check, results, outcome>>
      BY <2>6 DEF NextBlock
    <3>2. Place'
      BY <2>0, <2>2, <2>5, <3>1
    <3>3. Notes'
      BY <1>0, <2>3, <3>1 DEF Notes
    <3>4. Marks'
      BY <1>0, <2>1, <3>1 DEF Marks, Running, choiceVars
    <3> QED  BY <2>1, <2>4, <3>2, <3>3, <3>4 DEF TypeInv
  <2>7. CASE CheckEnds
    <3>1. /\ program # "benchmark" /\ results' = Append(results, ~raised)
          /\ outcome' \in {"running", "report", "raised"}
          /\ outcome' = "running" => check' = check + 1 /\ check # Len(Plan)
          /\ block' = 1
      BY <2>7 DEF CheckEnds, IsLast
    <3>2. Place'
      <4> SUFFICES ASSUME Running' PROVE Place'
        BY DEF Place
      <4>1. check' = check + 1 /\ check' \in 1..Len(Plan)
        BY <2>0, <2>2, <3>1 DEF Running
      <4>2. 1 \in 1..Len(Plan[check'])
        BY <1>0, <2>0, <4>1, FirstLine
      <4> QED  BY <2>5, <3>1, <4>1, <4>2
    <3>3. Notes'
      BY <2>3, <3>1
    <3>4. Marks'
      <4>1. results \in Seq(BOOLEAN) /\ Len(results) = check - 1 /\ raised \in BOOLEAN
        BY <1>0, <2>0, <3>1 DEF Marks, Notes
      <4>2. results' \in Seq(BOOLEAN) /\ Len(results') = check
        BY <2>0, <3>1, <4>1
      <4>3. Len(results') <= Len(Checks)
        BY <2>0, <2>2, <4>2
      <4>4. Running' => Len(results') = check' - 1
        BY <2>0, <3>1, <4>2 DEF Running
      <4> QED  BY <4>2, <4>3, <4>4 DEF Marks
    <3> QED  BY <2>1, <2>4, <3>2, <3>3, <3>4 DEF TypeInv
  <2>8. CASE BenchmarkEnds
    <3>1. /\ outcome' \in {"report", "raised"} /\ results' = results
      BY <2>8 DEF BenchmarkEnds
    <3>2. ~Running'
      BY <3>1 DEF Running
    <3>3. Place' /\ Marks'
      BY <1>0, <3>1, <3>2 DEF Place, Marks
    <3>4. Notes'
      BY <2>3, <3>1
    <3> QED  BY <2>1, <2>4, <3>3, <3>4 DEF TypeInv
  <2> QED
    BY <1>3, <2>6, <2>7, <2>8
<1>4. CASE UNCHANGED vars
  BY <1>0, <1>4
  DEF TypeInv, vars, choiceVars, placeVars, subjectVars, Choice, Place, Data, Notes, Marks, Running,
      Block, Plan
<1> QED
  BY <1>1, <1>2, <1>3, <1>4 DEF Next, Done

\* Every variable has its type, and the program is always somewhere in one of
\* its blocks.
THEOREM TypeCorrect == Spec => []TypeOK
<1>1. TypeInv => TypeOK
  <2> SUFFICES ASSUME TypeInv PROVE TypeOK
    OBVIOUS
  <2>1. Choice /\ Place /\ Data /\ Notes /\ Marks
    BY DEF TypeInv
  <2> QED  BY <2>1 DEF Choice, Place, Data, Notes, Marks, TypeOK, Given
<1> QED  BY <1>1, TypeInit, TypeNext, PTL DEF Spec

-----------------------------------------------------------------------------
(* Sessions are shut down.  The sessions that are open are those that the   *)
(* rest of the block will shut down, wherever an exception leads.          *)

Shutting ==
    Running /\ ~cleanup =>
        \A who \in Slots : ~session[who].shut => Ensured(Block, Late, line, who)

\* What benchmark_interpreter starts before try cannot have ended.
Starting ==
    Running /\ line < Block.try /\ Block.try <= Len(Block.lines)
            /\ Here.op = "start" /\ "value" \in Here.want
        => ~session[Here.who].ended

Over == ~Running => \A who \in Slots : session[who].shut

ShutInv == Shutting /\ Starting /\ Over

LEMMA EnsuredNext ==
    ASSUME NEW b, NEW late, NEW l \in Nat, NEW who, Len(b.lines) \in Nat,
           Ensured(b, late, l, who), ~Shuts(b.lines[l], who)
    PROVE  Ensured(b, late, l + 1, who)
<1>1. PICK s \in l..Len(b.lines) : /\ Shuts(b.lines[s], who)
                                   /\ \A k \in l..(s - 1) : Kept(b, late, k, s)
  BY DEF Ensured
<1>2. s \in (l + 1)..Len(b.lines)
  BY <1>1
<1>3. \A k \in (l + 1)..(s - 1) : Kept(b, late, k, s)
  BY <1>1
<1> QED  BY <1>1, <1>2, <1>3 DEF Ensured

\* Where the exception is that is raised at position l and not excused.
LEMMA EnsuredEscape ==
    ASSUME NEW b, NEW late, NEW l \in Nat, NEW who, Len(b.lines) \in Nat, b.finally \in Nat,
           Ensured(b, late, l, who), ~Shuts(b.lines[l], who),
           b.lines[l].op \notin {"new", "assert", "shutdown"},
           late /\ l < b.try /\ b.try <= Len(b.lines) =>
              /\ b.lines[l].want # Outcomes
              /\ ~(b.lines[l].op = "start" /\ "value" \in b.lines[l].want)
    PROVE  b.try <= l /\ l < b.finally /\ Ensured(b, late, b.finally, who)
<1>1. PICK s \in l..Len(b.lines) : /\ Shuts(b.lines[s], who)
                                   /\ \A k \in l..(s - 1) : Kept(b, late, k, s)
  BY DEF Ensured
<1>2. l \in l..(s - 1)
  BY <1>1
<1>3. Kept(b, late, l, s)
  BY <1>1, <1>2
<1>4. b.try <= l /\ l < b.finally /\ b.finally <= s
  BY <1>3 DEF Kept
<1>5. s \in b.finally..Len(b.lines)
  BY <1>4
<1>6. \A k \in b.finally..(s - 1) : Kept(b, late, k, s)
  BY <1>1, <1>4
<1> QED  BY <1>1, <1>4, <1>5, <1>6 DEF Ensured

LEMMA RunsIs ==
    ASSUME NEW who, NEW code \in Codes PROVE Answer(who, code) \in Outcomes
<1>1. Runs(who, code) \in Outcomes
  BY DEF Codes, Runs, Outcomes
<1> QED  BY <1>1 DEF Answer, Outcomes

\* What a statement that does not fail gives, and what it does to sessions.
Gives(result) ==
    /\ Here.op # "calls" => result \in Outcomes
    /\ Here.op \in {"new", "assert", "shutdown"} => result = "value"
    /\ Here.op = "start" /\ ~session[Here.who].ended => result = "value"

LEMMA SubjectGives ==
    ASSUME TypeInv, Subject
    PROVE  /\ \E result : Continue(result) /\ Gives(result)
           /\ Here.op = "new" => session'[Here.who].ended = FALSE
           /\ Here.op = "shutdown" => session'[Here.who].shut
           /\ \A who \in Slots : \/ session'[who].shut = session[who].shut
                                 \/ who = Here.who /\ Here.op \in {"new", "shutdown"}
<1>1. Choice /\ Place /\ Running /\ line <= Len(Block.lines)
  BY DEF TypeInv, Subject
<1>2. Here \in Statements
  BY <1>1, BlockIs
<1>3. Here.who \in Slots /\ (Here.op = "execute" => Here.what \in Codes)
  BY <1>2 DEF Statements
<1>4. session \in [Slots -> [ended : BOOLEAN, shut : BOOLEAN, given : Given]]
  BY DEF TypeInv, Data
<1>5. CASE Construct
  <2>1. Here.op = "new" /\ session' = [session EXCEPT ![Here.who] = Fresh]
    BY <1>5 DEF Construct
  <2>2. Continue("value") /\ Gives("value")
    BY <1>5, <2>1 DEF Construct, Gives, Outcomes
  <2>3. session'[Here.who].ended = FALSE
    BY <1>3, <1>4, <2>1 DEF Fresh
  <2>4. \A who \in Slots : session'[who].shut = session[who].shut \/ who = Here.who
    BY <1>3, <1>4, <2>1
  <2> QED  BY <2>1, <2>2, <2>3, <2>4
<1>6. CASE StartSession
  <2>1. Here.op = "start" /\ session' = session
    BY <1>6 DEF StartSession, subjectVars
  <2>2. \E result : Continue(result) /\ Gives(result)
    BY <1>6, <2>1 DEF StartSession, Gives, Outcomes
  <2> QED  BY <2>1, <2>2
<1>11. CASE Assertion
  <2>1. Here.op = "assert" /\ session' = session
    BY <1>11 DEF Assertion, subjectVars
  <2>2. Continue("value") /\ Gives("value")
    BY <1>11, <2>1 DEF Assertion, Gives, Outcomes
  <2> QED  BY <2>1, <2>2
<1>7. CASE ConfigureSession
  <2>1. Here.op = "configure" /\ session' = [session EXCEPT ![Here.who].given = Here.what]
    BY <1>7 DEF ConfigureSession
  <2>2. Continue("value") /\ Gives("value")
    BY <1>7, <2>1 DEF ConfigureSession, Gives, Outcomes
  <2>3. \A who \in Slots : session'[who].shut = session[who].shut
    BY <1>3, <1>4, <2>1
  <2> QED  BY <2>1, <2>2, <2>3
<1>8. CASE CompareCalls
  <2>1. Here.op = "calls" /\ session' = session
    BY <1>8 DEF CompareCalls, subjectVars
  <2>2. \E result : Continue(result) /\ Gives(result)
    BY <1>8, <2>1 DEF CompareCalls, Gives
  <2> QED  BY <2>1, <2>2
<1>9. CASE ExecuteCode
  <2>1. Here.op = "execute" /\ session' = session /\ Continue(Answer(Here.who, Here.what))
    BY <1>9 DEF ExecuteCode
  <2>2. Gives(Answer(Here.who, Here.what))
    BY <1>3, <2>1, RunsIs DEF Gives
  <2> QED  BY <2>1, <2>2
<1>10. CASE ShutDown
  <2>1. /\ Here.op = "shutdown"
        /\ session' = [session EXCEPT ![Here.who].shut = TRUE,
                                      ![Here.who].ended = defect # "nonterminalShutdown"]
    BY <1>10 DEF ShutDown
  <2>2. Continue("value") /\ Gives("value")
    BY <1>10, <2>1 DEF ShutDown, Gives, Outcomes
  <2>3. session'[Here.who].shut
    BY <1>3, <1>4, <2>1
  <2>4. \A who \in Slots : session'[who].shut = session[who].shut \/ who = Here.who
    BY <1>3, <1>4, <2>1
  <2> QED  BY <2>1, <2>2, <2>3, <2>4
<1> QED  BY <1>5, <1>6, <1>7, <1>8, <1>9, <1>10, <1>11 DEF Subject

\* The session of slot who stays ensured after a statement that leaves it open.
LEMMA StillEnsured ==
    ASSUME TypeInv, NEW result, Continue(result), NEW who \in Slots,
           Ensured(Block, Late, line, who), ~Shuts(Here, who),
           result \notin Here.want =>
              /\ Here.op \notin {"new", "assert", "shutdown"}
              /\ Late /\ line < Block.try /\ Block.try <= Len(Block.lines) =>
                    /\ Here.want # Outcomes
                    /\ ~(Here.op = "start" /\ "value" \in Here.want)
    PROVE  Ensured(Block, Late, line', who)
<1>1. Running /\ line <= Len(Block.lines)
  BY DEF Continue
<1>2. line \in Nat /\ Len(Block.lines) \in Nat /\ Proper(Block)
  BY <1>1, BlockIs DEF TypeInv
<1>3. Block.finally \in Nat
  BY <1>2 DEF Proper
<1>4. ~Shuts(Block.lines[line], who)
  BY DEF Here
<1>5. CASE result \in Here.want
  <2>1. line' = line + 1
    BY <1>5 DEF Continue
  <2>2. Ensured(Block, Late, line + 1, who)
    BY <1>2, <1>4, EnsuredNext
  <2> QED  BY <2>1, <2>2, Zenon
<1>6. CASE result \notin Here.want
  <2>1. line' = Escape
    BY <1>6 DEF Continue
  <2>2. /\ Block.lines[line].op \notin {"new", "assert", "shutdown"}
        /\ Late /\ line < Block.try /\ Block.try <= Len(Block.lines) =>
              /\ Block.lines[line].want # Outcomes
              /\ ~(Block.lines[line].op = "start" /\ "value" \in Block.lines[line].want)
    BY <1>6 DEF Here
  <2>3. Block.try <= line /\ line < Block.finally /\ Ensured(Block, Late, Block.finally, who)
    BY <1>2, <1>3, <1>4, <2>2, EnsuredEscape
  <2>4. Escape = Block.finally
    BY <1>2, <2>3 DEF Escape, Proper
  <2> QED  BY <2>1, <2>3, <2>4, Zenon
<1> QED  BY <1>5, <1>6

\* A start before try comes right after the construction of its session.
LEMMA StartingKept ==
    ASSUME TypeInv, NEW result, Continue(result),
           Here.op = "new" /\ result \in Here.want => session'[Here.who].ended = FALSE
    PROVE  Starting'
<1>1. Running /\ line <= Len(Block.lines)
  BY DEF Continue
<1>2. line \in Nat \ {0} /\ Len(Block.lines) \in Nat /\ Proper(Block) /\ StartsFresh(Block)
  BY <1>1, BlockIs DEF TypeInv, Sound
<1>3. Block' = Block /\ line' \in 1..(Len(Block.lines) + 1)
  <2>1. Block' = Block /\ line' \in (line + 1)..(Len(Block.lines) + 1)
    BY Onward DEF TypeInv
  <2> QED  BY <1>2, <2>1
<1> SUFFICES ASSUME line' < Block.try, Block.try <= Len(Block.lines),
                    Here'.op = "start", "value" \in Here'.want
             PROVE  ~session'[Here'.who].ended
  BY <1>3 DEF Starting
<1>4. Here' = Block.lines[line']
  BY <1>3 DEF Here
<1>5. line' = line + 1 /\ result \in Here.want
  <2>1. Block.try \in Nat /\ Block.finally \in Nat /\ Block.try <= Block.finally
    BY <1>2 DEF Proper
  <2>2. line' # Escape
    BY <1>2, <1>3, <2>1 DEF Escape
  <2> QED  BY <2>2 DEF Continue
<1>6. line' \in 1..Len(Block.lines)
  <2>1. Block.try \in Nat
    BY <1>2 DEF Proper
  <2> QED  BY <1>2, <1>3, <2>1
<1>7. Block.lines[line' - 1].op = "new" /\ Block.lines[line' - 1].who = Block.lines[line'].who
  BY <1>2, <1>4, <1>6 DEF StartsFresh
<1>8. Here.op = "new" /\ Here.who = Here'.who
  <2>1. line' - 1 = line
    BY <1>2, <1>5
  <2> QED  BY <1>4, <1>7, <2>1 DEF Here
<1> QED  BY <1>5, <1>8

LEMMA ShutInit == Init => ShutInv
<1> SUFFICES ASSUME Init PROVE ShutInv
  OBVIOUS
<1>1. \A who \in Slots : session[who].shut
  BY DEF Init, None
<1>2. Shutting /\ Over
  BY <1>1 DEF Shutting, Over
<1>3. Starting
  <2> SUFFICES ASSUME Running, line < Block.try, Block.try <= Len(Block.lines),
                      Here.op = "start", "value" \in Here.want
               PROVE  FALSE
    BY DEF Starting
  <2>1. TypeInv
    BY TypeInit
  <2>2. StartsFresh(Block) /\ Len(Block.lines) \in Nat /\ line \in 1..(Len(Block.lines) + 1)
        /\ Proper(Block)
    BY <2>1, BlockIs DEF TypeInv, Sound
  <2>3. line = 1
    BY DEF Init
  <2>4. Block.try \in Nat
    BY <2>2 DEF Proper
  <2>5. 1 \in 1..Len(Block.lines)
    BY <2>2, <2>3, <2>4
  <2>6. Block.lines[1].op = "start" /\ "value" \in Block.lines[1].want
    BY <2>3 DEF Here
  <2> QED  BY <2>2, <2>3, <2>5, <2>6 DEF StartsFresh
<1> QED  BY <1>2, <1>3 DEF ShutInv

LEMMA BlockSound == TypeInv /\ Running => Sound(Block, Late) /\ Len(Block.lines) \in Nat
  BY BlockIs DEF TypeInv

LEMMA ShutNext == TypeInv /\ TypeInv' /\ ShutInv /\ [Next]_vars => ShutInv'
<1> SUFFICES ASSUME TypeInv, TypeInv', ShutInv, [Next]_vars PROVE ShutInv'
  OBVIOUS
<1>0. Shutting /\ Starting /\ Over
  BY DEF ShutInv
<1>1. CASE Subject
  <2>1. PICK result : Continue(result) /\ Gives(result)
    BY <1>1, SubjectGives
  <2>2. Running /\ line <= Len(Block.lines)
    BY <2>1 DEF Continue
  <2>3. /\ Here \in Statements /\ Sound(Block, Late) /\ line \in 1..Len(Block.lines)
        /\ Len(Block.lines) \in Nat
    BY <2>2, BlockIs DEF TypeInv
  <2>4. Here.op \in {"new", "assert", "configure", "calls", "shutdown"} => Here.want = {"value"}
    BY <2>3 DEF Statements
  <2>5. Running' /\ Block' = Block /\ Late' = Late
    BY <2>1, Onward DEF TypeInv
  <2>6. Starting'
    BY <1>1, <2>1, SubjectGives, StartingKept
  <2>7. Shutting'
    <3> SUFFICES ASSUME NEW who \in Slots, ~session'[who].shut, ~cleanup
                 PROVE  Ensured(Block, Late, line', who)
      <4>1. cleanup' = cleanup
        BY <1>1 DEF Subject, NoFault
      <4> QED  BY <2>5, <4>1 DEF Shutting
    <3>1. CASE Here.op = "new" /\ who = Here.who
      <4>1. line' = line + 1
        BY <2>1, <2>4, <3>1 DEF Continue, Gives
      <4>2. Ensured(Block, Late, line + 1, who)
        BY <2>3, <3>1 DEF Sound, Closes, Here
      <4> QED  BY <4>1, <4>2, Zenon
    <3>2. CASE ~(Here.op = "new" /\ who = Here.who)
      <4>1. ~session[who].shut /\ ~Shuts(Here, who)
        <5>1. Here.op = "shutdown" => session'[Here.who].shut
          BY <1>1, SubjectGives
        <5>2. \/ session'[who].shut = session[who].shut
              \/ who = Here.who /\ Here.op \in {"new", "shutdown"}
          BY <1>1, SubjectGives
        <5> QED  BY <3>2, <5>1, <5>2 DEF Shuts
      <4>2. Ensured(Block, Late, line, who)
        BY <1>0, <2>2, <4>1 DEF Shutting
      <4>3. result \notin Here.want =>
              /\ Here.op \notin {"new", "assert", "shutdown"}
              /\ Late /\ line < Block.try /\ Block.try <= Len(Block.lines) =>
                    /\ Here.want # Outcomes
                    /\ ~(Here.op = "start" /\ "value" \in Here.want)
        <5> SUFFICES ASSUME result \notin Here.want
                     PROVE  /\ Here.op \notin {"new", "assert", "shutdown"}
                            /\ Late /\ line < Block.try /\ Block.try <= Len(Block.lines) =>
                                  /\ Here.want # Outcomes
                                  /\ ~(Here.op = "start" /\ "value" \in Here.want)
          OBVIOUS
        <5>1. Here.op \notin {"new", "assert", "shutdown"}
          BY <2>1, <2>4 DEF Gives
        <5>2. Here.want # Outcomes
          <6>1. {"value"} # Outcomes
            BY DEF Outcomes
          <6> QED  BY <2>1, <2>4, <6>1 DEF Gives
        <5>3. ASSUME Late, line < Block.try, Block.try <= Len(Block.lines)
              PROVE  ~(Here.op = "start" /\ "value" \in Here.want)
          BY <1>0, <2>1, <2>2, <5>3 DEF Starting, Gives
        <5> QED  BY <5>1, <5>2, <5>3
      <4> QED  BY <2>1, <4>1, <4>2, <4>3, StillEnsured
    <3> QED  BY <3>1, <3>2
  <2>8. Over'
    BY <2>5 DEF Over
  <2> QED  BY <2>6, <2>7, <2>8 DEF ShutInv
<1>2. CASE CallFails
  <2> DEFINE failure == "CodeInterpreterError"
  <2>1. Continue(failure) /\ Running /\ line <= Len(Block.lines)
    BY <1>2 DEF CallFails
  <2>2. /\ Here \in Statements /\ line \in 1..Len(Block.lines)
        /\ Len(Block.lines) \in Nat
    BY <2>1, BlockIs DEF TypeInv
  <2>3. Here.op \in {"new", "assert", "shutdown"} => failure \notin Here.want
    BY <2>2 DEF Statements
  <2>4. Running' /\ Block' = Block /\ Late' = Late
    BY <2>1, Onward DEF TypeInv
  <2>5. Starting'
    BY <2>1, <2>3, StartingKept
  <2>6. Shutting'
    <3> SUFFICES ASSUME NEW who \in Slots, ~session'[who].shut, ~cleanup'
                 PROVE  Ensured(Block, Late, line', who)
      BY <2>4 DEF Shutting
    <3>1. /\ ~cleanup /\ Here.op \notin {"new", "assert", "shutdown"}
          /\ ~(Late /\ line < Block.try /\ Here.op = "start")
      BY <1>2 DEF CallFails, Unprotected, Late
    <3>2. ~session[who].shut
      <4>1. session \in [Slots -> [ended : BOOLEAN, shut : BOOLEAN, given : Given]]
        BY DEF TypeInv, Data
      <4>2. session' = [session EXCEPT ![Here.who].ended = TRUE,
                                       ![Here.who].shut = @ \/ Here.op = "shutdown"]
        BY <1>2, <3>1 DEF CallFails
      <4> QED  BY <3>1, <4>1, <4>2
    <3>3. Ensured(Block, Late, line, who)
      BY <1>0, <2>1, <3>1, <3>2 DEF Shutting
    <3>4. ~Shuts(Here, who)
      BY <3>1 DEF Shuts
    <3>5. failure \notin Here.want => Here.want # Outcomes
      BY DEF Outcomes
    <3> QED  BY <2>1, <3>1, <3>3, <3>4, <3>5, StillEnsured
  <2>7. Over'
    BY <2>4 DEF Over
  <2> QED  BY <2>5, <2>6, <2>7 DEF ShutInv
<1>3. CASE BlockEnds
  <2>1. \A who \in Slots : session'[who].shut
    BY <1>3 DEF BlockEnds, None
  <2>2. Shutting' /\ Over'
    BY <2>1 DEF Shutting, Over
  <2>3. Starting'
    <3> SUFFICES ASSUME Running', line' < Block'.try, Block'.try <= Len(Block'.lines),
                        Here'.op = "start", "value" \in Here'.want
                 PROVE  FALSE
      BY DEF Starting
    <3>1. /\ StartsFresh(Block') /\ Len(Block'.lines) \in Nat /\ Proper(Block')
      <4>1. (TypeInv /\ Running => Sound(Block, Late) /\ Len(Block.lines) \in Nat)'
        BY BlockSound, PTL
      <4> QED  BY <4>1 DEF Sound
    <3>2. line' = 1
      BY <1>3 DEF BlockEnds
    <3>3. Block'.try \in Nat
      BY <3>1 DEF Proper
    <3>4. 1 \in 1..Len(Block'.lines)
      BY <3>1, <3>2, <3>3
    <3>5. Here' = Block'.lines[1]
      BY <3>2 DEF Here
    <3> QED  BY <3>1, <3>2, <3>4, <3>5 DEF StartsFresh
  <2> QED  BY <2>2, <2>3 DEF ShutInv
<1>4. CASE UNCHANGED vars
  <2>1. /\ Running' = Running /\ Block' = Block /\ Late' = Late /\ Here' = Here
        /\ session' = session /\ cleanup' = cleanup /\ line' = line
    BY <1>4 DEF vars, choiceVars, placeVars, subjectVars, Running, Block, Plan, Late, Here
  <2> QED  BY <1>0, <2>1 DEF ShutInv, Shutting, Starting, Over
<1> QED
  BY <1>1, <1>2, <1>3, <1>4 DEF Next, Done, NextBlock, CheckEnds, BenchmarkEnds

\* Every session that a check or a benchmark constructs is shut down when it is
\* done with it, whatever it found out and whichever call failed, but for the
\* failures that the programs are not guarded against: of a factory or a shutdown,
\* of an assertion of _protocol, and of start before the try of
\* benchmark_interpreter.
THEOREM AllShut == Spec => []SessionsShut
<1>1. TypeInv /\ ShutInv => SessionsShut
  <2> SUFFICES ASSUME TypeInv, ShutInv, ~cleanup, ~Running \/ line > Len(Block.lines),
                      NEW who \in Slots
               PROVE  session[who].shut
    BY DEF SessionsShut
  <2>1. CASE ~Running
    BY <2>1 DEF ShutInv, Over
  <2>2. CASE Running
    <3>1. line \in Nat /\ Len(Block.lines) \in Nat
      BY <2>2, BlockIs DEF TypeInv
    <3>2. ~Ensured(Block, Late, line, who)
      BY <2>2, <3>1 DEF Ensured
    <3>3. session[who].shut \in BOOLEAN
      BY DEF TypeInv, Data
    <3> QED  BY <2>2, <3>2, <3>3 DEF ShutInv, Shutting
  <2> QED  BY <2>1, <2>2
<1> QED  BY <1>1, TypeInit, TypeNext, ShutInit, ShutNext, PTL DEF Spec

-----------------------------------------------------------------------------
(* A report is complete.  As long as nothing has been raised, the number of *)
(* timings of each kind is given by where benchmark_interpreter is.        *)

\* How many of the n places from place first on are before place l.
Before(l, first, n) == IF l < first THEN 0 ELSE IF l - first > n THEN n ELSE l - first

ColdMetrics == {"construction", "start", "first_execute", "shutdown"}

ColdPlace(m) == CASE m = "construction" -> 1
                  [] m = "start" -> 2
                  [] m = "first_execute" -> 3
                  [] m = "shutdown" -> 4

WarmMetrics == {"warm_execute", "host_tool_round_trip", "one_megabyte_variable"}

WarmPlace(n, m) == CASE m = "warm_execute" -> 4
                     [] m = "host_tool_round_trip" -> n + 5
                     [] m = "one_megabyte_variable" -> 2 * n + 5

WarmNumber(n, m) == IF m = "one_megabyte_variable" THEN Large(n) ELSE n

\* The timings of each kind before line l of block k, with c cold and n warm runs.
ColdCount(c, m, k, l) == IF k <= c THEN k - 1 + Before(l, ColdPlace(m), 1) ELSE c
WarmCount(c, n, m, k, l) == IF k <= c THEN 0 ELSE Before(l, WarmPlace(n, m), WarmNumber(n, m))

CountInv ==
    program = "benchmark" /\ Running /\ ~raised =>
        /\ \A m \in ColdMetrics : samples[m] = ColdCount(cold, m, block, line)
        /\ \A m \in WarmMetrics : samples[m] = WarmCount(cold, warm, m, block, line)

ReportInv ==
    program = "benchmark" /\ outcome = "report" =>
        /\ cold \in Nat \ {0} /\ warm \in Nat \ {0}
        /\ \A m \in ColdMetrics : samples[m] = cold
        /\ \A m \in WarmMetrics : samples[m] = WarmNumber(warm, m)

LEMMA BeforeNext ==
    ASSUME NEW l \in Nat, NEW first \in Nat, NEW n \in Nat
    PROVE  /\ l \in first..(first + n - 1) => Before(l + 1, first, n) = Before(l, first, n) + 1
           /\ l \notin first..(first + n - 1) => Before(l + 1, first, n) = Before(l, first, n)
  BY DEF Before

LEMMA ColdMetric ==
    ASSUME NEW l \in 1..4
    PROVE  /\ ColdRun.lines[l].metric \in ColdMetrics
           /\ \A m \in ColdMetrics : ColdRun.lines[l].metric = m <=> l = ColdPlace(m)
<1>1. l \in {1, 2, 3, 4}
  OBVIOUS
<1>2. /\ ColdRun.lines[1].metric = "construction" /\ ColdRun.lines[2].metric = "start"
      /\ ColdRun.lines[3].metric = "first_execute" /\ ColdRun.lines[4].metric = "shutdown"
  BY ColdIs DEF Clocked
<1>3. /\ ColdPlace("construction") = 1 /\ ColdPlace("start") = 2
      /\ ColdPlace("first_execute") = 3 /\ ColdPlace("shutdown") = 4
  BY DEF ColdPlace
<1> QED  BY <1>1, <1>2, <1>3 DEF ColdMetrics

\* Where the n calls of a kind are that a warm run times.
WarmSpan(n, m) == WarmPlace(n, m)..(WarmPlace(n, m) + WarmNumber(n, m) - 1)

LEMMA WarmSpans ==
    ASSUME NEW n \in Nat \ {0}
    PROVE  /\ WarmSpan(n, "warm_execute") = 4..(n + 3)
           /\ WarmSpan(n, "host_tool_round_trip") = (n + 5)..(2 * n + 4)
           /\ WarmSpan(n, "one_megabyte_variable") = (2 * n + 5)..(2 * n + Large(n) + 4)
           /\ Large(n) \in 1..5
<1>1. Large(n) \in 1..5
  BY DEF Large
<1>2. /\ WarmPlace(n, "warm_execute") = 4 /\ WarmNumber(n, "warm_execute") = n
      /\ WarmPlace(n, "host_tool_round_trip") = n + 5
      /\ WarmNumber(n, "host_tool_round_trip") = n
      /\ WarmPlace(n, "one_megabyte_variable") = 2 * n + 5
      /\ WarmNumber(n, "one_megabyte_variable") = Large(n)
  BY DEF WarmPlace, WarmNumber
<1>3. /\ 4 + n - 1 = n + 3 /\ n + 5 + n - 1 = 2 * n + 4
      /\ 2 * n + 5 + Large(n) - 1 = 2 * n + Large(n) + 4
  BY <1>1
<1> QED  BY <1>1, <1>2, <1>3 DEF WarmSpan

LEMMA WarmMetric ==
    ASSUME NEW n \in Nat \ {0}, NEW l \in 1..Len(WarmRun(n).lines)
    PROVE  /\ WarmRun(n).lines[l].metric \in WarmMetrics \cup {"none"}
           /\ \A m \in WarmMetrics : WarmRun(n).lines[l].metric = m <=> l \in WarmSpan(n, m)
<1> DEFINE at == WarmRun(n).lines
           k == Large(n)
<1>1. /\ Len(at) = 2 * n + k + 7 /\ k \in 1..5
      /\ at[1] = New("first") /\ at[2] = Start("first", Good) /\ at[3] = Probe
      /\ \A i \in 1..n : Clocked(at[3 + i], "execute", "warm_execute")
      /\ Plain(at[n + 4], "configure")
      /\ \A i \in 1..n : Clocked(at[n + 4 + i], "execute", "host_tool_round_trip")
      /\ \A i \in 1..k : Clocked(at[2 * n + 4 + i], "execute", "one_megabyte_variable")
      /\ Plain(at[2 * n + k + 5], "execute")
      /\ at[2 * n + k + 6] = Probe
      /\ at[2 * n + k + 7] = Shut("first")
  BY WarmIs
<1> HIDE DEF at, k
<1>2. /\ Len(at) = 2 * n + k + 7 /\ k \in 1..5
  BY <1>1
<1>3. l \in 1..(2 * n + k + 7)
  BY <1>2 DEF at
<1>4. /\ WarmSpan(n, "warm_execute") = 4..(n + 3)
      /\ WarmSpan(n, "host_tool_round_trip") = (n + 5)..(2 * n + 4)
      /\ WarmSpan(n, "one_megabyte_variable") = (2 * n + 5)..(2 * n + k + 4)
  BY WarmSpans DEF k
<1>5. CASE l \in 1..3 \/ l = n + 4 \/ l \in (2 * n + k + 5)..(2 * n + k + 7)
  <2>1. at[l].metric = "none"
    <3>1. l \in {1, 2, 3, n + 4, 2 * n + k + 5, 2 * n + k + 6, 2 * n + k + 7}
      BY <1>2, <1>5
    <3>2. /\ New("first").metric = "none" /\ Start("first", Good).metric = "none"
          /\ Probe.metric = "none" /\ Shut("first").metric = "none"
      BY DEF New, Start, Probe, Execute, Shut, Statement
    <3>3. /\ at[1].metric = "none" /\ at[2].metric = "none" /\ at[3].metric = "none"
          /\ at[n + 4].metric = "none" /\ at[2 * n + k + 5].metric = "none"
          /\ at[2 * n + k + 6].metric = "none" /\ at[2 * n + k + 7].metric = "none"
      BY <1>1, <3>2 DEF Plain
    <3> QED  BY <3>1, <3>3
  <2>2. /\ l \notin 4..(n + 3) /\ l \notin (n + 5)..(2 * n + 4)
        /\ l \notin (2 * n + 5)..(2 * n + k + 4)
    BY <1>2, <1>5
  <2> QED  BY <1>4, <2>1, <2>2 DEF WarmMetrics, at
<1>6. CASE l \in 4..(n + 3)
  <2>1. l - 3 \in 1..n /\ 3 + (l - 3) = l
    BY <1>6
  <2>2. at[l].metric = "warm_execute"
    BY <1>1, <2>1 DEF Clocked
  <2>3. l \notin (n + 5)..(2 * n + 4) /\ l \notin (2 * n + 5)..(2 * n + k + 4)
    BY <1>2, <1>6
  <2> QED  BY <1>4, <1>6, <2>2, <2>3 DEF WarmMetrics, at
<1>7. CASE l \in (n + 5)..(2 * n + 4)
  <2>1. l - (n + 4) \in 1..n /\ n + 4 + (l - (n + 4)) = l
    BY <1>7
  <2>2. at[l].metric = "host_tool_round_trip"
    BY <1>1, <2>1 DEF Clocked
  <2>3. l \notin 4..(n + 3) /\ l \notin (2 * n + 5)..(2 * n + k + 4)
    BY <1>2, <1>7
  <2> QED  BY <1>4, <1>7, <2>2, <2>3 DEF WarmMetrics, at
<1>8. CASE l \in (2 * n + 5)..(2 * n + k + 4)
  <2>1. l - (2 * n + 4) \in 1..k /\ 2 * n + 4 + (l - (2 * n + 4)) = l
    BY <1>2, <1>8
  <2>2. at[l].metric = "one_megabyte_variable"
    BY <1>1, <2>1 DEF Clocked
  <2>3. l \notin 4..(n + 3) /\ l \notin (n + 5)..(2 * n + 4)
    BY <1>2, <1>8
  <2> QED  BY <1>4, <1>8, <2>2, <2>3 DEF WarmMetrics, at
<1> QED  BY <1>2, <1>3, <1>5, <1>6, <1>7, <1>8

LEMMA P95IsLeast ==
    ASSUME NEW n \in Nat \ {0}
    PROVE  /\ P95Index(n) \in 0..(n - 1)
           /\ 100 * (P95Index(n) + 1) >= 95 * n
           /\ 100 * P95Index(n) < 95 * n
<1> DEFINE c == (95 * n + 99) \div 100
<1>1. c \in Int /\ 100 * c <= 95 * n + 99 /\ 95 * n + 99 < 100 * c + 100
  OBVIOUS
<1>2. P95Index(n) = IF c > 0 THEN c - 1 ELSE 0
  BY DEF P95Index
<1> HIDE DEF c
<1> QED  BY <1>1, <1>2

LEMMA BenchmarkPlace ==
    ASSUME TypeInv, Running, program = "benchmark"
    PROVE  /\ cold \in Nat \ {0} /\ warm \in Nat \ {0}
           /\ check = 1 /\ block \in 1..(cold + 1) /\ Len(Plan[check]) = cold + 1
           /\ block <= cold => Block = ColdRun
           /\ block = cold + 1 => Block = WarmRun(warm)
<1>1. cold \in Nat \ {0} /\ warm \in Nat \ {0}
  BY DEF TypeInv, Choice
<1>2. Plan = Benchmark(cold, warm)
  BY DEF Plan
<1>3. check \in 1..Len(Plan) /\ block \in 1..Len(Plan[check])
  BY DEF TypeInv, Place
<1>4. /\ Len(Plan) = 1 /\ Len(Plan[1]) = cold + 1
      /\ \A i \in 1..cold : Plan[1][i] = ColdRun
      /\ Plan[1][cold + 1] = WarmRun(warm)
  BY <1>1, <1>2, BenchmarkIs
<1>5. check = 1 /\ block \in 1..(cold + 1)
  BY <1>3, <1>4
<1>6. block <= cold => block \in 1..cold
  BY <1>1, <1>5
<1> QED  BY <1>1, <1>4, <1>5, <1>6 DEF Block

LEMMA Counts ==
    ASSUME NEW l \in Nat, NEW c \in Nat, NEW n \in Nat, NEW k \in Nat
    PROVE  /\ \A m \in ColdMetrics :
                  ColdCount(c, m, k, l + 1)
                     = ColdCount(c, m, k, l) + (IF k <= c /\ l = ColdPlace(m) THEN 1 ELSE 0)
           /\ \A m \in WarmMetrics :
                  WarmCount(c, n, m, k, l + 1)
                     = WarmCount(c, n, m, k, l) + (IF k > c /\ l \in WarmSpan(n, m) THEN 1 ELSE 0)
<1>1. \A m \in ColdMetrics : ColdPlace(m) \in Nat
  BY DEF ColdMetrics, ColdPlace
<1>2. \A m \in WarmMetrics : WarmPlace(n, m) \in Nat /\ WarmNumber(n, m) \in Nat
  BY DEF WarmMetrics, WarmPlace, WarmNumber, Large
<1>3. ASSUME NEW m \in ColdMetrics
      PROVE  ColdCount(c, m, k, l + 1)
                     = ColdCount(c, m, k, l) + (IF k <= c /\ l = ColdPlace(m) THEN 1 ELSE 0)
  BY <1>1 DEF ColdCount, Before
<1>4. ASSUME NEW m \in WarmMetrics
      PROVE  WarmCount(c, n, m, k, l + 1)
                     = WarmCount(c, n, m, k, l) + (IF k > c /\ l \in WarmSpan(n, m) THEN 1 ELSE 0)
  <2> DEFINE p == WarmPlace(n, m)
             q == WarmNumber(n, m)
  <2>1. p \in Nat /\ q \in Nat
    BY <1>2
  <2>2. /\ WarmSpan(n, m) = p..(p + q - 1)
        /\ \A j : WarmCount(c, n, m, k, j) = IF k <= c THEN 0 ELSE Before(j, p, q)
    BY DEF WarmSpan, WarmCount
  <2> HIDE DEF p, q
  <2>3. /\ l \in p..(p + q - 1) => Before(l + 1, p, q) = Before(l, p, q) + 1
        /\ l \notin p..(p + q - 1) => Before(l + 1, p, q) = Before(l, p, q)
        /\ Before(l, p, q) \in Int
    BY <2>1, BeforeNext DEF Before
  <2> QED  BY <2>2, <2>3
<1> QED  BY <1>3, <1>4

LEMMA CountStep ==
    ASSUME TypeInv, CountInv, NEW result, Continue(result)
    PROVE  CountInv'
<1> SUFFICES ASSUME program' = "benchmark", Running', ~raised' PROVE CountInv'
  BY DEF CountInv
<1>1. /\ Running /\ line <= Len(Block.lines) /\ program = "benchmark"
      /\ cold' = cold /\ warm' = warm /\ block' = block
  BY DEF Continue, choiceVars
<1>2. /\ result \in Here.want /\ ~raised /\ line' = line + 1
      /\ samples' = IF Here.metric = "none" THEN samples
                    ELSE [samples EXCEPT ![Here.metric] = @ + 1]
  BY DEF Continue
<1>3. samples \in [Metrics -> Nat]
  BY DEF TypeInv, Notes
<1>4. /\ cold \in Nat \ {0} /\ warm \in Nat \ {0} /\ block \in 1..(cold + 1)
      /\ block <= cold => Block = ColdRun
      /\ block = cold + 1 => Block = WarmRun(warm)
  BY <1>1, BenchmarkPlace
<1>5. line \in 1..Len(Block.lines)
  BY <1>1, BlockIs DEF TypeInv
<1>6. \A m \in Metrics : samples'[m] = samples[m] + (IF Here.metric = m THEN 1 ELSE 0)
  <2>1. "none" \notin Metrics
    BY DEF Metrics
  <2> QED  BY <1>2, <1>3, <2>1
<1>7. /\ \A m \in ColdMetrics : samples[m] = ColdCount(cold, m, block, line)
      /\ \A m \in WarmMetrics : samples[m] = WarmCount(cold, warm, m, block, line)
  BY <1>1, <1>2 DEF CountInv
<1>8. /\ \A m \in ColdMetrics : Here.metric = m <=> block <= cold /\ line = ColdPlace(m)
      /\ \A m \in WarmMetrics : Here.metric = m <=> block > cold /\ line \in WarmSpan(warm, m)
  <2>1. CASE block <= cold
    <3>1. Here = ColdRun.lines[line] /\ line \in 1..4
      BY <1>4, <1>5, <2>1, ColdIs DEF Here
    <3>2. /\ Here.metric \in ColdMetrics
          /\ \A m \in ColdMetrics : Here.metric = m <=> line = ColdPlace(m)
      BY <3>1, ColdMetric
    <3>3. \A m \in WarmMetrics : m \notin ColdMetrics
      BY DEF ColdMetrics, WarmMetrics
    <3> QED  BY <1>4, <2>1, <3>2, <3>3
  <2>2. CASE block > cold
    <3>1. Here = WarmRun(warm).lines[line] /\ line \in 1..Len(WarmRun(warm).lines)
      BY <1>4, <1>5, <2>2 DEF Here
    <3>2. /\ Here.metric \in WarmMetrics \cup {"none"}
          /\ \A m \in WarmMetrics : Here.metric = m <=> line \in WarmSpan(warm, m)
      BY <1>4, <3>1, WarmMetric
    <3>3. \A m \in ColdMetrics : m \notin WarmMetrics \cup {"none"}
      BY DEF ColdMetrics, WarmMetrics
    <3> QED  BY <1>4, <2>2, <3>2, <3>3
  <2> QED  BY <1>4, <2>1, <2>2
<1>9. line \in Nat /\ block \in Nat /\ cold \in Nat /\ warm \in Nat
  BY <1>4, <1>5
<1>10. ASSUME NEW m \in ColdMetrics PROVE samples'[m] = ColdCount(cold, m, block, line + 1)
  <2>1. m \in Metrics
    BY DEF ColdMetrics, Metrics
  <2>2. samples'[m] = samples[m] + (IF block <= cold /\ line = ColdPlace(m) THEN 1 ELSE 0)
    BY <1>6, <1>8, <2>1
  <2> QED  BY <1>7, <1>9, <2>2, Counts
<1>11. ASSUME NEW m \in WarmMetrics PROVE samples'[m] = WarmCount(cold, warm, m, block, line + 1)
  <2>1. m \in Metrics
    BY DEF WarmMetrics, Metrics
  <2>2. samples'[m] = samples[m] + (IF block > cold /\ line \in WarmSpan(warm, m) THEN 1 ELSE 0)
    BY <1>6, <1>8, <2>1
  <2> QED  BY <1>7, <1>9, <2>2, Counts
<1> QED  BY <1>1, <1>2, <1>10, <1>11 DEF CountInv

\* The timings when a block is over.
LEMMA CountEnd ==
    ASSUME TypeInv, CountInv, Running, ~raised, program = "benchmark", line > Len(Block.lines)
    PROVE  /\ block <= cold => /\ \A m \in ColdMetrics : samples[m] = block
                               /\ \A m \in WarmMetrics : samples[m] = 0
           /\ block = cold + 1 => /\ \A m \in ColdMetrics : samples[m] = cold
                                  /\ \A m \in WarmMetrics : samples[m] = WarmNumber(warm, m)
<1>1. /\ cold \in Nat \ {0} /\ warm \in Nat \ {0} /\ block \in 1..(cold + 1)
      /\ block <= cold => Block = ColdRun
      /\ block = cold + 1 => Block = WarmRun(warm)
  BY BenchmarkPlace
<1>2. line = Len(Block.lines) + 1
  BY BlockIs DEF TypeInv
<1>3. /\ \A m \in ColdMetrics : samples[m] = ColdCount(cold, m, block, line)
      /\ \A m \in WarmMetrics : samples[m] = WarmCount(cold, warm, m, block, line)
  BY DEF CountInv
<1>4. CASE block <= cold
  <2>1. line = 5
    <3>1. Block = ColdRun
      BY <1>1, <1>4
    <3>2. Len(Block.lines) = 4
      BY <3>1, ColdIs
    <3> QED  BY <1>2, <3>2
  <2>2. \A m \in ColdMetrics : ColdPlace(m) \in 1..4
    BY DEF ColdMetrics, ColdPlace
  <2>3. \A m \in ColdMetrics : samples[m] = block
    BY <1>1, <1>3, <1>4, <2>1, <2>2 DEF ColdCount, Before
  <2>4. \A m \in WarmMetrics : samples[m] = 0
    BY <1>3, <1>4 DEF WarmCount
  <2> QED  BY <1>1, <1>4, <2>3, <2>4
<1>5. CASE block = cold + 1
  <2>1. Block = WarmRun(warm)
    BY <1>1, <1>5
  <2>2. Len(WarmRun(warm).lines) = 2 * warm + Large(warm) + 7
    BY <1>1, WarmIs
  <2>3. line = 2 * warm + Large(warm) + 8 /\ Large(warm) \in 1..5
    <3>1. Large(warm) \in 1..5
      BY <1>1, WarmSpans
    <3>2. Len(Block.lines) = 2 * warm + Large(warm) + 7
      BY <2>1, <2>2
    <3> QED  BY <1>1, <1>2, <3>1, <3>2
  <2>4. \A m \in ColdMetrics : samples[m] = cold
    BY <1>1, <1>3, <1>5 DEF ColdCount
  <2>5. \A m \in WarmMetrics : samples[m] = Before(line, WarmPlace(warm, m), WarmNumber(warm, m))
    BY <1>1, <1>3, <1>5 DEF WarmCount
  <2>6. ASSUME NEW m \in WarmMetrics
        PROVE  Before(line, WarmPlace(warm, m), WarmNumber(warm, m)) = WarmNumber(warm, m)
    <3>1. m \in {"warm_execute", "host_tool_round_trip", "one_megabyte_variable"}
      BY DEF WarmMetrics
    <3>2. /\ Before(line, 4, warm) = warm
          /\ Before(line, warm + 5, warm) = warm
          /\ Before(line, 2 * warm + 5, Large(warm)) = Large(warm)
      BY <1>1, <2>3 DEF Before
    <3> QED  BY <3>1, <3>2 DEF WarmPlace, WarmNumber
  <2> QED  BY <1>1, <1>5, <2>4, <2>5, <2>6
<1> QED  BY <1>1, <1>4, <1>5

LEMMA CountInit == Init => CountInv /\ ReportInv
<1> SUFFICES ASSUME Init PROVE CountInv /\ ReportInv
  OBVIOUS
<1>1. \A m \in ColdMetrics \cup WarmMetrics : samples[m] = 0
  BY DEF Init, ColdMetrics, WarmMetrics, Metrics
<1>2. CountInv
  <2> SUFFICES ASSUME program = "benchmark", Running PROVE CountInv
    BY DEF CountInv
  <2>1. cold \in Nat \ {0} /\ warm \in Nat \ {0} /\ block = 1 /\ line = 1
    BY TypeInit, BenchmarkPlace DEF Init
  <2>2. \A m \in ColdMetrics : ColdPlace(m) \in 1..4
    BY DEF ColdMetrics, ColdPlace
  <2>3. \A m \in ColdMetrics : ColdCount(cold, m, 1, 1) = 0
    BY <2>1, <2>2 DEF ColdCount, Before
  <2>4. \A m \in WarmMetrics : WarmCount(cold, warm, m, 1, 1) = 0
    BY <2>1 DEF WarmCount
  <2> QED  BY <1>1, <2>1, <2>3, <2>4 DEF CountInv
<1>3. ReportInv
  BY DEF Init, ReportInv
<1> QED  BY <1>2, <1>3

LEMMA CountNext == TypeInv /\ CountInv /\ ReportInv /\ [Next]_vars => CountInv' /\ ReportInv'
<1> SUFFICES ASSUME TypeInv, CountInv, ReportInv, [Next]_vars PROVE CountInv' /\ ReportInv'
  OBVIOUS
<1>1. ASSUME NEW result, Continue(result) PROVE CountInv' /\ ReportInv'
  <2>1. CountInv'
    BY <1>1, CountStep
  <2>2. outcome' = "running"
    BY <1>1 DEF Continue, Running
  <2> QED  BY <2>1, <2>2 DEF ReportInv
<1>2. CASE Subject
  BY <1>1, <1>2, SubjectSteps
<1>3. CASE CallFails
  BY <1>1, <1>3 DEF CallFails
<1>4. CASE NextBlock
  <2>1. /\ Running /\ line > Len(Block.lines) /\ ~raised /\ block < Len(Plan[check])
        /\ line' = 1 /\ block' = block + 1 /\ samples' = samples /\ outcome' = outcome
        /\ program' = program /\ cold' = cold /\ warm' = warm
    BY <1>4 DEF NextBlock, BlockEnds, choiceVars
  <2>2. ReportInv'
    BY <2>1 DEF ReportInv, Running
  <2>3. CountInv'
    <3> SUFFICES ASSUME program = "benchmark" PROVE CountInv'
      BY <2>1 DEF CountInv
    <3>1. cold \in Nat \ {0} /\ warm \in Nat \ {0} /\ block \in 1..cold
      BY <2>1, BenchmarkPlace
    <3>2. /\ \A m \in ColdMetrics : samples[m] = block
          /\ \A m \in WarmMetrics : samples[m] = 0
      <4>1. block <= cold
        BY <3>1
      <4> QED  BY <2>1, <4>1, CountEnd
    <3>3. \A m \in ColdMetrics : ColdPlace(m) \in 1..4
      BY DEF ColdMetrics, ColdPlace
    <3>4. \A m \in ColdMetrics : ColdCount(cold, m, block + 1, 1) = block
      BY <3>1, <3>3 DEF ColdCount, Before
    <3>5. \A m \in WarmMetrics : WarmPlace(warm, m) \in Nat /\ WarmPlace(warm, m) > 1
      BY <3>1 DEF WarmMetrics, WarmPlace
    <3>6. \A m \in WarmMetrics : WarmCount(cold, warm, m, block + 1, 1) = 0
      BY <3>1, <3>5 DEF WarmCount, Before
    <3> QED  BY <2>1, <3>2, <3>4, <3>6 DEF CountInv
  <2> QED  BY <2>2, <2>3
<1>5. CASE CheckEnds
  BY <1>5 DEF CheckEnds, BlockEnds, choiceVars, CountInv, ReportInv
<1>6. CASE BenchmarkEnds
  <2>1. /\ Running /\ line > Len(Block.lines) /\ program = "benchmark"
        /\ raised \/ block = Len(Plan[check])
        /\ samples' = samples /\ cold' = cold /\ warm' = warm
        /\ outcome' = IF raised THEN "raised" ELSE "report"
    BY <1>6 DEF BenchmarkEnds, BlockEnds, choiceVars
  <2>2. CountInv'
    BY <2>1 DEF CountInv, Running
  <2>3. ReportInv'
    <3> SUFFICES ASSUME ~raised PROVE ReportInv'
      BY <2>1 DEF ReportInv
    <3>1. cold \in Nat \ {0} /\ warm \in Nat \ {0} /\ block = cold + 1
      BY <2>1, BenchmarkPlace
    <3>2. /\ \A m \in ColdMetrics : samples[m] = cold
          /\ \A m \in WarmMetrics : samples[m] = WarmNumber(warm, m)
      BY <2>1, <3>1, CountEnd
    <3> QED  BY <2>1, <3>1, <3>2 DEF ReportInv
  <2> QED  BY <2>2, <2>3
<1>7. CASE UNCHANGED vars
  BY <1>7 DEF vars, choiceVars, placeVars, CountInv, ReportInv, Running
<1> QED
  BY <1>2, <1>3, <1>4, <1>5, <1>6, <1>7 DEF Next, Done

\* A report of benchmark_interpreter is made of as many timings as were asked
\* for, never of none, and p95 is the least sample that 95% do not exceed.
THEOREM Complete == Spec => []ReportComplete
<1>1. ReportInv => ReportComplete
  <2> SUFFICES ASSUME ReportInv, outcome = "report", program = "benchmark" PROVE ReportComplete
    BY DEF ReportComplete
  <2>1. /\ cold \in Nat \ {0} /\ warm \in Nat \ {0}
        /\ \A m \in ColdMetrics : samples[m] = cold
        /\ \A m \in WarmMetrics : samples[m] = WarmNumber(warm, m)
    BY DEF ReportInv
  <2>2. Large(warm) \in Nat \ {0}
    BY <2>1 DEF Large
  <2>3. \A m \in Metrics : samples[m] \in Nat \ {0}
    BY <2>1, <2>2 DEF Metrics, ColdMetrics, WarmMetrics, WarmNumber
  <2>4. \A m \in Metrics : /\ P95Index(samples[m]) \in 0..(samples[m] - 1)
                           /\ 100 * (P95Index(samples[m]) + 1) >= 95 * samples[m]
                           /\ 100 * P95Index(samples[m]) < 95 * samples[m]
    BY <2>3, P95IsLeast
  <2>5. samples["warm_execute"] = warm /\ samples["host_tool_round_trip"] = warm
    BY <2>1 DEF WarmMetrics, WarmNumber
  <2>6. \A m \in {"construction", "start", "first_execute", "shutdown"} : samples[m] = cold
    BY <2>1 DEF ColdMetrics
  <2> QED  BY <2>4, <2>5, <2>6 DEF ReportComplete
<1> QED  BY <1>1, TypeInit, TypeNext, CountInit, CountNext, PTL DEF Spec

-----------------------------------------------------------------------------
(* The suite tells good from broken.  First the checks, statement by        *)
(* statement.                                                              *)

LEMMA WithIs ==
    ASSUME NEW body \in Seq(Inner)
    PROVE  /\ Len(With(body).lines) = Len(body) + 2
           /\ With(body).try = 2 /\ With(body).finally = Len(body) + 2
           /\ With(body).lines[1] = New("first")
           /\ Holds(With(body), body)
           /\ With(body).lines[Len(body) + 2] = Shut("first")
<1>1. /\ New("first") \in Statements /\ New("first").op = "new"
      /\ Shut("first") \in Statements /\ Shuts(Shut("first"), New("first").who)
  BY Spoken DEF New, Shut, Statement, Shuts, Slots
<1> DEFINE b == With(body)
<1>2. /\ b.lines = <<New("first")>> \o body \o <<Shut("first")>>
      /\ b.try = 2 /\ b.finally = Len(body) + 2
  BY <1>1, InnerBody, Tried DEF With
<1> HIDE DEF b
<1>3. Keeper(b, New("first"), body, Shut("first"))
  BY <1>1, <1>2, InnerBody DEF Keeper
<1>4. /\ Len(b.lines) = Len(body) + 2 /\ b.lines[1] = New("first") /\ Holds(b, body)
      /\ b.lines[Len(body) + 2] = Shut("first")
  BY <1>3, OneSession
<1> QED  BY <1>2, <1>4 DEF b

LEMMA With2 ==
    ASSUME NEW p \in Inner, NEW q \in Inner
    PROVE  LET b == With(<<p, q>>) IN
           /\ Len(b.lines) = 4 /\ b.try = 2 /\ b.finally = 4
           /\ b.lines[1] = New("first") /\ b.lines[2] = p /\ b.lines[3] = q
           /\ b.lines[4] = Shut("first")
<1> DEFINE body == <<p, q>>
<1>1. body \in Seq(Inner) /\ Len(body) = 2 /\ body[1] = p /\ body[2] = q
  BY Few
<1> HIDE DEF body
<1>2. /\ Len(With(body).lines) = Len(body) + 2
      /\ With(body).try = 2 /\ With(body).finally = Len(body) + 2
      /\ With(body).lines[1] = New("first")
      /\ \A i \in 1..Len(body) : With(body).lines[i + 1] = body[i]
      /\ With(body).lines[Len(body) + 2] = Shut("first")
  BY <1>1, WithIs DEF Holds
<1>3. 1 \in 1..2 /\ 2 \in 1..2 /\ 1 + 1 = 2 /\ 2 + 1 = 3 /\ 2 + 2 = 4
  OBVIOUS
<1>4. /\ Len(With(body).lines) = 4 /\ With(body).try = 2 /\ With(body).finally = 4
      /\ With(body).lines[1] = New("first") /\ With(body).lines[2] = p
      /\ With(body).lines[3] = q /\ With(body).lines[4] = Shut("first")
  BY <1>1, <1>2, <1>3
<1> QED  BY <1>4 DEF body

LEMMA With3 ==
    ASSUME NEW p \in Inner, NEW q \in Inner, NEW r \in Inner
    PROVE  LET b == With(<<p, q, r>>) IN
           /\ Len(b.lines) = 5 /\ b.try = 2 /\ b.finally = 5
           /\ b.lines[1] = New("first") /\ b.lines[2] = p /\ b.lines[3] = q
           /\ b.lines[4] = r /\ b.lines[5] = Shut("first")
<1> DEFINE body == <<p, q, r>>
<1>1. body \in Seq(Inner) /\ Len(body) = 3 /\ body[1] = p /\ body[2] = q /\ body[3] = r
  BY Few
<1> HIDE DEF body
<1>2. /\ Len(With(body).lines) = Len(body) + 2
      /\ With(body).try = 2 /\ With(body).finally = Len(body) + 2
      /\ With(body).lines[1] = New("first")
      /\ \A i \in 1..Len(body) : With(body).lines[i + 1] = body[i]
      /\ With(body).lines[Len(body) + 2] = Shut("first")
  BY <1>1, WithIs DEF Holds
<1>3. /\ 1 \in 1..3 /\ 2 \in 1..3 /\ 3 \in 1..3
      /\ 1 + 1 = 2 /\ 2 + 1 = 3 /\ 3 + 1 = 4 /\ 3 + 2 = 5
  OBVIOUS
<1>4. /\ Len(With(body).lines) = 5 /\ With(body).try = 2 /\ With(body).finally = 5
      /\ With(body).lines[1] = New("first") /\ With(body).lines[2] = p
      /\ With(body).lines[3] = q /\ With(body).lines[4] = r
      /\ With(body).lines[5] = Shut("first")
  BY <1>1, <1>2, <1>3
<1> QED  BY <1>4 DEF body

LEMMA With4 ==
    ASSUME NEW p \in Inner, NEW q \in Inner, NEW r \in Inner, NEW s \in Inner
    PROVE  LET b == With(<<p, q, r, s>>) IN
           /\ Len(b.lines) = 6 /\ b.try = 2 /\ b.finally = 6
           /\ b.lines[1] = New("first") /\ b.lines[2] = p /\ b.lines[3] = q
           /\ b.lines[4] = r /\ b.lines[5] = s /\ b.lines[6] = Shut("first")
<1> DEFINE body == <<p, q, r, s>>
<1>1. /\ body \in Seq(Inner) /\ Len(body) = 4
      /\ body[1] = p /\ body[2] = q /\ body[3] = r /\ body[4] = s
  BY Few
<1> HIDE DEF body
<1>2. /\ Len(With(body).lines) = Len(body) + 2
      /\ With(body).try = 2 /\ With(body).finally = Len(body) + 2
      /\ With(body).lines[1] = New("first")
      /\ \A i \in 1..Len(body) : With(body).lines[i + 1] = body[i]
      /\ With(body).lines[Len(body) + 2] = Shut("first")
  BY <1>1, WithIs DEF Holds
<1>3. /\ 1 \in 1..4 /\ 2 \in 1..4 /\ 3 \in 1..4 /\ 4 \in 1..4
      /\ 1 + 1 = 2 /\ 2 + 1 = 3 /\ 3 + 1 = 4 /\ 4 + 1 = 5 /\ 4 + 2 = 6
  OBVIOUS
<1>4. /\ Len(With(body).lines) = 6 /\ With(body).try = 2 /\ With(body).finally = 6
      /\ With(body).lines[1] = New("first") /\ With(body).lines[2] = p
      /\ With(body).lines[3] = q /\ With(body).lines[4] = r
      /\ With(body).lines[5] = s /\ With(body).lines[6] = Shut("first")
  BY <1>1, <1>2, <1>3
<1> QED  BY <1>4 DEF body

LEMMA ChecksAre ==
    /\ Len(Checks) = 10
    /\ Checks[1] = <<Protocol>>
    /\ Checks[2] = <<Lifecycle>>
    /\ Checks[3] = <<With(<<Execute("first", "print", Good), Execute("first", "arithmetic", Good)>>)>>
    /\ Checks[4] = <<Persistence>>
    /\ Checks[5] = <<Isolation>>
    /\ Checks[6] = <<Errors>>
    /\ Checks[7] = <<Tools>>
    /\ Checks[8] = <<Untyped, Typed>>
    /\ Checks[9] = <<Terminates>>
    /\ Checks[10] = <<Terminal>>
  BY DEF Checks

\* The number of statements of block b, and where its cleanup begins.
Shape(b, number, try, finally) == Len(b.lines) = number /\ b.try = try /\ b.finally = finally

\* Statement l of block b.
Says(b, l, op, who, what, want) ==
    /\ b.lines[l].op = op /\ b.lines[l].who = who /\ b.lines[l].what = what
    /\ b.lines[l].want = want

LEMMA CreateIs ==
    LET b == Checks[1][1] IN
    /\ Len(Checks[1]) = 1 /\ Shape(b, 3, 4, 4)
    /\ Says(b, 1, "new", "first", "none", Good) /\ Says(b, 2, "assert", "first", "none", Good)
    /\ Says(b, 3, "shutdown", "first", "none", Good)
  BY ChecksAre, ProtocolIs DEF Shape, Says, New, Assert, Shut, Statement, Good

LEMMA LifecycleIs ==
    LET b == Checks[2][1] IN
    /\ Len(Checks[2]) = 1 /\ Shape(b, 5, 2, 5)
    /\ Says(b, 1, "new", "first", "none", Good)
    /\ Says(b, 2, "start", "first", "none", Good)
    /\ Says(b, 3, "start", "first", "none", Good)
    /\ Says(b, 4, "execute", "first", "arithmetic", Good)
    /\ Says(b, 5, "shutdown", "first", "none", Good)
<1> DEFINE p == Start("first", Good)
           r == Execute("first", "arithmetic", Good)
           b == Lifecycle
<1>1. p \in Inner /\ r \in Inner
  BY InnerSpoken DEF Slots, Codes, Outcomes, Good
<1>2. b = With(<<p, p, r>>)
  BY DEF Lifecycle
<1> HIDE DEF p, r, b
<1>3. /\ Len(b.lines) = 5 /\ b.try = 2 /\ b.finally = 5
      /\ b.lines[1] = New("first") /\ b.lines[2] = p /\ b.lines[3] = p
      /\ b.lines[4] = r /\ b.lines[5] = Shut("first")
  BY <1>1, <1>2, With3
<1>4. Len(Checks[2]) = 1 /\ Checks[2][1] = b
  BY ChecksAre DEF b
<1> QED
  BY <1>3, <1>4 DEF p, r, Shape, Says, New, Start, Execute, Shut, Statement, Good

LEMMA PrintIs ==
    LET b == Checks[3][1] IN
    /\ Len(Checks[3]) = 1 /\ Shape(b, 4, 2, 4)
    /\ Says(b, 1, "new", "first", "none", Good)
    /\ Says(b, 2, "execute", "first", "print", Good)
    /\ Says(b, 3, "execute", "first", "arithmetic", Good)
    /\ Says(b, 4, "shutdown", "first", "none", Good)
<1> DEFINE p == Execute("first", "print", Good)
           q == Execute("first", "arithmetic", Good)
           b == With(<<p, q>>)
<1>1. p \in Inner /\ q \in Inner
  BY InnerSpoken DEF Slots, Codes, Outcomes, Good, Final
<1>2. b = With(<<p, q>>)
  OBVIOUS
<1> HIDE DEF p, q, b
<1>3. /\ Len(b.lines) = 4 /\ b.try = 2 /\ b.finally = 4
      /\ b.lines[1] = New("first")
      /\ b.lines[2] = p
      /\ b.lines[3] = q
      /\ b.lines[4] = Shut("first")
  BY <1>1, <1>2, With2
<1>4. Len(Checks[3]) = 1 /\ Checks[3][1] = b
  BY ChecksAre DEF b, p, q
<1> QED
  BY <1>3, <1>4
  DEF p, q, Shape, Says, New, Execute, Configure, ToolCalls, Shut, Statement, Good, Final

LEMMA PersistenceIs ==
    LET b == Checks[4][1] IN
    /\ Len(Checks[4]) = 1 /\ Shape(b, 5, 2, 5)
    /\ Says(b, 1, "new", "first", "none", Good)
    /\ Says(b, 2, "execute", "first", "remember", Good)
    /\ Says(b, 3, "execute", "first", "recall", Good)
    /\ Says(b, 4, "execute", "first", "variable", Good)
    /\ Says(b, 5, "shutdown", "first", "none", Good)
<1> DEFINE p == Execute("first", "remember", Good)
           q == Execute("first", "recall", Good)
           r == Execute("first", "variable", Good)
           b == Persistence
<1>1. p \in Inner /\ q \in Inner /\ r \in Inner
  BY InnerSpoken DEF Slots, Codes, Outcomes, Good, Final
<1>2. b = With(<<p, q, r>>)
  BY DEF Persistence
<1> HIDE DEF p, q, r, b
<1>3. /\ Len(b.lines) = 5 /\ b.try = 2 /\ b.finally = 5
      /\ b.lines[1] = New("first")
      /\ b.lines[2] = p
      /\ b.lines[3] = q
      /\ b.lines[4] = r
      /\ b.lines[5] = Shut("first")
  BY <1>1, <1>2, With3
<1>4. Len(Checks[4]) = 1 /\ Checks[4][1] = b
  BY ChecksAre DEF b
<1> QED
  BY <1>3, <1>4
  DEF p, q, r, Shape, Says, New, Execute, Configure, ToolCalls, Shut, Statement, Good, Final

LEMMA ErrorsIs ==
    LET b == Checks[6][1] IN
    /\ Len(Checks[6]) = 1 /\ Shape(b, 5, 2, 5)
    /\ Says(b, 1, "new", "first", "none", Good)
    /\ Says(b, 2, "execute", "first", "syntax", {"SyntaxError"})
    /\ Says(b, 3, "execute", "first", "divide", {"CodeExecutionError"})
    /\ Says(b, 4, "execute", "first", "arithmetic", Good)
    /\ Says(b, 5, "shutdown", "first", "none", Good)
<1> DEFINE p == Execute("first", "syntax", {"SyntaxError"})
           q == Execute("first", "divide", {"CodeExecutionError"})
           r == Execute("first", "arithmetic", Good)
           b == Errors
<1>1. p \in Inner /\ q \in Inner /\ r \in Inner
  BY InnerSpoken DEF Slots, Codes, Outcomes, Good, Final
<1>2. b = With(<<p, q, r>>)
  BY DEF Errors
<1> HIDE DEF p, q, r, b
<1>3. /\ Len(b.lines) = 5 /\ b.try = 2 /\ b.finally = 5
      /\ b.lines[1] = New("first")
      /\ b.lines[2] = p
      /\ b.lines[3] = q
      /\ b.lines[4] = r
      /\ b.lines[5] = Shut("first")
  BY <1>1, <1>2, With3
<1>4. Len(Checks[6]) = 1 /\ Checks[6][1] = b
  BY ChecksAre DEF b
<1> QED
  BY <1>3, <1>4
  DEF p, q, r, Shape, Says, New, Execute, Configure, ToolCalls, Shut, Statement, Good, Final

LEMMA ToolsIs ==
    LET b == Checks[7][1] IN
    /\ Len(Checks[7]) = 1 /\ Shape(b, 5, 2, 5)
    /\ Says(b, 1, "new", "first", "none", Good)
    /\ Says(b, 2, "configure", "first", "tool", Good)
    /\ Says(b, 3, "execute", "first", "callTool", Good)
    /\ Says(b, 4, "calls", "first", 1, Good)
    /\ Says(b, 5, "shutdown", "first", "none", Good)
<1> DEFINE p == Configure("first", "tool")
           q == Execute("first", "callTool", Good)
           r == ToolCalls(1)
           b == Tools
<1>1. p \in Inner /\ q \in Inner /\ r \in Inner
  BY InnerSpoken DEF Slots, Codes, Outcomes, Good, Final
<1>2. b = With(<<p, q, r>>)
  BY DEF Tools
<1> HIDE DEF p, q, r, b
<1>3. /\ Len(b.lines) = 5 /\ b.try = 2 /\ b.finally = 5
      /\ b.lines[1] = New("first")
      /\ b.lines[2] = p
      /\ b.lines[3] = q
      /\ b.lines[4] = r
      /\ b.lines[5] = Shut("first")
  BY <1>1, <1>2, With3
<1>4. Len(Checks[7]) = 1 /\ Checks[7][1] = b
  BY ChecksAre DEF b
<1> QED
  BY <1>3, <1>4
  DEF p, q, r, Shape, Says, New, Execute, Configure, ToolCalls, Shut, Statement, Good, Final

LEMMA UntypedIs ==
    LET b == Checks[8][1] IN
    /\ Len(Checks[8]) = 2 /\ Shape(b, 4, 2, 4)
    /\ Says(b, 1, "new", "first", "none", Good)
    /\ Says(b, 2, "configure", "first", "nothing", Good)
    /\ Says(b, 3, "execute", "first", "submit", {"final"})
    /\ Says(b, 4, "shutdown", "first", "none", Good)
<1> DEFINE p == Configure("first", "nothing")
           q == Execute("first", "submit", {"final"})
           b == Untyped
<1>1. p \in Inner /\ q \in Inner
  BY InnerSpoken DEF Slots, Codes, Outcomes, Good, Final
<1>2. b = With(<<p, q>>)
  BY DEF Untyped
<1> HIDE DEF p, q, b
<1>3. /\ Len(b.lines) = 4 /\ b.try = 2 /\ b.finally = 4
      /\ b.lines[1] = New("first")
      /\ b.lines[2] = p
      /\ b.lines[3] = q
      /\ b.lines[4] = Shut("first")
  BY <1>1, <1>2, With2
<1>4. Len(Checks[8]) = 2 /\ Checks[8][1] = b
  BY ChecksAre DEF b
<1> QED
  BY <1>3, <1>4
  DEF p, q, Shape, Says, New, Execute, Configure, ToolCalls, Shut, Statement, Good, Final

LEMMA TypedIs ==
    LET b == Checks[8][2] IN
    /\ Len(Checks[8]) = 2 /\ Shape(b, 6, 2, 6)
    /\ Says(b, 1, "new", "first", "none", Good)
    /\ Says(b, 2, "configure", "first", "fields", Good)
    /\ Says(b, 3, "execute", "first", "submitFields", {"final"})
    /\ Says(b, 4, "execute", "first", "submitMissing", {"CodeExecutionError"})
    /\ Says(b, 5, "execute", "first", "arithmetic", Good)
    /\ Says(b, 6, "shutdown", "first", "none", Good)
<1> DEFINE p == Configure("first", "fields")
           q == Execute("first", "submitFields", {"final"})
           r == Execute("first", "submitMissing", {"CodeExecutionError"})
           s == Execute("first", "arithmetic", Good)
           b == Typed
<1>1. p \in Inner /\ q \in Inner /\ r \in Inner /\ s \in Inner
  BY InnerSpoken DEF Slots, Codes, Outcomes, Good, Final
<1>2. b = With(<<p, q, r, s>>)
  BY DEF Typed
<1> HIDE DEF p, q, r, s, b
<1>3. /\ Len(b.lines) = 6 /\ b.try = 2 /\ b.finally = 6
      /\ b.lines[1] = New("first")
      /\ b.lines[2] = p
      /\ b.lines[3] = q
      /\ b.lines[4] = r
      /\ b.lines[5] = s
      /\ b.lines[6] = Shut("first")
  BY <1>1, <1>2, With4
<1>4. Len(Checks[8]) = 2 /\ Checks[8][2] = b
  BY ChecksAre DEF b
<1> QED
  BY <1>3, <1>4
  DEF p, q, r, s, Shape, Says, New, Execute, Configure, ToolCalls, Shut, Statement, Good, Final

LEMMA TerminatesIs ==
    LET b == Checks[9][1] IN
    /\ Len(Checks[9]) = 1 /\ Shape(b, 5, 2, 5)
    /\ Says(b, 1, "new", "first", "none", Good)
    /\ Says(b, 2, "configure", "first", "tool", Good)
    /\ Says(b, 3, "execute", "first", "submitThenTool", Final)
    /\ Says(b, 4, "calls", "first", 0, Good)
    /\ Says(b, 5, "shutdown", "first", "none", Good)
<1> DEFINE p == Configure("first", "tool")
           q == Execute("first", "submitThenTool", Final)
           r == ToolCalls(0)
           b == Terminates
<1>1. p \in Inner /\ q \in Inner /\ r \in Inner
  BY InnerSpoken DEF Slots, Codes, Outcomes, Good, Final
<1>2. b = With(<<p, q, r>>)
  BY DEF Terminates
<1> HIDE DEF p, q, r, b
<1>3. /\ Len(b.lines) = 5 /\ b.try = 2 /\ b.finally = 5
      /\ b.lines[1] = New("first")
      /\ b.lines[2] = p
      /\ b.lines[3] = q
      /\ b.lines[4] = r
      /\ b.lines[5] = Shut("first")
  BY <1>1, <1>2, With3
<1>4. Len(Checks[9]) = 1 /\ Checks[9][1] = b
  BY ChecksAre DEF b
<1> QED
  BY <1>3, <1>4
  DEF p, q, r, Shape, Says, New, Execute, Configure, ToolCalls, Shut, Statement, Good, Final

LEMMA IsolatesIs ==
    LET b == Checks[5][1] IN
    /\ Len(Checks[5]) = 1 /\ Shape(b, 6, 3, 5)
    /\ Says(b, 1, "new", "first", "none", Good)
    /\ Says(b, 2, "new", "second", "none", Good)
    /\ Says(b, 3, "execute", "first", "keepPrivate", Good)
    /\ Says(b, 4, "execute", "second", "readPrivate", {"CodeExecutionError"})
    /\ Says(b, 5, "shutdown", "first", "none", Good)
    /\ Says(b, 6, "shutdown", "second", "none", Good)
<1>1. Len(Checks[5]) = 1 /\ Checks[5][1] = Isolation
  BY ChecksAre
<1> QED
  BY <1>1, IsolationIs DEF Shape, Says, New, Execute, Shut, Statement, Good

LEMMA TerminalIs ==
    LET b == Checks[10][1] IN
    /\ Len(Checks[10]) = 1 /\ Shape(b, 5, 6, 6)
    /\ Says(b, 1, "new", "first", "none", Good)
    /\ Says(b, 2, "shutdown", "first", "none", Good)
    /\ Says(b, 3, "shutdown", "first", "none", Good)
    /\ Says(b, 4, "start", "first", "none", {"CodeInterpreterError"})
    /\ Says(b, 5, "execute", "first", "arithmetic", {"CodeInterpreterError"})
<1>1. Len(Checks[10]) = 1 /\ Checks[10][1] = Terminal
  BY ChecksAre
<1>2. /\ Len(Terminal.lines) = 5 /\ Terminal.try = 6 /\ Terminal.finally = 6
      /\ Terminal.lines[1] = New("first") /\ Terminal.lines[2] = Shut("first")
      /\ Terminal.lines[3] = Shut("first")
      /\ Terminal.lines[4] = Start("first", {"CodeInterpreterError"})
      /\ Terminal.lines[5] = Execute("first", "arithmetic", {"CodeInterpreterError"})
  BY DEF Terminal, Unguarded
<1> QED
  BY <1>1, <1>2 DEF Shape, Says, New, Start, Execute, Shut, Statement, Good

-----------------------------------------------------------------------------
(* A good session meets every check in which no call fails. *)

\* Neither an exception nor a failing call in this check so far.
Calm == Running /\ program # "benchmark" /\ ~raised /\ check \notin struck

\* Sessions end in the cleanup, or in the check that is about it.
Alive == Calm =>
    /\ Block.try <= line /\ line < Block.finally => ~session["first"].ended
    /\ check = 5 /\ line \in 2..4 => ~session["first"].ended
    /\ check = 5 /\ line \in 3..4 => ~session["second"].ended

\* What the statements ahead will find, in a good session and in a broken one.
Prepared == Calm =>
    /\ check = 10 /\ line \in 3..5 => (session["first"].ended <=> defect # "nonterminalShutdown")
    /\ check \in {7, 9} /\ line = 3 => session["first"].given = "tool"
    /\ check = 8 /\ block = 1 /\ line = 3 => session["first"].given = "nothing"
    /\ check = 8 /\ block = 2 /\ line \in 3..4 => session["first"].given = "fields"
    /\ check \in {7, 9} /\ line \in 1..3 => calls = 0
    /\ check = 7 /\ line = 4 => calls = 1
    /\ check = 9 /\ line = 4 => calls = IF defect = "continuesAfterSubmit" THEN 1 ELSE 0
    /\ check = 4 /\ line = 3 => ("remembered" \in names["first"] <=> defect # "losesNamespace")
    /\ check = 5 /\ line = 3 /\ defect # "sharedNamespace" =>
          "private_value" \notin names["second"]
    /\ check = 5 /\ line = 4 =>
          ("private_value" \in names["second"] <=> defect = "sharedNamespace")

LEMMA CheckPlace ==
    ASSUME TypeInv, Running, program # "benchmark"
    PROVE  /\ Plan = Checks /\ Block = Checks[check][block]
           /\ check \in 1..10 /\ block \in 1..Len(Checks[check])
           /\ check # 8 => block = 1
           /\ check = 8 => block \in {1, 2}
           /\ line \in 1..(Len(Block.lines) + 1) /\ Len(Block.lines) \in Nat
<1>1. Plan = Checks
  BY DEF Plan
<1>2. Block = Checks[check][block]
  BY <1>1 DEF Block
<1>3. check \in 1..Len(Checks) /\ block \in 1..Len(Checks[check])
  BY <1>1 DEF TypeInv, Place
<1>4. check \in 1..10
  BY <1>3, ChecksAre
<1>5. \A c \in 1..10 : c # 8 => Len(Checks[c]) = 1
  <2>1. \A c \in 1..10 : c \in {1, 2, 3, 4, 5, 6, 7, 8, 9, 10}
    OBVIOUS
  <2> QED
    BY <2>1, CreateIs, LifecycleIs, PrintIs, PersistenceIs, IsolatesIs, ErrorsIs, ToolsIs,
       TerminatesIs, TerminalIs
<1>6. Len(Checks[8]) = 2
  BY UntypedIs
<1>7. check # 8 => block = 1
  <2> SUFFICES ASSUME check # 8 PROVE block = 1
    OBVIOUS
  <2>1. Len(Checks[check]) = 1
    BY <1>4, <1>5
  <2> QED  BY <1>3, <2>1
<1>8. check = 8 => block \in {1, 2}
  <2> SUFFICES ASSUME check = 8 PROVE block \in {1, 2}
    OBVIOUS
  <2>1. Len(Checks[check]) = 2
    BY <1>6
  <2> QED  BY <1>3, <2>1
<1> QED  BY <1>1, <1>2, <1>3, <1>4, <1>7, <1>8, BlockIs DEF TypeInv

\* The actions are told apart by the statement.
LEMMA Which ==
    ASSUME Subject
    PROVE  /\ Here.op = "new" => Construct
           /\ Here.op = "assert" => Assertion
           /\ Here.op = "start" => StartSession
           /\ Here.op = "configure" => ConfigureSession
           /\ Here.op = "calls" => CompareCalls
           /\ Here.op = "execute" => ExecuteCode
           /\ Here.op = "shutdown" => ShutDown
  BY DEF Subject, Construct, Assertion, StartSession, ConfigureSession, CompareCalls, ExecuteCode, ShutDown

LEMMA RunsAre ==
    ASSUME NEW who
    PROVE  /\ Runs(who, "arithmetic") = "value" /\ Runs(who, "print") = "value"
           /\ Runs(who, "variable") = "value" /\ Runs(who, "remember") = "value"
           /\ Runs(who, "keepPrivate") = "value"
           /\ Runs(who, "syntax") = "SyntaxError" /\ Runs(who, "divide") = "CodeExecutionError"
           /\ Runs(who, "recall")
                = IF "remembered" \in names[who] THEN "value" ELSE "CodeExecutionError"
           /\ Runs(who, "readPrivate")
                = IF "private_value" \in names[who] THEN "value" ELSE "CodeExecutionError"
           /\ Runs(who, "callTool")
                = IF session[who].given = "tool" /\ defect # "brokenTools"
                  THEN "value" ELSE "CodeExecutionError"
           /\ Runs(who, "submit")
                = IF session[who].given # "fields" THEN "final" ELSE "CodeExecutionError"
           /\ Runs(who, "submitThenTool")
                = IF session[who].given # "fields" THEN "final" ELSE "CodeExecutionError"
           /\ Runs(who, "submitFields")
                = IF session[who].given = "fields" THEN "final" ELSE "CodeExecutionError"
           /\ Runs(who, "submitMissing")
                = IF defect = "acceptsMissing" THEN "final" ELSE "CodeExecutionError"
<1>1. /\ Runs(who, "arithmetic") = "value" /\ Runs(who, "print") = "value"
      /\ Runs(who, "variable") = "value" /\ Runs(who, "remember") = "value"
      /\ Runs(who, "keepPrivate") = "value"
  BY DEF Runs
<1>2. Runs(who, "syntax") = "SyntaxError" /\ Runs(who, "divide") = "CodeExecutionError"
  BY DEF Runs
<1>3. /\ Runs(who, "recall")
                = IF "remembered" \in names[who] THEN "value" ELSE "CodeExecutionError"
      /\ Runs(who, "readPrivate")
                = IF "private_value" \in names[who] THEN "value" ELSE "CodeExecutionError"
  BY DEF Runs
<1>4. Runs(who, "callTool")
                = IF session[who].given = "tool" /\ defect # "brokenTools"
                  THEN "value" ELSE "CodeExecutionError"
  BY DEF Runs
<1>5. /\ Runs(who, "submit")
                = IF session[who].given # "fields" THEN "final" ELSE "CodeExecutionError"
      /\ Runs(who, "submitThenTool")
                = IF session[who].given # "fields" THEN "final" ELSE "CodeExecutionError"
  BY DEF Runs
<1>6. /\ Runs(who, "submitFields")
                = IF session[who].given = "fields" THEN "final" ELSE "CodeExecutionError"
      /\ Runs(who, "submitMissing")
                = IF defect = "acceptsMissing" THEN "final" ELSE "CodeExecutionError"
  BY DEF Runs
<1> QED  BY <1>1, <1>2, <1>3, <1>4, <1>5, <1>6

\* A good session gives what the statement wants.
Ready ==
    \/ Here.op \in {"new", "assert", "configure", "shutdown"}
    \/ /\ Here.op = "start"
       /\ (IF session[Here.who].ended THEN "CodeInterpreterError" ELSE "value") \in Here.want
    \/ Here.op = "calls" /\ calls = Here.what
    \/ /\ Here.op = "execute" /\ session[Here.who].ended
       /\ "CodeInterpreterError" \in Here.want
    \/ /\ Here.op = "execute" /\ ~session[Here.who].ended
       /\ Runs(Here.who, Here.what) \in Here.want

LEMMA ReadyGoes ==
    ASSUME TypeInv, Subject, Ready, defect = "none"
    PROVE  \E result : Continue(result) /\ result \in Here.want
<1>1. Here \in Statements
  BY BlockIs DEF TypeInv, Subject
<1>2. Here.op \in {"new", "assert", "configure", "calls", "shutdown"} => Here.want = {"value"}
  BY <1>1 DEF Statements
<1>3. CASE Here.op \in {"new", "assert", "configure", "shutdown"}
  <2>1. Continue("value")
    BY <1>3, Which DEF Construct, Assertion, ConfigureSession, ShutDown
  <2> QED  BY <1>2, <1>3, <2>1
<1>4. CASE Here.op = "start"
  BY <1>4, Which DEF StartSession, Ready
<1>5. CASE Here.op = "calls"
  <2>1. Continue("value")
    BY <1>5, Which DEF CompareCalls, Ready
  <2> QED  BY <1>2, <1>5, <2>1
<1>6. CASE Here.op = "execute"
  <2>1. Continue(Answer(Here.who, Here.what))
    BY <1>6, Which DEF ExecuteCode
  <2>2. Answer(Here.who, Here.what) \in Here.want
    <3>1. CASE session[Here.who].ended
      <4>1. Answer(Here.who, Here.what) = "CodeInterpreterError"
        BY <3>1 DEF Answer
      <4> QED  BY <1>6, <3>1, <4>1 DEF Ready
    <3>2. CASE ~session[Here.who].ended
      <4>1. Answer(Here.who, Here.what) = Runs(Here.who, Here.what)
        BY <3>2 DEF Answer
      <4> QED  BY <1>6, <3>2, <4>1 DEF Ready
    <3> QED  BY <3>1, <3>2
  <2> QED  BY <2>1, <2>2
<1> QED  BY <1>3, <1>4, <1>5, <1>6 DEF Ready

LEMMA AllReady ==
    ASSUME TypeInv, Alive, Prepared, Calm, defect = "none", line <= Len(Block.lines)
    PROVE  Ready
<1>1. /\ Block = Checks[check][block] /\ check \in 1..10
      /\ check # 8 => block = 1
      /\ check = 8 => block \in {1, 2}
      /\ line \in 1..Len(Block.lines)
  BY CheckPlace DEF Calm
<1>2. CASE check = 1
  <2>1. Block = Checks[1][1] /\ line \in 1..3
    <3>1. Block = Checks[1][1]
      BY <1>1, <1>2
    <3> QED  BY <1>1, <3>1, CreateIs DEF Shape
  <2>2. CASE line \in {1, 2, 3}
    BY <2>1, <2>2, CreateIs DEF Ready, Here, Says
  <2> QED  BY <2>1, <2>2
<1>3. CASE check = 2
  <2>1. Block = Checks[2][1] /\ line \in 1..5
    <3>1. Block = Checks[2][1]
      BY <1>1, <1>3
    <3> QED  BY <1>1, <3>1, LifecycleIs DEF Shape
  <2>2. CASE line \in {1, 5}
    BY <2>1, <2>2, LifecycleIs DEF Ready, Here, Says
  <2>3. CASE line = 2
    BY <1>3, <2>1, <2>3, LifecycleIs DEF Shape, Alive, Prepared, Ready, Here, Says, Good, Final
  <2>4. CASE line = 3
    BY <1>3, <2>1, <2>4, LifecycleIs DEF Shape, Alive, Prepared, Ready, Here, Says, Good, Final
  <2>5. CASE line = 4
    BY <1>3, <2>1, <2>5, LifecycleIs, RunsAre DEF Shape, Alive, Prepared, Ready, Here, Says, Good, Final
  <2> QED  BY <2>1, <2>2, <2>3, <2>4, <2>5
<1>4. CASE check = 3
  <2>1. Block = Checks[3][1] /\ line \in 1..4
    <3>1. Block = Checks[3][1]
      BY <1>1, <1>4
    <3> QED  BY <1>1, <3>1, PrintIs DEF Shape
  <2>2. CASE line \in {1, 4}
    BY <2>1, <2>2, PrintIs DEF Ready, Here, Says
  <2>3. CASE line = 2
    BY <1>4, <2>1, <2>3, PrintIs, RunsAre DEF Shape, Alive, Prepared, Ready, Here, Says, Good, Final
  <2>4. CASE line = 3
    BY <1>4, <2>1, <2>4, PrintIs, RunsAre DEF Shape, Alive, Prepared, Ready, Here, Says, Good, Final
  <2> QED  BY <2>1, <2>2, <2>3, <2>4
<1>5. CASE check = 4
  <2>1. Block = Checks[4][1] /\ line \in 1..5
    <3>1. Block = Checks[4][1]
      BY <1>1, <1>5
    <3> QED  BY <1>1, <3>1, PersistenceIs DEF Shape
  <2>2. CASE line \in {1, 5}
    BY <2>1, <2>2, PersistenceIs DEF Ready, Here, Says
  <2>3. CASE line = 2
    BY <1>5, <2>1, <2>3, PersistenceIs, RunsAre DEF Shape, Alive, Prepared, Ready, Here, Says, Good, Final
  <2>4. CASE line = 3
    BY <1>5, <2>1, <2>4, PersistenceIs, RunsAre DEF Shape, Alive, Prepared, Ready, Here, Says, Good, Final
  <2>5. CASE line = 4
    BY <1>5, <2>1, <2>5, PersistenceIs, RunsAre DEF Shape, Alive, Prepared, Ready, Here, Says, Good, Final
  <2> QED  BY <2>1, <2>2, <2>3, <2>4, <2>5
<1>6. CASE check = 5
  <2>1. Block = Checks[5][1] /\ line \in 1..6
    <3>1. Block = Checks[5][1]
      BY <1>1, <1>6
    <3> QED  BY <1>1, <3>1, IsolatesIs DEF Shape
  <2>2. CASE line \in {1, 2, 5, 6}
    BY <2>1, <2>2, IsolatesIs DEF Ready, Here, Says
  <2>3. CASE line = 3
    BY <1>6, <2>1, <2>3, IsolatesIs, RunsAre DEF Shape, Alive, Prepared, Ready, Here, Says, Good, Final
  <2>4. CASE line = 4
    BY <1>6, <2>1, <2>4, IsolatesIs, RunsAre DEF Shape, Alive, Prepared, Ready, Here, Says, Good, Final
  <2> QED  BY <2>1, <2>2, <2>3, <2>4
<1>7. CASE check = 6
  <2>1. Block = Checks[6][1] /\ line \in 1..5
    <3>1. Block = Checks[6][1]
      BY <1>1, <1>7
    <3> QED  BY <1>1, <3>1, ErrorsIs DEF Shape
  <2>2. CASE line \in {1, 5}
    BY <2>1, <2>2, ErrorsIs DEF Ready, Here, Says
  <2>3. CASE line = 2
    BY <1>7, <2>1, <2>3, ErrorsIs, RunsAre DEF Shape, Alive, Prepared, Ready, Here, Says, Good, Final
  <2>4. CASE line = 3
    BY <1>7, <2>1, <2>4, ErrorsIs, RunsAre DEF Shape, Alive, Prepared, Ready, Here, Says, Good, Final
  <2>5. CASE line = 4
    BY <1>7, <2>1, <2>5, ErrorsIs, RunsAre DEF Shape, Alive, Prepared, Ready, Here, Says, Good, Final
  <2> QED  BY <2>1, <2>2, <2>3, <2>4, <2>5
<1>8. CASE check = 7
  <2>1. Block = Checks[7][1] /\ line \in 1..5
    <3>1. Block = Checks[7][1]
      BY <1>1, <1>8
    <3> QED  BY <1>1, <3>1, ToolsIs DEF Shape
  <2>2. CASE line \in {1, 2, 5}
    BY <2>1, <2>2, ToolsIs DEF Ready, Here, Says
  <2>3. CASE line = 3
    BY <1>8, <2>1, <2>3, ToolsIs, RunsAre DEF Shape, Alive, Prepared, Ready, Here, Says, Good, Final
  <2>4. CASE line = 4
    BY <1>8, <2>1, <2>4, ToolsIs DEF Shape, Alive, Prepared, Ready, Here, Says, Good, Final
  <2> QED  BY <2>1, <2>2, <2>3, <2>4
<1>9. CASE check = 8 /\ block = 1
  <2>1. Block = Checks[8][1] /\ line \in 1..4
    BY <1>1, <1>9, UntypedIs DEF Shape
  <2>2. CASE line \in {1, 2, 4}
    BY <2>1, <2>2, UntypedIs DEF Ready, Here, Says
  <2>3. CASE line = 3
    BY <1>9, <2>1, <2>3, UntypedIs, RunsAre DEF Shape, Alive, Prepared, Ready, Here, Says, Good, Final
  <2> QED  BY <2>1, <2>2, <2>3
<1>10. CASE check = 8 /\ block = 2
  <2>1. Block = Checks[8][2] /\ line \in 1..6
    BY <1>1, <1>10, TypedIs DEF Shape
  <2>2. CASE line \in {1, 2, 6}
    BY <2>1, <2>2, TypedIs DEF Ready, Here, Says
  <2>3. CASE line = 3
    BY <1>10, <2>1, <2>3, TypedIs, RunsAre DEF Shape, Alive, Prepared, Ready, Here, Says, Good, Final
  <2>4. CASE line = 4
    BY <1>10, <2>1, <2>4, TypedIs, RunsAre DEF Shape, Alive, Prepared, Ready, Here, Says, Good, Final
  <2>5. CASE line = 5
    BY <1>10, <2>1, <2>5, TypedIs, RunsAre DEF Shape, Alive, Prepared, Ready, Here, Says, Good, Final
  <2> QED  BY <2>1, <2>2, <2>3, <2>4, <2>5
<1>11. CASE check = 9
  <2>1. Block = Checks[9][1] /\ line \in 1..5
    <3>1. Block = Checks[9][1]
      BY <1>1, <1>11
    <3> QED  BY <1>1, <3>1, TerminatesIs DEF Shape
  <2>2. CASE line \in {1, 2, 5}
    BY <2>1, <2>2, TerminatesIs DEF Ready, Here, Says
  <2>3. CASE line = 3
    BY <1>11, <2>1, <2>3, TerminatesIs, RunsAre DEF Shape, Alive, Prepared, Ready, Here, Says, Good, Final
  <2>4. CASE line = 4
    BY <1>11, <2>1, <2>4, TerminatesIs DEF Shape, Alive, Prepared, Ready, Here, Says, Good, Final
  <2> QED  BY <2>1, <2>2, <2>3, <2>4
<1>12. CASE check = 10
  <2>1. Block = Checks[10][1] /\ line \in 1..5
    <3>1. Block = Checks[10][1]
      BY <1>1, <1>12
    <3> QED  BY <1>1, <3>1, TerminalIs DEF Shape
  <2>2. CASE line \in {1, 2, 3}
    BY <2>1, <2>2, TerminalIs DEF Ready, Here, Says
  <2>3. CASE line = 4
    BY <1>12, <2>1, <2>3, TerminalIs DEF Shape, Alive, Prepared, Ready, Here, Says, Good, Final
  <2>4. CASE line = 5
    BY <1>12, <2>1, <2>4, TerminalIs, RunsAre DEF Shape, Alive, Prepared, Ready, Here, Says, Good, Final
  <2> QED  BY <2>1, <2>2, <2>3, <2>4
<1> QED
  <2>1. check \in {1, 2, 3, 4, 5, 6, 7, 8, 9, 10}
    BY <1>1
  <2> QED  BY <1>1, <2>1, <1>2, <1>3, <1>4, <1>5, <1>6, <1>7, <1>8, <1>9, <1>10, <1>11, <1>12

\* The first statement of a check is not inside of its try.
LEMMA TryLater == TypeInv /\ Running /\ program # "benchmark" => Block.try \in 2..6
<1> SUFFICES ASSUME TypeInv, Running, program # "benchmark" PROVE Block.try \in 2..6
  OBVIOUS
<1>1. /\ Block = Checks[check][block] /\ check \in 1..10
      /\ check # 8 => block = 1
      /\ check = 8 => block \in {1, 2}
  BY CheckPlace
<1>2. check \in {1, 2, 3, 4, 5, 6, 7, 8, 9, 10}
  BY <1>1
<1>3. CASE check = 8
  BY <1>1, <1>3, UntypedIs, TypedIs DEF Shape
<1>4. CASE check # 8
  BY <1>1, <1>2, <1>4, CreateIs, LifecycleIs, PrintIs, PersistenceIs, IsolatesIs, ErrorsIs,
     ToolsIs, TerminatesIs, TerminalIs DEF Shape
<1> QED  BY <1>3, <1>4

\* Which sessions a statement ends.
LEMMA Ends ==
    ASSUME TypeInv, Subject
    PROVE  /\ Here.op = "new" => session'[Here.who].ended = FALSE
           /\ \A who \in Slots :
                 Here.op # "shutdown" /\ ~(Here.op = "new" /\ who = Here.who) =>
                     session'[who].ended = session[who].ended
           /\ Here.op = "shutdown" =>
                 session'[Here.who].ended = (defect # "nonterminalShutdown")
<1>1. Here \in Statements
  BY BlockIs DEF TypeInv, Subject
<1>2. Here.who \in Slots
  BY <1>1 DEF Statements
<1>3. session \in [Slots -> [ended : BOOLEAN, shut : BOOLEAN, given : Given]]
  BY DEF TypeInv, Data
<1>4. CASE Construct
  BY <1>2, <1>3, <1>4 DEF Construct, Fresh
<1>5. CASE StartSession
  BY <1>5 DEF StartSession, subjectVars
<1>10. CASE Assertion
  BY <1>10 DEF Assertion, subjectVars
<1>6. CASE ConfigureSession
  BY <1>2, <1>3, <1>6 DEF ConfigureSession
<1>7. CASE CompareCalls
  BY <1>7 DEF CompareCalls, subjectVars
<1>8. CASE ExecuteCode
  BY <1>8 DEF ExecuteCode
<1>9. CASE ShutDown
  BY <1>2, <1>3, <1>9 DEF ShutDown
<1> QED  BY <1>4, <1>5, <1>6, <1>7, <1>8, <1>9, <1>10 DEF Subject

\* Where a step of the subject leads that is not spoiled.
LEMMA CalmStep ==
    ASSUME TypeInv, Subject, Calm'
    PROVE  /\ Calm /\ line' = line + 1 /\ Block' = Block /\ defect' = defect
           /\ check' = check /\ block' = block
           /\ line \in 1..Len(Block.lines) /\ Len(Block.lines) \in Nat
           /\ \E result : Continue(result) /\ Gives(result) /\ result \in Here.want
<1>1. PICK result : Continue(result) /\ Gives(result)
  BY SubjectGives
<1>2. result \in Here.want /\ line' = line + 1 /\ ~raised
  BY <1>1 DEF Continue, Calm
<1>3. Running /\ Block' = Block /\ check' = check /\ block' = block /\ program' = program
      /\ defect' = defect
  BY <1>1, Onward DEF TypeInv, Continue, choiceVars
<1>4. struck' = struck
  BY DEF Subject, NoFault
<1>5. Calm
  BY <1>2, <1>3, <1>4 DEF Calm
<1>6. line <= Len(Block.lines)
  BY <1>1 DEF Continue
<1>7. line \in 1..Len(Block.lines) /\ Len(Block.lines) \in Nat
  BY <1>3, <1>6, BlockIs DEF TypeInv
<1> QED  BY <1>1, <1>2, <1>3, <1>5, <1>7

\* A check that tries starts by its session, and neither ends it nor starts
\* another one before the cleanup.
Keeps(b) ==
    b.try # b.finally =>
        /\ b.try = 2 /\ b.finally \in {4, 5, 6}
        /\ b.lines[1].op = "new" /\ b.lines[1].who = "first"
        /\ \A l \in 2..(b.finally - 1) : b.lines[l].op \notin {"new", "shutdown"}

LEMMA KeepsAll ==
    /\ Keeps(Checks[1][1])
    /\ Keeps(Checks[2][1])
    /\ Keeps(Checks[3][1])
    /\ Keeps(Checks[4][1])
    /\ Keeps(Checks[6][1])
    /\ Keeps(Checks[7][1])
    /\ Keeps(Checks[8][1])
    /\ Keeps(Checks[8][2])
    /\ Keeps(Checks[9][1])
    /\ Keeps(Checks[10][1])
<1>1. Keeps(Checks[1][1])
  BY CreateIs DEF Keeps, Shape, Says
<1>2. Keeps(Checks[2][1])
  BY LifecycleIs DEF Keeps, Shape, Says
<1>3. Keeps(Checks[3][1])
  BY PrintIs DEF Keeps, Shape, Says
<1>4. Keeps(Checks[4][1])
  BY PersistenceIs DEF Keeps, Shape, Says
<1>5. Keeps(Checks[6][1])
  BY ErrorsIs DEF Keeps, Shape, Says
<1>6. Keeps(Checks[7][1])
  BY ToolsIs DEF Keeps, Shape, Says
<1>7. Keeps(Checks[8][1])
  BY UntypedIs DEF Keeps, Shape, Says
<1>8. Keeps(Checks[8][2])
  BY TypedIs DEF Keeps, Shape, Says
<1>9. Keeps(Checks[9][1])
  BY TerminatesIs DEF Keeps, Shape, Says
<1>10. Keeps(Checks[10][1])
  BY TerminalIs DEF Keeps, Shape, Says
<1> QED  BY <1>1, <1>2, <1>3, <1>4, <1>5, <1>6, <1>7, <1>8, <1>9, <1>10

LEMMA AliveStep == ASSUME TypeInv, Alive, Subject PROVE Alive'
<1> SUFFICES ASSUME Calm' PROVE Alive'
  BY DEF Alive
<1>1. /\ Calm /\ line' = line + 1 /\ Block' = Block /\ check' = check
      /\ line \in 1..Len(Block.lines)
  BY CalmStep
<1>2. /\ Block = Checks[check][block] /\ check \in 1..10
      /\ check # 8 => block = 1
      /\ check = 8 => block \in {1, 2}
  BY <1>1, CheckPlace DEF Calm
<1>3. CASE check = 5
  <2>1. Block = Checks[5][1] /\ Block.try = 3 /\ Block.finally = 5 /\ line \in 1..6
    <3>1. Block = Checks[5][1]
      BY <1>2, <1>3
    <3> QED  BY <1>1, <3>1, IsolatesIs DEF Shape
  <2>2. /\ line = 1 => Here.op = "new" /\ Here.who = "first"
        /\ line = 2 => Here.op = "new" /\ Here.who = "second"
        /\ line = 3 => Here.op = "execute"
        /\ line = 4 => Here.op = "execute"
    BY <2>1, IsolatesIs DEF Says, Here
  <2>3. CASE line = 1
    <3>1. session'["first"].ended = FALSE
      BY <2>2, <2>3, Ends
    <3> QED  BY <1>1, <1>3, <2>1, <2>3, <3>1 DEF Alive
  <2>4. CASE line = 2
    <3>1. session'["second"].ended = FALSE
      BY <2>2, <2>4, Ends
    <3>2. session'["first"].ended = session["first"].ended
      BY <2>2, <2>4, Ends DEF Slots
    <3>3. ~session["first"].ended
      BY <1>1, <1>3, <2>4 DEF Alive
    <3> QED  BY <1>1, <1>3, <2>1, <2>4, <3>1, <3>2, <3>3 DEF Alive
  <2>5. CASE line = 3
    <3>1. /\ session'["first"].ended = session["first"].ended
          /\ session'["second"].ended = session["second"].ended
      BY <2>2, <2>5, Ends DEF Slots
    <3>2. ~session["first"].ended /\ ~session["second"].ended
      BY <1>1, <1>3, <2>5 DEF Alive
    <3> QED  BY <1>1, <1>3, <2>1, <2>5, <3>1, <3>2 DEF Alive
  <2>6. CASE line \in 4..6
    BY <1>1, <1>3, <2>1, <2>6 DEF Alive
  <2> QED  BY <2>1, <2>3, <2>4, <2>5, <2>6
<1>4. CASE check # 5
  <2>1. Keeps(Block)
    <3>1. check \in {1, 2, 3, 4, 6, 7, 8, 9, 10}
      BY <1>2, <1>4
    <3>2. CASE check = 1
      BY <1>2, <3>2, KeepsAll
    <3>3. CASE check = 2
      BY <1>2, <3>3, KeepsAll
    <3>4. CASE check = 3
      BY <1>2, <3>4, KeepsAll
    <3>5. CASE check = 4
      BY <1>2, <3>5, KeepsAll
    <3>6. CASE check = 6
      BY <1>2, <3>6, KeepsAll
    <3>7. CASE check = 7
      BY <1>2, <3>7, KeepsAll
    <3>8. CASE check = 8 /\ block = 1
      BY <1>2, <3>8, KeepsAll
    <3>9. CASE check = 8 /\ block = 2
      BY <1>2, <3>9, KeepsAll
    <3>10. CASE check = 9
      BY <1>2, <3>10, KeepsAll
    <3>11. CASE check = 10
      BY <1>2, <3>11, KeepsAll
    <3> QED
      BY <1>2, <3>1, <3>2, <3>3, <3>4, <3>5, <3>6, <3>7, <3>8, <3>9, <3>10, <3>11
  <2>2. ASSUME Block.try <= line + 1, line + 1 < Block.finally
        PROVE  ~session'["first"].ended
    <3>0. /\ Block.try = 2 /\ Block.finally \in {4, 5, 6}
          /\ Block.lines[1].op = "new" /\ Block.lines[1].who = "first"
          /\ \A l \in 2..(Block.finally - 1) : Block.lines[l].op \notin {"new", "shutdown"}
      <4>1. Block.try # Block.finally
        <5>1. Proper(Block)
          BY <1>1, BlockIs DEF TypeInv, Calm
        <5>2. Block.try \in Int /\ Block.finally \in Int /\ line \in Int
          BY <1>1, <5>1 DEF Proper
        <5> QED  BY <2>2, <5>2
      <4> QED  BY <2>1, <4>1 DEF Keeps
    <3>1. CASE line = 1
      <4>1. Here.op = "new" /\ Here.who = "first"
        BY <3>0, <3>1 DEF Here
      <4> QED  BY <4>1, Ends
    <3>2. CASE line # 1
      <4>1. line \in 2..(Block.finally - 1) /\ Block.try <= line /\ line < Block.finally
        BY <1>1, <2>2, <3>0, <3>2
      <4>2. ~session["first"].ended
        BY <1>1, <4>1 DEF Alive
      <4>3. Here.op \notin {"new", "shutdown"}
        BY <3>0, <4>1 DEF Here
      <4> QED  BY <4>2, <4>3, Ends DEF Slots
    <3> QED  BY <3>1, <3>2
  <2> QED  BY <1>1, <1>4, <2>2 DEF Alive
<1> QED  BY <1>3, <1>4

\* What a statement does to the session it is about, apart from ending it.
LEMMA Gifts ==
    ASSUME TypeInv, Subject
    PROVE  /\ Here.op = "configure" => session'[Here.who].given = Here.what
           /\ Here.op \in {"start", "execute", "calls"} => session' = session
           /\ Here.op # "execute" => calls' = calls
           /\ Here.op = "new" /\ defect # "sharedNamespace" => names'[Here.who] = {}
           /\ Here.op = "execute" => ExecuteCode
<1>1. Here \in Statements
  BY BlockIs DEF TypeInv, Subject
<1>2. Here.who \in Slots
  BY <1>1 DEF Statements
<1>3. /\ session \in [Slots -> [ended : BOOLEAN, shut : BOOLEAN, given : Given]]
      /\ names \in [Slots -> SUBSET {"remembered", "private_value"}]
  BY DEF TypeInv, Data
<1>4. CASE Construct
  BY <1>2, <1>3, <1>4 DEF Construct
<1>5. CASE StartSession
  BY <1>5 DEF StartSession, subjectVars
<1>10. CASE Assertion
  BY <1>10 DEF Assertion, subjectVars
<1>6. CASE ConfigureSession
  BY <1>2, <1>3, <1>6 DEF ConfigureSession
<1>7. CASE CompareCalls
  BY <1>7 DEF CompareCalls, subjectVars
<1>8. CASE ExecuteCode
  BY <1>8 DEF ExecuteCode
<1>9. CASE ShutDown
  BY <1>9 DEF ShutDown
<1> QED  BY <1>4, <1>5, <1>6, <1>7, <1>8, <1>9, <1>10 DEF Subject

\* A statement that does not spoil its check was answered as it wants.
LEMMA Goes ==
    ASSUME TypeInv, Subject, Calm'
    PROVE  /\ Here.op = "start" =>
                 (IF session[Here.who].ended THEN "CodeInterpreterError" ELSE "value") \in Here.want
           /\ Here.op = "calls" => calls = Here.what
           /\ Here.op = "execute" => Answer(Here.who, Here.what) \in Here.want
<1>1. ASSUME NEW result, Continue(result) PROVE result \in Here.want
  BY <1>1 DEF Continue, Calm
<1>2. CASE Here.op = "start"
  <2>1. Continue(IF session[Here.who].ended THEN "CodeInterpreterError" ELSE "value")
    BY <1>2, Which DEF StartSession
  <2> QED  BY <1>1, <1>2, <2>1
<1>3. CASE Here.op = "calls"
  <2>1. Here.want = {"value"}
    BY <1>3, BlockIs DEF TypeInv, Subject, Statements
  <2>2. Continue(IF calls = Here.what THEN "value" ELSE "wrong")
    BY <1>3, Which DEF CompareCalls
  <2>3. (IF calls = Here.what THEN "value" ELSE "wrong") \in Here.want
    BY <1>1, <2>2
  <2> QED  BY <1>3, <2>1, <2>3
<1>4. CASE Here.op = "execute"
  <2>1. Continue(Answer(Here.who, Here.what))
    BY <1>4, Which DEF ExecuteCode
  <2> QED  BY <1>1, <1>4, <2>1
<1> QED  BY <1>2, <1>3, <1>4

LEMMA PreparedStep == ASSUME TypeInv, Prepared, Subject PROVE Prepared'
<1> SUFFICES ASSUME Calm' PROVE Prepared'
  BY DEF Prepared
<1>1. /\ Calm /\ line' = line + 1 /\ check' = check /\ block' = block /\ defect' = defect
      /\ line \in 1..Len(Block.lines) /\ Len(Block.lines) \in Nat
  BY CalmStep
<1>2. /\ Block = Checks[check][block] /\ check \in 1..10
      /\ check # 8 => block = 1
      /\ check = 8 => block \in {1, 2}
  BY <1>1, CheckPlace DEF Calm
<1>3. /\ session \in [Slots -> [ended : BOOLEAN, shut : BOOLEAN, given : Given]]
      /\ names \in [Slots -> SUBSET {"remembered", "private_value"}]
      /\ calls \in Nat /\ "first" \in Slots /\ "second" \in Slots
  BY DEF TypeInv, Data, Slots
<1>4. CASE check = 10
  <2>1. Block = Checks[10][1]
    BY <1>2, <1>4
  <2>2. line \in 1..5 /\ Len(Block.lines) = 5
    BY <1>1, <2>1, TerminalIs DEF Shape
  <2>3. /\ line \in {2, 3} => Here.op = "shutdown" /\ Here.who = "first"
        /\ line \in {4, 5} => Here.op \in {"start", "execute"}
    BY <2>1, TerminalIs DEF Says, Here
  <2>4. CASE line = 1
    BY <1>1, <1>4, <2>4 DEF Prepared
  <2>5. CASE line \in {2, 3}
    <3>1. session'["first"].ended = (defect # "nonterminalShutdown")
      BY <2>3, <2>5, Ends
    <3>2. session'["first"].ended <=> defect' # "nonterminalShutdown"
      BY <1>1, <3>1
    <3>3. check' = 10
      BY <1>1, <1>4
    <3> QED  BY <3>2, <3>3 DEF Prepared
  <2>6. CASE line \in {4, 5}
    <3>1. session' = session
      BY <2>3, <2>6, Gifts
    <3> QED  BY <1>1, <1>4, <2>2, <2>6, <3>1 DEF Prepared
  <2> QED  BY <2>2, <2>4, <2>5, <2>6
<1>5. CASE check = 7
  <2>1. Block = Checks[7][1]
    BY <1>2, <1>5
  <2>2. line \in 1..5 /\ Len(Block.lines) = 5
    BY <1>1, <2>1, ToolsIs DEF Shape
  <2>3. /\ line = 1 => Here.op = "new"
        /\ line = 2 => Here.op = "configure" /\ Here.who = "first" /\ Here.what = "tool"
        /\ line = 3 => Here.op = "execute" /\ Here.who = "first" /\ Here.what = "callTool" /\ Here.want = Good
    BY <2>1, ToolsIs DEF Says, Here
  <2>4. CASE line = 1
    <3>1. calls' = calls
      BY <2>3, <2>4, Gifts
    <3> QED  BY <1>1, <1>5, <2>4, <3>1 DEF Prepared
  <2>5. CASE line = 2
    <3>1. calls' = calls /\ session'["first"].given = "tool"
      BY <2>3, <2>5, Gifts
    <3> QED  BY <1>1, <1>5, <2>5, <3>1 DEF Prepared
  <2>6. CASE line = 3
    <3>1. Answer("first", "callTool") \in Good /\ ExecuteCode
      BY <2>3, <2>6, Goes, Gifts
    <3>2. ~session["first"].ended /\ Runs("first", "callTool") = "value"
      BY <3>1 DEF Answer, Good
    <3>3. calls' = calls + 1
      BY <2>3, <2>6, <3>1, <3>2 DEF ExecuteCode
    <3> QED  BY <1>1, <1>5, <2>6, <3>3 DEF Prepared
  <2>7. CASE line \in {4, 5}
    BY <1>1, <1>5, <2>7 DEF Prepared
  <2> QED  BY <2>2, <2>4, <2>5, <2>6, <2>7
<1>6. CASE check = 9
  <2>1. Block = Checks[9][1]
    BY <1>2, <1>6
  <2>2. line \in 1..5 /\ Len(Block.lines) = 5
    BY <1>1, <2>1, TerminatesIs DEF Shape
  <2>3. /\ line = 1 => Here.op = "new"
        /\ line = 2 => Here.op = "configure" /\ Here.who = "first" /\ Here.what = "tool"
        /\ line = 3 => Here.op = "execute" /\ Here.who = "first" /\ Here.what = "submitThenTool" /\ Here.want = Final
    BY <2>1, TerminatesIs DEF Says, Here
  <2>4. CASE line = 1
    <3>1. calls' = calls
      BY <2>3, <2>4, Gifts
    <3> QED  BY <1>1, <1>6, <2>4, <3>1 DEF Prepared
  <2>5. CASE line = 2
    <3>1. calls' = calls /\ session'["first"].given = "tool"
      BY <2>3, <2>5, Gifts
    <3> QED  BY <1>1, <1>6, <2>5, <3>1 DEF Prepared
  <2>6. CASE line = 3
    <3>1. Answer("first", "submitThenTool") \in Final /\ ExecuteCode
      BY <2>3, <2>6, Goes, Gifts
    <3>2. ~session["first"].ended
      BY <3>1 DEF Answer, Final
    <3>3. calls' = IF defect = "continuesAfterSubmit" THEN calls + 1 ELSE calls
      BY <2>3, <2>6, <3>1, <3>2 DEF ExecuteCode
    <3> QED  BY <1>1, <1>6, <2>6, <3>3 DEF Prepared
  <2>7. CASE line \in {4, 5}
    BY <1>1, <1>6, <2>7 DEF Prepared
  <2> QED  BY <2>2, <2>4, <2>5, <2>6, <2>7
<1>7. CASE check = 8 /\ block = 1
  <2>1. Block = Checks[8][1]
    BY <1>2, <1>7
  <2>2. line \in 1..4 /\ Len(Block.lines) = 4
    BY <1>1, <2>1, UntypedIs DEF Shape
  <2>3. line = 2 => Here.op = "configure" /\ Here.who = "first" /\ Here.what = "nothing"
    BY <2>1, UntypedIs DEF Says, Here
  <2>4. CASE line = 2
    <3>1. session'["first"].given = "nothing"
      BY <2>3, <2>4, Gifts
    <3> QED  BY <1>1, <1>7, <2>4, <3>1 DEF Prepared
  <2> QED  BY <1>1, <1>7, <2>2, <2>4 DEF Prepared
<1>8. CASE check = 8 /\ block = 2
  <2>1. Block = Checks[8][2]
    BY <1>2, <1>8
  <2>2. line \in 1..6 /\ Len(Block.lines) = 6
    BY <1>1, <2>1, TypedIs DEF Shape
  <2>3. /\ line = 2 => Here.op = "configure" /\ Here.who = "first" /\ Here.what = "fields"
        /\ line = 3 => Here.op = "execute"
    BY <2>1, TypedIs DEF Says, Here
  <2>4. CASE line = 2
    <3>1. session'["first"].given = "fields"
      BY <2>3, <2>4, Gifts
    <3> QED  BY <1>1, <1>8, <2>4, <3>1 DEF Prepared
  <2>5. CASE line = 3
    <3>1. session' = session
      BY <2>3, <2>5, Gifts
    <3> QED  BY <1>1, <1>8, <2>5, <3>1 DEF Prepared
  <2> QED  BY <1>1, <1>8, <2>2, <2>4, <2>5 DEF Prepared
<1>9. CASE check = 4
  <2>1. Block = Checks[4][1]
    BY <1>2, <1>9
  <2>2. line \in 1..5 /\ Len(Block.lines) = 5
    BY <1>1, <2>1, PersistenceIs DEF Shape
  <2>3. line = 2 => /\ Here.op = "execute" /\ Here.who = "first" /\ Here.what = "remember"
                    /\ Here.want = Good
    BY <2>1, PersistenceIs DEF Says, Here
  <2>4. CASE line = 2
    <3>1. Answer("first", "remember") \in Good /\ ExecuteCode
      BY <2>3, <2>4, Goes, Gifts
    <3>2. ~session["first"].ended
      BY <3>1 DEF Answer, Good
    <3>3. names'["first"]
            = IF defect = "losesNamespace" THEN {} ELSE names["first"] \cup {"remembered"}
      BY <1>3, <2>3, <2>4, <3>1, <3>2 DEF ExecuteCode, Assigned
    <3> QED  BY <1>1, <1>9, <2>4, <3>3 DEF Prepared
  <2> QED  BY <1>1, <1>9, <2>2, <2>4 DEF Prepared
<1>10. CASE check = 5
  <2>1. Block = Checks[5][1]
    BY <1>2, <1>10
  <2>2. line \in 1..6 /\ Len(Block.lines) = 6
    BY <1>1, <2>1, IsolatesIs DEF Shape
  <2>3. /\ line = 2 => Here.op = "new" /\ Here.who = "second"
        /\ line = 3 => /\ Here.op = "execute" /\ Here.who = "first" /\ Here.what = "keepPrivate"
                       /\ Here.want = Good
    BY <2>1, IsolatesIs DEF Says, Here
  <2>4. CASE line = 2
    <3>1. defect # "sharedNamespace" => names'["second"] = {}
      BY <2>3, <2>4, Gifts
    <3> QED  BY <1>1, <1>10, <2>4, <3>1 DEF Prepared
  <2>5. CASE line = 3
    <3>1. Answer("first", "keepPrivate") \in Good /\ ExecuteCode
      BY <2>3, <2>5, Goes, Gifts
    <3>2. ~session["first"].ended
      BY <3>1 DEF Answer, Good
    <3>3. names'["second"] = IF defect # "sharedNamespace" THEN names["second"]
                             ELSE names["first"] \cup {"private_value"}
      BY <1>3, <2>3, <2>5, <3>1, <3>2 DEF ExecuteCode, Assigned
    <3> QED  BY <1>1, <1>10, <2>5, <3>3 DEF Prepared
  <2> QED  BY <1>1, <1>10, <2>2, <2>4, <2>5 DEF Prepared
<1>11. CASE check \notin {4, 5, 7, 8, 9, 10}
  BY <1>1, <1>11 DEF Prepared
<1> QED  BY <1>2, <1>4, <1>5, <1>6, <1>7, <1>8, <1>9, <1>10, <1>11

-----------------------------------------------------------------------------
(* A broken session cannot get past the statement that is there for it. *)

TrapBlock(broken) == IF broken = "acceptsMissing" THEN 2 ELSE 1

TrapLine(broken) ==
    IF broken \in {"losesNamespace", "terminalErrors", "corruptsOutput", "brokenTools"} THEN 3 ELSE 4

AtTrap == defect # "none" /\ check = CaughtBy[defect]

\* No check that goes well is past its trap.
Ahead == Calm /\ AtTrap =>
    block < TrapBlock(defect) \/ (block = TrapBlock(defect) /\ line <= TrapLine(defect))

LEMMA TrapIs ==
    /\ CaughtBy["losesNamespace"] = 4 /\ CaughtBy["sharedNamespace"] = 5
    /\ CaughtBy["terminalErrors"] = 6 /\ CaughtBy["corruptsOutput"] = 8
    /\ CaughtBy["continuesAfterSubmit"] = 9 /\ CaughtBy["nonterminalShutdown"] = 10
    /\ CaughtBy["brokenTools"] = 7 /\ CaughtBy["acceptsMissing"] = 8
  BY DEF CaughtBy

LEMMA Trapped ==
    ASSUME TypeInv, Prepared, Subject, AtTrap, block = TrapBlock(defect), line = TrapLine(defect)
    PROVE  ~Calm'
<1> SUFFICES ASSUME Calm' PROVE FALSE
  OBVIOUS
<1>1. Calm /\ defect \in Defects \ {"none"}
  BY CalmStep DEF TypeInv, Choice, AtTrap
<1>2. Block = Checks[check][block]
  BY <1>1, CheckPlace DEF Calm
<1>3. /\ Here.op = "start" =>
            (IF session[Here.who].ended THEN "CodeInterpreterError" ELSE "value") \in Here.want
      /\ Here.op = "calls" => calls = Here.what
      /\ Here.op = "execute" => Answer(Here.who, Here.what) \in Here.want
  BY Goes
<1>4. CASE defect = "losesNamespace"
  <2>1. check = 4 /\ block = 1 /\ line = 3
    BY <1>4, TrapIs DEF AtTrap, TrapBlock, TrapLine
  <2>2. Block = Checks[4][1]
    BY <1>2, <2>1
  <2>3. Here.op = "execute" /\ Here.who = "first" /\ Here.what = "recall" /\ Here.want = Good
    BY <2>1, <2>2, PersistenceIs DEF Here, Says
  <2>4. Answer("first", "recall") \in Good
    BY <1>3, <2>3
  <2>5. "remembered" \notin names["first"]
    BY <1>1, <1>4, <2>1 DEF Prepared
  <2>6. Runs("first", "recall") = "CodeExecutionError"
    BY <2>5, RunsAre
  <2> QED  BY <1>4, <2>4, <2>6 DEF Answer, Good
<1>5. CASE defect = "sharedNamespace"
  <2>1. check = 5 /\ block = 1 /\ line = 4
    BY <1>5, TrapIs DEF AtTrap, TrapBlock, TrapLine
  <2>2. Block = Checks[5][1]
    BY <1>2, <2>1
  <2>3. /\ Here.op = "execute" /\ Here.who = "second" /\ Here.what = "readPrivate"
        /\ Here.want = {"CodeExecutionError"}
    BY <2>1, <2>2, IsolatesIs DEF Here, Says
  <2>4. Answer("second", "readPrivate") \in {"CodeExecutionError"}
    BY <1>3, <2>3
  <2>5. "private_value" \in names["second"]
    BY <1>1, <1>5, <2>1 DEF Prepared
  <2>6. Runs("second", "readPrivate") = "value"
    BY <2>5, RunsAre
  <2> QED  BY <1>5, <2>4, <2>6 DEF Answer
<1>6. CASE defect = "terminalErrors"
  <2>1. check = 6 /\ block = 1 /\ line = 3
    BY <1>6, TrapIs DEF AtTrap, TrapBlock, TrapLine
  <2>2. Block = Checks[6][1]
    BY <1>2, <2>1
  <2>3. /\ Here.op = "execute" /\ Here.who = "first" /\ Here.what = "divide"
        /\ Here.want = {"CodeExecutionError"}
    BY <2>1, <2>2, ErrorsIs DEF Here, Says
  <2>4. Answer("first", "divide") \in {"CodeExecutionError"}
    BY <1>3, <2>3
  <2>5. Runs("first", "divide") = "CodeExecutionError"
    BY RunsAre
  <2> QED  BY <1>6, <2>4, <2>5 DEF Answer
<1>7. CASE defect = "corruptsOutput"
  <2>1. check = 8 /\ block = 1 /\ line = 3
    BY <1>7, TrapIs DEF AtTrap, TrapBlock, TrapLine
  <2>2. Block = Checks[8][1]
    BY <1>2, <2>1
  <2>3. Here.op = "execute" /\ Here.who = "first" /\ Here.what = "submit" /\ Here.want = {"final"}
    BY <2>1, <2>2, UntypedIs DEF Here, Says
  <2>4. Answer("first", "submit") \in {"final"}
    BY <1>3, <2>3
  <2>5. Runs("first", "submit") \in {"final", "CodeExecutionError"}
    BY RunsAre
  <2> QED  BY <1>7, <2>4, <2>5 DEF Answer
<1>8. CASE defect = "continuesAfterSubmit"
  <2>1. check = 9 /\ block = 1 /\ line = 4
    BY <1>8, TrapIs DEF AtTrap, TrapBlock, TrapLine
  <2>2. Block = Checks[9][1]
    BY <1>2, <2>1
  <2>3. Here.op = "calls" /\ Here.what = 0
    BY <2>1, <2>2, TerminatesIs DEF Here, Says
  <2>4. calls = 1
    BY <1>1, <1>8, <2>1 DEF Prepared
  <2> QED  BY <1>3, <2>3, <2>4
<1>9. CASE defect = "nonterminalShutdown"
  <2>1. check = 10 /\ block = 1 /\ line = 4
    BY <1>9, TrapIs DEF AtTrap, TrapBlock, TrapLine
  <2>2. Block = Checks[10][1]
    BY <1>2, <2>1
  <2>3. Here.op = "start" /\ Here.who = "first" /\ Here.want = {"CodeInterpreterError"}
    BY <2>1, <2>2, TerminalIs DEF Here, Says
  <2>4. ~session["first"].ended
    BY <1>1, <1>9, <2>1 DEF Prepared
  <2> QED  BY <1>3, <2>3, <2>4
<1>10. CASE defect = "brokenTools"
  <2>1. check = 7 /\ block = 1 /\ line = 3
    BY <1>10, TrapIs DEF AtTrap, TrapBlock, TrapLine
  <2>2. Block = Checks[7][1]
    BY <1>2, <2>1
  <2>3. Here.op = "execute" /\ Here.who = "first" /\ Here.what = "callTool" /\ Here.want = Good
    BY <2>1, <2>2, ToolsIs DEF Here, Says
  <2>4. Answer("first", "callTool") \in Good
    BY <1>3, <2>3
  <2>5. Runs("first", "callTool") = "CodeExecutionError"
    BY <1>10, RunsAre
  <2> QED  BY <1>10, <2>4, <2>5 DEF Answer, Good
<1>11. CASE defect = "acceptsMissing"
  <2>1. check = 8 /\ block = 2 /\ line = 4
    BY <1>11, TrapIs DEF AtTrap, TrapBlock, TrapLine
  <2>2. Block = Checks[8][2]
    BY <1>2, <2>1
  <2>3. /\ Here.op = "execute" /\ Here.who = "first" /\ Here.what = "submitMissing"
        /\ Here.want = {"CodeExecutionError"}
    BY <2>1, <2>2, TypedIs DEF Here, Says
  <2>4. Answer("first", "submitMissing") \in {"CodeExecutionError"}
    BY <1>3, <2>3
  <2>5. Runs("first", "submitMissing") = "final"
    BY <1>11, RunsAre
  <2> QED  BY <1>11, <2>4, <2>5 DEF Answer
<1> QED
  BY <1>1, <1>4, <1>5, <1>6, <1>7, <1>8, <1>9, <1>10, <1>11 DEF Defects

LEMMA AheadStep == ASSUME TypeInv, Prepared, Ahead, Subject PROVE Ahead'
<1> SUFFICES ASSUME Calm', AtTrap' PROVE Ahead'
  BY DEF Ahead
<1>1. /\ Calm /\ line' = line + 1 /\ check' = check /\ block' = block /\ defect' = defect
      /\ line \in 1..Len(Block.lines) /\ Len(Block.lines) \in Nat
  BY CalmStep
<1>2. AtTrap
  BY <1>1 DEF AtTrap
<1>3. block = TrapBlock(defect) => line # TrapLine(defect)
  BY <1>2, Trapped
<1>4. TrapLine(defect) \in Nat
  BY DEF TrapLine
<1> QED  BY <1>1, <1>2, <1>3, <1>4 DEF Ahead

\* When it comes to the end of a block, the trap is in a later one.
LEMMA TrapLater ==
    ASSUME TypeInv, Ahead, Calm, AtTrap, line > Len(Block.lines)
    PROVE  block < TrapBlock(defect) /\ block < Len(Plan[check])
<1>1. /\ Plan = Checks /\ Block = Checks[check][block] /\ check \in 1..10
      /\ check # 8 => block = 1
      /\ check = 8 => block \in {1, 2}
      /\ line \in 1..(Len(Block.lines) + 1)
  BY CheckPlace DEF Calm
<1>2. defect \in Defects \ {"none"}
  BY DEF TypeInv, Choice, AtTrap
<1>3. block < TrapBlock(defect) \/ (block = TrapBlock(defect) /\ line <= TrapLine(defect))
  BY DEF Ahead
<1>4. CASE defect \in {"acceptsMissing", "corruptsOutput"}
  <2>1. check = 8
    BY <1>4, TrapIs DEF AtTrap
  <2>2. Block = Checks[8][block] /\ Len(Checks[8]) = 2 /\ Plan[check] = Checks[8]
    BY <1>1, <2>1, UntypedIs
  <2>3. CASE block = 1
    <3>1. Len(Block.lines) = 4
      BY <2>2, <2>3, UntypedIs DEF Shape
    <3>2. line = 5
      BY <1>1, <3>1
    <3>3. TrapBlock(defect) = 2 \/ TrapLine(defect) = 3
      BY <1>4 DEF TrapBlock, TrapLine
    <3>4. block < TrapBlock(defect)
      BY <1>3, <2>3, <3>2, <3>3
    <3>5. Len(Plan[check]) = 2
      BY <2>2
    <3> QED  BY <2>3, <3>4, <3>5
  <2>4. CASE block = 2
    <3>1. Len(Block.lines) = 6
      BY <2>2, <2>4, TypedIs DEF Shape
    <3>2. line = 7
      BY <1>1, <3>1
    <3>3. TrapBlock(defect) \in {1, 2} /\ TrapLine(defect) \in {3, 4}
      BY DEF TrapBlock, TrapLine
    <3> QED  BY <1>3, <2>4, <3>2, <3>3
  <2> QED  BY <1>1, <2>1, <2>3, <2>4
<1>5. CASE defect \notin {"acceptsMissing", "corruptsOutput"}
  <2>1. check \in {4, 5, 6, 7, 9, 10} /\ TrapBlock(defect) = 1
    BY <1>2, <1>5, TrapIs DEF AtTrap, TrapBlock, Defects
  <2>2. block = 1 /\ Block = Checks[check][1]
    BY <1>1, <2>1
  <2>3. Len(Checks[check][1].lines) \in {5, 6}
    BY <2>1, PersistenceIs, IsolatesIs, ErrorsIs, ToolsIs, TerminatesIs, TerminalIs DEF Shape
  <2>4. line \in {6, 7}
    <3>1. Len(Block.lines) \in {5, 6}
      BY <2>2, <2>3
    <3>2. line \in 1..(Len(Block.lines) + 1)
      BY <1>1
    <3>3. CASE Len(Block.lines) = 5
      BY <3>2, <3>3
    <3>4. CASE Len(Block.lines) = 6
      BY <3>2, <3>4
    <3> QED  BY <3>1, <3>3, <3>4
  <2>5. TrapLine(defect) \in {3, 4}
    BY DEF TrapLine
  <2> QED  BY <1>3, <2>1, <2>2, <2>4, <2>5
<1> QED  BY <1>4, <1>5

-----------------------------------------------------------------------------
(* The results. *)

\* A good session spoils no check by itself.
Spoiled == defect = "none" /\ Running /\ program # "benchmark" /\ raised => check \in struck

\* The check that is there for the defect has found it, or a call failed in it.
Found == defect # "none" => CaughtBy[defect] \in Failed \cup struck

\* The check in which a call failed has failed, or is about to, unless it asks
\* for CodeInterpreterError.
Noticed == program # "benchmark" /\ outcome # "raised" =>
    \A c \in struck : c = 10 \/ c \in Failed \/ (Running /\ raised /\ c = check)

Verdict ==
    /\ defect = "none" => Failed \subseteq struck
    /\ program # "benchmark" /\ outcome = "report" => Found /\ Len(results) = 10
    /\ program # "benchmark" /\ Running /\ defect # "none" /\ check > CaughtBy[defect] => Found
    /\ program = "raise" /\ outcome # "raised" => Failed = {}
    /\ program = "raise" /\ outcome = "raised" => Failed = {Len(results)}

SuiteInv == Alive /\ Prepared /\ Ahead /\ Spoiled /\ Noticed /\ Verdict

\* Only the last check asks for CodeInterpreterError.
LEMMA NoneWanted ==
    ASSUME TypeInv, Running, program # "benchmark", check # 10, line <= Len(Block.lines)
    PROVE  "CodeInterpreterError" \notin Here.want
<1>1. /\ Block = Checks[check][block] /\ check \in 1..10
      /\ check # 8 => block = 1
      /\ check = 8 => block \in {1, 2}
      /\ line \in 1..Len(Block.lines)
  BY CheckPlace
<1>2. CASE check = 1
  <2>1. Block = Checks[1][1]
    BY <1>1, <1>2
  <2>2. line \in 1..3
    BY <1>1, <2>1, CreateIs DEF Shape
  <2> QED  BY <2>1, <2>2, CreateIs DEF Says, Here, Good, Final
<1>3. CASE check = 2
  <2>1. Block = Checks[2][1]
    BY <1>1, <1>3
  <2>2. line \in 1..5
    BY <1>1, <2>1, LifecycleIs DEF Shape
  <2> QED  BY <2>1, <2>2, LifecycleIs DEF Says, Here, Good, Final
<1>4. CASE check = 3
  <2>1. Block = Checks[3][1]
    BY <1>1, <1>4
  <2>2. line \in 1..4
    BY <1>1, <2>1, PrintIs DEF Shape
  <2> QED  BY <2>1, <2>2, PrintIs DEF Says, Here, Good, Final
<1>5. CASE check = 4
  <2>1. Block = Checks[4][1]
    BY <1>1, <1>5
  <2>2. line \in 1..5
    BY <1>1, <2>1, PersistenceIs DEF Shape
  <2> QED  BY <2>1, <2>2, PersistenceIs DEF Says, Here, Good, Final
<1>6. CASE check = 5
  <2>1. Block = Checks[5][1]
    BY <1>1, <1>6
  <2>2. line \in 1..6
    BY <1>1, <2>1, IsolatesIs DEF Shape
  <2> QED  BY <2>1, <2>2, IsolatesIs DEF Says, Here, Good, Final
<1>7. CASE check = 6
  <2>1. Block = Checks[6][1]
    BY <1>1, <1>7
  <2>2. line \in 1..5
    BY <1>1, <2>1, ErrorsIs DEF Shape
  <2> QED  BY <2>1, <2>2, ErrorsIs DEF Says, Here, Good, Final
<1>8. CASE check = 7
  <2>1. Block = Checks[7][1]
    BY <1>1, <1>8
  <2>2. line \in 1..5
    BY <1>1, <2>1, ToolsIs DEF Shape
  <2> QED  BY <2>1, <2>2, ToolsIs DEF Says, Here, Good, Final
<1>9. CASE check = 8 /\ block = 1
  <2>1. Block = Checks[8][1]
    BY <1>1, <1>9
  <2>2. line \in 1..4
    BY <1>1, <2>1, UntypedIs DEF Shape
  <2> QED  BY <2>1, <2>2, UntypedIs DEF Says, Here, Good, Final
<1>10. CASE check = 8 /\ block = 2
  <2>1. Block = Checks[8][2]
    BY <1>1, <1>10
  <2>2. line \in 1..6
    BY <1>1, <2>1, TypedIs DEF Shape
  <2> QED  BY <2>1, <2>2, TypedIs DEF Says, Here, Good, Final
<1>11. CASE check = 9
  <2>1. Block = Checks[9][1]
    BY <1>1, <1>11
  <2>2. line \in 1..5
    BY <1>1, <2>1, TerminatesIs DEF Shape
  <2> QED  BY <2>1, <2>2, TerminatesIs DEF Says, Here, Good, Final
<1> QED
  <2>1. check \in {1, 2, 3, 4, 5, 6, 7, 8, 9}
    BY <1>1
  <2> QED  BY <1>1, <2>1, <1>2, <1>3, <1>4, <1>5, <1>6, <1>7, <1>8, <1>9, <1>10, <1>11

\* The results after one more.
LEMMA FailedAfter ==
    ASSUME results \in Seq(BOOLEAN), NEW passed \in BOOLEAN, results' = Append(results, passed)
    PROVE  Failed' = IF passed THEN Failed ELSE Failed \cup {Len(results) + 1}
<1> DEFINE n == Len(results)
           next == Append(results, passed)
<1>1. /\ n \in Nat /\ DOMAIN results = 1..n /\ Len(next) = n + 1
      /\ next \in Seq(BOOLEAN) /\ next[n + 1] = passed
      /\ \A i \in 1..n : next[i] = results[i]
  OBVIOUS
<1>2. DOMAIN next = 1..(n + 1)
  BY <1>1
<1>3. Failed' = {i \in DOMAIN next : ~next[i]}
  BY DEF Failed
<1> HIDE DEF n, next
<1>4. Failed = {i \in 1..n : ~results[i]}
  BY <1>1 DEF Failed
<1>5. Failed' = {i \in 1..(n + 1) : ~next[i]}
  BY <1>2, <1>3
<1>6. ASSUME NEW i PROVE i \in Failed' <=> i \in Failed \/ (i = n + 1 /\ ~passed)
  <2>1. i \in 1..(n + 1) <=> i \in 1..n \/ i = n + 1
    BY <1>1
  <2>2. n + 1 \notin 1..n
    BY <1>1
  <2> QED  BY <1>1, <1>4, <1>5, <2>1, <2>2
<1>7. Failed' = IF passed THEN Failed ELSE Failed \cup {n + 1}
  BY <1>6
<1> QED  BY <1>7 DEF n

\* Every block begins as a check should.
LEMMA SuiteFresh ==
    ASSUME TypeInv', line' = 1, raised' = FALSE, calls' = 0
    PROVE  Alive' /\ Prepared' /\ Spoiled'
<1>0. (TypeInv /\ Running /\ program # "benchmark" => Block.try \in 2..6)'
  BY TryLater, PTL
<1>1. Running' /\ program' # "benchmark" => Block.try' \in 2..6
  BY <1>0
<1>2. Calm' => Block.try' \in 2..6
  BY <1>1 DEF Calm
<1>3. Alive'
  BY <1>2 DEF Alive
<1>4. Prepared'
  BY DEF Prepared
<1>5. Spoiled'
  BY DEF Spoiled
<1> QED  BY <1>3, <1>4, <1>5

LEMMA SuiteStep == ASSUME TypeInv, SuiteInv, Subject PROVE SuiteInv'
<1>1. Alive /\ Prepared /\ Ahead /\ Spoiled /\ Noticed /\ Verdict
  BY DEF SuiteInv
<1>2. Alive' /\ Prepared' /\ Ahead'
  BY <1>1, AliveStep, PreparedStep, AheadStep
<1>3. PICK result : Continue(result)
  BY SubjectGives
<1>4. UNCHANGED <<results, check, outcome, program, defect, struck>>
  BY <1>3 DEF Continue, choiceVars, Subject, NoFault
<1>5. Spoiled'
  <2> SUFFICES ASSUME defect = "none", Running, program # "benchmark", raised', check \notin struck
               PROVE  FALSE
    BY <1>4 DEF Spoiled, Running
  <2>1. Calm
    BY <1>1 DEF Spoiled, Calm
  <2>2. Ready
    BY <1>1, <2>1, AllReady DEF Subject
  <2>3. PICK good : Continue(good) /\ good \in Here.want
    BY <2>2, ReadyGoes
  <2> QED  BY <2>1, <2>3 DEF Continue, Calm
<1>6. Verdict'
  BY <1>1, <1>4 DEF Verdict, Found, Failed, Running
<1>7. Noticed'
  <2>1. raised => raised'
    BY <1>3 DEF Continue
  <2> QED  BY <1>1, <1>4, <2>1 DEF Noticed, Failed, Running
<1> QED  BY <1>2, <1>5, <1>6, <1>7 DEF SuiteInv

LEMMA SuiteFails == ASSUME TypeInv, SuiteInv, CallFails PROVE SuiteInv'
<1>1. Noticed /\ Verdict
  BY DEF SuiteInv
<1>2. /\ UNCHANGED <<results, check, outcome, program, defect>>
      /\ struck' = struck \cup {check}
  BY DEF CallFails, Continue, choiceVars
<1>3. check' \in struck' /\ ~Calm'
  BY <1>2 DEF Calm
<1>4. Alive' /\ Prepared' /\ Ahead' /\ Spoiled'
  BY <1>3 DEF Alive, Prepared, Ahead, Spoiled
<1>5. Found => Found'
  BY <1>2 DEF Found, Failed
<1>6. Verdict'
  BY <1>1, <1>2, <1>5 DEF Verdict, Failed, Running
<1>7. Noticed'
  <2> SUFFICES ASSUME program # "benchmark", Running, NEW c \in struck', c # 10, c \notin Failed
               PROVE  raised' /\ c = check
    BY <1>2 DEF Noticed, Failed, Running, CallFails
  <2>1. Continue("CodeInterpreterError") /\ line <= Len(Block.lines)
    BY DEF CallFails
  <2>2. raised => raised'
    BY <2>1 DEF Continue
  <2>3. CASE c \in struck
    BY <1>1, <2>2, <2>3 DEF Noticed, Running
  <2>4. CASE c = check
    <3>1. "CodeInterpreterError" \notin Here.want
      BY <2>1, <2>4, NoneWanted
    <3> QED  BY <2>1, <2>4, <3>1 DEF Continue
  <2> QED  BY <1>2, <2>3, <2>4
<1> QED  BY <1>4, <1>6, <1>7 DEF SuiteInv

LEMMA SuiteEnds == ASSUME TypeInv, TypeInv', SuiteInv, CheckEnds PROVE SuiteInv'
<1>1. Ahead /\ Spoiled /\ Noticed /\ Verdict
  BY DEF SuiteInv
<1>2. /\ Running /\ program # "benchmark" /\ BlockEnds
      /\ line' = 1 /\ raised' = FALSE /\ calls' = 0 /\ block' = 1
      /\ UNCHANGED <<program, defect, struck>> /\ line > Len(Block.lines)
      /\ raised \/ block = Len(Plan[check])
      /\ results' = Append(results, ~raised)
  BY DEF CheckEnds, BlockEnds, choiceVars
<1>3. /\ outcome' = IF raised /\ program = "raise" THEN "raised"
                    ELSE IF check = Len(Plan) THEN "report" ELSE "running"
      /\ outcome' = "running" => check' = check + 1
  BY DEF CheckEnds, IsLast
<1>4. /\ results \in Seq(BOOLEAN) /\ Len(results) + 1 = check /\ raised \in BOOLEAN
      /\ Plan = Checks /\ Len(Plan) = 10 /\ check \in 1..10
  <2>1. results \in Seq(BOOLEAN) /\ Len(results) = check - 1 /\ raised \in BOOLEAN
    BY <1>2 DEF TypeInv, Marks, Notes
  <2>2. Plan = Checks /\ check \in 1..10
    BY <1>2, CheckPlace
  <2>3. Len(Plan) = 10
    BY <2>2, ChecksAre
  <2> QED  BY <2>1, <2>2, <2>3
<1>5. Failed' = IF raised THEN Failed \cup {check} ELSE Failed
  <2>1. Failed' = IF ~raised THEN Failed ELSE Failed \cup {Len(results) + 1}
    BY <1>2, <1>4, FailedAfter
  <2> QED  BY <1>4, <2>1
<1>6. Alive' /\ Prepared' /\ Spoiled'
  BY <1>2, SuiteFresh
<1>7. Ahead'
  BY <1>2 DEF Ahead, TrapBlock, TrapLine
<1>8. defect' = "none" => Failed' \subseteq struck'
  BY <1>1, <1>2, <1>5 DEF Verdict, Spoiled
<1>9. AtTrap => Found'
  <2> SUFFICES ASSUME AtTrap, check \notin struck PROVE raised
    BY <1>2, <1>5 DEF AtTrap, Found
  <2> SUFFICES ASSUME ~raised PROVE FALSE
    OBVIOUS
  <2>1. Calm
    BY <1>2 DEF Calm
  <2>2. block < Len(Plan[check])
    BY <1>1, <1>2, <2>1, TrapLater
  <2>3. block = Len(Plan[check]) /\ Len(Plan[check]) \in Nat
    BY <1>2, BlockIs DEF TypeInv
  <2> QED  BY <2>2, <2>3
<1>10. defect # "none" /\ check > CaughtBy[defect] => Found'
  BY <1>1, <1>2, <1>5 DEF Verdict, Found
<1>11. defect # "none" => CaughtBy[defect] \in 1..10
  BY TrapIs DEF TypeInv, Choice, Defects
<1>0. Len(results') = check
  BY <1>2, <1>4
<1>12. program' # "benchmark" /\ outcome' = "report" => Found' /\ Len(results') = 10
  <2> SUFFICES ASSUME outcome' = "report" PROVE Found' /\ check = 10
    BY <1>0, <1>2 DEF Found
  <2>1. check = 10
    BY <1>3, <1>4
  <2>2. defect # "none" => AtTrap \/ check > CaughtBy[defect]
    BY <1>11, <2>1 DEF AtTrap
  <2>3. defect = "none" => Found'
    BY <1>2 DEF Found
  <2> QED  BY <1>9, <1>10, <2>1, <2>2, <2>3
<1>13. Running' /\ defect' # "none" /\ check' > CaughtBy[defect'] => Found'
  <2> SUFFICES ASSUME Running', defect # "none", check' > CaughtBy[defect] PROVE Found'
    BY <1>2
  <2>1. check' = check + 1
    BY <1>3 DEF Running
  <2>2. AtTrap \/ check > CaughtBy[defect]
    BY <1>4, <1>11, <2>1 DEF AtTrap
  <2> QED  BY <1>9, <1>10, <2>2
<1>14. program' = "raise" /\ outcome' # "raised" => Failed' = {}
  BY <1>1, <1>2, <1>3, <1>5 DEF Verdict, Running
<1>16. program' = "raise" /\ outcome' = "raised" => Failed' = {Len(results')}
  BY <1>0, <1>1, <1>2, <1>3, <1>5 DEF Verdict, Running
<1>15. Verdict'
  BY <1>8, <1>12, <1>13, <1>14, <1>16 DEF Verdict
<1>17. Noticed'
  <2> SUFFICES ASSUME NEW c \in struck, c # 10 PROVE c \in Failed'
    BY <1>2 DEF Noticed
  <2>1. c \in Failed \/ (raised /\ c = check)
    BY <1>1, <1>2 DEF Noticed, Running
  <2> QED  BY <1>5, <2>1
<1> QED  BY <1>6, <1>7, <1>15, <1>17 DEF SuiteInv

LEMMA SuiteNext == TypeInv /\ TypeInv' /\ SuiteInv /\ [Next]_vars => SuiteInv'
<1> SUFFICES ASSUME TypeInv, TypeInv', SuiteInv, [Next]_vars PROVE SuiteInv'
  OBVIOUS
<1>1. CASE Subject
  BY <1>1, SuiteStep
<1>2. CASE CallFails
  BY <1>2, SuiteFails
<1>3. CASE NextBlock
  <2>1. /\ Running /\ ~raised /\ block < Len(Plan[check]) /\ line > Len(Block.lines)
        /\ block' = block + 1 /\ line' = 1 /\ raised' = FALSE /\ calls' = 0
        /\ UNCHANGED <<program, defect, struck, results, outcome, check>>
    BY <1>3 DEF NextBlock, BlockEnds, choiceVars
  <2>2. Alive' /\ Prepared' /\ Spoiled'
    BY <2>1, SuiteFresh
  <2>3. Ahead'
    <3> SUFFICES ASSUME Calm', AtTrap' PROVE Ahead'
      BY DEF Ahead
    <3>1. Calm /\ AtTrap
      BY <2>1 DEF Calm, AtTrap, Running
    <3>2. block < TrapBlock(defect)
      BY <2>1, <3>1, TrapLater DEF SuiteInv
    <3>3. block \in Nat
      BY <2>1 DEF TypeInv, Place
    <3>4. block' <= TrapBlock(defect') /\ TrapBlock(defect') \in Nat /\ block' \in Nat
      BY <2>1, <3>2, <3>3 DEF TrapBlock
    <3>5. line' <= TrapLine(defect')
      BY <2>1 DEF TrapLine
    <3> QED  BY <3>4, <3>5 DEF Ahead
  <2>4. Verdict'
    BY <2>1 DEF SuiteInv, Verdict, Found, Failed, Running
  <2>5. Noticed'
    BY <2>1 DEF SuiteInv, Noticed, Failed, Running
  <2> QED  BY <2>2, <2>3, <2>4, <2>5 DEF SuiteInv
<1>4. CASE CheckEnds
  BY <1>4, SuiteEnds
<1>5. CASE BenchmarkEnds
  <2>1. /\ program = "benchmark" /\ program' = program /\ results' = results /\ defect' = defect
        /\ struck' = struck
    BY <1>5 DEF BenchmarkEnds, BlockEnds, choiceVars
  <2>2. Alive' /\ Prepared' /\ Ahead' /\ Spoiled'
    BY <2>1 DEF Alive, Prepared, Ahead, Spoiled, Calm
  <2>3. Verdict' /\ Noticed'
    BY <2>1 DEF SuiteInv, Verdict, Noticed, Failed
  <2> QED  BY <2>2, <2>3 DEF SuiteInv
<1>6. CASE UNCHANGED vars
  BY <1>6
  DEF SuiteInv, Alive, Prepared, Ahead, Spoiled, Noticed, Verdict, Found, Failed, Calm, AtTrap, Running,
      Block, Plan, vars, choiceVars, placeVars, subjectVars
<1> QED  BY <1>1, <1>2, <1>3, <1>4, <1>5, <1>6 DEF Next, Done

LEMMA SuiteInit == Init => SuiteInv
<1> SUFFICES ASSUME Init PROVE SuiteInv
  OBVIOUS
<1>1. /\ results = <<>> /\ line = 1 /\ check = 1 /\ block = 1 /\ raised = FALSE /\ calls = 0
      /\ defect \in Defects /\ struck = {}
      /\ outcome # "running" => program = "benchmark"
  BY DEF Init
<1>2. Failed = {}
  BY <1>1 DEF Failed
<1>3. defect # "none" => CaughtBy[defect] \in 1..10
  BY <1>1, TrapIs DEF Defects
<1>4. Calm => Block.try \in 2..6
  BY TypeInit, TryLater DEF Calm
<1>5. Alive
  BY <1>1, <1>4 DEF Alive
<1>6. Prepared
  BY <1>1 DEF Prepared
<1>7. Ahead
  BY <1>1 DEF Ahead, TrapBlock, TrapLine
<1>8. Spoiled
  BY <1>1 DEF Spoiled
<1>9. Verdict
  BY <1>1, <1>2, <1>3 DEF Verdict
<1>10. Noticed
  BY <1>1 DEF Noticed
<1> QED  BY <1>5, <1>6, <1>7, <1>8, <1>9, <1>10 DEF SuiteInv

\* A session without a defect fails only a check in which a call failed.  A report
\* has a result for each of the ten checks; among the failed ones are those in
\* which a call failed, but for the check that asks for CodeInterpreterError, and
\* the one that the test of the defect names, unless a call failed in it.  With
\* on_fail="raise" a report has no failed check, and what is raised over is the
\* last check that ran, the only one that failed (_run_checks, check_interpreter).
THEOREM Judged == Spec => []Distinguishes
<1>1. TypeInv /\ SuiteInv => Distinguishes
  <2> SUFFICES ASSUME TypeInv, Noticed, Verdict PROVE Distinguishes
    BY DEF SuiteInv
  <2>1. defect = "none" => Failed \subseteq struck
    BY DEF Verdict
  <2>2. ASSUME outcome = "report", program # "benchmark"
        PROVE  /\ Len(results) = Len(Checks)
               /\ struck \ {CaughtBy["nonterminalShutdown"]} \subseteq Failed
               /\ defect # "none" => CaughtBy[defect] \in Failed \cup struck
    <3>1. Found /\ Len(results) = Len(Checks)
      BY <2>2, ChecksAre DEF Verdict
    <3>2. \A c \in struck : c = 10 \/ c \in Failed
      BY <2>2 DEF Noticed, Running
    <3> QED  BY <3>1, <3>2, TrapIs DEF Found
  <2>3. /\ program = "raise" /\ outcome = "report" => Failed = {}
        /\ program = "raise" /\ outcome = "raised" => Failed = {Len(results)}
    BY DEF Verdict
  <2> QED  BY <2>1, <2>2, <2>3 DEF Distinguishes
<1> QED  BY <1>1, TypeInit, TypeNext, SuiteInit, SuiteNext, PTL DEF Spec
=============================================================================
