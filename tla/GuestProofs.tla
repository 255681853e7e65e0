----------------------------- MODULE GuestProofs -----------------------------
(***************************************************************************)
(* What both hosts of a worker may assume of it: lemmas about GuestWorker. *)
(***************************************************************************)
EXTENDS GuestWorker, TLAPS

LEMMA QueueTypes ==
    ASSUME NEW S, NEW q \in Seq(S)
    PROVE  /\ q # <<>> => Head(q) \in S /\ Tail(q) \in Seq(S)
           /\ \A e \in S : Append(q, e) \in Seq(S)
  OBVIOUS

LEMMA MsgTyped == ASSUME NEW type \in MsgTypes, NEW id \in Nat
                  PROVE  Msg(type, id) \in Message
  BY DEF Msg, Message

LEMMA MessageFields == \A m \in Message : m.type \in MsgTypes /\ m.id \in Nat
  BY DEF Message

\* A worker keeps its variables in their types.
LEMMA GuestTyped == ASSUME GuestTypeOK, GuestStep
                    PROVE  GuestTypeOK'
<1>2. PICK w \in Workers : Protocol(w) \/ Whim(w)
  BY DEF GuestStep
<1>3. /\ stdin[w] # <<>> => Head(stdin[w]) \in Message /\ Tail(stdin[w]) \in Seq(Message)
      /\ \A e \in Message : Append(stdout[w], e) \in Seq(Message)
  BY QueueTypes DEF GuestTypeOK
<1>4. /\ Msg("ready", 0) \in Message
      /\ Msg("terminal_error", 0) \in Message
      /\ Msg("execution_result", job[w]) \in Message
      /\ Msg("tool_request", issued + 1) \in Message
      /\ Msg("stray", 0) \in Message
  BY MsgTyped DEF MsgTypes, GuestTypeOK
<1> USE <1>3, <1>4, MessageFields DEF GuestTypeOK, Become, Say, Hear
<1>5. CASE Ready(w)
  BY <1>5 DEF Ready
<1>6. CASE TakeExecute(w)
  BY <1>6 DEF TakeExecute
<1>7. CASE RejectRequest(w)
  BY <1>7 DEF RejectRequest
<1>8. CASE TakeShutdown(w)
  BY <1>8 DEF TakeShutdown
<1>9. CASE \E g \in Guests : TakeToolResponse(w, g)
  BY <1>9 DEF TakeToolResponse
<1>10. CASE Finish(w)
  BY <1>10 DEF Finish
<1>11. CASE FinishBadly(w)
  BY <1>11 DEF FinishBadly
<1>12. CASE Die(w)
  BY <1>12 DEF Die
<1>13. CASE \E g \in Guests : CallTool(w, g)
  BY <1>13 DEF CallTool
<1>14. CASE StartChild(w)
  BY <1>14 DEF StartChild
<1>15. CASE ChildSpeaks(w)
  BY <1>15 DEF ChildSpeaks
<1>16. CASE ChildExits(w)
  BY <1>16 DEF ChildExits
<1> QED
  BY <1>2, <1>5, <1>6, <1>7, <1>8, <1>9, <1>10, <1>11, <1>12, <1>13, <1>14,
     <1>15, <1>16 DEF Protocol, Whim

\* A worker is not born by itself, does not live again, and takes a run only
\* while it lives.
LEMMA GuestBirth == ASSUME GuestTypeOK, GuestStep, NEW w \in Workers
                    PROVE  /\ worker'[w] = "unborn" <=> worker[w] = "unborn"
                           /\ Alive(w)' => Alive(w)
                           /\ job'[w] # 0 => job[w] # 0 \/ worker[w] # "unborn"
<1>1. PICK v \in Workers : Protocol(v) \/ Whim(v)
  BY DEF GuestStep
<1>2. CASE UNCHANGED <<worker, job>>
  BY <1>2 DEF Alive
<1>3. CASE /\ worker[v] \in {"booting", "idle", "busy"}
           /\ \E s \in {"idle", "busy", "exited"} : Become(v, s)
           /\ job' = job \/ \E r : job' = [job EXCEPT ![v] = r]
  BY <1>3 DEF Alive, Become, GuestTypeOK
<1>4. Ready(v) \/ TakeExecute(v) \/ RejectRequest(v) \/ TakeShutdown(v) \/ Finish(v)
         \/ FinishBadly(v) \/ Die(v)
      => /\ worker[v] \in {"booting", "idle", "busy"}
         /\ \E s \in {"idle", "busy", "exited"} : Become(v, s)
         /\ job' = job \/ \E r : job' = [job EXCEPT ![v] = r]
  BY DEF Ready, TakeExecute, RejectRequest, TakeShutdown, Finish, FinishBadly, Die, Alive
<1>5. (\E g \in Guests : TakeToolResponse(v, g)) \/ (\E g \in Guests : CallTool(v, g))
         \/ StartChild(v) \/ ChildSpeaks(v) \/ ChildExits(v)
      => UNCHANGED <<worker, job>>
  BY DEF TakeToolResponse, CallTool, StartChild, ChildSpeaks, ChildExits
<1> QED
  BY <1>1, <1>2, <1>3, <1>4, <1>5 DEF Protocol, Whim

-----------------------------------------------------------------------------
(* Lines of one type in a queue. *)

LEMMA IdsMember ==
    ASSUME NEW q, NEW type, NEW i \in 1..Len(q), q[i].type = type
    PROVE  q[i].id \in Ids(q, type)
  BY DEF Ids

LEMMA IdsPick ==
    ASSUME NEW q, NEW type, NEW x \in Ids(q, type)
    PROVE  \E i \in 1..Len(q) : q[i].type = type /\ q[i].id = x
  BY DEF Ids

LEMMA EmptyQueue == ASSUME NEW type PROVE Ids(<<>>, type) = {} /\ Single(<<>>, type)
  BY DEF Ids, Single

\* A line of another type changes nothing.
LEMMA AppendOther ==
    ASSUME NEW S, NEW q \in Seq(S), NEW m \in S, NEW type, m.type # type
    PROVE  /\ Ids(Append(q, m), type) = Ids(q, type)
           /\ Single(q, type) => Single(Append(q, m), type)
<1> DEFINE r == Append(q, m)
<1>1. /\ Len(r) = Len(q) + 1 /\ Len(q) \in Nat
      /\ \A i \in 1..Len(q) : r[i] = q[i]
      /\ r[Len(q) + 1] = m
  OBVIOUS
<1>2. \A i \in 1..Len(r) : r[i].type = type => i \in 1..Len(q)
  BY <1>1
<1>3. 1..Len(q) \subseteq 1..Len(r)
  BY <1>1
<1> HIDE DEF r
<1>4. Ids(r, type) = Ids(q, type)
  BY <1>1, <1>2, <1>3 DEF Ids
<1>5. Single(q, type) => Single(r, type)
  BY <1>1, <1>2 DEF Single
<1> QED  BY <1>4, <1>5 DEF r

\* A line of the type, where there was none.
LEMMA AppendFirst ==
    ASSUME NEW S, NEW q \in Seq(S), NEW m \in S, Ids(q, m.type) = {}
    PROVE  /\ Ids(Append(q, m), m.type) = {m.id}
           /\ Single(Append(q, m), m.type)
<1> DEFINE r == Append(q, m)
<1>1. /\ Len(r) = Len(q) + 1 /\ Len(q) \in Nat
      /\ \A i \in 1..Len(q) : r[i] = q[i]
      /\ r[Len(q) + 1] = m
  OBVIOUS
<1>2. \A i \in 1..Len(q) : q[i].type # m.type
  BY IdsMember
<1>3. \A i \in 1..Len(r) : r[i].type = m.type <=> i = Len(q) + 1
  BY <1>1, <1>2
<1>4. Len(q) + 1 \in 1..Len(r)
  BY <1>1
<1> HIDE DEF r
<1>5. Ids(r, m.type) = {m.id}
  BY <1>1, <1>3, <1>4 DEF Ids
<1>6. Single(r, m.type)
  BY <1>3 DEF Single
<1> QED  BY <1>5, <1>6 DEF r

\* The rest of a queue carries less, and no second line of a single type.
LEMMA TailLines ==
    ASSUME NEW S, NEW q \in Seq(S), q # <<>>, NEW type
    PROVE  /\ Ids(Tail(q), type) \subseteq Ids(q, type)
           /\ Single(q, type) => Single(Tail(q), type)
           /\ Head(q).type = type => Head(q).id \in Ids(q, type)
           /\ Head(q).type = type /\ Single(q, type) => Ids(Tail(q), type) = {}
<1> DEFINE r == Tail(q)
<1>1. /\ Len(q) \in Nat \ {0} /\ Len(r) = Len(q) - 1
      /\ \A i \in 1..Len(r) : r[i] = q[i + 1]
      /\ Head(q) = q[1]
  OBVIOUS
<1>2. /\ \A i \in 1..Len(r) : i + 1 \in 1..Len(q) /\ i + 1 # 1
      /\ \A i, j \in 1..Len(r) : i + 1 = j + 1 => i = j
      /\ 1 \in 1..Len(q)
  BY <1>1
<1> HIDE DEF r
<1>3. Ids(r, type) \subseteq Ids(q, type)
  <2> SUFFICES ASSUME NEW x \in Ids(r, type) PROVE x \in Ids(q, type)
    OBVIOUS
  <2>1. PICK i \in 1..Len(r) : r[i].type = type /\ r[i].id = x
    BY IdsPick
  <2> QED  BY <1>1, <1>2, <2>1, IdsMember
<1>4. Single(q, type) => Single(r, type)
  BY <1>1, <1>2 DEF Single
<1>5. Head(q).type = type => Head(q).id \in Ids(q, type)
  BY <1>1, <1>2, IdsMember
<1>6. ASSUME Head(q).type = type, Single(q, type) PROVE Ids(r, type) = {}
  <2>1. \A i \in 1..Len(r) : r[i].type # type
    BY <1>1, <1>2, <1>6 DEF Single
  <2> QED  BY <2>1, IdsPick
<1> QED  BY <1>3, <1>4, <1>5, <1>6 DEF r

LEMMA OneLine == ASSUME NEW S, NEW q \in Seq(S), Len(q) = 1 PROVE Tail(q) = <<>>
<1>1. Tail(q) \in Seq(S) /\ Len(Tail(q)) = 0
  OBVIOUS
<1>2. \A r \in Seq(S) : Len(r) = 0 => r = <<>>
  OBVIOUS
<1> QED  BY <1>1, <1>2

-----------------------------------------------------------------------------
(* How a worker carries a run from its stdin to its stdout. *)

\* A worker that is not born says nothing; tool requests are numbered from 1.
GuestSilence ==
    \A w \in Workers :
        /\ worker[w] = "unborn" => stdin[w] = <<>> /\ stdout[w] = <<>> /\ child[w] = "none"
        /\ 0 \notin Ids(stdout[w], "tool_request")

\* The worker takes a run, sends its result, or does something else.
Takes(w) ==
    /\ worker[w] = "idle" /\ worker'[w] = "busy" /\ job'[w] \in Asked(w)
    /\ Single(stdin[w], "execute") => Asked(w)' = {}
    /\ stdout'[w] = stdout[w]

Sends(w) ==
    /\ worker[w] = "busy" /\ worker'[w] = "idle"
    /\ job'[w] = job[w] /\ Asked(w)' = Asked(w)
    /\ Answered(w) = {} => Answered(w)' = {job[w]} /\ Single(stdout'[w], "execution_result")

Carries(w) ==
    /\ job'[w] = job[w] /\ Answered(w)' = Answered(w)
    /\ worker'[w] = "busy" => worker[w] = "busy"
    /\ Single(stdout[w], "execution_result") => Single(stdout'[w], "execution_result")

Solo(w) == \A v \in Workers \ {w} :
    /\ worker'[v] = worker[v] /\ job'[v] = job[v] /\ child'[v] = child[v]
    /\ stdin'[v] = stdin[v] /\ stdout'[v] = stdout[v]

LEMMA AppendMore ==
    ASSUME NEW S, NEW q \in Seq(S), NEW m \in S, NEW type
    PROVE  Ids(Append(q, m), type) \subseteq Ids(q, type) \cup {m.id}
<1> DEFINE r == Append(q, m)
<1>1. /\ Len(r) = Len(q) + 1 /\ Len(q) \in Nat
      /\ \A i \in 1..Len(q) : r[i] = q[i]
      /\ r[Len(q) + 1] = m
  OBVIOUS
<1>2. \A i \in 1..Len(r) : i \in 1..Len(q) \/ i = Len(q) + 1
  BY <1>1
<1> HIDE DEF r
<1>3. ASSUME NEW x \in Ids(r, type) PROVE x \in Ids(q, type) \cup {m.id}
  <2>1. PICK i \in 1..Len(r) : r[i].type = type /\ r[i].id = x
    BY IdsPick
  <2>2. CASE i \in 1..Len(q)
    BY <1>1, <2>1, <2>2, IdsMember
  <2> QED  BY <1>1, <1>2, <2>1, <2>2
<1> QED  BY <1>3 DEF r

\* What a worker may say, and when.
LEMMA SaidLine ==
    ASSUME GuestTypeOK, NEW w \in Workers, Protocol(w) \/ Whim(w)
    PROVE  \/ stdout'[w] = stdout[w]
           \/ \E m \in Message :
                 /\ stdout'[w] = Append(stdout[w], m)
                 /\ m.type = "tool_request" => m.id # 0
                 /\ m.type = "execution_result" => Finish(w)
<1>1. /\ stdout \in [Workers -> Seq(Message)] /\ issued + 1 \in Nat \ {0} /\ job[w] \in Nat
      /\ Msg("ready", 0) \in Message /\ Msg("terminal_error", 0) \in Message
      /\ Msg("stray", 0) \in Message /\ Msg("tool_request", issued + 1) \in Message
      /\ Msg("execution_result", job[w]) \in Message
  BY MsgTyped DEF GuestTypeOK, MsgTypes
<1>2. CASE Ready(w)
  BY <1>1, <1>2 DEF Ready, Say, Msg
<1>3. CASE RejectRequest(w) \/ FinishBadly(w)
  BY <1>1, <1>3 DEF RejectRequest, FinishBadly, Say, Msg
<1>4. CASE Finish(w)
  BY <1>1, <1>4 DEF Finish, Say, Msg
<1>5. CASE ChildSpeaks(w)
  BY <1>1, <1>5 DEF ChildSpeaks, Say, Msg
<1>6. CASE \E g \in Guests : CallTool(w, g)
  BY <1>1, <1>6 DEF CallTool, Say, Msg
<1>7. CASE TakeExecute(w) \/ TakeShutdown(w) \/ Die(w) \/ StartChild(w) \/ ChildExits(w)
           \/ \E g \in Guests : TakeToolResponse(w, g)
  BY <1>7 DEF TakeExecute, TakeShutdown, Die, StartChild, ChildExits, TakeToolResponse
<1> QED
  BY <1>2, <1>3, <1>4, <1>5, <1>6, <1>7 DEF Protocol, Whim

LEMMA GuestFlow ==
    ASSUME GuestTypeOK, GuestStep
    PROVE  \E w \in Workers :
              /\ Solo(w)
              /\ Asked(w)' \subseteq Asked(w)
              /\ Single(stdin[w], "execute") => Single(stdin'[w], "execute")
              /\ Takes(w) \/ Sends(w) \/ Carries(w)
<1>1. PICK w \in Workers : Protocol(w) \/ Whim(w)
  BY DEF GuestStep
<1> USE DEF GuestTypeOK
<1>2. /\ stdin[w] \in Seq(Message) /\ stdout[w] \in Seq(Message)
      /\ stdin[w] # <<>> => Head(stdin[w]) \in Message
  BY QueueTypes
<1>3. Solo(w)
  BY <1>1 DEF Protocol, Whim, Ready, TakeExecute, RejectRequest, TakeShutdown, Finish,
     TakeToolResponse, FinishBadly, Die, CallTool, StartChild, ChildSpeaks, ChildExits,
     Say, Hear, Become, Solo
<1>4. stdin'[w] = stdin[w] \/ (stdin[w] # <<>> /\ stdin'[w] = Tail(stdin[w]))
  BY <1>1 DEF Protocol, Whim, Ready, TakeExecute, RejectRequest, TakeShutdown, Finish,
     TakeToolResponse, FinishBadly, Die, CallTool, StartChild, ChildSpeaks, ChildExits, Hear
<1>5. /\ Asked(w)' \subseteq Asked(w)
      /\ Single(stdin[w], "execute") => Single(stdin'[w], "execute")
  <2>1. stdin[w] # <<>> =>
           /\ Ids(Tail(stdin[w]), "execute") \subseteq Ids(stdin[w], "execute")
           /\ Single(stdin[w], "execute") => Single(Tail(stdin[w]), "execute")
    BY <1>2, TailLines
  <2> QED  BY <1>4, <2>1 DEF Asked
<1>6. CASE TakeExecute(w)
  <2>1. /\ stdin[w] # <<>> /\ stdin'[w] = Tail(stdin[w]) /\ Head(stdin[w]).type = "execute"
        /\ worker[w] = "idle" /\ worker'[w] = "busy" /\ job'[w] = Head(stdin[w]).id
        /\ stdout'[w] = stdout[w]
    BY <1>6 DEF TakeExecute, Hear, Become
  <2>2. Takes(w)
    BY <1>2, <2>1, TailLines DEF Takes, Asked
  <2> QED  BY <1>3, <1>5, <2>2
<1>7. CASE Finish(w)
  <2> DEFINE m == Msg("execution_result", job[w])
  <2>1. m \in Message /\ m.type = "execution_result" /\ m.id = job[w]
    BY MsgTyped DEF Msg, MsgTypes
  <2>2. /\ worker[w] = "busy" /\ worker'[w] = "idle" /\ job'[w] = job[w]
        /\ stdin'[w] = stdin[w] /\ stdout'[w] = Append(stdout[w], m)
    BY <1>7 DEF Finish, Say, Become
  <2>3. Asked(w)' = Asked(w)
    BY <2>2 DEF Asked
  <2>4. Answered(w) = {} => Answered(w)' = {job[w]} /\ Single(stdout'[w], "execution_result")
    <3> HIDE DEF m
    <3>1. SUFFICES ASSUME Ids(stdout[w], m.type) = {}
                   PROVE  /\ Ids(Append(stdout[w], m), m.type) = {m.id}
                          /\ Single(Append(stdout[w], m), m.type)
      BY <2>1, <2>2 DEF Answered
    <3> QED  BY <1>2, <2>1, <3>1, AppendFirst
  <2> QED  BY <1>3, <1>5, <2>2, <2>3, <2>4 DEF Sends
<1>8. ASSUME job'[w] = job[w], worker'[w] = "busy" => worker[w] = "busy",
             \/ stdout'[w] = stdout[w]
             \/ \E m \in Message : m.type # "execution_result" /\ stdout'[w] = Append(stdout[w], m)
      PROVE  Carries(w)
  <2>1. CASE stdout'[w] = stdout[w]
    BY <1>8, <2>1 DEF Carries, Answered
  <2>2. CASE \E m \in Message : m.type # "execution_result" /\ stdout'[w] = Append(stdout[w], m)
    <3>1. PICK m \in Message : m.type # "execution_result" /\ stdout'[w] = Append(stdout[w], m)
      BY <2>2
    <3>2. /\ Ids(Append(stdout[w], m), "execution_result") = Ids(stdout[w], "execution_result")
          /\ Single(stdout[w], "execution_result") =>
                Single(Append(stdout[w], m), "execution_result")
      BY <1>2, <3>1, AppendOther
    <3> QED  BY <1>8, <3>1, <3>2 DEF Carries, Answered
  <2> QED  BY <1>8, <2>1, <2>2
<1>9. ASSUME ~TakeExecute(w), ~Finish(w) PROVE Carries(w)
  <2>1. job'[w] = job[w] /\ (worker'[w] = "busy" => worker[w] = "busy")
    BY <1>1, <1>9 DEF Protocol, Whim, Ready, RejectRequest, TakeShutdown,
       TakeToolResponse, FinishBadly, Die, CallTool, StartChild, ChildSpeaks, ChildExits, Become
  <2> QED  BY <1>1, <1>8, <1>9, <2>1, SaidLine
<1> QED
  BY <1>3, <1>5, <1>6, <1>7, <1>9

LEMMA GuestSilent ==
    ASSUME GuestTypeOK, GuestSilence, GuestStep
    PROVE  GuestSilence'
<1>1. PICK w \in Workers : Protocol(w) \/ Whim(w)
  BY DEF GuestStep
<1> USE DEF GuestTypeOK
<1>2. \A v \in Workers \ {w} : /\ worker'[v] = worker[v] /\ child'[v] = child[v]
                               /\ stdin'[v] = stdin[v] /\ stdout'[v] = stdout[v]
  BY <1>1 DEF Protocol, Whim, Ready, TakeExecute, RejectRequest, TakeShutdown, Finish,
     TakeToolResponse, FinishBadly, Die, CallTool, StartChild, ChildSpeaks, ChildExits,
     Say, Hear, Become
<1>3. worker[w] # "unborn" /\ worker'[w] # "unborn"
  <2>1. worker[w] = "unborn" => stdin[w] = <<>> /\ child[w] = "none"
    BY DEF GuestSilence
  <2>2. worker'[w] = "unborn" <=> worker[w] = "unborn"
    BY GuestBirth
  <2>3. worker[w] # "unborn"
    BY <1>1, <2>1 DEF Protocol, Whim, Ready, TakeExecute, RejectRequest, TakeShutdown, Finish,
       TakeToolResponse, FinishBadly, Die, CallTool, StartChild, ChildSpeaks, ChildExits,
       Alive, Runs, HeldOpen
  <2> QED  BY <2>2, <2>3
<1>4. 0 \notin Ids(stdout'[w], "tool_request")
  <2>1. 0 \notin Ids(stdout[w], "tool_request") /\ stdout[w] \in Seq(Message)
    BY DEF GuestSilence
  <2>2. CASE stdout'[w] = stdout[w]
    BY <2>1, <2>2
  <2>3. ASSUME NEW m \in Message, stdout'[w] = Append(stdout[w], m),
               m.type = "tool_request" => m.id # 0
        PROVE  0 \notin Ids(stdout'[w], "tool_request")
    <3>1. CASE m.type = "tool_request"
      BY <2>1, <2>3, <3>1, AppendMore
    <3>2. CASE m.type # "tool_request"
      BY <2>1, <2>3, <3>2, AppendOther
    <3> QED  BY <3>1, <3>2
  <2> QED  BY <1>1, <2>2, <2>3, SaidLine
<1> QED  BY <1>2, <1>3, <1>4 DEF GuestSilence
=============================================================================
