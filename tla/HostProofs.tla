----------------------------- MODULE HostProofs -----------------------------
(***************************************************************************)
(* Theorems about HostProcess, for every set of sessions, backends, names, *)
(* declared fields and calls of SUBMIT, and executions of any depth.       *)
(***************************************************************************)
EXTENDS HostProcess, TLAPS

-----------------------------------------------------------------------------
(* What happens to the stack: an execution begins, ends, or calls a tool.  *)

LEMMA Push ==
    ASSUME NEW s \in Seq(Frames), NEW f \in Frames
    PROVE  /\ Append(s, f) \in Seq(Frames)
           /\ Len(Append(s, f)) = Len(s) + 1
           /\ \A i \in 1..Len(s) : Append(s, f)[i] = s[i]
           /\ Append(s, f)[Len(s) + 1] = f
  OBVIOUS

LEMMA Pop ==
    ASSUME NEW s \in Seq(Frames), s # <<>>
    PROVE  /\ Len(s) \in Nat \ {0}
           /\ Front(s) \in Seq(Frames)
           /\ Len(Front(s)) = Len(s) - 1
           /\ \A i \in 1..(Len(s) - 1) : Front(s)[i] = s[i]
<1>1. Len(s) \in Nat \ {0}
  OBVIOUS
<1>2. Front(s) = [i \in 1..(Len(s) - 1) |-> s[i]]
  BY <1>1 DEF Front
<1>3. \A i \in 1..(Len(s) - 1) : s[i] \in Frames
  BY <1>1
<1>4. Front(s) \in [1..(Len(s) - 1) -> Frames]
  BY <1>2, <1>3
<1>5. Front(s) \in Seq(Frames) /\ Len(Front(s)) = Len(s) - 1
  BY <1>1, <1>4
<1> QED
  BY <1>1, <1>2, <1>5

\* The innermost frame with another tool in it.
Touched(s, n) == [s EXCEPT ![Len(s)].tool = n]

LEMMA Touch ==
    ASSUME NEW s \in Seq(Frames), s # <<>>, NEW n \in Names \cup {Nothing}
    PROVE  /\ Touched(s, n) \in Seq(Frames)
           /\ Len(Touched(s, n)) = Len(s)
           /\ Touched(s, n)[Len(s)].tool = n
           /\ \A i \in 1..Len(s) :
                 /\ Touched(s, n)[i].session = s[i].session
                 /\ Touched(s, n)[i].fields = s[i].fields
                 /\ Touched(s, n)[i].stdout = s[i].stdout
                 /\ Touched(s, n)[i].module = s[i].module
                 /\ Touched(s, n)[i].router = s[i].router
<1> DEFINE L == Len(s)
           t == Touched(s, n)
<1>1. L \in Nat \ {0} /\ L \in 1..L /\ s \in [1..L -> Frames] /\ DOMAIN s = 1..L
  OBVIOUS
<1>2. t = [s EXCEPT ![L] = [s[L] EXCEPT !.tool = n]]
  BY <1>1 DEF Touched
<1>3. s[L] \in Frames
  BY <1>1
<1>4. [s[L] EXCEPT !.tool = n] \in Frames
  BY <1>3 DEF Frames
<1>5. t \in [1..L -> Frames]
  BY <1>1, <1>2, <1>4
<1>6. t \in Seq(Frames) /\ Len(t) = L
  BY <1>1, <1>5
<1>7. t[L] = [s[L] EXCEPT !.tool = n] /\ \A i \in 1..L : i # L => t[i] = s[i]
  BY <1>1, <1>2
<1>8. t[L].tool = n /\ t[L].session = s[L].session /\ t[L].fields = s[L].fields
      /\ t[L].stdout = s[L].stdout /\ t[L].module = s[L].module /\ t[L].router = s[L].router
  BY <1>3, <1>7 DEF Frames
<1>9. \A i \in 1..L : /\ t[i].session = s[i].session
                      /\ t[i].fields = s[i].fields
                      /\ t[i].stdout = s[i].stdout
                      /\ t[i].module = s[i].module
                      /\ t[i].router = s[i].router
  BY <1>7, <1>8
<1> QED
  BY <1>6, <1>8, <1>9

-----------------------------------------------------------------------------
(* The inductive invariant.  OwnOutput, ModuleRestored and OwnRouter speak  *)
(* of the innermost execution; to have them again when it ends, what each   *)
(* execution has put aside must be right for the executions below it.       *)

SavedOutput(i) == InProcess(i) => Innermost(i, stack[i].stdout)

SavedModule(i) == InProcess(i) => Newest(i, stack[i].module)

\* r is the innermost execution of s below level i.
Latest(s, i, r) ==
    /\ r \in 1..(i - 1)
    /\ stack[r].session = s
    /\ \A j \in 1..(i - 1) : stack[j].session = s => j <= r

SavedRouter(i) ==
    OnMonty(i) /\ stack[i].router # 0 => Latest(stack[i].session, i, stack[i].router)

Saved == \A i \in 1..Depth : SavedOutput(i) /\ SavedModule(i) /\ SavedRouter(i)

\* Only Monty has a terminating SUBMIT among its tools.
Routers == \A s \in Sessions : router[s] # 0 => backend[s] = "monty" /\ Latest(s, Depth + 1, router[s])

\* Only code in process puts a module into it.
Facades == \A j \in facades : j \in 1..Depth /\ InProcess(j)

ProcessInv == OwnOutput /\ ModuleRestored /\ Facades /\ Routers /\ Saved

LEMMA Levels ==
    ASSUME TypeOK
    PROVE  /\ Depth \in Nat
           /\ DOMAIN stack = 1..Depth
           /\ \A i \in 1..Depth :
                 /\ stack[i] \in Frames
                 /\ stack[i].session \in Sessions
                 /\ stack[i].stdout \in Nat
                 /\ stack[i].module \in Nat
                 /\ stack[i].router \in Nat
<1>1. stack \in Seq(Frames) /\ Depth \in Nat /\ DOMAIN stack = 1..Depth
  BY DEF TypeOK, Depth
<1>2. \A i \in 1..Depth : stack[i] \in Frames
  BY <1>1 DEF Depth
<1> QED
  BY <1>1, <1>2, HostAssumption DEF Frames, HostAssumption

LEMMA TopFrame ==
    ASSUME TypeOK, stack # <<>>
    PROVE  Depth \in Nat \ {0} /\ Depth \in 1..Depth /\ Top \in Frames /\ Top.session \in Sessions
<1>1. Depth \in Nat \ {0}
  BY DEF TypeOK, Depth
<1> QED
  BY <1>1, Levels DEF Top

\* A step that begins and ends no execution, and at most drops a SUBMIT.
LEMMA SameLevels ==
    ASSUME TypeOK, TypeOK', ProcessInv,
           Len(stack') = Len(stack),
           \A i \in 1..Depth : /\ stack'[i].session = stack[i].session
                              /\ stack'[i].stdout = stack[i].stdout
                              /\ stack'[i].module = stack[i].module
                              /\ stack'[i].router = stack[i].router,
           UNCHANGED <<backend, stdout>>,
           \A s \in Sessions : router'[s] \in {0, router[s]},
           \/ UNCHANGED <<module, facades>>
           \/ /\ stack # <<>> /\ InProcess(Depth)
              /\ module' = Depth /\ facades' = facades \cup {Depth}
    PROVE  ProcessInv'
<1>1. Depth' = Depth /\ Depth \in Nat
  BY DEF Depth, TypeOK
<1>2. \A i \in 1..Depth : InProcess(i)' = InProcess(i) /\ OnMonty(i)' = OnMonty(i)
  BY DEF InProcess, OnMonty
<1>4. OwnOutput'
  <2>1. Innermost(Depth + 1, stdout) /\ stdout \in 0..Depth
    BY <1>1 DEF ProcessInv, OwnOutput, Innermost
  <2> QED
    BY <1>1, <1>2, <2>1 DEF OwnOutput, Innermost
<1>a. \A j \in facades : j \in 1..Depth /\ InProcess(j)
  BY DEF ProcessInv, Facades
<1>5. ModuleRestored' /\ Facades'
  <2>1. CASE UNCHANGED <<module, facades>>
    BY <1>1, <1>2, <1>a, <2>1 DEF ProcessInv, ModuleRestored, Newest, Facades
  <2>2. CASE /\ stack # <<>> /\ InProcess(Depth)
             /\ module' = Depth /\ facades' = facades \cup {Depth}
    <3>1. Depth \in 1..Depth
      BY TopFrame, <2>2
    <3> QED
      BY <1>1, <1>2, <1>a, <2>2, <3>1 DEF ModuleRestored, Newest, Facades
  <2> QED
    BY <2>1, <2>2
<1>6. Routers'
  BY <1>1 DEF ProcessInv, Routers, Latest
<1>7. ASSUME NEW i \in 1..Depth
      PROVE  SavedOutput(i)' /\ SavedModule(i)' /\ SavedRouter(i)'
  <2>1. SavedOutput(i) /\ SavedModule(i) /\ SavedRouter(i)
    BY DEF ProcessInv, Saved
  <2>2. SavedOutput(i)'
    <3>1. InProcess(i)' => Innermost(i, stack[i].stdout)
      BY <1>2, <2>1 DEF SavedOutput
    <3>2. InProcess(i)' => stack[i].stdout \in 0..Depth
      BY <1>1, <3>1 DEF Innermost
    <3>3. InProcess(i)' => Innermost(i, stack[i].stdout)'
      BY <1>1, <1>2, <3>1 DEF Innermost
    <3> QED
      BY <3>3 DEF SavedOutput
  <2>3. SavedModule(i)'
    <3>1. InProcess(i)' => Newest(i, stack[i].module)
      BY <1>2, <2>1 DEF SavedModule
    <3>2. facades' = facades \/ facades' = facades \cup {Depth}
      OBVIOUS
    <3>3. InProcess(i)' => Newest(i, stack[i].module)'
      BY <1>1, <3>1, <3>2 DEF Newest
    <3> QED
      BY <3>3 DEF SavedModule
  <2>4. SavedRouter(i)'
    <3>1. stack[i].router \in Nat
      BY Levels
    <3>2. OnMonty(i)' /\ stack[i].router # 0 => Latest(stack[i].session, i, stack[i].router)
      BY <1>2, <2>1 DEF SavedRouter
    <3>3. ASSUME Latest(stack[i].session, i, stack[i].router)
          PROVE  Latest(stack[i].session, i, stack[i].router)'
      BY <1>1, <3>1, <3>3 DEF Latest
    <3> QED
      BY <3>2, <3>3 DEF SavedRouter
  <2> QED
    BY <2>2, <2>3, <2>4
<1> QED
  BY <1>1, <1>4, <1>5, <1>6, <1>7 DEF ProcessInv, Saved

\* execute pushes a frame that holds what it found.
LEMMA Entered ==
    ASSUME TypeOK, TypeOK', ProcessInv, NEW s \in Sessions, NEW inputs \in Inputs, Execute(s, inputs)
    PROVE  ProcessInv'
<1> DEFINE frame == [session |-> s, fields |-> fields[s], tool |-> Nothing,
                     stdout |-> stdout, module |-> module, router |-> router[s]]
<1>1. /\ Depth \in Nat
      /\ backend' = backend /\ module' = module
      /\ backend \in [Sessions -> Backends]
      /\ router \in [Sessions -> Nat] /\ stdout \in Nat /\ module \in Nat
      /\ \A i \in 1..Depth : stack[i].session \in Sessions
  BY Levels, HostAssumption DEF Execute, TypeOK, HostAssumption, hostVars
<1>a. stack' = Append(stack, frame)
  BY DEF Execute
<1>c. /\ stdout' = IF backend[s] = "inProcess" THEN Depth + 1 ELSE stdout
      /\ router' = IF backend[s] = "monty" THEN [router EXCEPT ![s] = Depth + 1] ELSE router
  BY DEF Execute
<1> PICK d \in Nat : d = Depth + 1
  BY <1>1
<1>b. stack'[d] = frame
  BY <1>1, <1>a DEF Depth, TypeOK
<1>2. /\ Depth = d - 1 /\ d # 0 /\ Depth' = d
      /\ \A i \in 1..(d - 1) : stack'[i] = stack[i]
  BY <1>1, <1>a DEF Depth, TypeOK
<1>0. /\ stack'[d].session = s /\ stack'[d].stdout = stdout
      /\ stack'[d].module = module /\ stack'[d].router = router[s]
  BY <1>b
<1> HIDE DEF frame
<1>3. \A i \in 1..(d - 1) : InProcess(i)' = InProcess(i) /\ OnMonty(i)' = OnMonty(i)
  BY <1>1, <1>0, <1>2 DEF InProcess, OnMonty
<1>4. InProcess(d)' = (backend[s] = "inProcess") /\ OnMonty(d)' = (backend[s] = "monty")
  BY <1>1, <1>0, <1>2 DEF InProcess, OnMonty
<1>5. Innermost(d, stdout)
  BY <1>1, <1>0, <1>2 DEF ProcessInv, OwnOutput
<1>6. OwnOutput'
  <2>1. \A j \in 1..d : j = d \/ j \in 1..(d - 1)
    OBVIOUS
  <2>2. CASE backend[s] = "inProcess"
    <3>1. stdout' = d /\ backend'[stack'[stdout'].session] = "inProcess"
      BY <1>0, <1>1, <1>c, <1>2, <2>2
    <3> QED
      BY <1>2, <3>1 DEF OwnOutput, Innermost, InProcess
  <2>3. CASE backend[s] # "inProcess"
    <3>1. stdout' = stdout /\ stdout \in 0..(d - 1)
      BY <1>1, <1>c, <1>2, <1>5, <2>3 DEF Innermost
    <3>2. stdout # 0 => backend'[stack'[stdout].session] = "inProcess"
      BY <1>1, <1>2, <1>5, <3>1 DEF Innermost, InProcess
    <3>3. \A j \in 1..d : backend'[stack'[j].session] = "inProcess" => j <= stdout
      BY <1>0, <1>1, <1>2, <1>5, <2>1, <2>3 DEF Innermost, InProcess
    <3> QED
      BY <1>2, <3>1, <3>2, <3>3 DEF OwnOutput, Innermost, InProcess
  <2> QED
    BY <2>2, <2>3
<1>d. facades' = facades /\ \A j \in facades : j \in 1..(d - 1) /\ InProcess(j)
  BY <1>1, <1>2 DEF Execute, ProcessInv, Facades
<1>e. Newest(d, module)
  BY <1>1, <1>2 DEF ProcessInv, ModuleRestored
<1>7. ModuleRestored' /\ Facades'
  BY <1>1, <1>2, <1>3, <1>d, <1>e DEF ModuleRestored, Newest, Facades
<1>8. Routers'
  <2> SUFFICES ASSUME NEW r \in Sessions, router'[r] # 0
               PROVE  backend'[r] = "monty" /\ Latest(r, Depth + 1, router[r])'
    BY DEF Routers
  <2>1. CASE r = s /\ backend[s] = "monty"
    BY <1>1, <1>0, <1>c, <1>2, <2>1 DEF Latest
  <2>2. CASE ~(r = s /\ backend[s] = "monty")
    <3>1. router'[r] = router[r]
      BY <1>1, <1>c, <2>2
    <3>2. backend[r] = "monty" /\ Latest(r, d, router[r])
      BY <1>0, <1>2, <3>1 DEF ProcessInv, Routers
    <3>3. r # s
      BY <2>2, <3>2
    <3>4. stack'[d].session # r
      BY <1>0, <3>3
    <3>5. router[r] \in 1..(d - 1) /\ stack'[router[r]].session = r
      BY <1>2, <3>2 DEF Latest
    <3>6. \A j \in 1..d : stack'[j].session = r => j <= router[r]
      BY <1>2, <3>2, <3>4, \A j \in 1..d : j = d \/ j \in 1..(d - 1) DEF Latest
    <3>7. (Depth + 1)' = d + 1 /\ (d + 1) - 1 = d /\ router'[r] \in 1..d
      BY <1>2, <3>1, <3>5
    <3>8. Latest(r, Depth + 1, router[r])'
      BY <3>1, <3>5, <3>6, <3>7 DEF Latest
    <3> QED
      BY <1>1, <3>2, <3>8
  <2> QED
    BY <2>1, <2>2
<1>9. ASSUME NEW i \in 1..(d - 1)
      PROVE  SavedOutput(i)' /\ SavedModule(i)' /\ SavedRouter(i)'
  <2>1. SavedOutput(i) /\ SavedModule(i) /\ SavedRouter(i)
    BY <1>2 DEF ProcessInv, Saved
  <2>2. stack'[i] = stack[i] /\ stack[i].module \in Nat
    BY <1>0, <1>2, Levels
  <2>3. SavedOutput(i)'
    BY <1>1, <1>0, <1>2, <1>3, <2>1, <2>2 DEF SavedOutput, Innermost
  <2>4. SavedModule(i)'
    BY <1>1, <1>0, <1>2, <1>3, <1>d, <2>1, <2>2 DEF SavedModule, Newest
  <2>5. SavedRouter(i)'
    BY <1>1, <1>0, <1>2, <1>3, <2>1, <2>2 DEF SavedRouter, Latest
  <2> QED
    BY <2>3, <2>4, <2>5
<1>10. SavedOutput(d)' /\ SavedModule(d)' /\ SavedRouter(d)'
  <2>1. SavedOutput(d)'
    BY <1>1, <1>0, <1>2, <1>3, <1>5 DEF SavedOutput, Innermost
  <2>2. SavedModule(d)'
    BY <1>1, <1>0, <1>d, <1>e DEF SavedModule, Newest
  <2>3. router[s] # 0 => Latest(s, d, router[s])
    BY <1>0, <1>2 DEF ProcessInv, Routers
  <2>4. SavedRouter(d)'
    BY <1>1, <1>0, <1>2, <2>3 DEF SavedRouter, Latest
  <2> QED
    BY <2>1, <2>2, <2>4
<1>11. Saved'
  <2>1. ASSUME NEW i \in 1..d
        PROVE  SavedOutput(i)' /\ SavedModule(i)' /\ SavedRouter(i)'
    BY <1>9, <1>10, i = d \/ i \in 1..(d - 1)
  <2> QED
    BY <1>2, <2>1 DEF Saved
<1> QED
  BY <1>6, <1>7, <1>8, <1>11 DEF ProcessInv

\* Whichever way the innermost execution ends.
LEMMA Left ==
    ASSUME TypeOK, ProcessInv, stack # <<>>, Leave, UNCHANGED backend
    PROVE  ProcessInv'
<1>1. /\ Depth \in Nat \ {0}
      /\ Depth' = Depth - 1
      /\ \A i \in 1..(Depth - 1) : stack'[i] = stack[i]
      /\ Top = stack[Depth] /\ Depth \in 1..Depth
  BY Pop, TopFrame DEF TypeOK, Leave, Depth, Top
<1>2. /\ Top.session \in Sessions
      /\ Top.stdout \in Nat /\ Top.module \in Nat /\ Top.router \in Nat
      /\ router \in [Sessions -> Nat] /\ stdout \in Nat /\ module \in Nat
  BY <1>1, Levels, HostAssumption DEF TypeOK, HostAssumption
<1>3. \A i \in 1..(Depth - 1) : InProcess(i)' = InProcess(i) /\ OnMonty(i)' = OnMonty(i)
  BY <1>1 DEF InProcess, OnMonty
<1>4. SavedOutput(Depth) /\ SavedModule(Depth) /\ SavedRouter(Depth)
  BY <1>1 DEF ProcessInv, Saved
<1>5. OwnOutput'
  <2>1. Innermost(Depth, stdout')
    <3>1. CASE InProcess(Depth)
      BY <1>1, <1>4, <3>1 DEF Leave, RestoredStdout, SavedOutput
    <3>2. CASE ~InProcess(Depth)
      BY <1>1, <1>2, <3>2 DEF Leave, RestoredStdout, ProcessInv, OwnOutput, Innermost
    <3> QED
      BY <3>1, <3>2
  <2> QED
    BY <1>1, <1>3, <2>1 DEF OwnOutput, Innermost
<1>a. /\ facades' = facades \ {Depth}
      /\ \A j \in facades : j \in 1..Depth /\ InProcess(j)
  BY DEF Leave, ProcessInv, Facades
<1>6. ModuleRestored' /\ Facades'
  <2>1. Newest(Depth, module')
    <3>1. CASE InProcess(Depth)
      BY <1>4, <1>1, <3>1 DEF Leave, RestoredModule, SavedModule
    <3>2. CASE ~InProcess(Depth)
      BY <1>1, <1>2, <1>a, <3>2 DEF Leave, RestoredModule, ProcessInv, ModuleRestored, Newest
    <3> QED
      BY <3>1, <3>2
  <2> QED
    BY <1>1, <1>3, <1>a, <2>1 DEF ModuleRestored, Newest, Facades
<1>7. Routers'
  <2> SUFFICES ASSUME NEW s \in Sessions, router'[s] # 0
               PROVE  backend[s] = "monty" /\ Latest(s, Depth + 1, router[s])'
    BY DEF Routers
  <2>1. CASE OnMonty(Depth) /\ s = Top.session
    <3>1. router'[s] = Top.router
      BY <1>2, <2>1 DEF Leave, RestoredRouter
    <3>2. backend[s] = "monty" /\ Latest(s, Depth, Top.router)
      BY <1>1, <1>4, <2>1, <3>1 DEF SavedRouter, OnMonty
    <3> QED
      BY <1>1, <1>2, <3>1, <3>2 DEF Latest
  <2>2. CASE ~(OnMonty(Depth) /\ s = Top.session)
    <3>1. router'[s] = router[s]
      BY <1>2, <2>2 DEF Leave, RestoredRouter
    <3>2. backend[s] = "monty" /\ Latest(s, Depth + 1, router[s])
      BY <3>1 DEF ProcessInv, Routers
    <3>3. s # Top.session
      BY <1>1, <2>2, <3>2 DEF OnMonty
    <3>4. router[s] # Depth
      BY <1>1, <3>2, <3>3 DEF Latest
    <3> QED
      BY <1>1, <1>2, <3>1, <3>2, <3>4 DEF Latest
  <2> QED
    BY <2>1, <2>2
<1>8. ASSUME NEW i \in 1..(Depth - 1)
      PROVE  SavedOutput(i)' /\ SavedModule(i)' /\ SavedRouter(i)'
  <2>1. SavedOutput(i) /\ SavedModule(i) /\ SavedRouter(i)
    BY <1>1 DEF ProcessInv, Saved
  <2>2. stack'[i] = stack[i] /\ stack[i].module \in Nat /\ i \in 1..Depth
    BY <1>1, Levels
  <2>3. SavedOutput(i)'
    BY <1>1, <1>3, <2>1, <2>2 DEF SavedOutput, Innermost
  <2>4. SavedModule(i)'
    BY <1>1, <1>3, <1>a, <2>1, <2>2 DEF SavedModule, Newest
  <2>5. SavedRouter(i)'
    BY <1>1, <1>3, <2>1, <2>2 DEF SavedRouter, Latest
  <2> QED
    BY <2>3, <2>4, <2>5
<1>9. Saved'
  BY <1>1, <1>8 DEF Saved
<1> QED
  BY <1>5, <1>6, <1>7, <1>9 DEF ProcessInv

-----------------------------------------------------------------------------
(* Types. *)

Bindings == Names \cup {Nothing, Given}

LEMMA BindType ==
    ASSUME NEW b, NEW f \in [Names -> Bindings], NEW old \in SUBSET Names,
           NEW new \in SUBSET Names, NEW inputs \in SUBSET Names
    PROVE  Bind(b, f, old, new, inputs) \in [Names -> Bindings]
  BY DEF Bind, BindInProcess, BindRemote, Merge, Unbind, GivenTo, ToolsOf, Bindings

\* The part of the state that is not the stack.
Registers ==
    /\ backend \in Hosts
    /\ tools \in [Sessions -> SUBSET Names]
    /\ fields \in [Sessions -> Declared]
    /\ {ended, copied} \subseteq [Sessions -> BOOLEAN]
    /\ caps \in [Sessions -> SUBSET Names]
    /\ ns \in [Sessions -> [Names -> Bindings]]
    /\ router \in [Sessions -> 0..MaxDepth]
    /\ {stdout, module} \subseteq 0..MaxDepth
    /\ facades \subseteq 1..MaxDepth

\* A session with a worker is executed on one level.
OneLevel == \A i, j \in 1..Depth : stack[i].session = stack[j].session /\ OnRemote(i) => i = j

LEMMA TypeSplit ==
    TypeOK <=> Registers /\ stack \in Seq(Frames) /\ Depth <= MaxDepth /\ OneLevel
<1>1. stack \in Seq(Frames) => DOMAIN stack = 1..Depth
  BY DEF Depth
<1> QED
  BY <1>1 DEF TypeOK, Registers, OneLevel, Bindings, Depth

LEMMA RefreshType ==
    ASSUME Registers, NEW s \in Sessions, NEW inputs \in Inputs, Refresh(s, inputs)
    PROVE  caps' \in [Sessions -> SUBSET Names] /\ ns' \in [Sessions -> [Names -> Bindings]]
<1>1. inputs \in SUBSET Names
  BY HostAssumption DEF HostAssumption
<1>2. CASE backend[s] = "monty"
  BY <1>2 DEF Registers, Refresh
<1>3. CASE backend[s] # "monty"
  <2>1. Bind(backend[s], ns[s], caps[s], tools[s], inputs) \in [Names -> Bindings]
    BY <1>1, BindType DEF Registers
  <2> QED
    BY <1>3, <2>1 DEF Registers, Refresh
<1> QED
  BY <1>2, <1>3

LEMMA LeaveType ==
    ASSUME TypeOK, stack # <<>>, Leave, UNCHANGED backend
    PROVE  /\ stack' \in Seq(Frames) /\ Depth' <= MaxDepth /\ OneLevel'
           /\ router' \in [Sessions -> 0..MaxDepth]
           /\ {stdout', module'} \subseteq 0..MaxDepth
           /\ facades' \subseteq 1..MaxDepth
<1>1. /\ stack' \in Seq(Frames)
      /\ Depth \in Nat \ {0} /\ Depth' = Depth - 1 /\ Depth <= MaxDepth
      /\ \A i \in 1..(Depth - 1) : stack'[i] = stack[i]
      /\ Top \in Frames
  BY Pop, TopFrame DEF TypeOK, Leave, Depth
<1>2. MaxDepth \in Nat
  BY HostAssumption DEF HostAssumption
<1>3. /\ Top.session \in Sessions
      /\ Top.stdout \in 0..MaxDepth /\ Top.module \in 0..MaxDepth /\ Top.router \in 0..MaxDepth
  BY <1>1 DEF Frames
<1>4. router' \in [Sessions -> 0..MaxDepth]
  BY <1>3 DEF Leave, RestoredRouter, TypeOK
<1>5. {stdout', module'} \subseteq 0..MaxDepth
  BY <1>3 DEF Leave, RestoredStdout, RestoredModule, TypeOK
<1>6. OneLevel'
  <2>1. OneLevel
    BY TypeSplit
  <2> QED
    BY <1>1, <2>1 DEF OneLevel, OnRemote
<1>7. facades' \subseteq 1..MaxDepth
  BY DEF Leave, TypeOK
<1> QED
  BY <1>1, <1>2, <1>4, <1>5, <1>6, <1>7

LEMMA ExecuteType ==
    ASSUME TypeOK, NEW s \in Sessions, NEW inputs \in Inputs, Execute(s, inputs)
    PROVE  TypeOK'
<1> DEFINE frame == [session |-> s, fields |-> fields[s], tool |-> Nothing,
                     stdout |-> stdout, module |-> module, router |-> router[s]]
<1>1. Registers /\ stack \in Seq(Frames) /\ Depth \in Nat /\ Depth < MaxDepth /\ OneLevel
  BY TypeSplit, Levels DEF Execute
<1>2. frame \in Frames
  BY <1>1 DEF Registers, Frames
<1>3. stack' = Append(stack, frame) /\ backend' = backend
  BY DEF Execute, hostVars
<1> HIDE DEF frame
<1>4. stack' \in Seq(Frames) /\ Depth' = Depth + 1 /\ \A i \in 1..Depth : stack'[i] = stack[i]
  BY <1>1, <1>2, <1>3, Push DEF Depth
<1> PICK d \in Nat : d = Depth + 1
  BY <1>1
<1>5. stack'[d].session = s
  BY <1>1, <1>2, <1>3, Push DEF Depth, frame
<1>6. Registers'
  <2>1. Depth + 1 \in 0..MaxDepth
    BY <1>1, HostAssumption DEF HostAssumption
  <2>2. stdout' \in 0..MaxDepth /\ router' \in [Sessions -> 0..MaxDepth]
    BY <1>1, <2>1 DEF Registers, Execute
  <2>3. caps' \in [Sessions -> SUBSET Names] /\ ns' \in [Sessions -> [Names -> Bindings]]
    BY <1>1, RefreshType DEF Execute
  <2> QED
    BY <1>1, <2>2, <2>3 DEF Registers, Execute, hostVars
<1>7. OneLevel'
  <2>1. backend[s] \in Remote => \A i \in 1..(d - 1) : stack[i].session # s
    BY <1>1 DEF Execute, MayExecute, Busy, Depth
  <2>2. Depth' = d /\ \A i \in 1..d : i = d \/ i \in 1..(d - 1)
    BY <1>1, <1>4
  <2>3. \A i \in 1..(d - 1) : stack'[i] = stack[i] /\ i \in 1..Depth
    BY <1>1, <1>4
  <2>4. SUFFICES ASSUME NEW i \in 1..d, NEW j \in 1..d,
                        stack'[i].session = stack'[j].session, backend[stack'[i].session] \in Remote
                 PROVE  i = j
    BY <1>3, <2>2 DEF OneLevel, OnRemote
  <2>5. CASE i = d \/ j = d
    BY <1>5, <2>1, <2>2, <2>3, <2>4, <2>5
  <2>6. CASE i \in 1..(d - 1) /\ j \in 1..(d - 1)
    BY <1>1, <2>3, <2>4, <2>6 DEF OneLevel, OnRemote
  <2> QED
    BY <2>2, <2>5, <2>6
<1>8. Depth' <= MaxDepth
  BY <1>1, <1>4, HostAssumption DEF HostAssumption
<1>9. DOMAIN stack' = 1..Depth'
  BY <1>4 DEF Depth
<1> QED
  BY <1>4, <1>6, <1>7, <1>8, <1>9 DEF TypeOK, Registers, OneLevel, Bindings, Depth

\* A guest that calls a tool, or a tool that returns to it.
LEMMA TouchType ==
    ASSUME TypeOK, stack # <<>>, NEW n \in Names \cup {Nothing},
           stack' = [stack EXCEPT ![Depth].tool = n],
           UNCHANGED <<hostVars, guestVars, processVars>>
    PROVE  /\ TypeOK'
           /\ Len(stack') = Len(stack)
           /\ \A i \in 1..Depth : /\ stack'[i].session = stack[i].session
                                  /\ stack'[i].stdout = stack[i].stdout
                                  /\ stack'[i].module = stack[i].module
                                  /\ stack'[i].router = stack[i].router
<1>1. stack \in Seq(Frames) /\ Depth = Len(stack)
  BY DEF TypeOK, Depth
<1>2. stack' = Touched(stack, n)
  BY <1>1 DEF Touched
<1>3. /\ stack' \in Seq(Frames) /\ Len(stack') = Len(stack)
      /\ \A i \in 1..Len(stack) :
            /\ stack'[i].session = stack[i].session
            /\ stack'[i].stdout = stack[i].stdout
            /\ stack'[i].module = stack[i].module
            /\ stack'[i].router = stack[i].router
  <2>1. Touched(stack, n) \in Seq(Frames) /\ Len(Touched(stack, n)) = Len(stack)
    BY <1>1, Touch
  <2>2. \A i \in 1..Len(stack) :
            /\ Touched(stack, n)[i].session = stack[i].session
            /\ Touched(stack, n)[i].stdout = stack[i].stdout
            /\ Touched(stack, n)[i].module = stack[i].module
            /\ Touched(stack, n)[i].router = stack[i].router
    BY <1>1, Touch
  <2> QED
    BY <1>2, <2>1, <2>2
<1>4. Registers' /\ Depth' = Depth /\ Depth' <= MaxDepth
  BY <1>3, TypeSplit DEF Registers, hostVars, guestVars, processVars, Depth
<1>5. OneLevel'
  BY <1>1, <1>3, <1>4, TypeSplit DEF OneLevel, OnRemote, hostVars
<1>6. DOMAIN stack' = 1..Depth'
  BY <1>3 DEF Depth
<1> QED
  BY <1>1, <1>3, <1>4, <1>5, <1>6 DEF TypeOK, Registers, OneLevel, Bindings, Depth

-----------------------------------------------------------------------------
(* Every step. *)

LEMMA Initially ==
    ASSUME Init
    PROVE  TypeOK /\ ProcessInv
<1>1. Depth = 0 /\ stack = <<>> /\ DOMAIN stack = {} /\ 1..Depth = {}
  BY DEF Init, Depth
<1>2. TypeOK
  <2>1. stack \in Seq(Frames) /\ Len(stack) <= MaxDepth
    BY <1>1, HostAssumption DEF Depth, HostAssumption
  <2> QED
    BY <1>1, <2>1, HostAssumption DEF Init, TypeOK, HostAssumption
<1>3. ProcessInv
  <2>1. ModuleRestored /\ Facades
    BY <1>1 DEF Init, ModuleRestored, Newest, Facades
  <2> QED
    BY <1>1, <2>1 DEF Init, ProcessInv, OwnOutput, Innermost, Routers, Saved
<1> QED
  BY <1>2, <1>3

\* A step after which the executions are those of before.
LEMMA KeptStack ==
    ASSUME TypeOK, Registers', stack' = stack, backend' = backend
    PROVE  TypeOK'
  BY TypeSplit DEF TypeOK, Registers, Bindings, OnRemote

LEMMA StepType ==
    ASSUME TypeOK, [Next]_vars
    PROVE  TypeOK'
<1>1. Registers /\ HostAssumption /\ Depth \in Nat
  BY TypeSplit, HostAssumption, Levels
<1>2. ASSUME NEW s \in Sessions, Configure(s)
      PROVE  TypeOK'
  <2> PICK names \in FieldLists[s] : fields' = [fields EXCEPT ![s] = names]
    BY <1>2 DEF Configure
  <2>0. names \in Declared
    BY DEF Declared
  <2>1. fields' \in [Sessions -> Declared]
    BY <1>1, <2>0 DEF Registers
  <2>r. router' \in [Sessions -> 0..MaxDepth]
    <3>1. MaxDepth \in Nat
      BY HostAssumption DEF HostAssumption
    <3>2. router' = router \/ router' = [router EXCEPT ![s] = 0]
      BY <1>2 DEF Configure
    <3>3. router \in [Sessions -> 0..MaxDepth] /\ 0 \in 0..MaxDepth
      BY <1>1, <3>1 DEF Registers
    <3> QED
      BY <3>2, <3>3
  <2>2. tools' \in [Sessions -> SUBSET Names]
    <3> PICK granted \in Grants[s] : tools' = [tools EXCEPT ![s] = granted]
      BY <1>2 DEF Configure
    <3>1. Grants[s] \in SUBSET SUBSET Names
      BY HostAssumption DEF HostAssumption
    <3> QED
      BY <1>1, <3>1 DEF Registers
  <2>3. Registers'
    BY <1>1, <1>2, <2>1, <2>2, <2>r DEF Configure, Registers, guestVars
  <2> QED
    BY <1>2, <2>3, KeptStack DEF Configure
<1>3. ASSUME NEW s \in Sessions, Shutdown(s)
      PROVE  TypeOK'
  <2>1. Registers'
    BY <1>1, <1>3 DEF Shutdown, Registers, processVars, Bindings
  <2> QED
    BY <1>3, <2>1, KeptStack DEF Shutdown
<1>4. ASSUME NEW s \in Sessions, NEW inputs \in Inputs, Execute(s, inputs)
      PROVE  TypeOK'
  BY <1>4, ExecuteType
<1>5. ASSUME NEW s \in Sessions, NEW inputs \in Inputs, ExecuteBadSyntax(s, inputs)
      PROVE  TypeOK'
  <2>1. caps' \in [Sessions -> SUBSET Names] /\ ns' \in [Sessions -> [Names -> Bindings]]
    BY <1>1, <1>5, RefreshType DEF ExecuteBadSyntax
  <2>2. Registers'
    BY <1>1, <1>5, <2>1 DEF ExecuteBadSyntax, Registers, hostVars, processVars
  <2> QED
    BY <1>5, <2>2, KeptStack DEF ExecuteBadSyntax, hostVars
<1>6. ASSUME stack # <<>>, Leave, backend' = backend,
             UNCHANGED <<tools, fields, guestVars>>, ended' \in [Sessions -> BOOLEAN]
      PROVE  TypeOK'
  <2>1. /\ stack' \in Seq(Frames) /\ Depth' <= MaxDepth /\ OneLevel'
        /\ router' \in [Sessions -> 0..MaxDepth]
        /\ {stdout', module'} \subseteq 0..MaxDepth /\ facades' \subseteq 1..MaxDepth
    BY <1>6, LeaveType
  <2>2. Registers'
    BY <1>1, <1>6, <2>1 DEF Registers, guestVars
  <2>3. DOMAIN stack' = 1..Depth'
    BY <2>1 DEF Depth
  <2> QED
    BY <2>1, <2>2, <2>3 DEF TypeOK, Registers, OneLevel, Bindings, Depth
<1>7. CASE Finish
  BY <1>1, <1>6, <1>7 DEF Finish, GuestRuns, hostVars, Registers
<1>8. CASE ReplaceModule
  <2>1. Depth \in 0..MaxDepth /\ Depth \in 1..MaxDepth
    BY <1>1, <1>8, TypeSplit, TopFrame DEF HostAssumption, ReplaceModule, GuestRuns
  <2>2. Registers'
    BY <1>1, <1>8, <2>1 DEF ReplaceModule, Registers, hostVars, guestVars
  <2> QED
    BY <1>8, <2>2, KeptStack DEF ReplaceModule, hostVars
<1>9. CASE ToolReturns
  <2>1. CASE stack' = [stack EXCEPT ![Depth].tool = Nothing] /\ UNCHANGED processVars
    BY <1>9, <2>1, TouchType DEF ToolReturns
  <2>2. CASE Leave
    BY <1>1, <1>6, <1>9, <2>2 DEF ToolReturns, hostVars, Registers
  <2> QED
    BY <1>9, <2>1, <2>2 DEF ToolReturns
<1>10. CASE ToolInterrupts
  BY <1>1, <1>6, <1>10 DEF ToolInterrupts, hostVars, Registers
<1>11. ASSUME NEW n \in Names, CallTool(n)
       PROVE  TypeOK'
  BY <1>11, TouchType DEF CallTool, GuestRuns
<1>12. ASSUME NEW m \in Names, NEW n \in Names, KeepCopy(m, n)
       PROVE  TypeOK'
  <2>1. Top.session \in Sessions
    BY <1>12, TopFrame DEF KeepCopy, GuestRuns
  <2>2. Registers'
    BY <1>1, <1>12, <2>1 DEF KeepCopy, Registers, hostVars, processVars, Bindings
  <2> QED
    BY <1>12, <2>2, KeptStack DEF KeepCopy, hostVars
<1>13. ASSUME NEW call \in Calls, SubmitBreaks(call)
       PROVE  TypeOK'
  <2>1. stack # <<>>
    BY <1>13 DEF SubmitBreaks, Accepted, GuestRuns
  <2> QED
    BY <1>1, <1>6, <1>13, <2>1 DEF SubmitBreaks, Registers
<1>14. ASSUME NEW call \in Calls, Submit(call)
       PROVE  TypeOK'
  <2>1. stack # <<>>
    BY <1>14 DEF Submit, Accepted, GuestRuns
  <2> QED
    BY <1>1, <1>6, <1>14, <2>1 DEF Submit, hostVars, Registers
<1>15. CASE UNCHANGED vars
  BY <1>15 DEF vars, hostVars, guestVars, processVars, TypeOK, OnRemote
<1> QED
  BY <1>2, <1>3, <1>4, <1>5, <1>7, <1>8, <1>9, <1>10, <1>11, <1>12, <1>13, <1>14, <1>15
  DEF Next, Host, Guest

LEMMA StepProcess ==
    ASSUME TypeOK, TypeOK', ProcessInv, [Next]_vars
    PROVE  ProcessInv'
<1>1. Registers /\ Depth \in Nat
  BY TypeSplit, Levels
\* A step that leaves the stack and what belongs to the process alone.
<1>2. ASSUME stack' = stack, backend' = backend, stdout' = stdout, module' = module,
             facades' = facades, \A s \in Sessions : router'[s] \in {0, router[s]}
      PROVE  ProcessInv'
  BY <1>2, SameLevels
<1>3. ASSUME NEW s \in Sessions, Configure(s)
      PROVE  ProcessInv'
  <2>1. \A r \in Sessions : router'[r] \in {0, router[r]}
    BY <1>1, <1>3 DEF Configure, Registers
  <2> QED
    BY <1>2, <1>3, <2>1 DEF Configure
<1>4. ASSUME NEW s \in Sessions, Shutdown(s)
      PROVE  ProcessInv'
  BY <1>2, <1>4 DEF Shutdown, processVars
<1>5. ASSUME NEW s \in Sessions, NEW inputs \in Inputs, Execute(s, inputs)
      PROVE  ProcessInv'
  BY <1>5, Entered
<1>6. ASSUME NEW s \in Sessions, NEW inputs \in Inputs, ExecuteBadSyntax(s, inputs)
      PROVE  ProcessInv'
  BY <1>2, <1>6 DEF ExecuteBadSyntax, hostVars, processVars
<1>7. CASE Finish
  BY <1>7, Left DEF Finish, GuestRuns, hostVars
<1>8. CASE ReplaceModule
  BY <1>8, SameLevels DEF ReplaceModule, GuestRuns, hostVars
<1>9. CASE ToolReturns
  <2>1. CASE stack' = [stack EXCEPT ![Depth].tool = Nothing] /\ UNCHANGED processVars
    BY <1>9, <2>1, TouchType, SameLevels DEF ToolReturns, hostVars, processVars
  <2>2. CASE Leave
    BY <1>9, <2>2, Left DEF ToolReturns, hostVars
  <2> QED
    BY <1>9, <2>1, <2>2 DEF ToolReturns
<1>10. CASE ToolInterrupts
  BY <1>10, Left DEF ToolInterrupts, hostVars
<1>11. ASSUME NEW n \in Names, CallTool(n)
       PROVE  ProcessInv'
  BY <1>11, TouchType, SameLevels DEF CallTool, GuestRuns, hostVars, processVars
<1>12. ASSUME NEW m \in Names, NEW n \in Names, KeepCopy(m, n)
       PROVE  ProcessInv'
  BY <1>2, <1>12 DEF KeepCopy, hostVars, processVars
<1>13. ASSUME NEW call \in Calls, SubmitBreaks(call) \/ Submit(call)
       PROVE  ProcessInv'
  BY <1>13, Left DEF SubmitBreaks, Submit, Accepted, GuestRuns, hostVars
<1>14. CASE UNCHANGED vars
  BY <1>2, <1>14 DEF vars, hostVars, processVars
<1> QED
  BY <1>3, <1>4, <1>5, <1>6, <1>7, <1>8, <1>9, <1>10, <1>11, <1>12, <1>13, <1>14
  DEF Next, Host, Guest

\* The values of the variables have their types, and a session with a worker
\* is executed by one call at a time, also when tools execute code.
THEOREM TypeCorrect == Spec => []TypeOK
<1>1. Init => TypeOK
  BY Initially
<1>2. TypeOK /\ [Next]_vars => TypeOK'
  BY StepType
<1> QED
  BY <1>1, <1>2, PTL DEF Spec

LEMMA Restored == Spec => []ProcessInv
<1>1. Init => ProcessInv
  BY Initially
<1>2. TypeOK /\ TypeOK' /\ ProcessInv /\ [Next]_vars => ProcessInv'
  BY StepProcess
<1> QED
  BY <1>1, <1>2, TypeCorrect, PTL DEF Spec

\* What guest code prints in process goes to the buffer of its own execution,
\* and the stream of the host is back when none is left.
THEOREM OutputCorrect == Spec => []OwnOutput
<1>1. ProcessInv => OwnOutput
  BY DEF ProcessInv
<1> QED
  BY <1>1, Restored, PTL

\* sys.modules["dspy"] is what the innermost execution under way that put a
\* module there put there; when none of those is left, it is the host's again.
THEOREM ModuleCorrect == Spec => []ModuleRestored
<1>1. ProcessInv => ModuleRestored
  BY DEF ProcessInv
<1> QED
  BY <1>1, Restored, PTL

\* The SUBMIT of Monty belongs to the innermost execution of its session.
THEOREM RouterCorrect == Spec => []OwnRouter
<1>1. TypeOK /\ ProcessInv => OwnRouter
  <2> SUFFICES ASSUME TypeOK, ProcessInv, NEW s \in Sessions, router[s] # 0
               PROVE  /\ router[s] <= Depth
                      /\ stack[router[s]].session = s
                      /\ \A i \in DOMAIN stack : stack[i].session = s => i <= router[s]
    BY DEF OwnRouter
  <2>1. Latest(s, Depth + 1, router[s])
    BY DEF ProcessInv, Routers
  <2>2. Depth \in Nat /\ DOMAIN stack = 1..Depth /\ (Depth + 1) - 1 = Depth
    BY Levels
  <2> QED
    BY <2>1, <2>2 DEF Latest
<1> QED
  BY <1>1, TypeCorrect, Restored, PTL

-----------------------------------------------------------------------------
(* Tools that were taken away. *)

\* In process, before the code keeps a copy, a name holds a tool only if the
\* last execution bound that tool to that name.
BoundTools ==
    \A s \in Sessions : backend[s] = "inProcess" /\ ~copied[s] =>
        \A m \in Names : ns[s][m] \in Names => ns[s][m] = m /\ m \in caps[s]

LEMMA BindInProcessBound ==
    ASSUME NEW f \in [Names -> Bindings], NEW old \in SUBSET Names, NEW new \in SUBSET Names,
           NEW inputs \in SUBSET Names,
           \A m \in Names : f[m] \in Names => m \in old
    PROVE  LET g == Bind("inProcess", f, old, new, inputs) IN
           \A m \in Names : g[m] \in Names => g[m] = m /\ m \in new
<1>1. Nothing \notin Names /\ Given \notin Names
  BY HostAssumption DEF HostAssumption
<1> QED
  BY <1>1 DEF Bind, BindInProcess, Merge, Unbind, GivenTo, ToolsOf

LEMMA StepBound ==
    ASSUME TypeOK, BoundTools, [Next]_vars
    PROVE  BoundTools'
<1>1. Registers
  BY TypeSplit
<1>2. ASSUME UNCHANGED <<backend, guestVars>>
      PROVE  BoundTools'
  BY <1>2 DEF BoundTools, guestVars
<1>3. ASSUME NEW s \in Sessions, Shutdown(s)
      PROVE  BoundTools'
  <2>1. Nothing \notin Names
    BY HostAssumption DEF HostAssumption
  <2> QED
    BY <1>1, <1>3, <2>1 DEF Shutdown, BoundTools, Registers
<1>4. ASSUME NEW s \in Sessions, NEW inputs \in Inputs, Refresh(s, inputs), UNCHANGED <<backend, copied>>
      PROVE  BoundTools'
  <2> SUFFICES ASSUME NEW r \in Sessions, backend[r] = "inProcess", ~copied[r]
               PROVE  \A m \in Names : ns'[r][m] \in Names => ns'[r][m] = m /\ m \in caps'[r]
    BY <1>4 DEF BoundTools
  <2>1. \A m \in Names : ns[r][m] \in Names => ns[r][m] = m /\ m \in caps[r]
    BY DEF BoundTools
  <2>2. CASE r = s
    <3>1. /\ caps'[r] = tools[r]
          /\ ns'[r] = Bind("inProcess", ns[r], caps[r], tools[r], inputs)
      BY <1>1, <1>4, <2>2 DEF Refresh, Registers
    <3>2. inputs \in SUBSET Names /\ tools[r] \in SUBSET Names /\ caps[r] \in SUBSET Names
          /\ ns[r] \in [Names -> Bindings]
      BY <1>1, HostAssumption DEF Registers, HostAssumption
    <3> QED
      BY <2>1, <3>1, <3>2, BindInProcessBound
  <2>3. CASE r # s
    BY <1>1, <1>4, <2>1, <2>3 DEF Refresh, Registers
  <2> QED
    BY <2>2, <2>3
<1>5. ASSUME NEW s \in Sessions, NEW inputs \in Inputs,
             Execute(s, inputs) \/ ExecuteBadSyntax(s, inputs)
      PROVE  BoundTools'
  BY <1>4, <1>5 DEF Execute, ExecuteBadSyntax, hostVars
<1>6. ASSUME NEW m \in Names, NEW n \in Names, KeepCopy(m, n)
      PROVE  BoundTools'
  BY <1>1, <1>6 DEF KeepCopy, BoundTools, Registers, hostVars
<1>7. ASSUME NEW s \in Sessions, Configure(s)
      PROVE  BoundTools'
  BY <1>2, <1>7 DEF Configure
<1>8. CASE Finish \/ ReplaceModule \/ ToolReturns \/ ToolInterrupts
  BY <1>2, <1>8 DEF Finish, ReplaceModule, ToolReturns, ToolInterrupts, hostVars
<1>9. ASSUME NEW n \in Names, CallTool(n)
      PROVE  BoundTools'
  BY <1>2, <1>9 DEF CallTool, hostVars
<1>10. ASSUME NEW call \in Calls, SubmitBreaks(call) \/ Submit(call)
       PROVE  BoundTools'
  BY <1>2, <1>10 DEF SubmitBreaks, Submit, hostVars
<1>11. CASE UNCHANGED vars
  BY <1>2, <1>11 DEF vars, hostVars
<1> QED
  BY <1>3, <1>5, <1>6, <1>7, <1>8, <1>9, <1>10, <1>11 DEF Next, Host, Guest

\* Only CallTool makes the innermost execution wait for a tool.
LEMMA OnlyCallTool ==
    ASSUME TypeOK, [Next]_vars, GuestRuns, NEW n \in Names,
           stack' = [stack EXCEPT ![Depth].tool = n]
    PROVE  CallTool(n)
<1>1. /\ stack \in Seq(Frames) /\ stack # <<>> /\ Depth = Len(stack) /\ Depth \in Nat \ {0}
      /\ Top.tool = Nothing
  BY TopFrame DEF TypeOK, GuestRuns, Depth
<1>2. Nothing \notin Names
  BY HostAssumption DEF HostAssumption
<1>3. stack' = Touched(stack, n)
  BY <1>1 DEF Touched
<1>4. Len(stack') = Depth /\ stack'[Depth].tool = n
  BY <1>1, <1>3, Touch
<1>5. stack' # stack
  BY <1>1, <1>2, <1>4 DEF Top
<1>6. ~Leave
  <2>1. Leave => Len(stack') = Depth - 1
    BY <1>1, Pop DEF Leave
  <2> QED
    BY <1>1, <1>4, <2>1
<1>7. ASSUME NEW s \in Sessions, NEW inputs \in Inputs, Execute(s, inputs)
      PROVE  FALSE
  BY <1>7 DEF Execute, MayExecute, HostRuns
<1>8. ASSUME NEW m \in Names, CallTool(m)
      PROVE  m = n
  <2>1. stack' = Touched(stack, m)
    BY <1>1, <1>8 DEF CallTool, Touched
  <2>2. Touched(stack, m)[Depth].tool = m
    BY <1>1, Touch
  <2> QED
    BY <1>4, <2>1, <2>2
<1>9. ASSUME NEW s \in Sessions, Configure(s) \/ Shutdown(s)
      PROVE  FALSE
  BY <1>5, <1>9 DEF Configure, Shutdown
<1>10. ASSUME NEW s \in Sessions, NEW inputs \in Inputs, ExecuteBadSyntax(s, inputs)
       PROVE  FALSE
  BY <1>5, <1>10 DEF ExecuteBadSyntax
<1>11. ~(Finish \/ ReplaceModule \/ ToolReturns \/ ToolInterrupts)
  BY <1>5, <1>6 DEF Finish, ReplaceModule, ToolReturns, ToolInterrupts, HostRuns
<1>12. ASSUME NEW m \in Names, NEW k \in Names, KeepCopy(m, k)
       PROVE  FALSE
  BY <1>5, <1>12 DEF KeepCopy
<1>13. ASSUME NEW call \in Calls, SubmitBreaks(call) \/ Submit(call)
       PROVE  FALSE
  BY <1>6, <1>13 DEF SubmitBreaks, Submit
<1>14. ~UNCHANGED vars
  BY <1>5 DEF vars
<1> QED
  BY <1>7, <1>8, <1>9, <1>10, <1>11, <1>12, <1>13, <1>14 DEF Next, Host, Guest

\* No call of guest code runs a tool that the host has taken away, except for
\* copies that code in process has kept.
THEOREM AuthorisedCorrect == Spec => Authorised
<1> DEFINE Granted(n) ==
        (GuestRuns /\ stack' = [stack EXCEPT ![Depth].tool = n]) =>
            LET s == Top.session IN
            IF backend[s] = "inProcess" THEN copied[s] \/ n \in caps[s] ELSE n \in tools[s]
<1>1. Init => BoundTools
  <2> SUFFICES ASSUME Init
               PROVE  BoundTools
    OBVIOUS
  <2>1. Nothing \notin Names
    BY HostAssumption DEF HostAssumption
  <2> QED
    BY <2>1 DEF Init, BoundTools
<1>2. TypeOK /\ BoundTools /\ [Next]_vars => BoundTools'
  BY StepBound
<1>3. ASSUME TypeOK, BoundTools, [Next]_vars
      PROVE  \A n \in Names : Granted(n)
  <2> SUFFICES ASSUME NEW n \in Names, GuestRuns, stack' = [stack EXCEPT ![Depth].tool = n]
               PROVE  LET s == Top.session IN
                      IF backend[s] = "inProcess" THEN copied[s] \/ n \in caps[s] ELSE n \in tools[s]
    OBVIOUS
  <2>1. n \in Served(Top.session) /\ Top.session \in Sessions
    BY <1>3, OnlyCallTool, TopFrame DEF CallTool, GuestRuns
  <2>2. backend[Top.session] \in Backends
    BY <1>3, <2>1, HostAssumption DEF TypeOK, HostAssumption
  <2>3. CASE backend[Top.session] = "inProcess"
    BY <1>3, <2>1, <2>3 DEF Served, BoundTools
  <2>4. CASE backend[Top.session] # "inProcess"
    BY <2>1, <2>2, <2>4 DEF Served, Backends, Remote
  <2> QED
    BY <2>3, <2>4
<1>4. TypeOK /\ BoundTools /\ [Next]_vars => [\A n \in Names : Granted(n)]_vars
  BY <1>3
<1> QED
  BY <1>1, <1>2, <1>4, TypeCorrect, PTL DEF Spec, Authorised

-----------------------------------------------------------------------------
(* SUBMIT. *)

LEMMA Exact ==
    ASSUME NEW b \in Backends, NEW names, names # Untyped, NEW call,
           NEW final \in Submitted(b, names, call)
    PROVE  DOMAIN final = Named(names)
<1>1. CASE b = "inProcess"
  BY <1>1 DEF Submitted, SubmitInProcess, SignatureBind
<1>2. CASE b \in {"modal", "ipython", "subprocess"}
  BY <1>2 DEF Submitted, SubmitModal, SubmitSubprocess
<1>3. CASE b = "monty"
  BY <1>3 DEF Submitted, SubmitMonty
<1> QED
  BY <1>1, <1>2, <1>3 DEF Backends

\* What backends other than in process make of a call with declared fields.
LEMMA Positional ==
    ASSUME NEW names, names \in Seq(STRING), names # Untyped, NEW call,
           call.args \in Seq({call.args[i] : i \in DOMAIN call.args}),
           \A i \in DOMAIN call.args : call.args[i].tag # "dict",
           NEW b \in Backends \ {"inProcess"}, NEW final \in Submitted(b, names, call)
    PROVE  final = IF DOMAIN call.kwargs = {} THEN Zipped(names, call.args) ELSE call.kwargs
<1>1. Named(names) # {}
  <2>1. 1 \in DOMAIN names
    BY DEF Untyped
  <2> QED
    BY <2>1 DEF Named
<1>2. DOMAIN final = Named(names)
  BY Exact
<1>3. CASE b = "monty"
  <2>1. \A v \in Sole(call.args) : v.tag # "dict"
    BY DEF Sole
  <2>2. CASE DOMAIN call.kwargs # {}
    BY <1>3, <2>2 DEF Submitted, SubmitMonty, MontyOutput, Dict
  <2>3. CASE DOMAIN call.kwargs = {} /\ call.args # <<>>
    BY <1>3, <2>1, <2>3 DEF Submitted, SubmitMonty, MontyOutput, Dict
  <2>4. CASE DOMAIN call.kwargs = {} /\ call.args = <<>>
    BY <1>3, <2>4 DEF Submitted, SubmitMonty, MontyOutput, NoValue
  <2> QED
    BY <2>2, <2>3, <2>4
<1>4. CASE b # "monty"
  <2>1. final \in SubmitModal(names, call)
    BY <1>4 DEF Submitted, SubmitSubprocess, Backends
  <2> QED
    BY <1>1, <1>2, <2>1 DEF SubmitModal
<1> QED
  BY <1>3, <1>4

\* Two backends that accept a call understand it alike.
LEMMA Agreement ==
    ASSUME NEW names, names \in Seq(STRING), NEW call,
           call.args \in Seq({call.args[i] : i \in DOMAIN call.args}),
           call.kwargs = [field \in DOMAIN call.kwargs |-> call.kwargs[field]],
           \A i \in DOMAIN call.args : call.args[i].tag # "dict",
           names # Untyped \/ DOMAIN call.kwargs = {},
           NEW a \in Backends, NEW b \in Backends,
           NEW final \in Submitted(a, names, call), NEW other \in Submitted(b, names, call)
    PROVE  other = final
<1>1. CASE names # Untyped
  <2> DEFINE values == Zipped(names, call.args)
  <2>1. DOMAIN final = Named(names) /\ DOMAIN other = Named(names)
    BY <1>1, Exact
  <2>2. /\ DOMAIN values \subseteq Named(names)
        /\ values = [field \in DOMAIN values |-> values[field]]
    BY DEF Zipped, Named
  <2>3. \A x \in Submitted("inProcess", names, call) :
           /\ x = [field \in DOMAIN values \cup DOMAIN call.kwargs |->
                     IF field \in DOMAIN values THEN values[field] ELSE call.kwargs[field]]
           /\ DOMAIN values \cap DOMAIN call.kwargs = {}
    BY <1>1 DEF Submitted, SubmitInProcess, SignatureBind, Joined
  <2> HIDE DEF values
  <2>4. ASSUME NEW x \in Submitted("inProcess", names, call),
               NEW y, y = IF DOMAIN call.kwargs = {} THEN values ELSE call.kwargs,
               DOMAIN y = Named(names)
        PROVE  x = y
    <3>1. CASE DOMAIN call.kwargs = {}
      BY <2>2, <2>3, <2>4, <3>1
    <3>2. CASE DOMAIN call.kwargs # {}
      <4>1. DOMAIN values = {} /\ y = call.kwargs
        BY <2>2, <2>3, <2>4, <3>2
      <4> QED
        BY <2>3, <2>4, <4>1
    <3> QED
      BY <3>1, <3>2
  <2>5. CASE a = "inProcess" /\ b = "inProcess"
    BY <2>3, <2>5
  <2>6. CASE a = "inProcess" /\ b # "inProcess"
    BY <1>1, <2>1, <2>4, <2>6, Positional DEF values
  <2>7. CASE a # "inProcess" /\ b = "inProcess"
    BY <1>1, <2>1, <2>4, <2>7, Positional DEF values
  <2>8. CASE a # "inProcess" /\ b # "inProcess"
    BY <1>1, <2>8, Positional
  <2> QED
    BY <2>5, <2>6, <2>7, <2>8
<1>2. CASE names = Untyped
  <2>1. DOMAIN call.kwargs = {}
    BY <1>2
  <2>2. \A x \in Submitted("inProcess", names, call) : Len(call.args) = 1 /\ x = Output(call.args[1])
    <3> SUFFICES ASSUME NEW values \in SignatureBind(<<"value">>, call)
                 PROVE  Len(call.args) = 1 /\ values["value"] = call.args[1]
      BY <1>2 DEF Submitted, SubmitInProcess, Untyped
    <3> DEFINE zipped == Zipped(<<"value">>, call.args)
    <3>0. Len(<<"value">>) = 1 /\ Named(<<"value">>) = {"value"}
      BY DEF Named
    <3>1. /\ values = Joined(zipped, call.kwargs)
          /\ Len(call.args) <= 1
          /\ DOMAIN values = {"value"}
      BY <3>0 DEF SignatureBind
    <3>2. "value" \in DOMAIN zipped /\ values["value"] = zipped["value"]
      BY <2>1, <3>1 DEF Joined
    <3>3. 1 \in DOMAIN call.args
      BY <3>2 DEF Zipped
    <3>4. Len(call.args) = 1
      BY <3>1, <3>3
    <3>5. zipped["value"] = call.args[1]
      <4>1. \A i \in DOMAIN <<"value">> : i = 1
        OBVIOUS
      <4>2. (CHOOSE i \in DOMAIN <<"value">> : <<"value">>[i] = "value") = 1
        BY <4>1
      <4> QED
        BY <3>2, <4>2 DEF Zipped
    <3> QED
      BY <3>2, <3>4, <3>5
  <2>3. \A x \in SubmitModal(names, call) : Len(call.args) = 1 /\ x = Output(call.args[1])
    BY <1>2 DEF SubmitModal, Sole, Untyped
  <2>4. \A x \in Submitted("monty", names, call) :
           x = IF Len(call.args) = 1 THEN Output(call.args[1]) ELSE Output(NoValue)
    BY <1>2, <2>1 DEF Submitted, SubmitMonty, MontyOutput, NoValue
  <2>5. \A c \in Backends \ {"inProcess", "monty"} :
           Submitted(c, names, call) = SubmitModal(names, call)
    BY <1>2 DEF Submitted, SubmitSubprocess, Backends
  <2> QED
    BY <2>2, <2>3, <2>4, <2>5
<1> QED
  BY <1>1, <1>2

\* The last SUBMIT was accepted by some backend, as it was received.
Accounted ==
    submitted # NoSubmit =>
        /\ submitted.call \in Calls
        /\ submitted.fields \in Declared
        /\ submitted.encodes =>
              \E b \in Backends : submitted.final \in Submitted(b, submitted.fields, submitted.call)

LEMMA StepAccounted ==
    ASSUME TypeOK, Accounted, [Next]_vars
    PROVE  Accounted'
<1>1. CASE submitted' = NoSubmit
  BY <1>1 DEF Accounted, NoSubmit
<1>2. ASSUME NEW call \in Calls, Submit(call)
      PROVE  Accounted'
  <2>1. stack # <<>> /\ Accepted(call) = Submitted(backend[Top.session], InForce, call)
    BY <1>2 DEF Submit, Accepted, GuestRuns
  <2>2. Top \in Frames /\ Top.session \in Sessions
    BY <2>1, TopFrame
  <2>3. backend[Top.session] \in Backends
    BY <2>2, HostAssumption DEF TypeOK, HostAssumption
  <2>4. InForce \in Declared
    BY <2>2 DEF InForce, TypeOK, Frames
  <2>0. PICK final \in Accepted(call) :
             \E result \in Received(backend[Top.session], final) :
                submitted' = [fields |-> InForce, call |-> call, final |-> result,
                              encodes |-> Encodes(final)]
    BY <1>2 DEF Submit
  <2>5. PICK result \in Received(backend[Top.session], final) :
             submitted' = [fields |-> InForce, call |-> call, final |-> result,
                           encodes |-> Encodes(final)]
    BY <2>0
  <2>6. Encodes(final) => result = final
    BY <2>3, <2>5 DEF Received
  <2>7. /\ submitted'.call = call /\ submitted'.fields = InForce
        /\ submitted'.final = result /\ submitted'.encodes = Encodes(final)
    BY <2>5
  <2> QED
    BY <2>0, <2>1, <2>3, <2>4, <2>6, <2>7 DEF Accounted
<1>3. CASE UNCHANGED vars
  BY <1>3 DEF vars, Accounted
<1> QED
  BY <1>1, <1>2, <1>3 DEF Next

LEMMA AccountedCorrect == Spec => []Accounted
<1>1. Init => Accounted
  BY DEF Init, Accounted
<1>2. TypeOK /\ Accounted /\ [Next]_vars => Accounted'
  BY StepAccounted
<1> QED
  BY <1>1, <1>2, TypeCorrect, PTL DEF Spec

\* A submission that JSON can encode has exactly the declared fields.
THEOREM SubmitExactCorrect == Spec => []SubmitExact
<1>1. Accounted => SubmitExact
  BY Exact DEF Accounted, SubmitExact
<1> QED
  BY <1>1, AccountedCorrect, PTL

\* What one backend made of a call, every other makes of it or refuses.
THEOREM PortableCorrect == Spec => []Portable
<1>1. Accounted => Portable
  <2> SUFFICES ASSUME Accounted, submitted # NoSubmit, submitted.encodes,
                      \A i \in DOMAIN submitted.call.args : submitted.call.args[i].tag # "dict",
                      submitted.fields # Untyped \/ DOMAIN submitted.call.kwargs = {},
                      NEW b \in Backends, NEW other \in Submitted(b, submitted.fields, submitted.call)
               PROVE  other = submitted.final
    BY DEF Portable
  <2>1. submitted.fields \in Seq(STRING)
    BY HostAssumption DEF Accounted, Declared, HostAssumption
  <2>2. /\ submitted.call.args \in Seq({submitted.call.args[i] : i \in DOMAIN submitted.call.args})
        /\ submitted.call.kwargs
              = [field \in DOMAIN submitted.call.kwargs |-> submitted.call.kwargs[field]]
    BY CallAssumption DEF Accounted
  <2>3. PICK a \in Backends : submitted.final \in Submitted(a, submitted.fields, submitted.call)
    BY DEF Accounted
  <2> DEFINE names == submitted.fields
             call == submitted.call
             final == submitted.final
  <2>4. /\ names \in Seq(STRING)
        /\ call.args \in Seq({call.args[i] : i \in DOMAIN call.args})
        /\ call.kwargs = [field \in DOMAIN call.kwargs |-> call.kwargs[field]]
        /\ \A i \in DOMAIN call.args : call.args[i].tag # "dict"
        /\ names # Untyped \/ DOMAIN call.kwargs = {}
        /\ final \in Submitted(a, names, call) /\ other \in Submitted(b, names, call)
    BY <2>1, <2>2, <2>3
  <2> HIDE DEF names, call, final
  <2>5. other = final
    BY <2>4, Agreement
  <2> QED
    BY <2>5 DEF final
<1> QED
  BY <1>1, AccountedCorrect, PTL

-----------------------------------------------------------------------------
(* Binding. *)

\* A variable of the caller is there when the code starts, whatever its name,
\* in a worker; in process it is, unless the name belongs to a tool of this or
\* of the last execution, and is lost otherwise.
THEOREM VariablesBound ==
    ASSUME NEW f \in [Names -> Bindings], NEW old \in SUBSET Names, NEW new \in SUBSET Names,
           NEW inputs \in SUBSET Names, NEW n \in inputs
    PROVE  /\ \A b \in Remote : Bind(b, f, old, new, inputs)[n] = Given
           /\ n \notin old \cup new => Bind("inProcess", f, old, new, inputs)[n] = Given
           /\ n \in old \cup new => Bind("inProcess", f, old, new, inputs)[n] # Given
<1>1. \A b \in Remote : Bind(b, f, old, new, inputs)[n] = Given
  BY DEF Bind, BindRemote, Merge, Unbind, GivenTo, ToolsOf, Remote
<1>2. n \notin old \cup new => Bind("inProcess", f, old, new, inputs)[n] = Given
  BY DEF Bind, BindInProcess, Merge, Unbind, GivenTo, ToolsOf
<1>3. Given \notin Names /\ Given # Nothing
  BY HostAssumption DEF HostAssumption, Given, Nothing
<1>4. n \in old \cup new => Bind("inProcess", f, old, new, inputs)[n] # Given
  BY <1>3 DEF Bind, BindInProcess, Merge, Unbind, GivenTo, ToolsOf
<1> QED
  BY <1>1, <1>2, <1>4

\* The name of a tool that is no longer given holds neither the tool nor
\* anything the code left under that name.
THEOREM RevokedUnbound ==
    ASSUME NEW b \in Backends \ {"monty"}, NEW f \in [Names -> Bindings], NEW old \in SUBSET Names,
           NEW new \in SUBSET Names, NEW inputs \in SUBSET Names,
           NEW n \in old \ (new \cup inputs)
    PROVE  Bind(b, f, old, new, inputs)[n] = Nothing
  BY DEF Bind, BindInProcess, BindRemote, Merge, Unbind, GivenTo, ToolsOf
=============================================================================
