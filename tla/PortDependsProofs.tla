-------------------------- MODULE PortDependsProofs --------------------------
(***************************************************************************)
(* Theorems about PortDepends, for any acyclic set of ports and any entries.*)
(* What the steps do to the stack is stated once, in StackFacts; each       *)
(* conjunct of the inductive invariant then has a lemma of its own.         *)
(***************************************************************************)
EXTENDS PortDepends, SequenceTheorems, TLAPS

LEMMA DepsType ==
  ASSUME NEW p \in Ports
  PROVE  BuildTime(p) \in Seq(Entries) /\ RunTime(p) \in Seq(Entries)
BY PortsAssumption DEF BuildTime, RunTime

LEMMA TopFacts ==
  ASSUME TypeOK, Running
  PROVE  /\ Depth \in Nat \ {0} /\ Top \in Frames
         /\ \A k \in 1 .. Depth : stack[k] \in Frames
BY DEF TypeOK, Running, Depth, Top

LEMMA MakeType ==
  ASSUME TypeOK, NEW k \in 1 .. Depth
  PROVE  stack[k] \in Frames /\ stack[k].port \in Ports
<1>1. stack[k] \in Frames
  BY DEF TypeOK, Depth
<1> QED
  BY <1>1 DEF Frames

\* What an action does to the stack
Below == \A k \in 1 .. Depth - 1 : stack'[k] = stack[k]
Goes(phase) ==
  /\ Len(stack') = Depth /\ Below
  /\ stack'[Depth] = [port |-> Top.port, phase |-> phase, i |-> 1]
Nexts ==
  /\ Len(stack') = Depth /\ Below
  /\ stack'[Depth] = [port |-> Top.port, phase |-> Top.phase, i |-> Top.i + 1]
Pushes(d) ==
  /\ Len(stack') = Depth + 1 /\ Below
  /\ stack'[Depth] = [port |-> Top.port, phase |-> Top.phase, i |-> Top.i + 1]
  /\ stack'[Depth + 1] = [port |-> d, phase |-> "enter", i |-> 1]
Pops == Len(stack') = Depth - 1 /\ Below

LEMMA GotoFacts ==
  ASSUME TypeOK, Running, NEW phase \in Phases, Goto(phase)
  PROVE  Goes(phase) /\ stack' \in Seq(Frames)
<1> DEFINE f == [port |-> Top.port, phase |-> phase, i |-> 1]
<1>1. f \in Frames
  BY TopFacts DEF Frames
<1>2. stack' = [stack EXCEPT ![Depth] = f]
  BY DEF Goto, Top
<1>3. stack \in Seq(Frames) /\ Depth \in 1 .. Len(stack)
  BY TopFacts DEF TypeOK, Depth
<1> HIDE DEF f
<1>4. stack' \in Seq(Frames) /\ Len(stack') = Depth /\ Below /\ stack'[Depth] = f
  BY <1>1, <1>2, <1>3 DEF Below, Depth
<1> QED
  BY <1>4 DEF Goes, f

LEMMA NextFacts ==
  ASSUME TypeOK, Running
  PROVE  LET s == NextEntry IN
         /\ s \in Seq(Frames) /\ Len(s) = Depth
         /\ \A k \in 1 .. Depth - 1 : s[k] = stack[k]
         /\ s[Depth] = [port |-> Top.port, phase |-> Top.phase, i |-> Top.i + 1]
<1> DEFINE f == [port |-> Top.port, phase |-> Top.phase, i |-> Top.i + 1]
<1>1. f \in Frames
  BY TopFacts DEF Frames
<1>2. [Top EXCEPT !.i = @ + 1] = f
  BY TopFacts DEF Frames
<1>3. NextEntry = [stack EXCEPT ![Depth] = f]
  BY <1>2 DEF NextEntry, Top
<1>4. stack \in Seq(Frames) /\ Depth \in 1 .. Len(stack)
  BY TopFacts DEF TypeOK, Depth
<1> HIDE DEF f
<1>5. /\ NextEntry \in Seq(Frames) /\ Len(NextEntry) = Depth
      /\ \A k \in 1 .. Depth - 1 : NextEntry[k] = stack[k]
      /\ NextEntry[Depth] = f
  BY <1>1, <1>3, <1>4 DEF Depth
<1> QED
  BY <1>5 DEF f

LEMMA PushFacts ==
  ASSUME TypeOK, Running, NEW d \in Ports, stack' = Append(NextEntry, Frame(d))
  PROVE  Pushes(d) /\ stack' \in Seq(Frames)
<1> DEFINE s == NextEntry
<1>1. /\ s \in Seq(Frames) /\ Len(s) = Depth
      /\ \A k \in 1 .. Depth - 1 : s[k] = stack[k]
      /\ s[Depth] = [port |-> Top.port, phase |-> Top.phase, i |-> Top.i + 1]
  BY NextFacts
<1>2. Frame(d) \in Frames
  BY DEF Frame, Frames, Phases
<1>3. Depth \in Nat \ {0}
  BY TopFacts
<1>4. stack' = Append(s, Frame(d))
  OBVIOUS
<1> HIDE DEF s
<1>5. stack' \in Seq(Frames) /\ Len(stack') = Depth + 1 /\ stack'[Depth + 1] = Frame(d)
  BY <1>1, <1>2, <1>4
<1>6. \A k \in 1 .. Depth : stack'[k] = s[k]
  BY <1>1, <1>2, <1>3, <1>4
<1> QED
  BY <1>1, <1>3, <1>5, <1>6 DEF Pushes, Below, Frame

LEMMA PopFacts ==
  ASSUME TypeOK, Running, stack' = SubSeq(stack, 1, Depth - 1)
  PROVE  Pops /\ stack' \in Seq(Frames)
<1>1. Depth - 1 \in Nat /\ \A k \in 1 .. Depth - 1 : stack[k] \in Frames
  BY TopFacts
<1>2. /\ stack' \in Seq(Frames) /\ Len(stack') = Depth - 1
      /\ \A k \in 1 .. Depth - 1 : stack'[k] = stack[k]
  BY <1>1, SubSeqProperties, Z3
<1> QED
  BY <1>2 DEF Pops, Below

\* The steps of Work and Abort, by what they do to the stack
EntrySteps(deps, then) ==
  \/ Top.i > Len(deps) /\ Goes(then)
  \/ /\ Top.i \in DOMAIN deps /\ Nexts
     /\ deps[Top.i].pkg \in db \/ deps[Top.i].dir = NoDir
  \/ /\ Top.i \in DOMAIN deps /\ deps[Top.i].dir \in Ports
     /\ deps[Top.i].pkg \notin db /\ Pushes(deps[Top.i].dir)

LEMMA EntryFacts ==
  ASSUME TypeOK, Running, NEW deps \in Seq(Entries), NEW then \in Phases,
         Entry(deps, then)
  PROVE  EntrySteps(deps, then) /\ stack' \in Seq(Frames)
<1>1. CASE Top.i > Len(deps)
  BY <1>1, GotoFacts DEF Entry, EntrySteps
<1>2. CASE ~(Top.i > Len(deps))
  <2>1. Top.i \in DOMAIN deps /\ deps[Top.i] \in Entries
    BY <1>2, TopFacts DEF Frames
  <2>2. CASE deps[Top.i].pkg \in db \/ deps[Top.i].dir = NoDir
    <3>1. stack' = NextEntry
      BY <1>2, <2>2 DEF Entry
    <3> QED
      BY <2>1, <2>2, <3>1, NextFacts DEF EntrySteps, Nexts, Below
  <2>3. CASE ~(deps[Top.i].pkg \in db \/ deps[Top.i].dir = NoDir)
    <3>1. stack' = Append(NextEntry, Frame(deps[Top.i].dir))
      BY <1>2, <2>3 DEF Entry
    <3>2. deps[Top.i].dir \in Ports
      BY <2>1, <2>3 DEF Entries
    <3> QED
      BY <2>1, <2>3, <3>1, <3>2, PushFacts DEF EntrySteps
  <2> QED
    BY <2>2, <2>3
<1> QED
  BY <1>1, <1>2

\* What a step of Work does to the stack: the make fails or returns, goes to
\* another phase, or takes an entry, which it finds or calls make for.
Looping ==
  /\ Top.phase \in Loops /\ Top.i \in DOMAIN LoopDeps(Top)
  /\ UNCHANGED <<db, work, marked, force, last, history>>
Found ==
  LET e == LoopDeps(Top)[Top.i] IN
  Looping /\ Nexts /\ (e.pkg \in db \/ e.dir = NoDir)
Called ==
  LET e == LoopDeps(Top)[Top.i] IN
  Looping /\ e.dir \in Ports /\ e.pkg \notin db /\ Pushes(e.dir)
Changes == last' = last /\ \E phase \in Phases \ {"enter"} : Goes(phase)
WorkShape == Fail \/ (Return /\ Pops) \/ Changes \/ Found \/ Called

LEMMA LoopFacts ==
  ASSUME TypeOK, BuildEntry \/ RunEntry
  PROVE  /\ Running /\ stack' \in Seq(Frames)
         /\ \/ Found \/ Called
            \/ /\ Top.phase \in Loops /\ Top.i > Len(LoopDeps(Top))
               /\ Goes(IF Top.phase = "builddeps" THEN "build" ELSE "add")
         /\ UNCHANGED <<db, work, marked, force, last, history>>
<1>1. Running /\ Top.port \in Ports
  BY TopFacts DEF BuildEntry, RunEntry, At, Frames
<1>2. CASE BuildEntry
  <2>1. Top.phase = "builddeps" /\ LoopDeps(Top) = BuildTime(Top.port)
    BY <1>2 DEF BuildEntry, At, LoopDeps
  <2>2. EntrySteps(LoopDeps(Top), "build") /\ stack' \in Seq(Frames)
    BY <1>1, <1>2, <2>1, DepsType, EntryFacts DEF BuildEntry, Phases
  <2>3. UNCHANGED <<db, work, marked, force, last, history>>
    BY <1>2 DEF BuildEntry, Entry
  <2> QED
    BY <1>1, <2>1, <2>2, <2>3 DEF EntrySteps, Found, Called, Looping, Loops
<1>3. CASE RunEntry
  <2>1. Top.phase = "rundeps" /\ LoopDeps(Top) = RunTime(Top.port)
    BY <1>3 DEF RunEntry, At, LoopDeps
  <2>2. EntrySteps(LoopDeps(Top), "add") /\ stack' \in Seq(Frames)
    BY <1>1, <1>3, <2>1, DepsType, EntryFacts DEF RunEntry, Phases
  <2>3. UNCHANGED <<db, work, marked, force, last, history>>
    BY <1>3 DEF RunEntry, Entry
  <2> QED
    BY <1>1, <2>1, <2>2, <2>3 DEF EntrySteps, Found, Called, Looping, Loops
<1> QED
  BY <1>2, <1>3

LEMMA StackStep ==
  ASSUME TypeOK, Work
  PROVE  Running /\ stack' \in Seq(Frames) /\ WorkShape
<1>1. ASSUME Running, Fail PROVE stack' \in Seq(Frames) /\ WorkShape
  BY <1>1 DEF Fail, WorkShape
<1>2. ASSUME Running, Return PROVE stack' \in Seq(Frames) /\ WorkShape
  BY <1>2, PopFacts DEF Return, WorkShape
<1>3. ASSUME Running, last' = last, NEW phase \in Phases \ {"enter"}, Goto(phase)
      PROVE  stack' \in Seq(Frames) /\ WorkShape
  BY <1>3, GotoFacts DEF WorkShape, Changes
<1>4. CASE Enter
  BY <1>2, <1>3, <1>4 DEF Enter, At, Phases, Loops
<1>5. CASE BuildEntry \/ RunEntry
  BY <1>5, LoopFacts DEF WorkShape, Changes, Phases
<1>6. CASE Build
  BY <1>1, <1>3, <1>6 DEF Build, At, Phases
<1>7. CASE Claim
  BY <1>1, <1>3, <1>7 DEF Claim, At, Phases, Loops
<1>8. CASE Add \/ Added \/ Mark
  BY <1>1, <1>3, <1>8 DEF Add, Added, Mark, At, Phases
<1>9. CASE Leave
  BY <1>2, <1>9 DEF Leave, At
<1> QED
  BY <1>4, <1>5, <1>6, <1>7, <1>8, <1>9 DEF Work

LEMMA InitType == Init => TypeOK
<1> SUFFICES ASSUME Init PROVE TypeOK
  OBVIOUS
<1>1. {PkgOf[p] : p \in Touchable} \subseteq Pkgs
  BY PortsAssumption
<1>2. db \subseteq Pkgs
  BY <1>1 DEF Init
<1>3. stack \in Seq(Frames)
  BY DEF Init
<1> QED
  BY <1>2, <1>3 DEF Init, TypeOK

LEMMA TypeStep == TypeOK /\ [Next]_vars => TypeOK'
<1> SUFFICES ASSUME TypeOK, [Next]_vars PROVE TypeOK'
  OBVIOUS
<1> DEFINE Rest == /\ db \subseteq Pkgs /\ base \subseteq Pkgs /\ taken \subseteq Pkgs
                   /\ marked \subseteq Ports /\ stood \subseteq Ports
                   /\ work \in [Ports -> {"none", "extracted", "released"}]
                   /\ force \in BOOLEAN
<1>1. CASE Work
  <2>1. stack' \in Seq(Frames) /\ WorkShape /\ Top.port \in Ports
    BY <1>1, StackStep, TopFacts DEF Frames
  <2>2. last' \in {"none", "ok", "failed"}
    BY <2>1 DEF WorkShape, Fail, Return, Changes, Found, Called, Looping, TypeOK
  <2>3. CASE Enter \/ BuildEntry \/ RunEntry
    BY <2>1, <2>2, <2>3
    DEF TypeOK, Enter, BuildEntry, RunEntry, Entry, history
  <2>4. CASE Build
    BY <2>1, <2>2, <2>4 DEF TypeOK, Build, history
  <2>5. CASE Claim
    BY <2>1, <2>2, <2>5 DEF TypeOK, Claim, history
  <2>6. CASE Add \/ Added \/ Mark \/ Leave
    <3>1. PkgOf[Top.port] \in Pkgs
      BY <2>1, PortsAssumption
    <3>2. db' \subseteq db \cup {PkgOf[Top.port]} /\ marked' \subseteq marked \cup {Top.port}
      BY <2>6 DEF Add, Added, Mark, Leave
    <3>3. UNCHANGED <<work, force, base, stood, taken>>
      BY <2>6 DEF Add, Added, Mark, Leave, history
    <3> QED
      BY <2>1, <2>2, <3>1, <3>2, <3>3 DEF TypeOK
  <2> QED
    BY <1>1, <2>3, <2>4, <2>5, <2>6 DEF Work
<1>2. CASE Abort
  BY <1>2 DEF Abort, Fail, TypeOK, history
<1>3. ASSUME NEW p \in Goals, NEW f \in BOOLEAN, InstPkg(p, f) PROVE TypeOK'
  <2>1. Frame(p) \in Frames
    BY PortsAssumption DEF Frame, Frames, Phases
  <2>2. stack' \in Seq(Frames)
    BY <1>3, <2>1 DEF InstPkg
  <2> QED
    BY <1>3, <2>2 DEF InstPkg, TypeOK
<1>4. ASSUME NEW p \in Touchable, Clean(p) \/ PkgRm(p) PROVE TypeOK'
  BY <1>4, PortsAssumption DEF Clean, PkgRm, TypeOK, history
<1>5. CASE UNCHANGED vars
  BY <1>5 DEF vars, history, TypeOK
<1> QED
  BY <1>1, <1>2, <1>3, <1>4, <1>5 DEF Next

-----------------------------------------------------------------------------
(* Where nothing runs, the parts of the invariant hold; and another terminal *)
(* disturbs none of them.                                                    *)

LEMMA IdleFacts ==
  ASSUME stack' = <<>>
  PROVE  /\ Unended' /\ Nested' /\ RemovedIsInHand' /\ AddedInstalled'
         /\ MarkedInstalled' /\ LoopsDone' /\ DependsInstalled' /\ CalledFor'
         /\ ForcedNestAddsNothing'
BY DEF Unended, Nested, RemovedIsInHand, AddedInstalled, MarkedInstalled, LoopsDone,
       DependsInstalled, CalledFor, ForcedNestAddsNothing, Depth, Running, At

\* A make below the top stays as it is.
LEMMA BelowStep ==
  ASSUME TypeOK, Work, ~Fail
  PROVE  /\ Len(stack') \in {Depth - 1, Depth, Depth + 1} /\ Below
         /\ Depth \in Nat \ {0}
BY StackStep, TopFacts
DEF WorkShape, Pops, Changes, Goes, Found, Called, Nexts, Pushes

\* A make that has its package in hand adds it before it returns.
LEMMA HandStep ==
  ASSUME TypeOK, Work, ~Fail, NEW k, NEW g, InHand(k, g)
  PROVE  InHand(k, g)' \/ (k = Depth /\ g \in db')
<1>1. Running /\ Depth \in Nat \ {0} /\ k \in 1 .. Depth /\ Top = stack[Depth]
  BY StackStep, TopFacts DEF InHand, Top
<1>2. k < Depth => Len(stack') \in Nat /\ k \in 1 .. Len(stack') /\ stack'[k] = stack[k]
  BY <1>1, BelowStep DEF Below
<1>3. CASE k < Depth
  BY <1>2, <1>3 DEF InHand, Depth
<1>4. CASE k = Depth
  <2>1. Top.phase \in {"rundeps", "add"} /\ PkgOf[Top.port] = g
    BY <1>1, <1>4 DEF InHand
  <2>2. CASE RunEntry
    <3>1. /\ Depth \in 1 .. Len(stack') /\ stack'[Depth].port = Top.port
          /\ stack'[Depth].phase \in {"rundeps", "add"}
      BY <1>1, <2>2, LoopFacts DEF RunEntry, At, Found, Called, Goes, Nexts, Pushes
    <3> QED
      BY <1>4, <2>1, <3>1 DEF InHand, Depth
  <2>3. CASE Add
    BY <1>4, <2>1, <2>3 DEF Add
  <2> QED
    BY <2>1, <2>2, <2>3
    DEF Work, Enter, BuildEntry, Build, Claim, Added, Mark, Leave, At
<1> QED
  BY <1>1, <1>3, <1>4

\* A package leaves the database into the hands of the make that runs.
LEMMA DbStep ==
  ASSUME TypeOK, Work, ~Fail, NEW g \in db
  PROVE  g \in db' \/ (InHand(Depth, g)' /\ Depth' = Depth)
<1>1. CASE Claim
  <2>1. Running /\ Goto("rundeps") /\ db' = db \ {PkgOf[Top.port]}
    BY <1>1 DEF Claim, At
  <2>2. Goes("rundeps") /\ Depth \in Nat \ {0}
    BY <2>1, GotoFacts, TopFacts DEF Phases, Loops
  <2> QED
    BY <2>1, <2>2 DEF Goes, InHand, Depth
<1> QED
  BY <1>1, LoopFacts DEF Work, Enter, Build, Add, Added, Mark, Leave

LEMMA HandKept ==
  ASSUME TypeOK, Work, ~Fail, NEW g,
         g \in db \cup taken \/ \E k \in 1 .. Depth : InHand(k, g)
  PROVE  (g \in db \cup taken)' \/ \E k \in 1 .. Depth' : InHand(k, g)'
<1>1. taken' = taken
  BY DEF Work, Enter, BuildEntry, RunEntry, Entry, Build, Claim, Add, Added, Mark,
      Leave, history
<1>2. CASE g \in db \cup taken
  BY <1>1, <1>2, DbStep DEF InHand
<1>3. CASE \E k \in 1 .. Depth : InHand(k, g)
  BY <1>3, HandStep DEF InHand
<1> QED
  BY <1>2, <1>3

LEMMA RemovedStep ==
  ASSUME TypeOK, RemovedIsInHand, Work, ~Fail
  PROVE  RemovedIsInHand'
<1>1. base' = base /\ Running
  BY StackStep
  DEF Work, Enter, BuildEntry, RunEntry, Entry, Build, Claim, Add, Added, Mark,
      Leave, history
<1> QED
  BY <1>1, HandKept DEF RemovedIsInHand

\* A make that calls or finds goes on to its next entry.
LEMMA NextEntryFacts ==
  ASSUME Found \/ Called
  PROVE  /\ stack'[Depth].port = Top.port /\ stack'[Depth].phase = Top.phase
         /\ stack'[Depth].i = Top.i + 1
<1>1. CASE Found
  BY <1>1 DEF Found, Nexts
<1>2. CASE Called
  BY <1>2 DEF Called, Pushes
<1> QED
  BY <1>1, <1>2

LEMMA ChangesFacts ==
  ASSUME Changes
  PROVE  stack'[Depth].port = Top.port /\ stack'[Depth].i = 1 /\ Len(stack') = Depth
BY DEF Changes, Goes

LEMMA AddedStep ==
  ASSUME TypeOK, Nested, AddedInstalled, Work, ~Fail
  PROVE  AddedInstalled'
<1>1. /\ Running /\ Depth \in Nat \ {0} /\ Top = stack[Depth] /\ taken' = taken
      /\ WorkShape
  BY StackStep, TopFacts
  DEF Work, Enter, BuildEntry, RunEntry, Entry, Build, Claim, Add, Added, Mark, Leave,
      history, Top
<1>2. ASSUME NEW phase \in Phases, Goto(phase)
      PROVE  Top'.port = Top.port /\ Top'.phase = phase
  <2>1. Goes(phase)
    BY <1>1, <1>2, GotoFacts
  <2> QED
    BY <2>1 DEF Goes, Top, Depth
<1>3. CASE Add
  <2>1. Top'.port = Top.port /\ db' = db \cup {PkgOf[Top.port]}
    BY <1>2, <1>3 DEF Add, Phases
  <2> QED
    BY <2>1 DEF AddedInstalled
<1>4. CASE Added \/ Mark
  <2>1. /\ Top'.port = Top.port /\ db' = db
        /\ Top.phase \in Installing
    BY <1>2, <1>4 DEF Added, Mark, At, Phases, Installing
  <2> QED
    BY <1>1, <2>1 DEF AddedInstalled
<1>5. CASE Enter \/ BuildEntry \/ RunEntry \/ Build \/ Claim \/ Leave
  <2> SUFFICES ASSUME Running' PROVE Top'.phase \notin Installing
    BY DEF AddedInstalled
  <2>1. CASE Found \/ Called
    BY <1>1, <2>1, NextEntryFacts 
       DEF Found, Called, Looping, Nexts, Pushes, Top, Depth, Loops, Installing
  <2>2. CASE Return
    BY <1>1, <2>2, PopFacts, StackStep
    DEF Return, Pops, Below, Nested, Top, Depth, Running, Loops, Installing
  <2>3. ASSUME NEW phase \in {"builddeps", "build", "claim", "rundeps", "add"}, Goes(phase)
        PROVE  Top'.phase \notin Installing
    BY <2>3 DEF Goes, Top, Depth, Installing
  <2>4. CASE BuildEntry \/ RunEntry
    BY <2>1, <2>3, <2>4, LoopFacts
  <2>5. CASE (Enter /\ ~Return) \/ Build \/ Claim
    <3>1. PICK phase \in {"builddeps", "build", "claim", "rundeps"} : Goto(phase)
      BY <2>5 DEF Enter, Build, Claim
    <3> QED
      BY <1>1, <2>3, <3>1, GotoFacts DEF Phases, Loops
  <2> QED
    BY <1>5, <2>2, <2>4, <2>5 DEF Leave
<1> QED
  BY <1>3, <1>4, <1>5 DEF Work

LEMMA MarkedStep ==
  ASSUME TypeOK, AddedInstalled, MarkedInstalled, Work, ~Fail
  PROVE  MarkedInstalled'
<1>1. stood' = stood /\ Running
  BY StackStep
  DEF Work, Enter, BuildEntry, RunEntry, Entry, Build, Claim, Add, Added, Mark,
      Leave, history
<1>2. \A p \in marked' \ marked : PkgOf[p] \in db \cup taken
  BY <1>1
  DEF Work, Enter, BuildEntry, RunEntry, Entry, Build, Claim, Add, Added, Mark, Leave, At,
      AddedInstalled, Installing
<1> QED
  BY <1>1, <1>2, HandKept DEF MarkedInstalled

LEMMA NestedStep ==
  ASSUME TypeOK, Nested, Work, ~Fail
  PROVE  Nested'
<1>1. Running /\ Depth \in Nat \ {0} /\ Top \in Frames /\ Top = stack[Depth]
  BY StackStep, TopFacts DEF Top
<1>2. \A k \in 1 .. Depth : stack[k] \in Frames
  BY <1>1, TopFacts
<1>3. CASE Pops
  BY <1>1, <1>3 DEF Pops, Below, Nested, Depth
<1>4. CASE Changes \/ Found
  <2> DEFINE Same == Len(stack') = Depth /\ Below /\ stack'[Depth].port = Top.port
  <2>2. Changes => Same
    BY DEF Changes, Goes
  <2>3. Found => Same
    BY DEF Found, Nexts
  <2>1. Len(stack') = Depth /\ Below /\ stack'[Depth].port = Top.port
    BY <1>4, <2>2, <2>3
  <2> QED
    BY <1>1, <2>1 DEF Below, Nested, Depth
<1>5. CASE Called
  <2> DEFINE d == LoopDeps(Top)[Top.i].dir
  <2>1. /\ Len(stack') = Depth + 1 /\ Below /\ stack'[Depth].port = Top.port
        /\ stack'[Depth].phase \in Loops /\ stack'[Depth + 1].port = d
    BY <1>5 DEF Called, Looping, Pushes
  <2>2. Rank[d] < Rank[Top.port]
    <3>1. Top.i \in DOMAIN LoopDeps(Top) /\ d # NoDir /\ Top.port \in Ports
      BY <1>1, <1>5, PortsAssumption DEF Called, Looping, Frames
    <3> QED
      BY <3>1, AcyclicAssumption DEF LoopDeps
  <2>3. Rank[d] \in Nat /\ \A k \in 1 .. Depth : Rank[stack[k].port] \in Nat
    BY <1>2, <1>5, AcyclicAssumption DEF Called, Frames
  <2>4. \A k \in 1 .. Depth : stack'[k].port = stack[k].port
    BY <1>1, <2>1 DEF Below
  <2>5. \A k \in 1 .. Depth : Rank[d] < Rank[stack[k].port]
    BY <1>1, <2>2, <2>3 DEF Nested
  <2>6. Depth' = Depth + 1
    BY <2>1 DEF Depth
  <2>7. \A k, m \in 1 .. Depth' : k < m => Rank[stack'[m].port] < Rank[stack'[k].port]
    <3> SUFFICES ASSUME NEW k \in 1 .. Depth', NEW m \in 1 .. Depth', k < m
                 PROVE  Rank[stack'[m].port] < Rank[stack'[k].port]
      OBVIOUS
    <3>1. k \in 1 .. Depth /\ stack'[k].port = stack[k].port
      BY <1>1, <2>4, <2>6
    <3>2. CASE m = Depth + 1
      BY <2>1, <2>5, <3>1, <3>2
    <3>3. CASE m \in 1 .. Depth
      BY <2>4, <3>1, <3>3 DEF Nested
    <3> QED
      BY <1>1, <2>6, <3>2, <3>3
  <2>8. \A k \in 1 .. Depth' - 1 : stack'[k].phase \in Loops
    BY <1>1, <2>1, <2>6 DEF Below, Nested
  <2> QED
    BY <2>7, <2>8 DEF Nested
<1> QED
  BY <1>3, <1>4, <1>5, StackStep DEF WorkShape

\* No port is entered twice.
LEMMA NestedNoReentry ==
  ASSUME TypeOK, Nested
  PROVE  NoReentry
<1> SUFFICES ASSUME NEW j \in 1 .. Depth, NEW k \in 1 .. Depth, j < k,
                    stack[j].port = stack[k].port
             PROVE  FALSE
  BY DEF NoReentry, TypeOK, Depth
<1>1. stack[k].port \in Ports
  BY MakeType
<1>2. Rank[stack[k].port] \in Nat /\ Rank[stack[k].port] < Rank[stack[j].port]
  BY <1>1, AcyclicAssumption DEF Nested
<1> QED
  BY <1>2

\* A make that returns leaves the entry it was called for installed or excused.
LEMMA ReturnSatisfies ==
  ASSUME TypeOK, Nested, AddedInstalled, MarkedInstalled, Enter \/ Leave, Return,
         NEW e, e.dir = Top.port
  PROVE  e.pkg \in db' \/ Excused(e)'
<1>1. Running /\ Top.port \in Ports /\ Depth \in Nat \ {0}
  BY TopFacts DEF Enter, Leave, At, Frames
<1>2. stood' = stood /\ taken' = taken
  BY DEF Enter, Leave, history
<1>3. SUFFICES ASSUME ~Excused(e) PROVE e.pkg \in db'
  BY <1>2 DEF Excused
<1>4. /\ PkgOf[Top.port] = e.pkg /\ \A q \in Ports : PkgOf[q] = e.pkg => q = Top.port
      /\ Top.port \notin Ignored \cup stood /\ e.pkg \notin taken
  BY <1>1, <1>3 DEF Excused
<1>5. CASE Leave
  BY <1>1, <1>4, <1>5 DEF Leave, At, AddedInstalled, Installing
<1>6. CASE Enter
  <2>1. db' = db /\ Top.phase = "enter"
    BY <1>6 DEF Enter, At
  <2>2. Top.port \in marked
    BY <1>1, <1>4, <1>6, GotoFacts, PopFacts
    DEF Enter, Return, Goes, Pops, Phases, Loops
  <2>3. e.pkg \in db \/ \E k \in 1 .. Depth : InHand(k, e.pkg)
    BY <1>1, <1>4, <2>2 DEF MarkedInstalled
  <2>4. ASSUME NEW k \in 1 .. Depth, InHand(k, e.pkg) PROVE FALSE
    <3>1. stack[k].port \in Ports
      BY MakeType
    <3>2. stack[k].port = Top.port /\ stack[k].phase # "enter"
      BY <1>4, <2>4, <3>1 DEF InHand
    <3>3. k = Depth
      BY <1>1, <3>2, NestedNoReentry DEF NoReentry, Top
    <3> QED
      BY <2>1, <3>2, <3>3 DEF Top
  <2> QED
    BY <2>1, <2>3, <2>4
<1> QED
  BY <1>5, <1>6

LEMMA SettledStep ==
  ASSUME TypeOK, Work, ~Fail, NEW e, NEW k \in 1 .. Depth, k < Depth \/ ~Claim,
         Settled(k, e)
  PROVE  Settled(k, e)'
<1>1. Running /\ Depth \in Nat \ {0} /\ stood' = stood /\ taken' = taken
  BY StackStep, TopFacts
  DEF Work, Enter, BuildEntry, RunEntry, Entry, Build, Claim, Add, Added, Mark,
      Leave, history
<1>2. CASE Excused(e)
  BY <1>1, <1>2 DEF Excused, Settled
<1>3. CASE e.pkg \in db
  <2>1. CASE k < Depth
    BY <1>1, <1>3, <2>1, DbStep DEF Settled, InHand
  <2>2. CASE ~Claim
    BY <1>3, <2>2, LoopFacts
    DEF Settled, Work, Enter, Build, Add, Added, Mark, Leave, Fail
  <2> QED
    BY <2>1, <2>2
<1>4. ASSUME NEW m \in k + 1 .. Depth, InHand(m, e.pkg) PROVE Settled(k, e)'
  <2>1. InHand(m, e.pkg)' \/ e.pkg \in db'
    BY <1>4, HandStep
  <2> QED
    BY <2>1 DEF Settled, InHand
<1> QED
  BY <1>2, <1>3, <1>4 DEF Settled

LEMMA LoopsStep ==
  ASSUME TypeOK, Nested, AddedInstalled, MarkedInstalled, LoopsDone, Work, ~Fail
  PROVE  LoopsDone'
<1>1. /\ Running /\ Depth \in Nat \ {0} /\ Top = stack[Depth]
      /\ Top.i \in Nat \ {0} /\ Below /\ WorkShape
  BY StackStep, BelowStep, TopFacts DEF Top, Frames
<1>2. SUFFICES ASSUME NEW k \in 1 .. Depth', stack'[k].phase \in Loops,
                      NEW j \in DOMAIN LoopDeps(stack'[k]), j < stack'[k].i,
                      NEW e, e = LoopDeps(stack'[k])[j]
               PROVE  \/ Settled(k, e)'
                      \/ /\ k < Depth' /\ j = stack'[k].i - 1
                         /\ e.dir = stack'[k + 1].port
  BY DEF LoopsDone, LoopDeps
<1>3. j \in Nat \ {0}
  <2>1. stack' \in Seq(Frames)
    BY StackStep
  <2>2. stack'[k] \in Frames
    BY <2>1, <1>2 DEF Depth
  <2> QED
    BY <2>2, DepsType, <1>2 DEF LoopDeps, Frames
<1>4. CASE k < Depth
  <2>1. stack'[k] = stack[k] /\ k \in 1 .. Depth
    BY <1>1, <1>2, <1>4 DEF Below, Depth
  <2>2. Settled(k, e) \/ (j = stack[k].i - 1 /\ e.dir = stack[k + 1].port)
    BY <1>2, <2>1 DEF LoopsDone
  <2>3. Settled(k, e) => Settled(k, e)'
    BY <1>4, <2>1, SettledStep
  <2>4. CASE j = stack[k].i - 1 /\ e.dir = stack[k + 1].port
    <3>1. CASE k + 1 < Depth
      <4>1. stack'[k + 1] = stack[k + 1] /\ k < Depth'
        BY <1>1, <1>4, <2>1, <3>1, BelowStep DEF Below, Depth
      <4> QED
        BY <2>1, <2>4, <4>1
    <3>2. CASE k + 1 = Depth
      <4>1. CASE Return /\ Pops
        <5>1. Enter \/ Leave
          BY <1>1, <4>1, LoopFacts, GotoFacts
          DEF Work, Build, Claim, Add, Added, Mark, At, Fail, Pops, Goes, Phases, Loops, Found, Called,
              Nexts, Pushes
        <5>2. e.pkg \in db' \/ Excused(e)'
          BY <1>1, <2>4, <3>2, <4>1, <5>1, ReturnSatisfies
        <5> QED
          BY <5>2 DEF Settled
      <4>2. CASE Changes \/ Found \/ Called
        <5>1. k < Depth' /\ stack'[Depth].port = Top.port
          BY <1>1, <1>4, <4>2, NextEntryFacts, ChangesFacts
          DEF Found, Called, Nexts, Pushes, Depth
        <5> QED
          BY <1>1, <2>1, <2>4, <3>2, <5>1
      <4> QED
        BY <1>1, <4>1, <4>2 DEF WorkShape
    <3> QED
      BY <1>1, <1>4, <2>1, <3>1, <3>2
  <2> QED
    BY <2>2, <2>3, <2>4
<1>5. CASE k = Depth
  <2>1. CASE Changes
    <3>1. stack'[Depth].i = 1
      BY <2>1, ChangesFacts
    <3> QED
      BY <1>2, <1>3, <1>5, <3>1
  <2>2. CASE Found \/ Called
    <3>1. /\ stack'[k].port = Top.port /\ stack'[k].phase = Top.phase
          /\ stack'[k].i = Top.i + 1
      BY <1>5, <2>2, NextEntryFacts
    <3>2. LoopDeps(stack'[k]) = LoopDeps(Top)
      BY <3>1 DEF LoopDeps
    <3>3. CASE j < Top.i
      <4>1. Settled(k, e)
        BY <1>1, <1>2, <1>5, <3>1, <3>2, <3>3 DEF LoopsDone
      <4>2. ~Claim
        BY <2>2 DEF Found, Called, Looping, Loops, Claim, At
      <4> QED
        BY <1>1, <1>5, <4>1, <4>2, SettledStep
    <3>4. CASE j = Top.i /\ Found
      <4>1. (e.pkg \in db \/ e.dir = NoDir) /\ db' = db
        BY <1>2, <3>2, <3>4 DEF Found, Looping
      <4> QED
        BY <4>1 DEF Settled, Excused
    <3>5. CASE j = Top.i /\ Called
      <4>1. stack'[k + 1].port = e.dir /\ k < Depth'
        <5>1. e = LoopDeps(Top)[Top.i]
          BY <1>2, <3>2, <3>5
        <5>2. Pushes(e.dir)
          BY <3>5, <5>1 DEF Called
        <5> QED
          BY <1>1, <1>5, <5>2 DEF Pushes, Depth
      <4> QED
        BY <1>1, <3>1, <3>5, <4>1
    <3> QED
      BY <1>1, <1>2, <1>3, <2>2, <3>1, <3>3, <3>4, <3>5
  <2>3. CASE Pops
    BY <1>1, <1>2, <1>5, <2>3 DEF Pops, Depth
  <2> QED
    BY <1>1, <2>1, <2>2, <2>3 DEF WorkShape
<1>6. CASE k > Depth
  <2>1. CASE Changes \/ Found \/ (Return /\ Pops)
    BY <1>1, <1>2, <1>6, <2>1, ChangesFacts DEF Found, Nexts, Pops, Depth
  <2>2. CASE Called
    BY <1>1, <1>2, <1>6, <2>2 DEF Called, Pushes, Loops, Depth
  <2> QED
    BY <1>1, <2>1, <2>2 DEF WorkShape
<1> QED
  BY <1>1, <1>2, <1>4, <1>5, <1>6

\* A loop that has come to its end leaves all its entries installed or excused.
LEMMA LoopEnds ==
  ASSUME TypeOK, LoopsDone, Running, Top.phase \in Loops, Top.i > Len(LoopDeps(Top)),
         NEW j \in DOMAIN LoopDeps(Top), NEW e, e = LoopDeps(Top)[j]
  PROVE  e.pkg \in db \/ Excused(e)
<1>1. Depth \in Nat \ {0} /\ Top = stack[Depth] /\ Top.i \in Nat
  BY TopFacts DEF Top, Frames
<1>2. LoopDeps(Top) \in Seq(Entries)
  BY TopFacts, DepsType DEF LoopDeps, Frames
<1>3. j \in Nat /\ j < Top.i
  BY <1>1, <1>2
<1>4. Settled(Depth, e)
  BY <1>1, <1>3 DEF LoopsDone
<1> QED
  BY <1>1, <1>4 DEF Settled

LEMMA DependsStep ==
  ASSUME TypeOK, Nested, LoopsDone, DependsInstalled, Work, ~Fail
  PROVE  DependsInstalled'
<1>1. /\ Running /\ Depth \in Nat \ {0} /\ Top = stack[Depth] /\ Top \in Frames
      /\ stood' = stood /\ taken' = taken /\ WorkShape
  BY StackStep, TopFacts
  DEF Work, Enter, BuildEntry, RunEntry, Entry, Build, Claim, Add, Added, Mark,
      Leave, history, Top
<1>2. CASE Found \/ Called
  <2>1. Top'.phase \in Loops \cup {"enter"}
    BY <1>1, <1>2, NextEntryFacts
    DEF Found, Called, Looping, Nexts, Pushes, Top, Depth
  <2> QED
    BY <2>1 DEF DependsInstalled, At, Loops
<1>3. CASE Pops
  <2>1. At("build")' \/ At("add")' => Top'.phase \in Loops
    BY <1>1, <1>3 DEF Pops, Below, Nested, At, Top, Depth, Running
  <2> QED
    BY <2>1 DEF DependsInstalled, At, Loops
<1>4. ASSUME NEW phase \in Phases, Goes(phase)
      PROVE  Depth' = Depth /\ Top'.port = Top.port /\ Top'.phase = phase
  BY <1>4 DEF Goes, Top, Depth
<1>5. CASE /\ BuildEntry \/ RunEntry
           /\ Top.i > Len(LoopDeps(Top))
           /\ Goes(IF Top.phase = "builddeps" THEN "build" ELSE "add")
  <2>1. Top.phase \in Loops /\ db' = db
    BY <1>5, LoopFacts DEF BuildEntry, RunEntry, At, Loops
  <2>2. \A j \in DOMAIN LoopDeps(Top) : \A e \in {LoopDeps(Top)[j]} :
          e.pkg \in db' \/ Excused(e)'
    BY <1>1, <1>5, <2>1, LoopEnds DEF Excused
  <2>3. CASE Top.phase = "builddeps"
    <3>1. LoopDeps(Top) = BuildTime(Top.port) /\ Top'.port = Top.port /\ Top'.phase = "build"
      BY <1>4, <1>5, <2>3 DEF LoopDeps, Phases
    <3> QED
      BY <2>2, <3>1 DEF DependsInstalled, At, Excused
  <2>4. CASE Top.phase = "rundeps"
    <3>1. LoopDeps(Top) = RunTime(Top.port) /\ Top'.port = Top.port /\ Top'.phase = "add"
      BY <1>4, <1>5, <2>4 DEF LoopDeps, Phases
    <3> QED
      BY <2>2, <3>1 DEF DependsInstalled, At, Excused
  <2> QED
    BY <2>1, <2>3, <2>4 DEF Loops
<1>6. CASE Enter /\ ~Return
  <2>1. PICK phase \in {"builddeps", "build", "claim"} :
          /\ Goto(phase) /\ work' = work
          /\ phase = "build" => work[Top.port] = "extracted"
    BY <1>6 DEF Enter
  <2>2. Top'.port = Top.port /\ Top'.phase = phase
    BY <1>1, <1>4, <2>1, GotoFacts DEF Phases, Loops
  <2> QED
    BY <2>1, <2>2 DEF DependsInstalled, At
<1>7. CASE (Build \/ Claim \/ Add \/ Added \/ Mark) /\ ~Fail
  <2>1. PICK phase \in {"claim", "rundeps", "adding", "added", "marked"} : Goto(phase)
    BY <1>7 DEF Build, Claim, Add, Added, Mark
  <2>2. Top'.phase = phase
    BY <1>1, <1>4, <2>1, GotoFacts DEF Phases, Loops
  <2> QED
    BY <2>2 DEF DependsInstalled, At
<1>8. CASE Return
  BY <1>1, <1>3, <1>8, PopFacts DEF Return
<1> QED
  BY <1>2, <1>5, <1>6, <1>7, <1>8, LoopFacts DEF Work, Leave

LEMMA CalledForStep ==
  ASSUME TypeOK, Nested, CalledFor, Work, ~Fail
  PROVE  CalledFor'
<1> SUFFICES ASSUME WellNamed, NEW k \in 2 .. Depth', stack'[k].phase \notin Installing
             PROVE  PkgOf[stack'[k].port] \notin db'
  BY DEF CalledFor, WellNamed
<1>1. /\ Running /\ Depth \in Nat \ {0} /\ Top = stack[Depth] /\ Top \in Frames
      /\ Below /\ WorkShape
  BY StackStep, BelowStep, TopFacts DEF Top
<1>2. CASE Called /\ k = Depth + 1
  <2> DEFINE e == LoopDeps(Top)[Top.i]
  <2>1. stack'[k].port = e.dir /\ e.pkg \notin db' /\ e.dir \in Ports
    BY <1>2 DEF Called, Looping, Pushes
  <2>2. Top.i \in DOMAIN LoopDeps(Top) /\ Top.port \in Ports /\ e.dir # NoDir
    BY <1>1, <1>2, <2>1, PortsAssumption DEF Called, Looping, Frames
  <2>3. PkgOf[e.dir] = e.pkg
    BY <2>2 DEF WellNamed, LoopDeps
  <2> QED
    BY <2>1, <2>3
<1>3. CASE k \in 2 .. Depth
  <2>1. stack'[k].port = stack[k].port
    BY <1>1, <1>3, NextEntryFacts, ChangesFacts DEF WorkShape, Below, Pops, Depth
  <2>2. PkgOf[stack[k].port] \notin db
    <3>1. CASE k < Depth
      BY <1>1, <1>3, <3>1 DEF CalledFor, Nested, Loops, Installing
    <3>2. CASE k = Depth
      <4>1. Added \/ Mark => stack'[Depth].phase \in Installing
        <5> SUFFICES ASSUME Added \/ Mark PROVE stack'[Depth].phase \in Installing
          OBVIOUS
        <5>1. PICK phase \in {"added", "marked"} : Goto(phase)
          BY DEF Added, Mark
        <5>2. Goes(phase)
          BY <1>1, <5>1, GotoFacts DEF Phases
        <5> QED
          BY <5>2 DEF Goes, Installing
      <4>2. Leave => Pops
        BY <1>1, PopFacts DEF Leave, Return
      <4>3. Top.phase \in Installing => Added \/ Mark \/ Leave
        BY LoopFacts
        DEF Work, Enter, BuildEntry, RunEntry, Build, Claim, Add, At, Installing
      <4>4. Top.phase \notin Installing
        BY <1>1, <1>3, <3>2, <4>1, <4>2, <4>3 DEF Pops, Depth
      <4> QED
        BY <1>1, <1>3, <3>2, <4>4 DEF CalledFor
    <3> QED
      BY <1>1, <1>3, <3>1, <3>2
  <2>3. CASE Add
    <3>1. Goes("adding") /\ stack'[Depth].phase = "adding" /\ db' = db \cup {PkgOf[Top.port]}
      BY <1>1, <2>3, GotoFacts DEF Add, Goes, Phases
    <3>2. k < Depth
      BY <1>1, <1>3, <3>1 DEF Goes, Depth, Installing
    <3>3. stack[k].port # Top.port
      BY <1>1, <1>3, <3>2, NestedNoReentry DEF NoReentry
    <3>4. stack[k].port \in Ports /\ Top.port \in Ports
      BY <1>1, <1>3, MakeType DEF Frames
    <3>5. PkgOf[stack[k].port] # PkgOf[Top.port]
      BY <3>3, <3>4 DEF WellNamed
    <3> QED
      BY <2>1, <2>2, <3>1, <3>5
  <2>4. CASE ~Add
    <3>1. db' \subseteq db
      BY <2>4, LoopFacts DEF Work, Enter, Build, Claim, Added, Mark, Leave
    <3> QED
      BY <2>1, <2>2, <3>1
  <2> QED
    BY <2>3, <2>4
<1> QED
  BY <1>1, <1>2, <1>3, ChangesFacts
  DEF WorkShape, Pops, Found, Nexts, Called, Pushes, Depth

LEMMA ForcedStep ==
  ASSUME TypeOK, Nested, CalledFor, ForcedNestAddsNothing, Work, ~Fail
  PROVE  ForcedNestAddsNothing'
<1> SUFFICES ASSUME WellNamed, force', NEW k \in 2 .. Depth',
                    stack'[k].phase \in {"rundeps", "add"}
             PROVE  FALSE
  BY DEF ForcedNestAddsNothing, WellNamed
<1>1. /\ Running /\ Depth \in Nat \ {0} /\ Top = stack[Depth] /\ Top \in Frames
      /\ Below /\ WorkShape /\ force
  BY StackStep, BelowStep, TopFacts
  DEF Work, Enter, BuildEntry, RunEntry, Entry, Build, Claim, Add, Added, Mark, Leave, Top
<1>2. \A m \in 2 .. Depth : stack[m].phase \notin {"rundeps", "add"}
  BY <1>1 DEF ForcedNestAddsNothing
<1>3. CASE k < Depth
  BY <1>1, <1>2, <1>3 DEF Below, Depth
<1>4. CASE k = Depth
  <2>1. Top.phase \notin {"rundeps", "add"}
    BY <1>1, <1>2, <1>4
  <2>2. CASE Claim
    <3>1. PkgOf[Top.port] \in db
      BY <1>1, <2>2 DEF Claim
    <3>2. PkgOf[stack[k].port] \notin db
      BY <1>1, <1>4, <2>2 DEF CalledFor, Claim, At, Installing
    <3> QED
      BY <1>1, <1>4, <3>1, <3>2
  <2>3. CASE Found \/ Called
    BY <1>1, <1>4, <2>1, <2>3, NextEntryFacts
  <2>4. CASE Pops
    BY <1>1, <1>4, <2>4 DEF Pops, Depth
  <2>5. CASE BuildEntry /\ Goes("build")
    BY <1>4, <2>5 DEF Goes
  <2>6. CASE (Enter /\ ~Return) \/ Build \/ Added \/ Mark
    <3>1. PICK phase \in {"builddeps", "build", "claim", "added", "marked"} : Goto(phase)
      BY <2>6 DEF Enter, Build, Added, Mark
    <3>2. stack'[k].phase = phase
      BY <1>1, <1>4, <3>1, GotoFacts DEF Phases, Loops, Goes
    <3> QED
      BY <3>2
  <2>7. CASE Return
    BY <1>1, <2>4, <2>7, PopFacts DEF Return
  <2>8. ~RunEntry /\ ~Add
    BY <2>1 DEF RunEntry, Add, At
  <2> QED
    BY <2>2, <2>3, <2>5, <2>6, <2>7, <2>8, LoopFacts DEF Work, BuildEntry, Leave, At
<1>5. CASE k > Depth
  <2>1. CASE Changes \/ Found \/ (Return /\ Pops)
    BY <1>1, <1>5, <2>1, ChangesFacts DEF Found, Nexts, Pops, Depth
  <2>2. CASE Called
    BY <1>1, <1>5, <2>2 DEF Called, Pushes, Depth
  <2> QED
    BY <1>1, <2>1, <2>2 DEF WorkShape
<1> QED
  BY <1>1, <1>3, <1>4, <1>5

LEMMA UnendedStep ==
  ASSUME TypeOK, Unended, Nested, Work, ~Fail
  PROVE  Unended'
<1>1. Running /\ Depth \in Nat \ {0} /\ Top = stack[Depth] /\ Below /\ WorkShape
  BY StackStep, BelowStep, TopFacts DEF Top
<1>2. CASE Return
  <2>1. Pops /\ stack' \in Seq(Frames)
    BY <1>1, <1>2, StackStep, PopFacts DEF Return
  <2>2. CASE Depth = 1
    BY <2>1, <2>2 DEF Pops, Unended, Running
  <2>3. CASE Depth # 1
    <3>1. stack'[1] = stack[1] /\ stack[1].phase \in Loops
      BY <1>1, <2>3 DEF Below, Nested
    <3> QED
      BY <1>1, <1>2, <2>3, <3>1 DEF Return, Unended, Loops
  <2> QED
    BY <2>2, <2>3
<1>3. CASE Changes \/ Found \/ Called
  <2>1. last' = last
    BY <1>3 DEF Changes, Found, Called, Looping
  <2>2. stack'[Depth].phase # "enter"
    <3>1. CASE Changes
      BY <3>1 DEF Changes, Goes
    <3>2. CASE Found \/ Called
      BY <3>2, NextEntryFacts DEF Found, Called, Looping, Loops
    <3> QED
      BY <1>3, <3>1, <3>2
  <2>3. Depth > 1 => stack'[1] = stack[1] /\ stack[1].phase \in Loops
    BY <1>1 DEF Below, Nested
  <2>4. stack'[1].phase # "enter"
    BY <1>1, <2>2, <2>3 DEF Loops
  <2> QED
    BY <1>1, <2>1, <2>4 DEF Unended
<1> QED
  BY <1>1, <1>2, <1>3 DEF WorkShape

\* pkgrm by hand, at any time
LEMMA PkgRmStep ==
  ASSUME TypeOK, IInv, NEW p \in Touchable, PkgRm(p)
  PROVE  IInv'
<1> DEFINE g == PkgOf[p]
<1>1. /\ db' = db \ {g} /\ (Running => taken' = taken \cup {g})
      /\ UNCHANGED <<work, marked, stack, force, last, base, stood>>
  BY DEF PkgRm
<1>2. TypeOK'
  BY TypeStep DEF Next
<1>3. Unended' /\ Nested' /\ CalledFor' /\ ForcedNestAddsNothing' /\ AddedInstalled'
  BY <1>1
  DEF IInv, AddedInstalled, Top, Unended, Running, Nested, CalledFor, ForcedNestAddsNothing, Depth
<1>4. CASE ~Running
  BY <1>1, <1>2, <1>4, IdleFacts DEF IInv, Running
<1>5. CASE Running
  <2>1. taken' = taken \cup {g}
    BY <1>1, <1>5
  <2>2. RemovedIsInHand' /\ MarkedInstalled'
    BY <1>1, <2>1 DEF IInv, RemovedIsInHand, MarkedInstalled, Running, InHand, Depth
  <2>3. \A e : e.pkg \in db \/ Excused(e) => e.pkg \in db' \/ Excused(e)'
    BY <1>1, <2>1 DEF Excused
  <2>4. DependsInstalled'
    BY <1>1, <2>3 DEF IInv, DependsInstalled, Excused, At, Top, Depth, Running
  <2>5. LoopsDone'
    <3>1. \A k, e : Settled(k, e) => Settled(k, e)'
      BY <1>1, <2>3 DEF Settled, InHand, Depth
    <3> QED
      BY <1>1, <3>1 DEF IInv, LoopsDone, LoopDeps, Depth
  <2> QED
    BY <1>2, <1>3, <2>2, <2>4, <2>5 DEF IInv
<1> QED
  BY <1>4, <1>5

LEMMA Starts ==
  ASSUME TypeOK, NEW p \in Goals, NEW f \in BOOLEAN, InstPkg(p, f)
  PROVE  IInv'
<1>1. /\ stack' = <<[port |-> p, phase |-> "enter", i |-> 1]>>
      /\ base' = db /\ stood' = marked /\ db' = db /\ marked' = marked /\ last' = "none"
  BY DEF InstPkg, Frame
<1>2. TypeOK'
  BY TypeStep DEF Next
<1>3. Depth' = 1 /\ stack'[1].phase = "enter" /\ Top' = stack'[1]
  BY <1>1 DEF Depth, Top
<1>4. Nested' /\ LoopsDone' /\ CalledFor' /\ ForcedNestAddsNothing'
  BY <1>3 DEF Nested, LoopsDone, CalledFor, ForcedNestAddsNothing, Loops
<1>5. DependsInstalled'
  BY <1>3 DEF DependsInstalled, At
<1>6. Unended' /\ RemovedIsInHand' /\ AddedInstalled' /\ MarkedInstalled'
  BY <1>1, <1>3 DEF Unended, AddedInstalled, Installing, RemovedIsInHand, MarkedInstalled
<1> QED
  BY <1>2, <1>4, <1>5, <1>6 DEF IInv

LEMMA InvInit == Init => IInv
<1> SUFFICES ASSUME Init PROVE IInv
  OBVIOUS
<1>1. stack = <<>> /\ Depth = 0
  BY DEF Init, Depth
<1> QED
  BY <1>1, InitType
  DEF IInv, Unended, Nested, RemovedIsInHand, AddedInstalled, MarkedInstalled,
      LoopsDone, DependsInstalled,
      CalledFor, ForcedNestAddsNothing, Running, At

LEMMA InvStep == IInv /\ [Next]_vars => IInv'
<1> SUFFICES ASSUME IInv, [Next]_vars PROVE IInv'
  OBVIOUS
<1>1. TypeOK /\ TypeOK'
  BY TypeStep DEF IInv
<1>2. CASE stack' = <<>>
  BY <1>1, <1>2, IdleFacts DEF IInv
<1>3. CASE Work /\ ~Fail
  BY <1>1, <1>3, UnendedStep, NestedStep, RemovedStep, AddedStep, MarkedStep, LoopsStep, DependsStep,
     CalledForStep, ForcedStep DEF IInv
<1>4. CASE \E p \in Goals, f \in BOOLEAN : InstPkg(p, f)
  BY <1>1, <1>4, Starts
<1>5. CASE \E p \in Touchable : PkgRm(p)
  BY <1>1, <1>5, PkgRmStep
<1>6. CASE UNCHANGED vars
  BY <1>6
  DEF IInv, TypeOK, Unended, Nested, RemovedIsInHand, AddedInstalled, MarkedInstalled,
      LoopsDone, Settled,
      LoopDeps, DependsInstalled, CalledFor, ForcedNestAddsNothing, Excused, InHand,
      At, Top, Depth, Running, vars, history
<1> QED
  BY <1>2, <1>3, <1>4, <1>5, <1>6 DEF Next, Abort, Fail, Clean, Running

\* Every state keeps the inductive invariant.
THEOREM Inductive == Spec => []IInv
<1> QED
  BY InvInit, InvStep, PTL DEF Spec

\* The variables keep their types.
THEOREM TypeCorrect == Spec => []TypeOK
<1>1. IInv => TypeOK
  BY DEF IInv
<1> QED
  BY <1>1, Inductive, PTL

\* Whatever the ports and their entries, as long as they have no cycle: no two
\* makes of a nest work in one work directory (port.mk 902-954).
THEOREM NeverReentered == Spec => []NoReentry
<1>1. IInv => NoReentry
  BY NestedNoReentry DEF IInv
<1> QED
  BY <1>1, Inductive, PTL

\* No port is unpacked, and no package added, before the dependencies of its
\* loops are installed or excused (port.mk 585-596, 664-682).
THEOREM DependsAlwaysInstalled == Spec => []DependsInstalled
<1>1. IInv => DependsInstalled
  BY DEF IInv
<1> QED
  BY <1>1, Inductive, PTL

\* With well-named entries the check of real-instpkg stops only the port the
\* operator named (port.mk 668).
THEOREM DependencyNeverBlocked == Spec => []DependencyNotBlocked
<1>1. IInv => DependencyNotBlocked
  <2> SUFFICES ASSUME IInv, WellNamed, At("claim"), Depth > 1
               PROVE  PkgOf[Top.port] \notin db
    BY DEF DependencyNotBlocked
  <2>1. Depth \in 2 .. Depth
    BY TopFacts DEF IInv, At
  <2> QED
    BY <2>1 DEF IInv, CalledFor, Top, At, Installing
<1> QED
  BY <1>1, Inductive, PTL

\* With well-named entries a forced session never adds a missing dependency.
THEOREM ForcedNestNeverAdds == Spec => []ForcedNestAddsNothing
<1>1. IInv => ForcedNestAddsNothing
  BY DEF IInv
<1> QED
  BY <1>1, Inductive, PTL

\* A session that ends well has installed its package, and lost none but by the
\* hand of the operator (port.mk 664-682).
THEOREM SuccessAlwaysKeeps == Spec => SuccessKeeps
<1> DEFINE Kept == Running /\ last' = "ok" =>
                     /\ \/ PkgOf[stack[1].port] \in db' \cup taken
                        \/ stack[1].port \in Ignored \cup stood
                     /\ base \subseteq db' \cup taken
<1>1. IInv /\ Next => Kept
  <2> SUFFICES ASSUME IInv, Next, Running, last' = "ok"
               PROVE  /\ \/ PkgOf[stack[1].port] \in db' \cup taken
                         \/ stack[1].port \in Ignored \cup stood
                      /\ base \subseteq db' \cup taken
    OBVIOUS
  <2>1. TypeOK /\ TypeOK' /\ last = "none" /\ Depth \in Nat \ {0}
    BY TypeStep, TopFacts DEF IInv, Unended
  <2>2. Work /\ ~Fail /\ stack' \in Seq(Frames) /\ WorkShape
    BY <2>1, StackStep DEF Next, Abort, Fail, InstPkg, Clean, PkgRm
  <2>3. Return /\ Depth = 1 /\ (Enter \/ Leave)
    BY <2>1, <2>2, LoopFacts
    DEF WorkShape, Changes, Found, Called, Looping, Return, Work, Build, Claim, Add, Added,
        Mark
  <2>4. Pops
    BY <2>1, <2>3, PopFacts DEF Return
  <2>5. stack' = <<>>
    BY <2>2, <2>3, <2>4 DEF Pops
  <2>6. base \subseteq db' \cup taken
    <3>1. \A g \in base : g \in db \cup taken \/ InHand(1, g)
      BY <2>3 DEF IInv, RemovedIsInHand
    <3>2. \A g : InHand(1, g) => g \in db'
      BY <2>1, <2>2, <2>3, <2>5, HandStep DEF InHand, Depth
    <3>3. db \subseteq db'
      BY <2>3 DEF Enter, Leave
    <3> QED
      BY <3>1, <3>2, <3>3
  <2>7. Top = stack[1]
    BY <2>3 DEF Top
  <2>8. Leave => PkgOf[stack[1].port] \in db' \cup taken
    BY <2>7 DEF Leave, At, IInv, AddedInstalled, Installing
  <2>9. ASSUME Enter PROVE stack[1].port \in Ignored \cup stood
    <3>1. Top.phase = "enter" /\ marked = stood
      BY <2>7, <2>9 DEF Enter, At, IInv, Unended
    <3>2. ASSUME NEW phase \in Phases, Goto(phase) PROVE FALSE
      BY <2>1, <2>3, <2>4, <3>2, GotoFacts DEF Goes, Pops
    <3>3. Top.port \in Ignored \cup marked
      BY <2>9, <3>2 DEF Enter, Phases, Loops
    <3> QED
      BY <2>7, <3>1, <3>3
  <2> QED
    BY <2>3, <2>6, <2>8, <2>9
<1>2. IInv /\ [Next]_vars => [Kept]_vars
  BY <1>1
<1> QED
  BY <1>2, Inductive, PTL DEF Spec, SuccessKeeps
=============================================================================
