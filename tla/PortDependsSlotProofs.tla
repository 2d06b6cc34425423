------------------------ MODULE PortDependsSlotProofs ------------------------
(***************************************************************************)
(* Each port of a nest of makes implements PortSlot, for any acyclic set of  *)
(* ports: seen from one port, a step of the nest is a step of its own make,  *)
(* or of the operator, or nothing.  PortBuild implements PortSlot, too, so   *)
(* that the two agree on what a port does to the others.                     *)
(***************************************************************************)
EXTENDS PortDependsProofs

\* What a make is about to add is not there.
ClaimedMissing ==
  \A k \in 1 .. Depth :
    stack[k].phase \in {"rundeps", "add"} /\ Own(stack[k].port) =>
      PkgOf[stack[k].port] \notin db
SlotInv == IInv /\ ClaimedMissing

\* The phase of PortSlot a phase of the make belongs to
SlotOf(phase) ==
  CASE phase \in {"builddeps", "build", "claim"} -> "stages"
    [] phase \in {"rundeps", "add"} -> "claimed"
    [] phase = "adding" -> "adding"
    [] phase = "added" -> "added"
    [] phase = "marked" -> "marked"
    [] OTHER -> "idle"
-----------------------------------------------------------------------------
(* The phase of a port.                                                    *)

\* There is one make of a port at most, and its phase is that of the port.
SlotsAsMakes ==
  \A p \in Ports : \A k \in 1 .. Depth :
    stack[k].port = p => SlotPhase(p) = SlotOf(stack[k].phase)
SlotsIdle ==
  \A p : (\A k \in 1 .. Depth : stack[k].port # p) => SlotPhase(p) = "idle"

LEMMA SlotsAre == TypeOK /\ Nested => SlotsAsMakes
<1> SUFFICES ASSUME TypeOK, Nested, NEW p \in Ports,
                    NEW k \in 1 .. Depth, stack[k].port = p
             PROVE  SlotPhase(p) = SlotOf(stack[k].phase)
  BY DEF SlotsAsMakes
<1>1. \A m \in 1 .. Depth : stack[m].port = p => m = k
  BY NestedNoReentry DEF NoReentry
<1>2. \A phases : In(p, phases) <=> stack[k].phase \in phases
  BY <1>1 DEF In
<1> QED
  BY <1>2 DEF SlotPhase, SlotOf

LEMMA SlotsOut == SlotsIdle
<1> SUFFICES ASSUME NEW p, \A k \in 1 .. Depth : stack[k].port # p
             PROVE  SlotPhase(p) = "idle"
  BY DEF SlotsIdle
<1>1. \A phases : ~In(p, phases)
  BY DEF In
<1> QED
  BY <1>1 DEF SlotPhase

\* What the phases of the ports are before a step, and after it
LEMMA SlotsThen ==
  /\ SlotsIdle /\ SlotsIdle'
  /\ TypeOK /\ Nested => SlotsAsMakes
  /\ TypeOK' /\ Nested' => SlotsAsMakes'
BY SlotsAre, SlotsOut, PTL

\* Only the top is beyond its loops.
LEMMA InstallingTop ==
  ASSUME TypeOK, Nested, NEW p \in Ports, SlotPhase(p) \in Installing
  PROVE  Running /\ Top.port = p /\ Top.phase = SlotPhase(p)
<1>1. PICK k \in 1 .. Depth : stack[k].port = p
  BY SlotsThen DEF SlotsIdle, Installing
<1>2. SlotPhase(p) = SlotOf(stack[k].phase)
  BY <1>1, SlotsThen DEF SlotsAsMakes
<1>3. stack[k].phase = SlotPhase(p) /\ stack[k].phase \notin Loops
  BY <1>2 DEF SlotOf, Installing, Loops
<1>4. Depth \in Nat
  BY DEF TypeOK, Depth
<1>5. k = Depth
  BY <1>3, <1>4 DEF Nested
<1> QED
  BY <1>1, <1>3, <1>5 DEF Top, Running, Depth
-----------------------------------------------------------------------------
(* What a step of the make on top is to its own port, and to the others.     *)

LEMMA TopSlot ==
  ASSUME TypeOK, Nested, Running, NEW p \in Ports, Top.port = p
  PROVE  SlotPhase(p) = SlotOf(Top.phase)
<1>1. Depth \in 1 .. Depth /\ Top = stack[Depth]
  BY TopFacts DEF Top
<1> QED
  BY <1>1, SlotsThen DEF SlotsAsMakes

LEMMA OwnGoes ==
  ASSUME TypeOK, TypeOK', Nested', Running, NEW p \in Ports, Top.port = p,
         NEW phase, Goes(phase)
  PROVE  SlotPhase(p)' = SlotOf(phase)
<1>1. Depth' = Depth /\ stack'[Depth].port = p /\ stack'[Depth].phase = phase
  BY DEF Goes, Depth
<1>2. Depth \in 1 .. Depth'
  BY <1>1, TopFacts
<1> QED
  BY <1>1, <1>2, SlotsThen DEF SlotsAsMakes

LEMMA OwnPops ==
  ASSUME TypeOK, Nested, Running, NEW p \in Ports, Top.port = p, Pops
  PROVE  SlotPhase(p)' = "idle"
<1>1. Depth \in Nat \ {0} /\ Top = stack[Depth] /\ Depth' = Depth - 1
  BY TopFacts DEF Top, Pops, Depth
<1>2. \A k \in 1 .. Depth' : stack'[k].port # p
  BY <1>1, NestedNoReentry DEF NoReentry, Pops, Below
<1> QED
  BY <1>2, SlotsThen DEF SlotsIdle

\* The loop of a make goes on within its phase.
LEMMA OwnLoops ==
  ASSUME TypeOK, TypeOK', Nested, Nested', Running, NEW p \in Ports, Top.port = p,
         Found \/ Called
  PROVE  SlotPhase(p)' = SlotPhase(p)
<1>1. SlotPhase(p) = SlotOf(Top.phase)
  BY TopSlot
<1>2. stack'[Depth].port = p /\ stack'[Depth].phase = Top.phase
  BY NextEntryFacts
<1>3. Depth \in 1 .. Depth'
  BY TopFacts DEF Found, Called, Nexts, Pushes, Depth
<1> QED
  BY <1>1, <1>2, <1>3, SlotsThen DEF SlotsAsMakes

\* A port whose make is not on top stays in its phase.
LEMMA OtherStays ==
  ASSUME TypeOK, TypeOK', Nested, Nested', Work, ~Fail,
         NEW p \in Ports, Top.port # p
  PROVE  SlotPhase(p)' = SlotPhase(p)
<1>1. /\ Running /\ Depth \in Nat \ {0} /\ Top = stack[Depth] /\ Below /\ WorkShape
      /\ Depth' \in {Depth - 1, Depth, Depth + 1}
  BY StackStep, BelowStep, TopFacts DEF Top, Depth
<1>2. CASE \E k \in 1 .. Depth : stack[k].port = p
  <2>1. PICK k \in 1 .. Depth : stack[k].port = p
    BY <1>2
  <2>2. k \in 1 .. Depth - 1
    BY <1>1, <2>1
  <2>3. k \in 1 .. Depth' /\ stack'[k] = stack[k]
    BY <1>1, <2>2 DEF Below
  <2> QED
    BY <2>1, <2>3, SlotsThen DEF SlotsAsMakes
<1>3. CASE \A k \in 1 .. Depth : stack[k].port # p
  <2>1. SlotPhase(p) = "idle"
    BY <1>3, SlotsThen DEF SlotsIdle
  <2>2. CASE \A k \in 1 .. Depth' : stack'[k].port # p
    BY <2>1, <2>2, SlotsThen DEF SlotsIdle
  <2>3. CASE \E k \in 1 .. Depth' : stack'[k].port = p
    <3>1. PICK k \in 1 .. Depth' : stack'[k].port = p
      BY <2>3
    <3>2. k \notin 1 .. Depth - 1
      BY <1>1, <1>3, <3>1 DEF Below
    <3>3. k # Depth
      BY <1>1, <1>3, <3>1, NextEntryFacts, ChangesFacts DEF WorkShape, Pops, Depth
    <3>4. k = Depth + 1 /\ Depth' = Depth + 1
      BY <1>1, <3>2, <3>3
    <3>5. Called
      BY <1>1, <3>4, ChangesFacts DEF WorkShape, Pops, Found, Nexts, Depth
    <3>6. stack'[k].phase = "enter"
      BY <3>4, <3>5 DEF Called, Pushes
    <3> QED
      BY <2>1, <3>1, <3>6, SlotsThen DEF SlotsAsMakes, SlotOf
  <2> QED
    BY <2>2, <2>3
<1> QED
  BY <1>2, <1>3
-----------------------------------------------------------------------------
(* Each step of the nest is a step of the port, or nothing.                 *)

SlotStep(p) == [Slot(p)!Next]_(Slot(p)!vars)

\* Nothing happens to the port.
SlotRests(p) ==
  /\ SlotPhase(p)' = SlotPhase(p)
  /\ (PkgOf[p] \in db') = (PkgOf[p] \in db) /\ (p \in marked') = (p \in marked)
  /\ SlotPhase(p) # "idle" => force' = force

LEMMA RestsStep ==
  ASSUME NEW p \in Ports, SlotRests(p)
  PROVE  SlotStep(p)
<1>1. (force /\ SlotPhase(p) # "idle")' = (force /\ SlotPhase(p) # "idle")
  BY DEF SlotRests
<1> QED
  BY <1>1 DEF SlotRests, SlotStep, Slot!vars

\* Its make ends, and takes at most the cookie away.
SlotLeaves(p) ==
  /\ SlotPhase(p) # "idle" /\ SlotPhase(p)' = "idle"
  /\ (PkgOf[p] \in db') = (PkgOf[p] \in db)
  /\ ((p \in marked') = (p \in marked)) \/ p \notin marked'

LEMMA LeavesStep ==
  ASSUME NEW p \in Ports, SlotLeaves(p)
  PROVE  SlotStep(p)
<1>1. (force /\ SlotPhase(p) # "idle")' = FALSE
  BY DEF SlotLeaves
<1>2. \/ (p \in marked)' = (p \in marked)
      \/ (p \in marked)' = FALSE
  BY DEF SlotLeaves
<1>3. (p \in marked)' \in {(p \in marked), FALSE}
  BY <1>2, Zenon
<1>4. (PkgOf[p] \in db)' = (PkgOf[p] \in db)
  BY DEF SlotLeaves
<1>5. Slot(p)!Leave
  BY <1>1, <1>3, <1>4, Zenon DEF SlotLeaves, Slot!Leave
<1> QED
  BY <1>5 DEF SlotStep, Slot!Next

\* The steps of other makes, and of its own loops
LEMMA OtherRests ==
  ASSUME IInv, IInv', Work, ~Fail, NEW p \in Ports, Own(p), Top.port # p
  PROVE  SlotRests(p)
<1> TypeOK /\ TypeOK' /\ Nested /\ Nested'
  BY DEF IInv
<1>1. SlotPhase(p)' = SlotPhase(p)
  BY OtherStays
<1>2. Running /\ Top.port \in Ports /\ PkgOf[Top.port] # PkgOf[p]
  BY StackStep, TopFacts DEF Frames, Own
<1>3. \/ UNCHANGED <<db, marked>>
      \/ db' = db \ {PkgOf[Top.port]} /\ UNCHANGED marked
      \/ db' = db \cup {PkgOf[Top.port]} /\ UNCHANGED marked
      \/ marked' = marked \cup {Top.port} /\ UNCHANGED db
  BY DEF Work, Enter, BuildEntry, RunEntry, Entry, Build, Claim, Add, Added, Mark, Leave
<1>4. force' = force
  BY DEF Work, Enter, BuildEntry, RunEntry, Entry, Build, Claim, Add, Added, Mark, Leave
<1>5. (PkgOf[p] \in db') = (PkgOf[p] \in db) /\ (p \in marked') = (p \in marked)
  BY <1>2, <1>3
<1> QED
  BY <1>1, <1>4, <1>5 DEF SlotRests

\* The steps of the make of the port itself
LEMMA OwnStep ==
  ASSUME SlotInv, IInv', Work, ~Fail, NEW p \in Ports, Own(p), Top.port = p
  PROVE  SlotStep(p)
<1> TypeOK /\ TypeOK' /\ Nested /\ Nested' /\ Running
  BY StackStep DEF SlotInv, IInv
<1>1. SlotPhase(p) = SlotOf(Top.phase)
  BY TopSlot
<1>2. ASSUME NEW phase \in Phases, Goto(phase)
      PROVE  SlotPhase(p)' = SlotOf(phase)
  BY <1>2, GotoFacts, OwnGoes
<1>3. ASSUME Return PROVE SlotPhase(p)' = "idle"
  BY <1>3, PopFacts, OwnPops DEF Return
<1>4. CASE Enter
  <2>1. SlotPhase(p) = "idle" /\ UNCHANGED <<db, marked, force>>
    BY <1>1, <1>4 DEF Enter, At, SlotOf
  <2>2. CASE Return
    BY <1>3, <2>1, <2>2, RestsStep DEF SlotRests
  <2>3. CASE p \notin marked /\ ~Return
    <3>1. PICK phase \in {"builddeps", "build", "claim"} : Goto(phase)
      BY <1>4, <2>3 DEF Enter
    <3>2. SlotPhase(p)' = "stages"
      BY <1>2, <3>1 DEF Phases, Loops, SlotOf
    <3>3. Slot(p)!Enter
      BY <2>1, <2>3, <3>2 DEF Slot!Enter, TypeOK
    <3> QED
      BY <3>3 DEF SlotStep, Slot!Next
  <2> QED
    BY <1>4, <2>2, <2>3 DEF Enter
<1>5. CASE BuildEntry \/ RunEntry
  <2>1. UNCHANGED <<db, marked, force>>
    BY <1>5, LoopFacts
  <2>2. CASE Found \/ Called
    BY <2>1, <2>2, OwnLoops, RestsStep DEF SlotRests
  <2>3. CASE Goes(IF Top.phase = "builddeps" THEN "build" ELSE "add")
    <3>1. SlotPhase(p)' = SlotPhase(p)
      BY <1>1, <1>5, <2>3, OwnGoes DEF BuildEntry, RunEntry, At, SlotOf
    <3> QED
      BY <2>1, <3>1, RestsStep DEF SlotRests
  <2> QED
    BY <1>5, <2>2, <2>3, LoopFacts
<1>6. CASE Build
  <2>1. Goto("claim") /\ UNCHANGED <<db, marked, force>> /\ Top.phase = "build"
    BY <1>6 DEF Build, At
  <2>2. SlotPhase(p)' = SlotPhase(p)
    BY <1>1, <1>2, <2>1 DEF Phases, SlotOf
  <2> QED
    BY <2>1, <2>2, RestsStep DEF SlotRests
<1>7. CASE Claim
  <2>1. /\ Goto("rundeps") /\ UNCHANGED <<marked, force>> /\ Top.phase = "claim"
        /\ force = (PkgOf[p] \in db) /\ db' = db \ {PkgOf[p]}
    BY <1>7 DEF Claim, At
  <2>2. SlotPhase(p) = "stages" /\ SlotPhase(p)' = "claimed"
    BY <1>1, <1>2, <2>1 DEF Phases, Loops, SlotOf
  <2>3. /\ (PkgOf[p] \in db) = (force /\ SlotPhase(p) # "idle")
        /\ (force /\ SlotPhase(p) # "idle")' = (force /\ SlotPhase(p) # "idle")
    BY <2>1, <2>2 DEF TypeOK
  <2>4. (PkgOf[p] \in db)' = FALSE
    BY <2>1
  <2>5. Slot(p)!Claim
    BY <2>1, <2>2, <2>3, <2>4 DEF Slot!Claim
  <2> QED
    BY <2>5 DEF SlotStep, Slot!Next
<1>8. CASE Add
  <2>1. /\ Goto("adding") /\ UNCHANGED <<marked, force>> /\ Top.phase = "add"
        /\ db' = db \cup {PkgOf[p]}
    BY <1>8 DEF Add, At
  <2>2. SlotPhase(p) = "claimed" /\ SlotPhase(p)' = "adding"
    BY <1>1, <1>2, <2>1 DEF Phases, SlotOf
  <2>3. PkgOf[p] \notin db
    BY <2>1, TopFacts DEF SlotInv, ClaimedMissing, Top
  <2>4. Slot(p)!Add
    BY <2>1, <2>2, <2>3 DEF Slot!Add
  <2> QED
    BY <2>4 DEF SlotStep, Slot!Next
<1>9. CASE Added
  <2>1. Goto("added") /\ UNCHANGED <<db, marked, force>> /\ Top.phase = "adding"
    BY <1>9 DEF Added, At
  <2>2. SlotPhase(p) = "adding" /\ SlotPhase(p)' = "added"
    BY <1>1, <1>2, <2>1 DEF Phases, SlotOf
  <2>3. Slot(p)!Added
    BY <2>1, <2>2 DEF Slot!Added
  <2> QED
    BY <2>3 DEF SlotStep, Slot!Next
<1>10. CASE Mark
  <2>1. /\ Goto("marked") /\ UNCHANGED <<db, force>> /\ Top.phase = "added"
        /\ marked' = marked \cup {p}
    BY <1>10 DEF Mark, At
  <2>2. SlotPhase(p) = "added" /\ SlotPhase(p)' = "marked"
    BY <1>1, <1>2, <2>1 DEF Phases, SlotOf
  <2>3. Slot(p)!Mark
    BY <2>1, <2>2 DEF Slot!Mark
  <2> QED
    BY <2>3 DEF SlotStep, Slot!Next
<1>11. CASE Leave
  <2>1. UNCHANGED <<db, marked>> /\ SlotPhase(p) = "marked" /\ SlotPhase(p)' = "idle"
    BY <1>1, <1>3, <1>11 DEF Leave, At, SlotOf
  <2> QED
    BY <2>1, LeavesStep DEF SlotLeaves
<1> QED
  BY <1>4, <1>5, <1>6, <1>7, <1>8, <1>9, <1>10, <1>11 DEF Work

\* A failure or ^C ends all makes at once: each port is left, or was not made.
LEMMA FailStep ==
  ASSUME IInv, (Work /\ Fail) \/ Abort, NEW p \in Ports
  PROVE  SlotStep(p)
<1> TypeOK /\ Nested
  BY DEF IInv
<1>1. /\ Running /\ last = "none" /\ last' = "failed" /\ stack' = <<>>
  BY StackStep DEF IInv, Unended, Abort, Fail
<1>2. SlotPhase(p)' = "idle"
  BY <1>1, SlotsThen DEF SlotsIdle, Depth
<1>3. db' = db /\ force' = force
  BY <1>1, LoopFacts DEF Work, Abort, Enter, Return, Build, Claim, Add, Added, Mark, Leave
<1>4. marked' = marked \/ (At("marked") /\ marked' = marked \ {Top.port})
  BY <1>1, LoopFacts DEF Work, Abort, Enter, Return, Build, Claim, Add, Added, Mark, Leave
<1>5. CASE SlotPhase(p) # "idle"
  BY <1>2, <1>3, <1>4, <1>5, LeavesStep DEF SlotLeaves
<1>6. CASE SlotPhase(p) = "idle"
  <2>1. At("marked") => Top.port # p
    BY <1>6, TopSlot DEF At, SlotOf
  <2>2. (p \in marked') = (p \in marked)
    BY <1>4, <2>1
  <2> QED
    BY <1>2, <1>3, <1>6, <2>2, RestsStep DEF SlotRests
<1> QED
  BY <1>5, <1>6

\* The operator
LEMMA OperatorStep ==
  ASSUME IInv, NEW p \in Ports, Own(p),
         \/ \E q \in Goals, f \in BOOLEAN : InstPkg(q, f)
         \/ \E q \in Touchable : Clean(q) \/ PkgRm(q)
  PROVE  SlotStep(p)
<1> TypeOK /\ Nested
  BY DEF IInv
<1>1. CASE \E q \in Goals, f \in BOOLEAN : InstPkg(q, f)
  <2>1. PICK q \in Goals, f \in BOOLEAN : InstPkg(q, f)
    BY <1>1
  <2>2. SlotPhase(p) = "idle"
    BY <2>1, SlotsThen DEF InstPkg, Running, SlotsIdle, Depth
  <2>3. Depth' = 1 /\ stack'[1].phase = "enter" /\ UNCHANGED <<db, marked>>
    BY <2>1 DEF InstPkg, Frame, Depth
  <2>4. SlotPhase(p)' = "idle"
    <3>1. TypeOK' /\ Nested'
      BY <2>1, Starts DEF IInv
    <3>2. CASE stack'[1].port = p
      BY <2>3, <3>1, <3>2, SlotsThen DEF SlotsAsMakes, SlotOf
    <3>3. CASE stack'[1].port # p
      BY <2>3, <3>3, SlotsThen DEF SlotsIdle
    <3> QED
      BY <3>2, <3>3
  <2> QED
    BY <2>2, <2>3, <2>4, RestsStep DEF SlotRests
<1>2. ASSUME NEW q \in Touchable, Clean(q) PROVE SlotStep(p)
  <2>1. SlotPhase(p) = "idle"
    BY <1>2, SlotsThen DEF Clean, Running, SlotsIdle, Depth
  <2>2. stack' = stack /\ UNCHANGED <<db, force>> /\ marked' = marked \ {q}
    BY <1>2 DEF Clean
  <2>3. SlotPhase(p)' = "idle"
    BY <1>2, <2>2, SlotsThen DEF Clean, Running, SlotsIdle, Depth
  <2>4. CASE p # q
    BY <2>1, <2>2, <2>3, <2>4, RestsStep DEF SlotRests
  <2>5. CASE p = q
    <3>1. Slot(p)!Clean
      BY <2>1, <2>2, <2>3, <2>5 DEF Slot!Clean
    <3> QED
      BY <3>1 DEF SlotStep, Slot!Next
  <2> QED
    BY <2>4, <2>5
<1>3. ASSUME NEW q \in Touchable, PkgRm(q) PROVE SlotStep(p)
  <2>1. q \in Ports
    BY PortsAssumption
  <2>2. /\ stack' = stack /\ UNCHANGED <<marked, force>>
        /\ db' = db \ {PkgOf[q]} /\ PkgOf[q] \in db
    BY <1>3 DEF PkgRm
  <2>3. SlotPhase(p)' = SlotPhase(p)
    BY <2>2 DEF SlotPhase, In, Depth
  <2>4. CASE p # q
    <3>1. PkgOf[p] # PkgOf[q]
      BY <2>1, <2>4 DEF Own
    <3> QED
      BY <2>2, <2>3, <3>1, RestsStep DEF SlotRests
  <2>5. CASE p = q
    <3>1. SlotPhase(p) # "adding"
      BY <1>3, InstallingTop DEF PkgRm, At, Installing
    <3>2. Slot(p)!PkgRm
      BY <2>2, <2>3, <2>5, <3>1 DEF Slot!PkgRm
    <3> QED
      BY <3>2 DEF SlotStep, Slot!Next
  <2> QED
    BY <2>4, <2>5
<1> QED
  BY <1>1, <1>2, <1>3

LEMMA SlotKept ==
  ASSUME SlotInv, [Next]_vars, NEW p \in Ports, Own(p)
  PROVE  SlotStep(p)
<1>1. IInv /\ IInv'
  BY InvStep DEF SlotInv
<1>2. CASE UNCHANGED vars
  <2>1. SlotPhase(p)' = SlotPhase(p)
    BY <1>2 DEF vars, SlotPhase, In, Depth
  <2> QED
    BY <1>2, <2>1, RestsStep DEF vars, SlotRests
<1>3. CASE Work /\ ~Fail
  BY <1>1, <1>3, OwnStep, OtherRests, RestsStep
<1> QED
  BY <1>1, <1>2, <1>3, FailStep, OperatorStep DEF Next
-----------------------------------------------------------------------------
(* The theorems.                                                           *)

\* The package a make is about to add stays away: only the make itself adds it.
LEMMA MissingKept ==
  ASSUME SlotInv, [Next]_vars
  PROVE  ClaimedMissing'
<1>1. IInv /\ IInv' /\ TypeOK /\ TypeOK' /\ Nested /\ Nested'
  BY InvStep DEF SlotInv, IInv
<1> SUFFICES ASSUME NEW k \in 1 .. Depth', stack'[k].phase \in {"rundeps", "add"},
                    Own(stack'[k].port)
             PROVE  PkgOf[stack'[k].port] \notin db'
  BY DEF ClaimedMissing
<1>2. CASE UNCHANGED <<stack, db>>
  BY <1>2 DEF SlotInv, ClaimedMissing, Depth
<1>3. CASE Work /\ ~Fail
  <2>1. /\ Running /\ Depth \in Nat \ {0} /\ Top = stack[Depth] /\ Below /\ WorkShape
        /\ Depth' \in {Depth - 1, Depth, Depth + 1} /\ Depth' = Len(stack')
    BY <1>1, <1>3, StackStep, BelowStep, TopFacts DEF Top, Depth
  <2>2. CASE k \in 1 .. Depth - 1
    <3>1. stack'[k] = stack[k] /\ k \in 1 .. Depth /\ k # Depth
      BY <2>1, <2>2 DEF Below
    <3>2. PkgOf[stack[k].port] \notin db
      BY <3>1 DEF SlotInv, ClaimedMissing
    <3>3. stack[k].port # Top.port /\ Top.port \in Ports
      BY <1>1, <2>1, <3>1, NestedNoReentry, TopFacts DEF NoReentry, Frames
    <3>4. PkgOf[Top.port] # PkgOf[stack[k].port]
      BY <3>1, <3>3 DEF Own
    <3>5. db' \subseteq db \cup {PkgOf[Top.port]}
      BY <1>3, LoopFacts, <1>1 DEF Work, Enter, Build, Claim, Add, Added, Mark, Leave
    <3> QED
      BY <3>1, <3>2, <3>4, <3>5
  <2>3. CASE k = Depth + 1
    <3>1. Called
      BY <2>1, <2>3, <1>3, ChangesFacts DEF WorkShape, Pops, Found, Nexts
    <3> QED
      BY <2>3, <3>1 DEF Called, Pushes
  <2>4. CASE k = Depth /\ Depth' >= Depth
    <3>1. ASSUME NEW phase \in Phases, Goto(phase)
          PROVE  stack'[k].port = Top.port /\ stack'[k].phase = phase
      <4>1. Goes(phase)
        BY <1>1, <2>1, <3>1, GotoFacts
      <4>2. stack'[Depth] = [port |-> Top.port, phase |-> phase, i |-> 1]
        BY <4>1 DEF Goes
      <4> QED
        BY <2>4, <4>2
    <3>2. ~Return
      BY <1>1, <2>1, <2>4, PopFacts DEF Return, Pops
    <3>3. PkgOf[Top.port] \notin db \/ Top.phase \notin {"rundeps", "add"} \/ ~Own(Top.port)
      BY <2>1 DEF SlotInv, ClaimedMissing
    <3>4. CASE BuildEntry \/ RunEntry
      <4>1. UNCHANGED db /\ (Found \/ Called \/ Goes("build") \/ (RunEntry /\ Goes("add")))
        BY <1>1, <3>4, LoopFacts DEF BuildEntry, RunEntry, At
      <4>2. CASE Found \/ Called
        BY <2>4, <3>3, <4>1, <4>2, NextEntryFacts
      <4>3. CASE Goes("build") \/ (RunEntry /\ Goes("add"))
        BY <2>4, <3>3, <4>1, <4>3 DEF Goes, RunEntry, At
      <4> QED
        BY <4>1, <4>2, <4>3
    <3>5. CASE Claim
      <4>1. db' = db \ {PkgOf[Top.port]} /\ Goto("rundeps")
        BY <1>3, <3>5 DEF Claim
      <4>2. stack'[k].port = Top.port
        BY <3>1, <4>1 DEF Phases, Loops
      <4> QED
        BY <4>1, <4>2
    <3>6. CASE Enter \/ Build \/ Add \/ Added \/ Mark
      <4>1. PICK phase \in Phases \ {"rundeps", "add"} : Goto(phase)
        BY <1>3, <3>2, <3>6 DEF Enter, Build, Add, Added, Mark, Phases, Loops
      <4> QED
        BY <3>1, <4>1
    <3> QED
      BY <1>3, <3>2, <3>4, <3>5, <3>6 DEF Work, Leave
  <2> QED
    BY <2>1, <2>2, <2>3, <2>4
<1>4. CASE stack' = <<>>
  BY <1>4 DEF Depth
<1>5. CASE \E p \in Goals, f \in BOOLEAN : InstPkg(p, f)
  BY <1>5 DEF InstPkg, Frame, Depth
<1>6. CASE stack' = stack /\ \E p \in Touchable : db' = db \ {PkgOf[p]}
  BY <1>6 DEF SlotInv, ClaimedMissing, Depth
<1> QED
  BY <1>2, <1>3, <1>4, <1>5, <1>6 DEF Next, vars, Abort, Fail, Clean, PkgRm

LEMMA SlotInvStep == SlotInv /\ [Next]_vars => SlotInv'
BY MissingKept, InvStep DEF SlotInv

LEMMA SlotInvInit == Init => SlotInv
BY InvInit DEF SlotInv, Init, ClaimedMissing, Depth

\* A port begins as PortSlot does, whatever is installed.
LEMMA SlotInit ==
  ASSUME Init, NEW p \in Ports
  PROVE  Slot(p)!Init
<1>1. SlotPhase(p) = "idle"
  BY SlotsThen DEF SlotsIdle, Init, Depth
<1>2. (PkgOf[p] \in db) \in BOOLEAN
  OBVIOUS
<1>3. (p \in marked) = FALSE /\ (force /\ SlotPhase(p) # "idle") = FALSE
  BY <1>1 DEF Init
<1> QED
  BY <1>1, <1>2, <1>3, Zenon DEF Slot!Init

LEMMA SlotInductive == Spec => []SlotInv
BY SlotInvInit, SlotInvStep, PTL DEF Spec

\* Every port that is the only one to make its package keeps the promise of
\* PortSlot in each step of any nest of makes, the operator's steps and ^C
\* included.
THEOREM SlotsAlwaysKept == Spec => SlotsKept
<1>1. Init => \A p \in Ports : Own(p) => Slot(p)!Init
  BY SlotInit
<1>2. SlotInv /\ [Next]_vars => [\A p \in Ports : Own(p) => SlotStep(p)]_vars
  BY SlotKept
<1>3. SlotInv /\ [Next]_vars =>
        [\A p \in Ports : Own(p) => [Slot(p)!Next]_(Slot(p)!vars)]_vars
  BY <1>2 DEF SlotStep
<1> QED
  BY <1>1, <1>3, SlotInductive, PTL DEF Spec, SlotsKept

\* So a nest of makes implements PortSlot for each such port, with the phase of
\* its make and FORCE_INSTPKG while there is one.
THEOREM ImplementsSlot ==
  ASSUME NEW p \in Ports, Own(p)
  PROVE  Spec => Slot(p)!Spec
<1>1. Init => Slot(p)!Init
  BY SlotInit
<1>2. SlotInv /\ [Next]_vars => [Slot(p)!Next]_(Slot(p)!vars)
  BY SlotKept DEF SlotStep
<1> QED
  BY <1>1, <1>2, SlotInductive, PTL DEF Spec, Slot!Spec
=============================================================================
