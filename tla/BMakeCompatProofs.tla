------------------------- MODULE BMakeCompatProofs -------------------------
(***************************************************************************)
(* Theorems about BMakeCompat, for any finite graph, with cycles or without. *)
(***************************************************************************)
EXTENDS BMakeCompat, FiniteSetTheorems, TLAPS

USE GraphAssumption, KindsAssumption, FlagsAssumption

-----------------------------------------------------------------------------
(* Types.                                                                  *)

LEMMA KnownTypes ==
  ASSUME TypeOK, NEW c \in Nodes, NEW p \in Nodes, Known(c, p)
  PROVE  /\ made' \in [Nodes -> MadeValues] /\ remake' \subseteq Nodes
         /\ cmtime' \in [Nodes -> Times] /\ force' \subseteq Nodes
<1>1. made' \in [Nodes -> MadeValues] /\ remake' \subseteq Nodes /\ force' \subseteq Nodes
  BY DEF TypeOK, Known, MadeValues
<1>2. Recheck(c) \in Times /\ file[c] \in Times
  BY DEF TypeOK, Recheck, Times
<1>3. \A time \in Times : Make_TimeStamp({p}, time) \in [Nodes -> Times]
  BY DEF TypeOK, Make_TimeStamp
<1> QED BY <1>1, <1>2, <1>3 DEF TypeOK, Known

LEMMA DescendTypes ==
  ASSUME TypeOK, NEW c \in Nodes, NEW p \in Nodes, NEW rest \in [Nodes -> SUBSET Nodes],
         Descend(c, p, rest)
  PROVE  /\ made' \in [Nodes -> MadeValues] /\ remake' \subseteq Nodes
         /\ cmtime' \in [Nodes -> Times] /\ force' \subseteq Nodes
         /\ from' \in [Nodes -> Nodes] /\ todo' \in [Nodes -> SUBSET Nodes]
         /\ top' \subseteq Nodes /\ pc' = "child"
BY DEF TypeOK, Descend, MadeValues

LEMMA ReturnTypes ==
  ASSUME TypeOK, NEW n \in Nodes, Return(n)
  PROVE  /\ top' \subseteq Nodes /\ pc' \in {"next", "child"}
         /\ UNCHANGED <<from, todo, targs>>
BY DEF TypeOK, Return

LEMMA MadeTypes ==
  ASSUME TypeOK, NEW n \in Nodes, Made(n)
  PROVE  /\ made' \in [Nodes -> MadeValues] /\ remake' \subseteq Nodes
         /\ cmtime' \in [Nodes -> Times] /\ force' \subseteq Nodes
<1>1. made' \in [Nodes -> MadeValues] /\ remake' \subseteq Nodes /\ force' \subseteq Nodes
  BY DEF TypeOK, Made, MadeValues
<1>2. Recheck(n) \in Times
  BY DEF TypeOK, Recheck, Times
<1> QED BY <1>1, <1>2 DEF TypeOK, Made, Make_TimeStamp

LEMMA TypesKept ==
  ASSUME TypeOK, [Next]_vars PROVE TypeOK'
<1>1. ASSUME NEW n \in Nodes, Goal(n) PROVE TypeOK'
  BY <1>1, KnownTypes, DescendTypes DEF Goal, world, TypeOK, Ended
<1>2. ASSUME NEW n \in Nodes, NEW c \in Nodes, Child(n, c) PROVE TypeOK'
  <2>1. [todo EXCEPT ![n] = @ \ {c}] \in [Nodes -> SUBSET Nodes]
    BY DEF TypeOK
  <2>2. UNCHANGED <<targs, curTarg, world>>
    BY <1>2 DEF Child
  <2>3. CASE Descend(c, n, [todo EXCEPT ![n] = @ \ {c}])
    BY <2>1, <2>2, <2>3, DescendTypes DEF world, TypeOK
  <2>4. CASE Known(c, n) /\ todo' = [todo EXCEPT ![n] = @ \ {c}] /\ UNCHANGED <<from, top, pc>>
    BY <2>1, <2>2, <2>4, KnownTypes DEF world, TypeOK
  <2> QED BY <1>2, <2>3, <2>4 DEF Child
<1>3. ASSUME NEW n \in Nodes, Abort(n) PROVE TypeOK'
  BY <1>3, ReturnTypes DEF Abort, world, TypeOK, MadeValues
<1>4. ASSUME NEW n \in Nodes, UpToDate(n) PROVE TypeOK'
  BY <1>4, ReturnTypes DEF UpToDate, Make_TimeStamp, world, TypeOK, MadeValues
<1>5. ASSUME NEW n \in Nodes, NoExec(n) \/ CommandsOk(n) PROVE TypeOK'
  <2>1. Made(n) /\ Return(n)
    BY <1>5 DEF NoExec, CommandsOk, Made
  <2> QED BY <1>5, <2>1, ReturnTypes, MadeTypes DEF NoExec, CommandsOk, world, TypeOK
<1>6. ASSUME NEW n \in Nodes, DontKnow(n) PROVE TypeOK'
  BY <1>6, ReturnTypes DEF DontKnow, calls, world, TypeOK, MadeValues, Ended
<1>7. ASSUME NEW n \in Nodes, Execute(n) \/ CommandsBad(n) PROVE TypeOK'
  BY <1>7 DEF Execute, CommandsBad, nodes, calls, TypeOK, MadeValues
<1>8. ASSUME NEW n \in Nodes, Stop(n) PROVE TypeOK'
  BY <1>8, ReturnTypes DEF Stop, calls, world, TypeOK, Ended
<1>9. CASE Finish \/ Rest \/ UNCHANGED vars
  BY <1>9 DEF Finish, Rest, vars, nodes, calls, world, TypeOK, Ended
<1>10. CASE Shell
  BY <1>10 DEF Shell, Write, Succeed, Fail, make, nodes, calls, TypeOK, Times
<1>11. CASE Interrupt
  BY <1>11 DEF Interrupt, nodes, calls, TypeOK, Times, Ended
<1> QED BY <1>1, <1>2, <1>3, <1>4, <1>5, <1>6, <1>7, <1>8, <1>9, <1>10, <1>11
        DEF Next, Program

\* Every variable keeps to its values, whatever the graph.
THEOREM TypeCorrect == Spec => []TypeOK
<1>1. Init => TypeOK
  BY DEF Init, TypeOK, MadeValues, Times
<1> QED BY <1>1, TypesKept, PTL DEF Spec

-----------------------------------------------------------------------------
(* The calls of CompatMake in progress.                                     *)
(*                                                                         *)
(* lvl numbers them from the outermost one, 1, to the innermost; nodes that *)
(* are not being made have level 0.  No variable of the program holds it.    *)

On(lvl) == {n \in Nodes : lvl[n] > 0}

\* A call that will end in error: it, or one within it, has lost REMAKE.
Doomed(lvl, n) == \E m \in On(lvl) : lvl[n] <= lvl[m] /\ m \notin remake

\* The calls are nested, each but the outermost in one for a node it is a source
\* of.  A node that was met again by a call within its own is in error at once, and
\* its call is doomed.
Nested(lvl) ==
  /\ pc = "next" => top = {} /\ On(lvl) = {}
  /\ pc # "next" => \E n \in Nodes : top = {n}
  /\ top \subseteq On(lvl)
  /\ \A n \in Nodes : made[n] = "beingmade" => n \in On(lvl)
  /\ \A n \in On(lvl) :
       /\ todo[n] \subseteq Sources[n]
       /\ \/ from[n] = n /\ lvl[n] = 1
          \/ from[n] \in On(lvl) /\ n \in Sources[from[n]] /\ lvl[n] = lvl[from[n]] + 1
       /\ \/ made[n] = "beingmade"
          \/ made[n] = "error" /\ (Doomed(lvl, n) \/ (pc = "error" /\ n \in top))
  /\ \A n \in top, k \in On(lvl) : lvl[k] <= lvl[n]
  /\ \A n, k \in On(lvl) : lvl[n] = lvl[k] => n = k

\* Commands run for the innermost call, which has dealt with its children and
\* lost none of them, and curTarg says so.
Noted ==
  /\ curTarg = IF pc \in {"run", "error"} THEN top ELSE {}
  /\ pc = "run" <=> proc # "none"
  /\ pc \in {"run", "error"} => top \subseteq remake /\ \A n \in top : todo[n] = {}
  /\ pc = "error" => \A n \in top : made[n] = "error"

Calls(lvl) ==
  TypeOK /\ pc \notin Ended /\ lvl \in [Nodes -> Nat] /\ Nested(lvl) /\ Noted

\* The steps, by what they do to the calls: c is called for p, ...
Pushes(c, p) ==
  /\ made[c] = "unmade" /\ made' = [made EXCEPT ![c] = "beingmade"]
  /\ from' = [from EXCEPT ![c] = p] /\ todo'[c] = Sources[c]
  /\ \A n \in Nodes \ {c} : todo'[n] = todo[n] \/ (n = p /\ todo'[n] = todo[n] \ {c})
  /\ top' = {c} /\ pc' = "child" /\ (targs' = targs \/ targs' = targs \ {c})
  /\ (pc = "next" /\ p = c) \/ (pc = "child" /\ top = {p} /\ c \in todo[p])
  /\ remake' = remake \cup {c} /\ UNCHANGED <<force, cmtime, curTarg, world>>

\* ... or it was known, ...
Knows(c, p) ==
  /\ made[c] # "unmade" /\ Known(c, p) /\ (targs' = targs \/ targs' = targs \ {c})
  /\ \/ pc = "next" /\ p = c /\ UNCHANGED todo
     \/ pc = "child" /\ top = {p} /\ c \in todo[p] /\ todo' = [todo EXCEPT ![p] = @ \ {c}]
  /\ UNCHANGED <<from, top, pc, curTarg, world>>

\* ... the call for n returns, ...
Pops(n) ==
  /\ pc \in {"child", "run", "error"} /\ (pc = "run" => proc = "ok")
  /\ top = {n} /\ todo[n] = {} /\ UNCHANGED <<todo, from, targs>>
  /\ \/ /\ \E m \in {"made", "uptodate"} : made' = [made EXCEPT ![n] = m]
        /\ pc # "error" /\ n \in remake /\ remake' = remake
     \/ /\ pc # "run" /\ remake' = remake \ {from[n]}
        /\ \/ made' = [made EXCEPT ![n] = "aborted"] /\ n \notin remake
           \/ made' = [made EXCEPT ![n] = "error"] /\ n \in remake
  /\ top' = (IF from[n] = n THEN {} ELSE {from[n]})
  /\ pc' = (IF from[n] = n THEN "next" ELSE "child")
  /\ curTarg' = {} /\ proc' = "none" /\ UNCHANGED <<file, torn>>

\* ... the commands of n are begun or have failed, ...
Turns(n) ==
  /\ top = {n} /\ UNCHANGED <<remake, force, cmtime, from, todo, top, targs, file, torn>>
  /\ \/ /\ pc = "child" /\ todo[n] = {} /\ n \in remake
        /\ pc' = "run" /\ proc' = "running" /\ curTarg' = {n} /\ made' = made
     \/ /\ pc = "run" /\ pc' = "error" /\ proc' = "none" /\ UNCHANGED curTarg
        /\ made' = [made EXCEPT ![n] = "error"]

\* ... they go on, or make ends.
Runs ==
  /\ pc = "run" /\ UNCHANGED <<made, remake, force, cmtime, from, todo, top, targs, pc, curTarg>>
  /\ proc' \in {"running", "ok", "bad"} /\ torn' \subseteq torn \cup top
  /\ proc' = "ok" => torn' \cap top = {}
Halts ==
  /\ pc' \in Ended /\ proc' = "none"
  /\ UNCHANGED <<made, remake, force, cmtime, from, todo, top, targs>>
  /\ pc' = "finished" => pc = "next" /\ targs = {}
  /\ pc' = "interrupted" => torn' = torn \ (curTarg \ Precious)

Returns(n) ==
  \/ Abort(n) \/ UpToDate(n) \/ NoExec(n) \/ CommandsOk(n)
  \/ (KeepGoing /\ (DontKnow(n) \/ Stop(n)))

\* The innermost call is doomed when it has lost REMAKE itself.
LEMMA TopDoomed ==
  ASSUME NEW lvl, Calls(lvl), NEW n \in Nodes, top = {n}
  PROVE  Doomed(lvl, n) <=> n \notin remake
<1>1. n \in On(lvl) /\ lvl[n] \in Nat
  BY DEF Calls, Nested
<1>2. ASSUME NEW m \in On(lvl), lvl[n] <= lvl[m] PROVE m = n
  <2>1. lvl[m] <= lvl[n] /\ lvl[m] \in Nat
    BY DEF Calls, Nested, On
  <2>2. lvl[m] = lvl[n]
    BY <1>1, <1>2, <2>1
  <2> QED BY <1>1, <2>2 DEF Calls, Nested
<1> QED BY <1>1, <1>2 DEF Doomed

LEMMA CallSteps ==
  ASSUME NEW lvl, Calls(lvl), Next
  PROVE  \/ \E c, p \in Nodes : Pushes(c, p)
         \/ \E c, p \in Nodes : Knows(c, p)
         \/ \E n \in Nodes : Pops(n) /\ Returns(n)
         \/ \E n \in Nodes : Turns(n) /\ (Execute(n) \/ CommandsBad(n))
         \/ Runs /\ Shell
         \/ Halts /\ (Interrupt \/ (UNCHANGED file /\ UNCHANGED torn))
<1> USE DEF Calls
<1>1. ASSUME NEW c \in Nodes, Goal(c) PROVE Pushes(c, c) \/ Knows(c, c)
  <2>1. CASE made[c] = "unmade"
    BY <1>1, <2>1 DEF Goal, Descend, Pushes, TypeOK
  <2>2. CASE made[c] # "unmade"
    BY <1>1, <2>2 DEF Goal, Knows
  <2> QED BY <2>1, <2>2
<1>2. ASSUME NEW c \in Nodes, NEW p \in Nodes, Child(p, c) PROVE Pushes(c, p) \/ Knows(c, p)
  <2>1. CASE made[c] = "unmade"
    <3>1. Descend(c, p, [todo EXCEPT ![p] = @ \ {c}])
      BY <1>2, <2>1 DEF Child
    <3>2. \A n \in Nodes \ {c} : todo'[n] = todo[n] \/ (n = p /\ todo'[n] = todo[n] \ {c})
      BY <3>1 DEF Descend, TypeOK
    <3>3. todo'[c] = Sources[c]
      BY <3>1 DEF Descend, TypeOK
    <3> QED BY <1>2, <2>1, <3>1, <3>2, <3>3 DEF Child, Descend, Pushes
  <2>2. CASE made[c] # "unmade"
    BY <1>2, <2>2 DEF Child, Knows
  <2> QED BY <2>1, <2>2
<1>3. ASSUME NEW n \in Nodes, Abort(n) \/ UpToDate(n) \/ NoExec(n) PROVE Pops(n)
  <2>1. /\ pc = "child" /\ top = {n} /\ todo[n] = {} /\ Return(n) /\ UNCHANGED <<curTarg, world>>
        /\ \/ Abort(n)
           \/ n \in remake /\ remake' = remake /\ \E m \in {"made", "uptodate"} :
                made' = [made EXCEPT ![n] = m]
    BY <1>3 DEF Abort, UpToDate, NoExec, Aborted, Examined, Made
  <2>2. curTarg = {} /\ proc = "none"
    BY <2>1 DEF Noted
  <2> QED BY <2>1, <2>2 DEF Abort, Aborted, Return, Pops, world
<1>4. ASSUME NEW n \in Nodes, CommandsOk(n) PROVE Pops(n)
  <2>1. n \in remake /\ todo[n] = {}
    BY <1>4 DEF CommandsOk, Noted
  <2> QED BY <1>4, <2>1 DEF CommandsOk, Made, Return, Pops
<1>5. ASSUME NEW n \in Nodes, DontKnow(n), KeepGoing PROVE Pops(n)
  <2>1. curTarg = {} /\ proc = "none"
    BY <1>5 DEF DontKnow, Examined, Noted
  <2> QED BY <1>5, <2>1 DEF DontKnow, Examined, Return, Pops, world
<1>6. ASSUME NEW n \in Nodes, Stop(n), KeepGoing PROVE Pops(n)
  <2>1. made[n] = "error" /\ proc = "none" /\ n \in remake /\ todo[n] = {}
    BY <1>6 DEF Stop, Noted
  <2>2. made' = [made EXCEPT ![n] = "error"]
    BY <1>6, <2>1 DEF Stop, TypeOK
  <2> QED BY <1>6, <2>1, <2>2 DEF Stop, Return, Pops, world
<1>7. ASSUME NEW n \in Nodes, DontKnow(n) \/ Stop(n), ~KeepGoing
      PROVE  Halts /\ UNCHANGED file /\ UNCHANGED torn
  BY <1>7 DEF DontKnow, Stop, Examined, Noted, Halts, calls, world, Ended
<1>8. ASSUME NEW n \in Nodes, Execute(n) \/ CommandsBad(n) PROVE Turns(n)
  BY <1>8 DEF Execute, CommandsBad, Examined, Turns, nodes, calls
<1>9. Finish => Halts /\ UNCHANGED file /\ UNCHANGED torn
  BY DEF Finish, Noted, Halts, nodes, calls, world, Ended
<1>10. Interrupt => Halts
  BY DEF Interrupt, Halts, nodes, calls, Ended
<1>11. Shell => Runs
  <2>1. Shell => proc = "running"
    BY DEF Shell, Write, Succeed, Fail
  <2>2. Shell => pc = "run"
    BY <2>1 DEF Noted
  <2> QED BY <2>2 DEF Shell, Write, Succeed, Fail, Runs, make, nodes, calls
<1>12. ~Rest
  BY DEF Rest
<1>13. ASSUME NEW n \in Nodes, Abort(n) \/ UpToDate(n) \/ NoExec(n) \/ CommandsOk(n)
       PROVE  Pops(n) /\ Returns(n)
  BY <1>3, <1>4, <1>13 DEF Returns
<1>14. ASSUME NEW n \in Nodes, DontKnow(n) \/ Stop(n), KeepGoing PROVE Pops(n) /\ Returns(n)
  BY <1>5, <1>6, <1>14 DEF Returns
<1> QED BY <1>1, <1>2, <1>7, <1>8, <1>9, <1>10, <1>11, <1>12, <1>13, <1>14 DEF Next, Program

LEMMA Level ==
  ASSUME NEW lvl, Calls(lvl), NEW n \in On(lvl)
  PROVE  /\ n \in Nodes /\ lvl[n] \in Nat \ {0} /\ todo[n] \subseteq Sources[n]
         /\ \/ from[n] = n /\ lvl[n] = 1
            \/ /\ from[n] \in On(lvl) /\ from[n] \in Nodes /\ n \in Sources[from[n]]
               /\ lvl[n] = lvl[from[n]] + 1
         /\ \/ made[n] = "beingmade"
            \/ made[n] = "error" /\ (Doomed(lvl, n) \/ (pc = "error" /\ n \in top))
<1>1. n \in Nodes /\ lvl[n] \in Nat \ {0}
  BY DEF On, Calls
<1>2. from[n] \in On(lvl) => from[n] \in Nodes
  BY DEF On
<1> QED BY <1>1, <1>2 DEF Calls, Nested

LEMMA PushNested ==
  ASSUME NEW lvl, Calls(lvl), NEW c \in Nodes, NEW p \in Nodes, Pushes(c, p),
         NEW lvl2, lvl2 = [lvl EXCEPT ![c] = lvl[p] + 1]
  PROVE  lvl2 \in [Nodes -> Nat] /\ Nested(lvl2)' /\ Noted'
<1> USE DEF Calls
<1>1. c \notin On(lvl) /\ lvl[c] = 0
  BY DEF Pushes, Nested, On
<1>2. /\ lvl2 \in [Nodes -> Nat] /\ lvl2[c] = lvl[p] + 1 /\ lvl[p] \in Nat
      /\ \A k \in Nodes : lvl[k] \in Nat /\ (k # c => lvl2[k] = lvl[k])
  OBVIOUS
<1>3. On(lvl2) = On(lvl) \cup {c}
  BY <1>2 DEF On
<1>4. /\ made'[c] = "beingmade" /\ from'[c] = p /\ todo'[c] = Sources[c]
      /\ \A k \in Nodes : k # c =>
           made'[k] = made[k] /\ from'[k] = from[k] /\ todo'[k] \subseteq todo[k]
      /\ remake' = remake \cup {c} /\ top' = {c} /\ pc' = "child"
  BY DEF Pushes, TypeOK
<1>5. Noted'
  BY DEF Noted, Pushes, world
<1>6. \/ pc = "next" /\ p = c /\ On(lvl) = {}
      \/ pc = "child" /\ top = {p} /\ p \in On(lvl) /\ c \in Sources[p] /\ p # c
  BY <1>1 DEF Pushes, Nested
<1>7. \A k \in On(lvl) : k \in Nodes /\ k # c /\ lvl2[k] < lvl2[c]
  <2>1. \A k \in On(lvl) : k \in Nodes /\ lvl[k] <= lvl[p]
    BY <1>6 DEF Nested, On
  <2> QED BY <1>1, <1>2, <2>1
<1>8. ASSUME NEW n \in On(lvl)
      PROVE  /\ todo'[n] \subseteq Sources[n]
             /\ \/ from'[n] = n /\ lvl2[n] = 1
                \/ /\ from'[n] \in On(lvl2) /\ n \in Sources[from'[n]]
                   /\ lvl2[n] = lvl2[from'[n]] + 1
             /\ made'[n] = "beingmade" \/ (made'[n] = "error" /\ Doomed(lvl2, n)')
  <2>1. from[n] \in On(lvl) \/ from[n] = n
    BY Level
  <2>2. lvl2[n] = lvl[n] /\ lvl2[from[n]] = lvl[from[n]] /\ from'[n] = from[n] /\ todo'[n] \subseteq todo[n]
    BY <1>2, <1>4, <1>7, <2>1
  <2>3. Doomed(lvl, n) => Doomed(lvl2, n)'
    BY <1>2, <1>3, <1>4, <1>7 DEF Doomed
  <2>4. made'[n] = made[n] /\ pc # "error"
    BY <1>4, <1>6, <1>7
  <2>5. from'[n] \in On(lvl2) \/ from'[n] = n
    BY <1>3, <2>1, <2>2
  <2> QED BY <1>3, <2>2, <2>3, <2>4, <2>5, Level
<1>9. /\ todo'[c] \subseteq Sources[c]
      /\ \/ from'[c] = c /\ lvl2[c] = 1
         \/ from'[c] \in On(lvl2) /\ c \in Sources[from'[c]] /\ lvl2[c] = lvl2[from'[c]] + 1
  <2>1. CASE p = c
    BY <1>1, <1>2, <1>4, <2>1
  <2>2. CASE p \in On(lvl) /\ c \in Sources[p] /\ p # c
    BY <1>2, <1>3, <1>4, <2>2
  <2> QED BY <1>6, <2>1, <2>2
<1>10. ASSUME NEW n \in Nodes, made'[n] = "beingmade" PROVE n \in On(lvl2)
  <2>1. CASE n # c
    <3>1. made[n] = "beingmade" => n \in On(lvl)
      BY DEF Nested
    <3> QED BY <1>3, <1>4, <1>10, <2>1, <3>1
  <2> QED BY <1>3, <2>1
<1>11. \A k \in On(lvl2) : lvl2[k] <= lvl2[c]
  <2>1. ASSUME NEW k \in On(lvl) PROVE lvl2[k] <= lvl2[c]
    BY <1>2, <1>7, <2>1
  <2> QED BY <1>2, <1>3, <2>1
<1>12. ASSUME NEW n \in On(lvl2), NEW k \in On(lvl2), lvl2[n] = lvl2[k] PROVE n = k
  <2>1. CASE n \in On(lvl) /\ k \in On(lvl)
    <3>1. lvl[n] = lvl[k]
      BY <1>2, <1>7, <1>12, <2>1
    <3> QED BY <2>1, <3>1 DEF Nested
  <2>2. ASSUME NEW m \in On(lvl) PROVE lvl2[m] # lvl2[c]
    <3>1. lvl2[m] \in Nat /\ lvl2[m] < lvl2[c]
      BY <1>2, <1>7
    <3> QED BY <1>2, <3>1
  <2>3. CASE n = c /\ k \in On(lvl)
    BY <1>12, <2>2, <2>3
  <2>4. CASE k = c /\ n \in On(lvl)
    BY <1>12, <2>2, <2>4
  <2>5. (n \in On(lvl) \/ n = c) /\ (k \in On(lvl) \/ k = c)
    BY <1>3
  <2> QED BY <2>1, <2>3, <2>4, <2>5
<1> HIDE DEF Calls
<1>13. ASSUME NEW n \in On(lvl2)
       PROVE  /\ todo'[n] \subseteq Sources[n]
              /\ \/ from'[n] = n /\ lvl2[n] = 1
                 \/ /\ from'[n] \in On(lvl2) /\ n \in Sources[from'[n]]
                    /\ lvl2[n] = lvl2[from'[n]] + 1
              /\ made'[n] = "beingmade" \/ (made'[n] = "error" /\ Doomed(lvl2, n)')
  <2>1. CASE n \in On(lvl)
    BY <1>8, <2>1
  <2>2. CASE n = c
    BY <1>4, <1>9, <2>2
  <2> QED BY <1>3, <2>1, <2>2
<1>14. pc' = "child" /\ top' = {c} /\ c \in On(lvl2)
  BY <1>3, <1>4
<1>15. Nested(lvl2)'
  BY <1>10, <1>11, <1>12, <1>13, <1>14 DEF Nested
<1> QED BY <1>2, <1>5, <1>15

LEMMA KnowNested ==
  ASSUME NEW lvl, Calls(lvl), NEW c \in Nodes, NEW p \in Nodes, Knows(c, p)
  PROVE  Nested(lvl)' /\ Noted'
<1> USE DEF Calls
<1>1. /\ \A n \in Nodes : todo'[n] \subseteq todo[n]
      /\ UNCHANGED <<from, top, pc, curTarg, proc>> /\ pc \in {"next", "child"}
  BY DEF Knows, TypeOK, world
<1>2. ASSUME NEW n \in On(lvl), Doomed(lvl, n) PROVE Doomed(lvl, n)'
  BY <1>2 DEF Doomed, Knows, Known
<1>3. CASE made[c] = "beingmade"
  <2>1. pc = "child" /\ top = {p} /\ p \in On(lvl) /\ c \in On(lvl)
    BY <1>3 DEF Knows, Nested
  <2>2. p \notin remake' /\ made'[c] = "error" /\ \A k \in Nodes \ {c} : made'[k] = made[k]
    BY <1>3 DEF Knows, Known, TypeOK
  <2>3. Doomed(lvl, c)'
    BY <2>1, <2>2 DEF Nested, Doomed
  <2>4. ASSUME NEW n \in On(lvl)
        PROVE  made'[n] = "beingmade" \/ (made'[n] = "error" /\ Doomed(lvl, n)')
    BY <1>2, <2>1, <2>2, <2>3 DEF Nested, On
  <2>5. \A n \in Nodes : made'[n] = "beingmade" => n \in On(lvl)
    BY <2>2 DEF Nested
  <2> QED BY <1>1, <2>4, <2>5 DEF Nested, Noted, On
<1>4. CASE made[c] # "beingmade"
  <2>1. made' = made
    BY <1>4 DEF Knows, Known, TypeOK
  <2> QED BY <1>1, <1>2, <2>1 DEF Nested, Noted, On
<1> QED BY <1>3, <1>4

\* The levels after a call has returned.
Popped(lvl, lvl2, n) ==
  /\ lvl2 \in [Nodes -> Nat] /\ lvl2[n] = 0 /\ n \in On(lvl) /\ lvl[n] \in Nat
  /\ \A k \in Nodes : lvl[k] \in Nat /\ (k # n => lvl2[k] = lvl[k])
  /\ On(lvl2) = On(lvl) \ {n}
  /\ UNCHANGED <<from, todo>> /\ \A k \in Nodes : k # n => made'[k] = made[k]
  /\ made'[n] \notin {"unmade", "beingmade"} /\ remake' \subseteq remake /\ top = {n}
  /\ \A k \in On(lvl2) : k \in Nodes /\ k # n /\ k \in On(lvl) /\ lvl[k] < lvl[n]
  /\ \/ from[n] = n /\ lvl[n] = 1 /\ On(lvl2) = {}
     \/ /\ from[n] # n /\ from[n] \in On(lvl2) /\ lvl[n] = lvl[from[n]] + 1
        /\ \A k \in On(lvl2) : lvl2[k] <= lvl2[from[n]]
  /\ \A k \in On(lvl2) : Doomed(lvl, k) => Doomed(lvl2, k)'

LEMMA PopLevels ==
  ASSUME NEW lvl, Calls(lvl), NEW n \in Nodes, Pops(n), NEW lvl2, lvl2 = [lvl EXCEPT ![n] = 0]
  PROVE  Popped(lvl, lvl2, n)
<1> USE DEF Calls
<1>1. /\ lvl2 \in [Nodes -> Nat] /\ lvl2[n] = 0 /\ n \in On(lvl) /\ lvl[n] \in Nat
      /\ \A k \in Nodes : lvl[k] \in Nat /\ (k # n => lvl2[k] = lvl[k])
  BY DEF Pops, Nested
<1>2. On(lvl2) = On(lvl) \ {n}
  BY <1>1 DEF On
<1>3. /\ UNCHANGED <<from, todo>> /\ \A k \in Nodes : k # n => made'[k] = made[k]
      /\ made'[n] \notin {"unmade", "beingmade"} /\ remake' \subseteq remake /\ top = {n}
  BY DEF Pops, TypeOK
<1>5. \A k \in On(lvl2) : k \in Nodes /\ k # n /\ k \in On(lvl) /\ lvl[k] < lvl[n]
  <2>1. \A k \in On(lvl) : k \in Nodes /\ lvl[k] <= lvl[n] /\ (lvl[k] = lvl[n] => k = n)
    BY <1>1, <1>3 DEF Nested, On
  <2> QED BY <1>1, <1>2, <2>1
<1>6. \/ from[n] = n /\ lvl[n] = 1 /\ On(lvl2) = {}
      \/ /\ from[n] # n /\ from[n] \in On(lvl2) /\ lvl[n] = lvl[from[n]] + 1
         /\ \A k \in On(lvl2) : lvl2[k] <= lvl2[from[n]]
  <2>1. CASE from[n] = n /\ lvl[n] = 1
    BY <1>1, <1>5, <2>1 DEF On
  <2>2. CASE from[n] \in On(lvl) /\ lvl[n] = lvl[from[n]] + 1
    <3>1. from[n] # n /\ from[n] \in Nodes
      BY <1>1, <2>2 DEF On
    <3>2. lvl2[from[n]] = lvl[from[n]] /\ lvl[from[n]] \in Nat
      BY <1>1, <3>1
    <3>3. ASSUME NEW k \in On(lvl2) PROVE lvl2[k] <= lvl2[from[n]]
      <4>1. lvl2[k] = lvl[k] /\ lvl[k] \in Nat /\ lvl[k] < lvl[n]
        BY <1>1, <1>5
      <4> QED BY <2>2, <3>2, <4>1
    <3> QED BY <1>2, <2>2, <3>1, <3>3
  <2> QED BY <1>1, <2>1, <2>2, Level
<1>7. ASSUME NEW k \in On(lvl2), Doomed(lvl, k) PROVE Doomed(lvl2, k)'
  <2>1. PICK m \in On(lvl) : lvl[k] <= lvl[m] /\ m \notin remake
    BY <1>7 DEF Doomed
  <2>2. CASE m # n
    BY <1>1, <1>2, <1>3, <1>5, <2>1, <2>2 DEF Doomed, On
  <2>3. CASE m = n
    <3>1. from[n] \in On(lvl2) /\ lvl2[k] <= lvl2[from[n]]
      BY <1>6
    <3>2. from[n] \notin remake'
      BY <2>1, <2>3 DEF Pops
    <3> QED BY <3>1, <3>2 DEF Doomed
  <2> QED BY <2>2, <2>3
<1> QED BY <1>1, <1>2, <1>3, <1>5, <1>6, <1>7 DEF Popped

LEMMA PopNested ==
  ASSUME NEW lvl, Calls(lvl), NEW n \in Nodes, Pops(n), NEW lvl2, lvl2 = [lvl EXCEPT ![n] = 0]
  PROVE  lvl2 \in [Nodes -> Nat] /\ Nested(lvl2)' /\ Noted'
<1>0. Popped(lvl, lvl2, n)
  BY PopLevels
<1> USE DEF Calls
<1>1. /\ lvl2 \in [Nodes -> Nat] /\ lvl2[n] = 0 /\ n \in On(lvl) /\ lvl[n] \in Nat
      /\ \A k \in Nodes : lvl[k] \in Nat /\ (k # n => lvl2[k] = lvl[k])
  BY <1>0 DEF Popped
<1>2. On(lvl2) = On(lvl) \ {n}
  BY <1>0 DEF Popped
<1>3. /\ UNCHANGED <<from, todo>> /\ \A k \in Nodes : k # n => made'[k] = made[k]
      /\ made'[n] # "beingmade" /\ remake' \subseteq remake /\ top = {n}
  BY <1>0 DEF Popped
<1>4. Noted'
  BY DEF Noted, Pops
<1>5. \A k \in On(lvl2) : k \in Nodes /\ k # n /\ k \in On(lvl) /\ lvl[k] < lvl[n]
  BY <1>0 DEF Popped
<1>6. \/ from[n] = n /\ lvl[n] = 1 /\ On(lvl2) = {}
      \/ /\ from[n] # n /\ from[n] \in On(lvl2) /\ lvl[n] = lvl[from[n]] + 1
         /\ \A k \in On(lvl2) : lvl2[k] <= lvl2[from[n]]
  BY <1>0 DEF Popped
<1>7. \A k \in On(lvl2) : Doomed(lvl, k) => Doomed(lvl2, k)'
  BY <1>0 DEF Popped
<1>8. ASSUME NEW k \in On(lvl2)
      PROVE  /\ todo'[k] \subseteq Sources[k]
             /\ \/ from'[k] = k /\ lvl2[k] = 1
                \/ /\ from'[k] \in On(lvl2) /\ k \in Sources[from'[k]]
                   /\ lvl2[k] = lvl2[from'[k]] + 1
             /\ made'[k] = "beingmade" \/ (made'[k] = "error" /\ Doomed(lvl2, k)')
  <2>1. made'[k] = made[k] /\ k \notin top /\ lvl2[k] = lvl[k] /\ k \in On(lvl)
    BY <1>1, <1>3, <1>5
  <2>2. made'[k] = "beingmade" \/ (made'[k] = "error" /\ Doomed(lvl2, k)')
    BY <1>7, <2>1 DEF Nested
  <2>3. todo'[k] \subseteq Sources[k]
    BY <1>3, <2>1, Level
  <2>4. CASE from[k] = k /\ lvl[k] = 1
    BY <1>3, <2>1, <2>2, <2>3, <2>4
  <2>5. CASE /\ from[k] \in On(lvl) /\ from[k] \in Nodes /\ k \in Sources[from[k]]
             /\ lvl[k] = lvl[from[k]] + 1
    <3>1. lvl[k] < lvl[n] /\ lvl[k] \in Nat
      BY <1>5, <2>1, Level
    <3>2. from[k] # n
      BY <1>1, <2>5, <3>1
    <3>3. from'[k] \in On(lvl2) /\ lvl2[from'[k]] = lvl[from[k]] /\ from'[k] = from[k]
      BY <1>1, <1>2, <1>3, <2>5, <3>2
    <3> QED BY <2>1, <2>2, <2>3, <2>5, <3>3
  <2> QED BY <2>1, <2>4, <2>5, Level
<1>9. /\ pc' = "next" => top' = {} /\ On(lvl2) = {}
      /\ pc' # "next" => \E k \in Nodes : top' = {k}
      /\ top' \subseteq On(lvl2) /\ \A k \in top', m \in On(lvl2) : lvl2[m] <= lvl2[k]
  BY <1>5, <1>6 DEF Pops
<1>10. \A k \in Nodes : made'[k] = "beingmade" => k \in On(lvl2)
  BY <1>2, <1>3 DEF Nested
<1>11. \A k, m \in On(lvl2) : lvl2[k] = lvl2[m] => k = m
  BY <1>1, <1>5 DEF Nested
<1> QED BY <1>1, <1>4, <1>8, <1>9, <1>10, <1>11 DEF Nested

LEMMA TurnNested ==
  ASSUME NEW lvl, Calls(lvl), NEW n \in Nodes, Turns(n)
  PROVE  Nested(lvl)' /\ Noted'
<1> USE DEF Calls
<1>1. /\ UNCHANGED <<from, todo, top, remake>> /\ top = {n} /\ pc' \in {"run", "error"}
      /\ pc \in {"child", "run"} /\ n \in On(lvl)
      /\ \A k \in Nodes \ {n} : made'[k] = made[k]
      /\ made'[n] = made[n] \/ (made'[n] = "error" /\ pc' = "error")
  BY DEF Turns, TypeOK, Nested
<1>2. \A k \in Nodes : Doomed(lvl, k) => Doomed(lvl, k)'
  BY <1>1 DEF Doomed
<1>3. Noted'
  BY DEF Noted, Turns, TypeOK
<1>4. ASSUME NEW k \in On(lvl)
      PROVE  \/ made'[k] = "beingmade"
             \/ made'[k] = "error" /\ (Doomed(lvl, k)' \/ (pc' = "error" /\ k \in top'))
  BY <1>1, <1>2 DEF Nested, On
<1>5. \A k \in Nodes : made'[k] = "beingmade" => k \in On(lvl)
  BY <1>1 DEF Nested
<1> QED BY <1>1, <1>3, <1>4, <1>5 DEF Nested

-----------------------------------------------------------------------------
(* What holds of the calls while make runs.                                 *)

Bad(n) == made[n] \in {"error", "aborted"}

\* All that the loops over goals and children have come by has been called.
Tried(lvl) ==
  /\ \A n \in Targs \ targs : made[n] # "unmade"
  /\ \A n \in Nodes : made[n] # "unmade" => \A c \in Sources[n] \ todo[n] : made[c] # "unmade"
  /\ \A n \in Nodes \ On(lvl) : made[n] # "unmade" => todo[n] = {}

\* A call loses REMAKE for a child that is given up.
Reasons(lvl) ==
  /\ \A n \in On(lvl) \ remake : \E c \in Sources[n] : Bad(c)
  /\ AbortedForAReason

\* What is written in part is being made, or its commands have failed.
Parts(lvl) ==
  /\ torn \subseteq curTarg \cup {n \in Nodes \ On(lvl) : made[n] = "error"}
  /\ proc = "ok" => torn \cap top = {}

\* Of two nodes that are sources of each other, the one called first is met again
\* by the call for the other, and from then on is doomed.
Mutual(lvl) ==
  \A n \in Nodes : \A c \in Sources[n] : n \in Sources[c] =>
    /\ made[n] \notin {"made", "uptodate"}
    /\ n \in On(lvl) /\ c \notin todo[n] =>
         Doomed(lvl, n) \/ (c \in On(lvl) /\ lvl[n] < lvl[c] /\ n \in todo[c])
    /\ n \in On(lvl) /\ made[c] # "unmade" /\ c \notin On(lvl) => Doomed(lvl, n)

Walk(lvl) == Calls(lvl) /\ Tried(lvl) /\ Reasons(lvl) /\ Parts(lvl) /\ Mutual(lvl)

\* How the levels follow each other.
Follows(lvl, lvl2) ==
  \/ lvl2 = lvl
  \/ \E c, p \in Nodes : Pushes(c, p) /\ lvl2 = [lvl EXCEPT ![c] = lvl[p] + 1]
  \/ \E n \in Nodes : Pops(n) /\ lvl2 = [lvl EXCEPT ![n] = 0]

LEMMA PushWalk ==
  ASSUME NEW lvl, Walk(lvl), NEW c \in Nodes, NEW p \in Nodes, Pushes(c, p),
         NEW lvl2, lvl2 = [lvl EXCEPT ![c] = lvl[p] + 1]
  PROVE  (Tried(lvl2) /\ Reasons(lvl2) /\ Parts(lvl2) /\ Mutual(lvl2))'
<1>1. Calls(lvl) /\ Tried(lvl) /\ Reasons(lvl) /\ Parts(lvl) /\ Mutual(lvl)
  BY DEF Walk
<1>2. /\ lvl2[c] = lvl[p] + 1 /\ lvl[p] \in Nat /\ lvl[c] = 0 /\ lvl2 \in [Nodes -> Nat]
      /\ \A k \in Nodes : lvl[k] \in Nat /\ (k # c => lvl2[k] = lvl[k])
  BY <1>1 DEF Calls, Nested, Pushes, On
<1>3. On(lvl2) = On(lvl) \cup {c} /\ c \notin On(lvl)
  BY <1>2 DEF On
<1>4. /\ made[c] = "unmade" /\ made'[c] = "beingmade" /\ todo'[c] = Sources[c]
      /\ \A k \in Nodes : k # c =>
           made'[k] = made[k] /\ (todo'[k] = todo[k] \/ (k = p /\ todo'[k] = todo[k] \ {c}))
      /\ remake' = remake \cup {c} /\ (targs' = targs \/ targs' = targs \ {c})
      /\ curTarg' = curTarg /\ torn' = torn /\ proc' = "none" /\ top' = {c} /\ curTarg = {}
  BY <1>1 DEF Pushes, Calls, TypeOK, Noted, world
<1>5. Tried(lvl2)'
  <2>1. \A k \in Nodes : made[k] # "unmade" => made'[k] # "unmade"
    BY <1>4
  <2>2. ASSUME NEW n \in Targs \ targs' PROVE made'[n] # "unmade"
    BY <1>1, <1>4, <2>1 DEF Tried
  <2>3. ASSUME NEW n \in Nodes, made'[n] # "unmade", NEW k \in Sources[n] \ todo'[n]
        PROVE  made'[k] # "unmade"
    <3>1. n # c /\ made[n] # "unmade" /\ k \in Nodes
      BY <1>4, <2>3
    <3>2. k \notin todo[n] \/ k = c
      BY <1>4, <2>3, <3>1
    <3> QED BY <1>1, <1>4, <2>1, <2>3, <3>1, <3>2 DEF Tried
  <2>4. ASSUME NEW n \in Nodes \ On(lvl2), made'[n] # "unmade" PROVE todo'[n] = {}
    <3>1. n # c /\ n \notin On(lvl) /\ made[n] # "unmade"
      BY <1>3, <1>4, <2>4
    <3>2. todo[n] = {}
      BY <1>1, <3>1 DEF Tried
    <3> QED BY <1>4, <3>1, <3>2
  <2> QED BY <2>2, <2>3, <2>4 DEF Tried
<1>6. Reasons(lvl2)'
  <2>1. \A k \in Nodes : Bad(k) => Bad(k)'
    BY <1>4 DEF Bad
  <2>2. AbortedForAReason'
    BY <1>1, <1>4 DEF Reasons, AbortedForAReason
  <2>3. ASSUME NEW n \in On(lvl2) \ remake' PROVE \E k \in Sources[n] : Bad(k)'
    <3>1. n \in On(lvl) \ remake /\ n \in Nodes
      BY <1>3, <1>4, <2>3 DEF On
    <3>2. PICK k \in Sources[n] : Bad(k)
      BY <1>1, <3>1 DEF Reasons
    <3> QED BY <2>1, <3>1, <3>2
  <2> QED BY <2>2, <2>3 DEF Reasons
<1>7. Parts(lvl2)'
  BY <1>1, <1>3, <1>4 DEF Parts
<1>8. Mutual(lvl2)'
  <2>1. SUFFICES ASSUME NEW n \in Nodes, NEW m \in Sources[n], n \in Sources[m]
        PROVE  (/\ made[n] \notin {"made", "uptodate"}
                /\ n \in On(lvl2) /\ m \notin todo[n] =>
                     Doomed(lvl2, n) \/ (m \in On(lvl2) /\ lvl2[n] < lvl2[m] /\ n \in todo[m])
                /\ n \in On(lvl2) /\ made[m] # "unmade" /\ m \notin On(lvl2) => Doomed(lvl2, n))'
    BY DEF Mutual
  <2>2. m \in Nodes
    BY <2>1
  <2>3. /\ made[n] \notin {"made", "uptodate"}
        /\ n \in On(lvl) /\ m \notin todo[n] =>
             Doomed(lvl, n) \/ (m \in On(lvl) /\ lvl[n] < lvl[m] /\ n \in todo[m])
        /\ n \in On(lvl) /\ made[m] # "unmade" /\ m \notin On(lvl) => Doomed(lvl, n)
    BY <1>1, <2>1 DEF Mutual
  <2>4. Doomed(lvl, n) /\ n \in On(lvl) => Doomed(lvl2, n)'
    <3>1. ASSUME NEW k \in On(lvl), lvl[n] <= lvl[k], k \notin remake, n \in On(lvl)
          PROVE  k \in On(lvl2) /\ lvl2[n] <= lvl2[k] /\ k \notin remake'
      <4>1. k \in Nodes /\ k # c /\ n # c
        BY <1>3, <3>1 DEF On
      <4> QED BY <1>2, <1>3, <1>4, <3>1, <4>1
    <3> QED BY <3>1 DEF Doomed
  <2>5. made'[n] \notin {"made", "uptodate"}
    BY <1>4, <2>3
  <2>6. ASSUME n \in On(lvl2), m \notin todo'[n]
        PROVE  Doomed(lvl2, n)' \/ (m \in On(lvl2) /\ lvl2[n] < lvl2[m] /\ n \in todo'[m])
    <3>1. n # c /\ n \in On(lvl)
      <4>1. n # c
        BY <1>4, <2>1, <2>6
      <4> QED BY <1>3, <2>6, <4>1
    <3>2. CASE m = c
      <4>1. CASE n = p
        <5>1. lvl2[n] < lvl2[c]
          BY <1>2, <3>1, <4>1
        <5>2. c \in On(lvl2) /\ n \in todo'[c]
          BY <1>3, <1>4, <2>1, <3>2
        <5> QED BY <3>2, <5>1, <5>2
      <4>2. CASE n # p
        <5>1. m \notin todo[n]
          BY <1>4, <2>6, <3>1, <4>2
        <5> QED BY <1>3, <2>3, <2>4, <3>1, <3>2, <5>1
      <4> QED BY <4>1, <4>2
    <3>3. CASE m # c
      <4>1. m \notin todo[n]
        BY <1>4, <2>6, <3>1, <3>3
      <4>2. n \in todo[m] => n \in todo'[m]
        BY <1>4, <2>2, <3>1, <3>3
      <4> QED BY <1>2, <1>3, <2>2, <2>3, <2>4, <3>1, <3>3, <4>1, <4>2
    <3> QED BY <3>2, <3>3
  <2>7. ASSUME n \in On(lvl2), made'[m] # "unmade", m \notin On(lvl2) PROVE Doomed(lvl2, n)'
    <3>1. m # c /\ m \notin On(lvl) /\ made[m] # "unmade"
      BY <1>3, <1>4, <2>2, <2>7
    <3>2. n # c
      BY <1>1, <1>4, <2>1, <2>2, <3>1 DEF Tried
    <3> QED BY <1>3, <2>3, <2>4, <2>7, <3>1, <3>2
  <2> QED BY <2>5, <2>6, <2>7
<1> QED BY <1>5, <1>6, <1>7, <1>8

LEMMA KnowWalk ==
  ASSUME NEW lvl, Walk(lvl), NEW c \in Nodes, NEW p \in Nodes, Knows(c, p)
  PROVE  (Tried(lvl) /\ Reasons(lvl) /\ Parts(lvl) /\ Mutual(lvl))'
<1>1. Calls(lvl) /\ Tried(lvl) /\ Reasons(lvl) /\ Parts(lvl) /\ Mutual(lvl)
  BY DEF Walk
<1>2. /\ made[c] # "unmade" /\ (targs' = targs \/ targs' = targs \ {c})
      /\ UNCHANGED <<top, curTarg, torn, proc>>
      /\ \A k \in Nodes : todo'[k] = todo[k] \/ (k = p /\ todo'[k] = todo[k] \ {c})
      /\ \A k \in Nodes : made'[k] = made[k] \/ (k = c /\ made[k] = "beingmade" /\ made'[k] = "error")
  BY <1>1 DEF Knows, Known, Calls, TypeOK, world
<1>3. \/ pc = "next" /\ On(lvl) = {}
      \/ /\ pc = "child" /\ top = {p} /\ p \in On(lvl) /\ c \in Sources[p]
  BY <1>1 DEF Knows, Calls, Nested
<1>4. remake' = remake \/ (remake' = remake \ {p} /\ Bad(c)')
  BY <1>1 DEF Knows, Known, Bad, Calls, TypeOK
<1>5. \A k \in Nodes : Bad(k) => Bad(k)'
  BY <1>2 DEF Bad
<1>6. \A k \in Nodes : (made[k] = "unmade") = (made'[k] = "unmade")
  BY <1>2
<1>7. Tried(lvl)'
  <2>1. ASSUME NEW n \in Targs \ targs' PROVE made'[n] # "unmade"
    BY <1>1, <1>2, <1>6, <2>1 DEF Tried
  <2>2. ASSUME NEW n \in Nodes, made'[n] # "unmade", NEW k \in Sources[n] \ todo'[n]
        PROVE  made'[k] # "unmade"
    <3>1. k \in Nodes /\ made[n] # "unmade" /\ (k \notin todo[n] \/ k = c)
      BY <1>2, <1>6, <2>2
    <3> QED BY <1>1, <1>2, <1>6, <2>2, <3>1 DEF Tried
  <2>3. ASSUME NEW n \in Nodes \ On(lvl), made'[n] # "unmade" PROVE todo'[n] = {}
    <3>1. todo[n] = {}
      BY <1>1, <1>6, <2>3 DEF Tried
    <3> QED BY <1>2, <3>1
  <2> QED BY <2>1, <2>2, <2>3 DEF Tried
<1>8. Reasons(lvl)'
  <2>1. AbortedForAReason'
    <3>1. ASSUME NEW n \in Nodes, made'[n] = "aborted" PROVE \E k \in Sources[n] : Bad(k)'
      <4>1. PICK k \in Sources[n] : Bad(k)
        BY <1>1, <1>2, <3>1 DEF Reasons, AbortedForAReason, Bad
      <4> QED BY <1>5, <4>1
    <3> QED BY <3>1 DEF AbortedForAReason, Bad
  <2>2. ASSUME NEW n \in On(lvl) \ remake' PROVE \E k \in Sources[n] : Bad(k)'
    <3>1. n \in Nodes
      BY DEF On
    <3>2. CASE n \notin remake
      <4>1. PICK k \in Sources[n] : Bad(k)
        BY <1>1, <3>2 DEF Reasons
      <4> QED BY <1>5, <3>1, <4>1
    <3>3. CASE n \in remake
      BY <1>3, <1>4, <2>2, <3>3
    <3> QED BY <3>2, <3>3
  <2> QED BY <2>1, <2>2 DEF Reasons
<1>9. Parts(lvl)'
  <2>1. \A k \in Nodes \ On(lvl) : made[k] = "error" => made'[k] = "error"
    BY <1>2
  <2> QED BY <1>1, <1>2, <2>1 DEF Parts
<1>10. Mutual(lvl)'
  <2>1. SUFFICES ASSUME NEW n \in Nodes, NEW m \in Sources[n], n \in Sources[m]
        PROVE  (/\ made[n] \notin {"made", "uptodate"}
                /\ n \in On(lvl) /\ m \notin todo[n] =>
                     Doomed(lvl, n) \/ (m \in On(lvl) /\ lvl[n] < lvl[m] /\ n \in todo[m])
                /\ n \in On(lvl) /\ made[m] # "unmade" /\ m \notin On(lvl) => Doomed(lvl, n))'
    BY DEF Mutual
  <2>2. m \in Nodes
    BY <2>1
  <2>3. /\ made[n] \notin {"made", "uptodate"}
        /\ n \in On(lvl) /\ m \notin todo[n] =>
             Doomed(lvl, n) \/ (m \in On(lvl) /\ lvl[n] < lvl[m] /\ n \in todo[m])
        /\ n \in On(lvl) /\ made[m] # "unmade" /\ m \notin On(lvl) => Doomed(lvl, n)
    BY <1>1, <2>1 DEF Mutual
  <2>4. made[m] \notin {"made", "uptodate"}
    BY <1>1, <2>1, <2>2 DEF Mutual
  <2>5. Doomed(lvl, n) => Doomed(lvl, n)'
    BY <1>4 DEF Doomed
  <2>6. made'[n] \notin {"made", "uptodate"}
    BY <1>2, <2>3
  <2>7. ASSUME n \in On(lvl), m \notin todo'[n]
        PROVE  Doomed(lvl, n)' \/ (m \in On(lvl) /\ lvl[n] < lvl[m] /\ n \in todo'[m])
    <3>1. CASE m \in todo[n]
      <4>1. n = p /\ m = c /\ p \in On(lvl) /\ lvl[n] \in Nat
        BY <1>1, <1>2, <1>3, <2>7, <3>1 DEF Calls
      <4>2. CASE made[c] \in {"error", "beingmade"}
        <5>1. p \notin remake'
          BY <4>2 DEF Knows, Known
        <5> QED BY <4>1, <5>1 DEF Doomed
      <4>3. CASE made[c] \notin {"error", "beingmade"}
        <5>1. c \notin On(lvl)
          BY <1>1, <4>3, Level
        <5> QED BY <1>2, <2>3, <2>5, <2>7, <4>1, <5>1
      <4> QED BY <4>2, <4>3
    <3>2. CASE m \notin todo[n] /\ ~Doomed(lvl, n)
      <4>1. m \in On(lvl) /\ lvl[n] < lvl[m] /\ n \in todo[m]
        BY <2>3, <2>7, <3>2
      <4>2. CASE n \in todo'[m]
        BY <4>1, <4>2
      <4>3. CASE n \notin todo'[m]
        <5>1. m = p /\ n = c
          BY <1>2, <2>2, <4>1, <4>3
        <5>2. made[n] \in {"error", "beingmade"}
          BY <1>1, <2>7, Level
        <5>3. p \notin remake'
          BY <5>1, <5>2 DEF Knows, Known
        <5>4. lvl[n] <= lvl[m]
          BY <1>1, <2>2, <4>1 DEF Calls
        <5> QED BY <4>1, <5>1, <5>3, <5>4 DEF Doomed
      <4> QED BY <4>2, <4>3
    <3> QED BY <2>5, <3>1, <3>2
  <2>8. ASSUME n \in On(lvl), made'[m] # "unmade", m \notin On(lvl) PROVE Doomed(lvl, n)'
    BY <1>6, <2>2, <2>3, <2>5, <2>8
  <2> QED BY <2>6, <2>7, <2>8
<1> QED BY <1>7, <1>8, <1>9, <1>10

LEMMA PopWalk ==
  ASSUME NEW lvl, Walk(lvl), NEW t \in Nodes, Pops(t), NEW lvl2, lvl2 = [lvl EXCEPT ![t] = 0]
  PROVE  (Tried(lvl2) /\ Reasons(lvl2) /\ Parts(lvl2) /\ Mutual(lvl2))'
<1>1. Calls(lvl) /\ Tried(lvl) /\ Reasons(lvl) /\ Parts(lvl) /\ Mutual(lvl)
  BY DEF Walk
<1>2. /\ lvl2[t] = 0 /\ t \in On(lvl) /\ \A k \in Nodes : lvl[k] \in Nat
      /\ \A k \in Nodes : k # t => lvl2[k] = lvl[k]
      /\ On(lvl2) = On(lvl) \ {t} /\ UNCHANGED <<from, todo>>
      /\ \A k \in Nodes : k # t => made'[k] = made[k]
      /\ made'[t] \notin {"unmade", "beingmade"} /\ remake' \subseteq remake /\ top = {t}
      /\ \A k \in On(lvl2) : Doomed(lvl, k) => Doomed(lvl2, k)'
  <2>1. Popped(lvl, lvl2, t)
    BY <1>1, PopLevels
  <2> QED BY <2>1 DEF Popped
<1>3. /\ todo[t] = {} /\ UNCHANGED <<targs, torn>> /\ curTarg' = {} /\ proc' = "none"
      /\ \/ pc # "error" /\ t \in remake /\ remake' = remake
         \/ remake' = remake \ {from[t]} /\ made'[t] = "aborted" /\ t \notin remake
         \/ remake' = remake \ {from[t]} /\ made'[t] = "error" /\ t \in remake
  BY <1>1 DEF Pops, Calls, TypeOK
<1>4. made[t] # "unmade" /\ \A k \in On(lvl) : lvl[k] <= lvl[t]
  <2>1. made[t] # "unmade"
    BY <1>1, <1>2, Level
  <2> QED BY <1>1, <1>2, <2>1 DEF Calls, Nested
<1>5. Bad(t) => Bad(t)'
  <2>1. ASSUME Bad(t), pc # "error", t \in remake PROVE FALSE
    <3>1. Doomed(lvl, t)
      BY <1>1, <1>2, <2>1, Level DEF Bad
    <3> QED BY <1>1, <1>2, <2>1, <3>1, TopDoomed
  <2> QED BY <1>3, <2>1 DEF Bad
<1>6. \A k \in Nodes : Bad(k) => Bad(k)'
  BY <1>2, <1>5 DEF Bad
<1>7. Tried(lvl2)'
  BY <1>1, <1>2, <1>3, <1>4 DEF Tried
<1>8. Reasons(lvl2)'
  <2>1. ASSUME NEW n \in Nodes, made'[n] = "aborted" PROVE \E k \in Sources[n] : Bad(k)'
    <3>1. CASE made[n] = "aborted"
      <4>1. PICK k \in Sources[n] : Bad(k)
        BY <1>1, <3>1 DEF Reasons, AbortedForAReason, Bad
      <4> QED BY <1>6, <4>1
    <3>2. CASE made[n] # "aborted"
      <4>1. n = t /\ t \notin remake
        BY <1>1, <1>2, <2>1, <3>2 DEF Pops, Calls, TypeOK
      <4>2. PICK k \in Sources[n] : Bad(k)
        BY <1>1, <1>2, <4>1 DEF Reasons
      <4> QED BY <1>6, <4>2
    <3> QED BY <3>1, <3>2
  <2>2. ASSUME NEW n \in On(lvl2) \ remake' PROVE \E k \in Sources[n] : Bad(k)'
    <3>1. CASE n \notin remake
      <4>1. n \in On(lvl) /\ n \in Nodes
        BY <1>2 DEF On
      <4>2. PICK k \in Sources[n] : Bad(k)
        BY <1>1, <3>1, <4>1 DEF Reasons
      <4> QED BY <1>6, <4>1, <4>2
    <3>2. CASE n \in remake
      <4>1. n = from[t] /\ n # t /\ Bad(t)'
        BY <1>2, <1>3, <2>2, <3>2 DEF Bad
      <4>2. t \in Sources[n]
        BY <1>1, <1>2, <4>1, Level
      <4> QED BY <4>1, <4>2
    <3> QED BY <3>1, <3>2
  <2> QED BY <2>1, <2>2 DEF Reasons, AbortedForAReason, Bad
<1>9. Parts(lvl2)'
  <2>1. t \in torn => made'[t] = "error"
    <3>1. CASE pc = "error"
      BY <1>1, <1>2, <1>3, <3>1 DEF Calls, Noted
    <3>2. CASE pc # "error"
      <4>1. t \notin curTarg \/ proc = "ok"
        BY <1>1, <1>2, <3>2 DEF Pops, Calls, Noted
      <4> QED BY <1>1, <1>2, <4>1 DEF Parts
    <3> QED BY <3>1, <3>2
  <2>2. curTarg \subseteq {t}
    BY <1>1, <1>2 DEF Calls, Noted
  <2>3. ASSUME NEW k \in torn PROVE k \in Nodes \ On(lvl2) /\ made'[k] = "error"
    BY <1>1, <1>2, <2>1, <2>2 DEF Parts
  <2> QED BY <1>3, <2>3 DEF Parts
<1>10. Mutual(lvl2)'
  <2>1. SUFFICES ASSUME NEW n \in Nodes, NEW m \in Sources[n], n \in Sources[m]
        PROVE  (/\ made[n] \notin {"made", "uptodate"}
                /\ n \in On(lvl2) /\ m \notin todo[n] =>
                     Doomed(lvl2, n) \/ (m \in On(lvl2) /\ lvl2[n] < lvl2[m] /\ n \in todo[m])
                /\ n \in On(lvl2) /\ made[m] # "unmade" /\ m \notin On(lvl2) => Doomed(lvl2, n))'
    BY DEF Mutual
  <2>2. m \in Nodes
    BY <2>1
  <2>3. /\ made[n] \notin {"made", "uptodate"}
        /\ n \in On(lvl) /\ m \notin todo[n] =>
             Doomed(lvl, n) \/ (m \in On(lvl) /\ lvl[n] < lvl[m] /\ n \in todo[m])
        /\ n \in On(lvl) /\ made[m] # "unmade" /\ m \notin On(lvl) => Doomed(lvl, n)
    BY <1>1, <2>1 DEF Mutual
  <2>4. ASSUME n = t \/ m = t PROVE Doomed(lvl, t)
    <3>1. ASSUME NEW k \in Nodes, t \in Sources[k], k \in Sources[t] PROVE Doomed(lvl, t)
      <4>1. Doomed(lvl, t) \/ (k \in On(lvl) /\ lvl[t] < lvl[k])
        BY <1>1, <1>2, <1>3, <3>1 DEF Mutual
      <4> QED BY <1>2, <1>4, <4>1
    <3> QED BY <2>1, <2>2, <2>4, <3>1
  <2>5. made'[n] \notin {"made", "uptodate"}
    <3>1. CASE n = t
      <4>1. t \notin remake
        BY <1>1, <1>2, <2>4, <3>1, TopDoomed
      <4> QED BY <1>3, <3>1, <4>1
    <3> QED BY <1>2, <2>3, <3>1
  <2>6. ASSUME n \in On(lvl2), m \notin todo'[n]
        PROVE  Doomed(lvl2, n)' \/ (m \in On(lvl2) /\ lvl2[n] < lvl2[m] /\ n \in todo'[m])
    <3>1. n # t /\ n \in On(lvl) /\ m \notin todo[n]
      BY <1>2, <2>6
    <3>2. CASE m # t
      BY <1>2, <2>2, <2>3, <2>6, <3>1, <3>2
    <3>3. CASE m = t
      BY <1>2, <1>3, <2>3, <2>6, <3>1, <3>3
    <3> QED BY <3>2, <3>3
  <2>7. ASSUME n \in On(lvl2), made'[m] # "unmade", m \notin On(lvl2) PROVE Doomed(lvl2, n)'
    <3>1. CASE m # t
      BY <1>2, <2>2, <2>3, <2>7, <3>1
    <3>2. CASE m = t
      <4>1. PICK k \in On(lvl) : lvl[t] <= lvl[k] /\ k \notin remake
        BY <2>4, <3>2 DEF Doomed
      <4>2. lvl[n] <= lvl[t] /\ k \in Nodes
        BY <1>2, <1>4, <2>7, <4>1 DEF On
      <4>3. lvl[n] <= lvl[k]
        BY <1>2, <4>1, <4>2
      <4>4. Doomed(lvl, n)
        BY <4>1, <4>3 DEF Doomed
      <4> QED BY <1>2, <2>7, <4>4
    <3> QED BY <3>1, <3>2
  <2> QED BY <2>5, <2>6, <2>7
<1> QED BY <1>7, <1>8, <1>9, <1>10

LEMMA TurnWalk ==
  ASSUME NEW lvl, Walk(lvl), NEW t \in Nodes, Turns(t)
  PROVE  (Tried(lvl) /\ Reasons(lvl) /\ Parts(lvl) /\ Mutual(lvl))'
<1>1. Calls(lvl) /\ Tried(lvl) /\ Reasons(lvl) /\ Parts(lvl) /\ Mutual(lvl)
  BY DEF Walk
<1>2. /\ UNCHANGED <<remake, todo, top, targs, torn>> /\ top = {t} /\ proc' # "ok"
      /\ \A k \in Nodes : k # t => made'[k] = made[k]
      /\ made'[t] = made[t] \/ made'[t] = "error"
  BY <1>1 DEF Turns, Calls, TypeOK
<1>3. t \in On(lvl) /\ made[t] \in {"beingmade", "error"}
  <2>1. t \in On(lvl)
    BY <1>1, <1>2 DEF Calls, Nested
  <2> QED BY <1>1, <2>1, Level
<1>4. curTarg \subseteq curTarg'
  BY <1>1 DEF Turns, Calls, Noted
<1>5. \A k \in Nodes : Bad(k) => Bad(k)'
  BY <1>2 DEF Bad
<1>6. Tried(lvl)'
  BY <1>1, <1>2, <1>3 DEF Tried
<1>7. Reasons(lvl)'
  <2>1. ASSUME NEW n \in Nodes, made'[n] = "aborted" PROVE \E k \in Sources[n] : Bad(k)'
    <3>1. made[n] = "aborted"
      BY <1>2, <1>3, <2>1
    <3>2. PICK k \in Sources[n] : Bad(k)
      BY <1>1, <3>1 DEF Reasons, AbortedForAReason, Bad
    <3> QED BY <1>5, <3>2
  <2>2. ASSUME NEW n \in On(lvl) \ remake' PROVE \E k \in Sources[n] : Bad(k)'
    <3>1. PICK k \in Sources[n] : Bad(k)
      BY <1>1, <1>2 DEF Reasons
    <3>2. n \in Nodes
      BY DEF On
    <3> QED BY <1>5, <3>1, <3>2
  <2> QED BY <2>1, <2>2 DEF Reasons, AbortedForAReason, Bad
<1>8. Parts(lvl)'
  <2>1. \A k \in Nodes \ On(lvl) : made[k] = "error" => made'[k] = "error"
    BY <1>2
  <2> QED BY <1>1, <1>2, <1>4, <2>1 DEF Parts
<1>9. Mutual(lvl)'
  <2>1. \A k \in Nodes : Doomed(lvl, k)' <=> Doomed(lvl, k)
    BY <1>2 DEF Doomed
  <2>2. \A k \in Nodes : /\ made'[k] \in {"made", "uptodate"} => made[k] \in {"made", "uptodate"}
                         /\ made'[k] # "unmade" => made[k] # "unmade"
    BY <1>2, <1>3
  <2>3. todo' = todo
    BY <1>2
  <2> QED BY <1>1, <2>1, <2>2, <2>3 DEF Mutual
<1> QED BY <1>6, <1>7, <1>8, <1>9

LEMMA RunWalk ==
  ASSUME NEW lvl, Walk(lvl), Runs
  PROVE  (Nested(lvl) /\ Noted /\ Tried(lvl) /\ Reasons(lvl) /\ Parts(lvl) /\ Mutual(lvl))'
<1>1. Calls(lvl) /\ Tried(lvl) /\ Reasons(lvl) /\ Parts(lvl) /\ Mutual(lvl)
  BY DEF Walk
<1>2. UNCHANGED <<made, remake, from, todo, top, targs, pc, curTarg>> /\ pc = "run" /\ curTarg = top
      /\ proc' # "none" /\ torn' \subseteq torn \cup top /\ (proc' = "ok" => torn' \cap top = {})
  BY <1>1 DEF Runs, Calls, Noted
<1>3. \A n \in Nodes : Doomed(lvl, n)' <=> Doomed(lvl, n)
  BY <1>2 DEF Doomed
<1>4. Nested(lvl)'
  BY <1>1, <1>2, <1>3 DEF Calls, Nested, On
<1>5. Noted'
  BY <1>1, <1>2 DEF Calls, Noted
<1>6. Tried(lvl)'
  BY <1>1, <1>2 DEF Tried
<1>7. Reasons(lvl)'
  BY <1>1, <1>2 DEF Reasons, AbortedForAReason, Bad
<1>8. Parts(lvl)'
  BY <1>1, <1>2 DEF Parts
<1>9. Mutual(lvl)'
  BY <1>1, <1>2, <1>3 DEF Mutual
<1> QED BY <1>4, <1>5, <1>6, <1>7, <1>8, <1>9

\* A step within make, cycle or not, leads to levels again.
LEMMA WalkGoesOn ==
  ASSUME NEW lvl, Walk(lvl), Next, pc' \notin Ended
  PROVE  \E lvl2 : Follows(lvl, lvl2) /\ Walk(lvl2)'
<1>1. Calls(lvl) /\ lvl \in [Nodes -> Nat]
  BY DEF Walk, Calls
<1>2. TypeOK'
  BY <1>1, TypesKept DEF Calls
<1>3. ASSUME NEW c \in Nodes, NEW p \in Nodes, Pushes(c, p)
      PROVE  \E lvl2 : Follows(lvl, lvl2) /\ Walk(lvl2)'
  <2> DEFINE lvl2 == [lvl EXCEPT ![c] = lvl[p] + 1]
  <2>1. lvl2 \in [Nodes -> Nat] /\ Nested(lvl2)' /\ Noted'
    BY <1>1, <1>3, PushNested
  <2>2. (Tried(lvl2) /\ Reasons(lvl2) /\ Parts(lvl2) /\ Mutual(lvl2))'
    BY <1>3, PushWalk
  <2>3. Walk(lvl2)'
    BY <1>2, <2>1, <2>2 DEF Walk, Calls
  <2>4. Follows(lvl, lvl2)
    BY <1>3 DEF Follows
  <2> QED BY <2>3, <2>4
<1>4. ASSUME NEW n \in Nodes, Pops(n) PROVE \E lvl2 : Follows(lvl, lvl2) /\ Walk(lvl2)'
  <2> DEFINE lvl2 == [lvl EXCEPT ![n] = 0]
  <2>1. lvl2 \in [Nodes -> Nat] /\ Nested(lvl2)' /\ Noted'
    BY <1>1, <1>4, PopNested
  <2>2. (Tried(lvl2) /\ Reasons(lvl2) /\ Parts(lvl2) /\ Mutual(lvl2))'
    BY <1>4, PopWalk
  <2>3. Walk(lvl2)'
    BY <1>2, <2>1, <2>2 DEF Walk, Calls
  <2>4. Follows(lvl, lvl2)
    BY <1>4 DEF Follows
  <2> QED BY <2>3, <2>4
<1>5. ASSUME (Nested(lvl) /\ Noted /\ Tried(lvl) /\ Reasons(lvl) /\ Parts(lvl) /\ Mutual(lvl))'
      PROVE  \E lvl2 : Follows(lvl, lvl2) /\ Walk(lvl2)'
  <2>1. Walk(lvl)'
    BY <1>1, <1>2, <1>5 DEF Walk, Calls
  <2>2. Follows(lvl, lvl)
    BY DEF Follows
  <2> QED BY <2>1, <2>2
<1>6. ASSUME NEW c \in Nodes, NEW p \in Nodes, Knows(c, p)
      PROVE  \E lvl2 : Follows(lvl, lvl2) /\ Walk(lvl2)'
  BY <1>1, <1>5, <1>6, KnowNested, KnowWalk
<1>7. ASSUME NEW n \in Nodes, Turns(n) PROVE \E lvl2 : Follows(lvl, lvl2) /\ Walk(lvl2)'
  BY <1>1, <1>5, <1>7, TurnNested, TurnWalk
<1>8. CASE Runs
  BY <1>5, <1>8, RunWalk
<1>9. ~Halts
  BY DEF Halts
<1> QED BY <1>1, <1>3, <1>4, <1>6, <1>7, <1>8, <1>9, CallSteps

LEMMA WalkBegins ==
  ASSUME Init, NEW lvl, lvl = [n \in Nodes |-> 0]
  PROVE  Walk(lvl)
<1>1. On(lvl) = {}
  BY DEF On
<1>2. Calls(lvl)
  BY <1>1 DEF Init, Calls, Nested, Noted, TypeOK, MadeValues, Times, Ended
<1> QED BY <1>1, <1>2 DEF Init, Walk, Tried, Reasons, AbortedForAReason, Parts, Mutual

\* While make runs there are levels; what is promised of its end it keeps.
IInv ==
  /\ TypeOK /\ AllTried /\ AbortedForAReason /\ PartialRemoved /\ MutualNotMade
  /\ pc \in Ended => proc = "none"
  /\ pc \notin Ended => \E lvl : Walk(lvl)

LEMMA IInvBegins == Init => IInv
<1> SUFFICES ASSUME Init PROVE IInv
  OBVIOUS
<1>1. Walk([n \in Nodes |-> 0])
  BY WalkBegins
<1>2. TypeOK
  BY <1>1 DEF Walk, Calls
<1>3. pc \notin Ended
  BY DEF Init, Ended
<1>4. AllTried /\ AbortedForAReason /\ PartialRemoved /\ MutualNotMade
  BY DEF Init, AllTried, AbortedForAReason, PartialRemoved, MutualNotMade
<1> QED BY <1>1, <1>2, <1>3, <1>4 DEF IInv

LEMMA HaltKeeps ==
  ASSUME NEW lvl, Walk(lvl), Next, pc' \in Ended
  PROVE  (AllTried /\ AbortedForAReason /\ PartialRemoved /\ MutualNotMade)' /\ proc' = "none"
<1>1. Calls(lvl) /\ Tried(lvl) /\ Reasons(lvl) /\ Parts(lvl) /\ Mutual(lvl)
  BY DEF Walk
<1>2. Halts
  <2>1. pc \notin Ended /\ "child" \notin Ended /\ "next" \notin Ended
    BY <1>1 DEF Calls, Ended
  <2>2. ASSUME NEW n \in Nodes PROVE ~Pops(n) /\ ~Turns(n)
    BY <2>1 DEF Pops, Turns, Ended
  <2>3. ASSUME NEW c \in Nodes, NEW p \in Nodes PROVE ~Pushes(c, p) /\ ~Knows(c, p)
    BY <2>1 DEF Pushes, Knows
  <2>4. ~Runs
    BY <2>1 DEF Runs
  <2> QED BY <1>1, <2>2, <2>3, <2>4, CallSteps
<1>3. UNCHANGED <<made, todo, targs>> /\ proc' = "none"
  BY <1>2 DEF Halts
<1>4. AllTried'
  <2>1. SUFFICES ASSUME pc' = "finished" PROVE AllTried'
    BY DEF AllTried
  <2>2. On(lvl) = {} /\ targs = {}
    BY <1>1, <1>2, <2>1 DEF Halts, Calls, Nested
  <2>3. \A n \in Nodes : made[n] # "beingmade"
    BY <1>1, <2>2 DEF Calls, Nested
  <2>4. \A n \in Nodes : made[n] # "unmade" => \A c \in Sources[n] : made[c] # "unmade"
    BY <1>1, <2>2 DEF Tried
  <2>5. \A n \in Targs : made[n] # "unmade"
    BY <1>1, <2>2 DEF Tried
  <2> QED BY <1>3, <2>3, <2>4, <2>5 DEF AllTried
<1>5. AbortedForAReason' /\ MutualNotMade'
  BY <1>1, <1>3 DEF Reasons, AbortedForAReason, Mutual, MutualNotMade
<1>6. PartialRemoved'
  BY <1>1, <1>2, <1>3 DEF Parts, PartialRemoved, Halts
<1> QED BY <1>3, <1>4, <1>5, <1>6

\* Once make has ended nothing happens.
LEMMA Rested == ASSUME IInv, pc \in Ended, Next PROVE UNCHANGED vars
<1>1. proc = "none" /\ pc \notin {"next", "child", "run", "error"}
  BY DEF IInv, Ended
<1> QED BY <1>1 DEF Next, Program, Goal, Child, Abort, UpToDate, NoExec, DontKnow, Execute,
             CommandsOk, CommandsBad, Stop, Finish, Shell, Write, Succeed, Fail, Interrupt, Rest,
             Aborted, Examined

LEMMA IInvKept == IInv /\ [Next]_vars => IInv'
<1>1. ASSUME IInv, UNCHANGED vars PROVE IInv'
  <2>1. UNCHANGED <<made, remake, force, cmtime, from, todo, top, targs, curTarg, pc, file, torn, proc>>
    BY <1>1 DEF vars, nodes, calls, world
  <2>2. TypeOK'
    BY <1>1, TypesKept DEF IInv
  <2>3. (AllTried /\ AbortedForAReason /\ PartialRemoved /\ MutualNotMade)'
    BY <1>1, <2>1 DEF IInv, AllTried, AbortedForAReason, PartialRemoved, MutualNotMade
  <2>4. ASSUME NEW lvl, Walk(lvl) PROVE Walk(lvl)'
    <3>1. Calls(lvl)'
      BY <2>1, <2>2, <2>4 DEF Walk, Calls, Nested, Noted, Doomed
    <3> QED BY <2>1, <2>4, <3>1 DEF Walk, Tried, Reasons, AbortedForAReason, Bad, Parts, Mutual, Doomed
  <2> QED BY <1>1, <2>1, <2>2, <2>3, <2>4 DEF IInv
<1>2. ASSUME IInv, Next, pc \in Ended PROVE IInv'
  BY <1>1, <1>2, Rested
<1>3. ASSUME IInv, Next, pc \notin Ended PROVE IInv'
  <2>1. PICK lvl : Walk(lvl)
    BY <1>3 DEF IInv
  <2>2. TypeOK'
    BY <1>3, TypesKept DEF IInv
  <2>3. CASE pc' \in Ended
    BY <1>3, <2>1, <2>2, <2>3, HaltKeeps DEF IInv
  <2>4. CASE pc' \notin Ended
    <3>1. PICK lvl2 : Walk(lvl2)'
      BY <1>3, <2>1, <2>4, WalkGoesOn
    <3>2. AllTried' /\ PartialRemoved'
      BY <2>4 DEF AllTried, PartialRemoved, Ended
    <3>3. AbortedForAReason' /\ MutualNotMade'
      BY <3>1 DEF Walk, Reasons, Mutual, MutualNotMade
    <3> QED BY <2>2, <2>4, <3>1, <3>2, <3>3 DEF IInv
  <2> QED BY <2>3, <2>4
<1> QED BY <1>1, <1>2, <1>3

\* When make ends by itself it has tried every goal and all they need, also after
\* errors with -k, and in a graph with cycles.
THEOREM EverythingTried == Spec => []AllTried
<1>1. IInv => AllTried
  BY DEF IInv
<1> QED BY <1>1, IInvBegins, IInvKept, PTL DEF Spec

\* Nothing is given up without a source that is in error or given up: where a cycle
\* is met, the node that is met is in error at once and remains so.
THEOREM NothingGivenUpInVain == Spec => []AbortedForAReason
<1>1. IInv => AbortedForAReason
  BY DEF IInv
<1> QED BY <1>1, IInvBegins, IInvKept, PTL DEF Spec

\* ^C leaves nothing half made but what is precious or had failed: curTarg names
\* the target whenever its commands may have written to it.
THEOREM InterruptCleans == Spec => []PartialRemoved
<1>1. IInv => PartialRemoved
  BY DEF IInv
<1> QED BY <1>1, IInvBegins, IInvKept, PTL DEF Spec

\* Of two targets that are made from each other neither is ever made or passed.
THEOREM NeitherIsMade == Spec => []MutualNotMade
<1>1. IInv => MutualNotMade
  BY DEF IInv
<1> QED BY <1>1, IInvBegins, IInvKept, PTL DEF Spec
=============================================================================
