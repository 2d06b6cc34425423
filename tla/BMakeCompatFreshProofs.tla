--------------------- MODULE BMakeCompatFreshProofs ---------------------
(***************************************************************************)
(* Theorems about BMakeCompat without -k, for any finite graph without        *)
(* cycles: rank is any numbering in which sources come before what is made   *)
(* from them.                                                               *)
(***************************************************************************)
EXTENDS BMakeCompatProofs

USE GraphAssumption, KindsAssumption, FlagsAssumption

-----------------------------------------------------------------------------
(* The calls in a graph without cycles.                                     *)

Acyclic(rank) ==
  rank \in [Nodes -> Nat] /\ \A n \in Nodes : \A c \in Sources[n] : rank[c] < rank[n]

\* The ranks fall from the outermost call to the innermost.
Falling(rank, lvl) == \A n, k \in On(lvl) : lvl[n] < lvl[k] => rank[k] < rank[n]

LEMMA FallsOn ==
  ASSUME NEW rank, Acyclic(rank), NEW lvl, Walk(lvl), Falling(rank, lvl),
         NEW lvl2, Follows(lvl, lvl2)
  PROVE  Falling(rank, lvl2)
<1>1. Calls(lvl) /\ \A k \in Nodes : rank[k] \in Nat /\ lvl[k] \in Nat
  BY DEF Walk, Calls, Acyclic
<1>2. ASSUME NEW c \in Nodes, NEW p \in Nodes, Pushes(c, p), lvl2 = [lvl EXCEPT ![c] = lvl[p] + 1]
      PROVE  Falling(rank, lvl2)
  <2>1. /\ c \notin On(lvl) /\ lvl[c] = 0
        /\ On(lvl) = {} \/ (top = {p} /\ p \in On(lvl) /\ c \in Sources[p])
    BY <1>1, <1>2 DEF Calls, Nested, Pushes, On
  <2>2. /\ lvl2[c] = lvl[p] + 1 /\ \A k \in Nodes : k # c => lvl2[k] = lvl[k]
        /\ On(lvl2) = On(lvl) \cup {c}
    BY <1>1, <1>2 DEF Calls, On
  <2>3. ASSUME NEW k \in On(lvl) PROVE k \in Nodes /\ k # c /\ lvl2[k] < lvl2[c] /\ rank[c] < rank[k]
    <3>1. k \in Nodes /\ k # c /\ lvl[k] <= lvl[p] /\ p \in On(lvl)
      BY <1>1, <2>1 DEF Calls, Nested, On
    <3>2. k = p \/ lvl[k] < lvl[p]
      BY <1>1, <3>1 DEF Calls, Nested
    <3>3. rank[c] < rank[p] /\ (k = p \/ rank[p] < rank[k])
      BY <2>1, <3>1, <3>2 DEF Acyclic, Falling
    <3> QED BY <1>1, <2>2, <3>1, <3>3
  <2>4. ASSUME NEW n \in On(lvl2), NEW k \in On(lvl2), lvl2[n] < lvl2[k] PROVE rank[k] < rank[n]
    <3>1. n \in Nodes /\ k \in Nodes /\ lvl2[n] \in Nat /\ lvl2[k] \in Nat
      BY <1>1, <2>2, <2>3
    <3>2. CASE n \in On(lvl) /\ k \in On(lvl)
      BY <2>2, <2>3, <2>4, <3>2 DEF Falling
    <3>3. CASE n \in On(lvl) /\ k = c
      BY <2>3, <3>3
    <3>4. CASE n = c
      <4>1. k = c \/ lvl2[k] < lvl2[c]
        BY <2>2, <2>3
      <4> QED BY <2>4, <3>1, <3>4, <4>1
    <3> QED BY <2>2, <3>2, <3>3, <3>4
  <2> QED BY <2>4 DEF Falling
<1>3. ASSUME NEW n \in Nodes, Pops(n), lvl2 = [lvl EXCEPT ![n] = 0]
      PROVE  Falling(rank, lvl2)
  <2>1. \A k \in On(lvl2) : k \in On(lvl) /\ lvl2[k] = lvl[k]
    <3>1. Popped(lvl, lvl2, n)
      BY <1>1, <1>3, PopLevels
    <3> QED BY <3>1 DEF Popped
  <2> QED BY <2>1 DEF Falling
<1> QED BY <1>2, <1>3 DEF Follows

\* The innermost call meets no node that is being made.
LEMMA NeverMet ==
  ASSUME NEW rank, Acyclic(rank), NEW lvl, Walk(lvl), Falling(rank, lvl),
         NEW n \in Nodes, top = {n}, NEW c \in Sources[n]
  PROVE  c \notin On(lvl) /\ made[c] # "beingmade" /\ c # n
<1>1. Calls(lvl) /\ n \in On(lvl) /\ c \in Nodes
  BY DEF Walk, Calls, Nested
<1>2. rank[c] \in Nat /\ rank[n] \in Nat /\ rank[c] < rank[n]
  BY DEF Acyclic
<1>3. ASSUME c \in On(lvl) PROVE FALSE
  <2>1. lvl[c] <= lvl[n] /\ lvl[c] \in Nat /\ lvl[n] \in Nat /\ lvl[c] # lvl[n]
    BY <1>1, <1>2, <1>3 DEF Calls, Nested
  <2>2. rank[n] < rank[c]
    BY <1>1, <1>3, <2>1 DEF Falling
  <2> QED BY <1>2, <2>2
<1> QED BY <1>1, <1>2, <1>3 DEF Calls, Nested

-----------------------------------------------------------------------------
(* make goes on only while nothing is wrong.                                *)

Done(n) == made[n] \in {"made", "uptodate"}

Strict ==
  /\ remake = Nodes
  /\ \A n \in Nodes : made[n] # "aborted" /\ (made[n] = "error" => pc = "error")
  /\ \A n \in Nodes : made[n] = "beingmade" => \A c \in Sources[n] \ todo[n] :
       Done(c) \/ (made[c] = "beingmade" /\ from[c] = n) \/ pc = "error"
  /\ \A n \in Nodes : Done(n) => \A c \in Sources[n] : Done(c)

LEMMA SourcesDone ==
  ASSUME NEW rank, Acyclic(rank), NEW lvl, Walk(lvl), Falling(rank, lvl), Strict,
         NEW n \in Nodes, pc \in {"child", "run"}, top = {n}
  PROVE  made[n] = "beingmade" /\ (todo[n] = {} => \A c \in Sources[n] : Done(c))
<1>1. n \in On(lvl) /\ pc # "error"
  BY DEF Walk, Calls, Nested
<1>2. made[n] = "beingmade"
  BY <1>1, Level DEF Walk, Strict
<1>3. \A c \in Sources[n] : made[c] # "beingmade"
  BY NeverMet
<1> QED BY <1>1, <1>2, <1>3 DEF Strict

\* Which steps there are: a node that is known is done, and none is aborted.
LEMMA StrictSteps ==
  ASSUME NEW rank, Acyclic(rank), NEW lvl, Walk(lvl), Falling(rank, lvl), Strict,
         Next, ~KeepGoing
  PROVE  \/ \E c, p \in Nodes : Pushes(c, p)
         \/ \E c, p \in Nodes : Knows(c, p) /\ Done(c) /\ made' = made /\ remake' = remake
         \/ \E n \in Nodes : /\ Pops(n) /\ (UpToDate(n) \/ NoExec(n) \/ CommandsOk(n))
                             /\ pc \in {"child", "run"} /\ remake' = remake
         \/ \E n \in Nodes : Turns(n) /\ (Execute(n) \/ CommandsBad(n))
         \/ Runs /\ Shell
         \/ Halts /\ (Interrupt \/ (UNCHANGED file /\ UNCHANGED torn))
<1>1. Calls(lvl)
  BY DEF Walk
<1>2. ASSUME NEW c \in Nodes, NEW p \in Nodes, Knows(c, p)
      PROVE  Done(c) /\ made' = made /\ remake' = remake
  <2>1. pc # "error" /\ (pc = "next" => On(lvl) = {})
    BY <1>1, <1>2 DEF Knows, Calls, Nested
  <2>2. made[c] # "beingmade"
    <3>1. CASE pc = "next"
      BY <1>1, <2>1, <3>1 DEF Calls, Nested
    <3>2. CASE pc # "next"
      <4>1. top = {p} /\ c \in todo[p] /\ p \in On(lvl)
        BY <1>1, <1>2, <3>2 DEF Knows, Calls, Nested
      <4>2. c \in Sources[p]
        BY <1>1, <4>1, Level
      <4> QED BY <4>1, <4>2, NeverMet
    <3> QED BY <3>1, <3>2
  <2>3. Done(c)
    BY <1>1, <1>2, <2>1, <2>2 DEF Strict, Knows, Calls, TypeOK, MadeValues, Done
  <2> QED BY <1>1, <1>2, <2>3 DEF Knows, Known, Calls, TypeOK, Done
<1>3. ASSUME NEW n \in Nodes, Pops(n), Returns(n)
      PROVE  /\ UpToDate(n) \/ NoExec(n) \/ CommandsOk(n)
             /\ pc \in {"child", "run"} /\ remake' = remake
  <2>1. ~Abort(n)
    BY DEF Abort, Aborted, Strict
  <2>2. UpToDate(n) \/ NoExec(n) \/ CommandsOk(n)
    BY <1>3, <2>1 DEF Returns
  <2> QED BY <2>2 DEF UpToDate, NoExec, CommandsOk, Examined, Made
<1> QED BY <1>1, <1>2, <1>3, CallSteps

LEMMA StrictKept ==
  ASSUME NEW rank, Acyclic(rank), NEW lvl, Walk(lvl), Falling(rank, lvl), Strict,
         Next, ~KeepGoing, pc' \notin Ended
  PROVE  Strict'
<1> USE DEF Strict, Done
<1>0. Calls(lvl) /\ TypeOK
  BY DEF Walk, Calls
<1>1. ASSUME NEW c \in Nodes, NEW p \in Nodes, Pushes(c, p) PROVE Strict'
  <2>1. made'[c] = "beingmade" /\ \A n \in Nodes \ {c} : made'[n] = made[n]
    BY <1>0, <1>1 DEF Pushes, TypeOK
  <2>2. /\ todo'[c] = Sources[c] /\ pc' = "child" /\ from'[c] = p
        /\ \A n \in Nodes \ {c} : /\ from'[n] = from[n]
                                  /\ todo'[n] = todo[n] \/ (n = p /\ todo'[n] = todo[n] \ {c})
        /\ made[c] = "unmade" /\ pc # "error" /\ remake' = Nodes
    BY <1>0, <1>1 DEF Pushes, TypeOK
  <2>3. ASSUME NEW n \in Nodes, made'[n] = "beingmade", NEW k \in Sources[n] \ todo'[n]
        PROVE  made'[k] \in {"made", "uptodate"} \/ (made'[k] = "beingmade" /\ from'[k] = n)
    <3>1. n # c /\ made[n] = "beingmade"
      BY <2>1, <2>2, <2>3
    <3>2. CASE k = c
      <4>1. CASE n = p
        BY <2>1, <2>2, <3>2, <4>1
      <4>2. CASE n # p
        <5>1. k \in Sources[n] \ todo[n]
          BY <2>2, <2>3, <3>1, <4>2
        <5> QED BY <2>2, <3>1, <3>2, <5>1
      <4> QED BY <4>1, <4>2
    <3>3. CASE k # c
      BY <2>1, <2>2, <2>3, <3>1, <3>3
    <3> QED BY <3>2, <3>3
  <2>4. ASSUME NEW n \in Nodes, made'[n] \in {"made", "uptodate"}, NEW k \in Sources[n]
        PROVE  made'[k] \in {"made", "uptodate"}
    BY <2>1, <2>2, <2>4
  <2> QED BY <2>1, <2>2, <2>3, <2>4
<1>2. ASSUME NEW c \in Nodes, NEW p \in Nodes, Knows(c, p), Done(c), made' = made, remake' = remake
      PROVE  Strict'
  <2>1. UNCHANGED <<from, pc>> /\ \A n \in Nodes : todo'[n] = todo[n] \/ todo'[n] = todo[n] \ {c}
    BY <1>0, <1>2 DEF Knows, TypeOK
  <2> QED BY <1>2, <2>1
<1>3. ASSUME NEW n \in Nodes, Pops(n), UpToDate(n) \/ NoExec(n) \/ CommandsOk(n),
             pc \in {"child", "run"}, remake' = remake
      PROVE  Strict'
  <2>1. /\ made' = [made EXCEPT ![n] = "made"] \/ made' = [made EXCEPT ![n] = "uptodate"]
        /\ top = {n} /\ todo[n] = {}
    BY <1>3 DEF Pops, UpToDate, NoExec, CommandsOk, Made
  <2>2. made[n] = "beingmade" /\ \A c \in Sources[n] : Done(c)
    BY <1>3, <2>1, SourcesDone
  <2>3. made'[n] \in {"made", "uptodate"} /\ \A k \in Nodes \ {n} : made'[k] = made[k]
    BY <1>0, <2>1 DEF TypeOK
  <2>4. from' = from /\ todo' = todo /\ pc' \in {"next", "child"} /\ pc # "error"
    BY <1>3 DEF Pops
  <2>5. \A c \in Sources[n] : c # n
    BY <2>1, NeverMet
  <2>6. \A k \in Nodes : k # n => (k \in Nodes \ {n})
    OBVIOUS
  <2> QED BY <1>3, <2>2, <2>3, <2>4, <2>5, <2>6
<1>4. ASSUME NEW n \in Nodes, Turns(n) PROVE Strict'
  <2>1. made[n] = "beingmade" /\ pc # "error" /\ remake' = remake
    BY <1>4, SourcesDone DEF Turns
  <2>2. CASE made' = made
    BY <1>4, <2>1, <2>2 DEF Turns
  <2>3. CASE made' = [made EXCEPT ![n] = "error"] /\ pc' = "error"
    <3>1. made'[n] = "error" /\ \A k \in Nodes \ {n} : made'[k] = made[k]
      BY <1>0, <2>3 DEF TypeOK
    <3> QED BY <1>4, <2>1, <2>3, <3>1 DEF Turns
  <2> QED BY <1>4, <2>2, <2>3 DEF Turns
<1>5. CASE Runs
  BY <1>5 DEF Runs
<1>6. ~Halts
  BY DEF Halts
<1> HIDE DEF Strict
<1> QED BY <1>1, <1>2, <1>3, <1>4, <1>5, <1>6, StrictSteps

\* What is known of the time of a source stays known. A source that was made and
\* is not there has forced its first parent and is dated now for all of them.
Missing(c) == made[c] = "made" /\ file[c] = 0

Passed(n) == file[n] # 0 /\
  \A c \in Sources[n] : file[c] <= file[n] /\ (file[c] = 0 => Unforced(n, c))

Dated ==
  /\ \A c \in Nodes : Missing(c) => from[c] \in force
  /\ \A n \in Nodes : made[n] = "beingmade" => \A c \in Sources[n] \ todo[n] : Done(c) =>
       /\ file[c] <= cmtime[n]
       /\ file[c] = 0 => made[c] = "made" /\ Now <= cmtime[n]
  /\ \A n \in Nodes : made[n] = "uptodate" => Passed(n)

\* Only the target being made is written or removed.
LEMMA FilesRest ==
  ASSUME NEW lvl, Walk(lvl), Next
  PROVE  \A c \in Nodes : c \notin curTarg \/ Done(c) => file'[c] = file[c]
<1>1. Calls(lvl)
  BY DEF Walk
<1>2. CASE Shell \/ Interrupt
  <2>1. \A c \in top : ~Done(c) /\ (proc # "none" => curTarg = top)
    BY <1>1, Level DEF Calls, Nested, Noted, Done
  <2>2. curTarg \subseteq top
    BY <1>1 DEF Calls, Noted
  <2>3. \A c \in Nodes : c \notin curTarg => file'[c] = file[c]
    BY <1>2, <2>1 DEF Shell, Write, Succeed, Fail, Interrupt
  <2> QED BY <2>1, <2>2, <2>3
<1>3. CASE ~Shell /\ ~Interrupt
  BY <1>3
  DEF Next, Program, Goal, Child, Abort, UpToDate, NoExec, DontKnow, Execute, CommandsOk,
              CommandsBad, Stop, Finish, Rest, vars, world
<1> QED BY <1>2, <1>3

LEMMA TimeStamps ==
  ASSUME TypeOK, NEW ps \in SUBSET Nodes, NEW time \in Times,
         cmtime' = Make_TimeStamp(ps, time)
  PROVE  \A p \in Nodes : /\ cmtime'[p] \in Times /\ cmtime[p] <= cmtime'[p]
                          /\ p \in ps => time <= cmtime'[p]
BY DEF TypeOK, Make_TimeStamp, Times

LEMMA FreshRests ==
  ASSUME NEW lvl, Walk(lvl), Strict, Dated, Next,
         \A c \in Nodes : Done(c) => made'[c] = made[c] /\ from'[c] = from[c]
  PROVE  \A n \in Nodes : made[n] = "uptodate" => Passed(n)'
<1>1. ASSUME NEW n \in Nodes, made[n] = "uptodate"
      PROVE  /\ Passed(n) /\ file'[n] = file[n]
             /\ \A c \in Sources[n] : /\ file'[c] = file[c] /\ made'[c] = made[c]
                                      /\ from'[c] = from[c]
  <2>1. Done(n) /\ \A c \in Sources[n] : c \in Nodes /\ Done(c)
    BY <1>1 DEF Strict, Done
  <2> QED BY <1>1, <2>1, FilesRest DEF Dated
<1> QED BY <1>1 DEF Passed, Unforced

\* What is done is not called again, and nobody takes FORCE away.
LEMMA DoneRests ==
  ASSUME NEW rank, Acyclic(rank), NEW lvl, Walk(lvl), Falling(rank, lvl), Strict,
         Next, ~KeepGoing
  PROVE  /\ \A c \in Nodes : Done(c) => made'[c] = made[c] /\ from'[c] = from[c]
         /\ force \subseteq force'
<1>0. TypeOK
  BY DEF Walk, Calls
<1>1. ASSUME NEW c \in Nodes, NEW p \in Nodes, Pushes(c, p)
      PROVE  /\ \A k \in Nodes : Done(k) => made'[k] = made[k] /\ from'[k] = from[k]
             /\ force' = force
  BY <1>0, <1>1 DEF Pushes, Done, TypeOK
<1>2. ASSUME NEW c \in Nodes, NEW p \in Nodes, Knows(c, p), made' = made
      PROVE  UNCHANGED <<made, from, force>>
  BY <1>2 DEF Knows, Known
<1>3. ASSUME NEW n \in Nodes, Pops(n), UpToDate(n) \/ NoExec(n) \/ CommandsOk(n),
             pc \in {"child", "run"}
      PROVE  /\ \A k \in Nodes : Done(k) => made'[k] = made[k] /\ from'[k] = from[k]
             /\ force \subseteq force'
  <2>1. made[n] = "beingmade" /\ UNCHANGED from
    BY <1>3, SourcesDone DEF Pops
  <2>2. \A k \in Nodes \ {n} : made'[k] = made[k]
    BY <1>0, <1>3 DEF Pops, TypeOK
  <2>3. force \subseteq force'
    BY <1>3 DEF UpToDate, NoExec, CommandsOk, Made
  <2> QED BY <2>1, <2>2, <2>3 DEF Done
<1>4. ASSUME NEW n \in Nodes, Turns(n)
      PROVE  /\ \A k \in Nodes : Done(k) => made'[k] = made[k] /\ from'[k] = from[k]
             /\ force' = force
  <2>1. made[n] = "beingmade" /\ UNCHANGED <<from, force>>
    BY <1>4, SourcesDone DEF Turns
  <2>2. \A k \in Nodes \ {n} : made'[k] = made[k]
    BY <1>0, <1>4 DEF Turns, TypeOK
  <2> QED BY <2>1, <2>2 DEF Done
<1>5. Runs \/ Halts => UNCHANGED <<made, from, force>>
  BY DEF Runs, Halts
<1> QED BY <1>1, <1>2, <1>3, <1>4, <1>5, StrictSteps

\* What n has been told of a source c that has been dealt with.
Told(n, c) == file[c] <= cmtime[n] /\ (file[c] = 0 => made[c] = "made" /\ Now <= cmtime[n])

LEMMA DatedKept ==
  ASSUME NEW rank, Acyclic(rank), NEW lvl, Walk(lvl), Falling(rank, lvl), Strict, Dated,
         Next, ~KeepGoing, TypeOK', pc' \notin Ended
  PROVE  Dated'
<1>0. /\ \A c \in Nodes : c \notin curTarg \/ Done(c) => file'[c] = file[c]
      /\ TypeOK /\ \A n \in Nodes : file[n] \in Times /\ cmtime[n] \in Times
      /\ \A n \in Nodes : file'[n] \in Times /\ cmtime'[n] \in Times
  BY FilesRest DEF Walk, Calls, TypeOK
<1>a. \A n \in Nodes : made[n] = "uptodate" => Passed(n)'
  BY DoneRests, FreshRests
<1>b. \A c \in Nodes : Done(c) /\ Missing(c)' => from'[c] \in force'
  BY <1>0, DoneRests DEF Dated, Missing
<1>c. \A n \in Nodes : made[n] = "beingmade" =>
        \A c \in Sources[n] \ todo[n] : Done(c) => Told(n, c)
  BY DEF Dated, Told
\* What had been told stays so, if nothing older is told.
<1>d. ASSUME NEW n \in Nodes, NEW c \in Nodes, Done(c), Told(n, c), cmtime[n] <= cmtime'[n]
      PROVE  Told(n, c)'
  <2>1. file'[c] = file[c] /\ made'[c] = made[c]
    BY <1>0, <1>d, DoneRests
  <2>2. file[c] \in Int /\ cmtime[n] \in Int /\ cmtime'[n] \in Int /\ Now \in Int
    BY <1>0 DEF Times
  <2> QED BY <1>d, <2>1, <2>2 DEF Told
\* It is enough to look at what is done by this step.
<1>e. ASSUME \A n \in Nodes : made'[n] = "made" => Done(n) \/ (Missing(n)' => from'[n] \in force'),
             \A n \in Nodes : made'[n] = "uptodate" => made[n] = "uptodate" \/ Passed(n)',
             \A n \in Nodes : made'[n] = "beingmade" =>
               \A c \in Sources[n] \ todo'[n] : Done(c)' => Told(n, c)'
      PROVE  Dated'
  <2>1. \A c \in Nodes : Missing(c)' => from'[c] \in force'
    BY <1>b, <1>e DEF Missing
  <2>2. \A n \in Nodes : made'[n] = "uptodate" => Passed(n)'
    BY <1>a, <1>e
  <2> QED BY <1>e, <2>1, <2>2 DEF Dated, Told
<1>1. ASSUME NEW c \in Nodes, NEW p \in Nodes, Pushes(c, p) PROVE Dated'
  <2>1. made'[c] = "beingmade" /\ \A n \in Nodes \ {c} : made'[n] = made[n]
    BY <1>1 DEF Pushes, Walk, Calls, TypeOK
  <2>2. /\ todo'[c] = Sources[c]
        /\ \A n \in Nodes \ {c} : todo'[n] = todo[n] \/ todo'[n] = todo[n] \ {c}
        /\ made[c] = "unmade" /\ cmtime' = cmtime
    BY <1>1 DEF Pushes
  <2>3. ASSUME NEW n \in Nodes, made'[n] = "beingmade", NEW k \in Sources[n] \ todo'[n], Done(k)'
        PROVE  Told(n, k)'
    <3>1. n # c /\ k # c /\ made[n] = "beingmade" /\ k \in Sources[n] \ todo[n] /\ Done(k)
      BY <2>1, <2>2, <2>3 DEF Done
    <3>2. k \in Nodes /\ cmtime[n] <= cmtime'[n]
      BY <1>0, <2>2, <3>1 DEF Times
    <3> QED BY <1>c, <1>d, <3>1, <3>2
  <2> QED BY <1>e, <2>1, <2>3 DEF Done
<1>2. ASSUME NEW c \in Nodes, NEW p \in Nodes, Knows(c, p), Done(c), made' = made PROVE Dated'
  <2>1. made[c] \in {"made", "uptodate"}
    BY <1>2 DEF Done
  <2>2. UNCHANGED <<made, file>>
        /\ \A n \in Nodes : todo'[n] = todo[n] \/ (n = p /\ todo'[n] = todo[n] \ {c})
    BY <1>0, <1>2 DEF Knows, world, TypeOK
  <2>3. Told(p, c)' /\ \A n \in Nodes : cmtime[n] <= cmtime'[n]
    <3>1. CASE made[c] = "made"
      <4>1. Recheck(c) \in Times /\ cmtime' = Make_TimeStamp({p}, Recheck(c))
        BY <1>0, <1>2, <3>1 DEF Knows, Known, Recheck, Times
      <4>2. Recheck(c) <= cmtime'[p] /\ \A n \in Nodes : cmtime[n] <= cmtime'[n]
        BY <1>0, <4>1, TimeStamps
      <4> QED BY <1>0, <2>2, <3>1, <4>2 DEF Told, Recheck, Times
    <3>2. CASE made[c] = "uptodate"
      <4>1. cmtime' = Make_TimeStamp({p}, file[c])
        BY <1>2, <3>2 DEF Knows, Known
      <4>2. file[c] <= cmtime'[p] /\ \A n \in Nodes : cmtime[n] <= cmtime'[n]
        BY <1>0, <4>1, TimeStamps
      <4>3. file[c] # 0
        BY <3>2 DEF Dated, Passed
      <4> QED BY <2>2, <4>2, <4>3 DEF Told
    <3> QED BY <2>1, <3>1, <3>2
  <2>4. ASSUME NEW n \in Nodes, made'[n] = "beingmade", NEW k \in Sources[n] \ todo'[n], Done(k)'
        PROVE  Told(n, k)'
    <3>1. CASE k = c /\ n = p
      BY <2>3, <3>1
    <3>2. CASE k \notin todo[n]
      <4>1. made[n] = "beingmade" /\ Done(k) /\ k \in Nodes
        BY <2>2, <2>4 DEF Done
      <4> QED BY <1>c, <1>d, <2>3, <2>4, <3>2, <4>1
    <3> QED BY <2>2, <2>4, <3>1, <3>2
  <2> QED BY <1>e, <2>2, <2>4 DEF Done
<1>3. ASSUME NEW n \in Nodes, Pops(n), UpToDate(n) \/ NoExec(n) \/ CommandsOk(n),
             pc \in {"child", "run"}
      PROVE  Dated'
  <2>1. top = {n} /\ todo[n] = {} /\ todo' = todo /\ file' = file
    BY <1>3 DEF Pops
  <2>2. made[n] = "beingmade" /\ \A c \in Sources[n] : Done(c)
    BY <1>3, <2>1, SourcesDone
  <2>3. /\ \A k \in Nodes \ {n} : made'[k] = made[k]
        /\ made'[n] \in {"made", "uptodate", "error", "aborted"}
    BY <1>0, <1>3 DEF Pops, TypeOK
  \* The other sources of a node have been told before.
  <2>4. ASSUME \A k \in Nodes : cmtime[k] <= cmtime'[k],
               \A k \in Nodes : made[k] = "beingmade" /\ k # n /\ n \in Sources[k] \ todo[k]
                 => Told(k, n)'
        PROVE  \A k \in Nodes : made'[k] = "beingmade" =>
                 \A c \in Sources[k] \ todo'[k] : Done(c)' => Told(k, c)'
    <3> SUFFICES ASSUME NEW k \in Nodes, made'[k] = "beingmade",
                        NEW c \in Sources[k] \ todo'[k], Done(c)'
                 PROVE  Told(k, c)'
      OBVIOUS
    <3>1. k # n /\ made[k] = "beingmade" /\ c \in Nodes /\ c \notin todo[k]
      BY <2>1, <2>3
    <3>2. CASE c = n
      BY <2>4, <3>1, <3>2
    <3>3. CASE c # n
      <4>1. Done(c)
        BY <2>3, <3>1, <3>3 DEF Done
      <4> QED BY <1>c, <1>d, <2>4, <3>1, <4>1
    <3> QED BY <3>2, <3>3
  <2>5. CASE UpToDate(n)
    <3>1. /\ made'[n] = "uptodate" /\ UNCHANGED <<force, from>>
          /\ file[n] \in Times
          /\ cmtime' = Make_TimeStamp({p \in Nodes : n \in Sources[p]}, file[n])
      BY <1>0, <1>3, <2>5 DEF UpToDate, TypeOK, Pops
    <3>2. /\ file[n] # 0 /\ cmtime[n] <= file[n] /\ n \notin force
      BY <1>0, <2>5 DEF UpToDate, OODate, Times
    <3>3. /\ \A k \in Nodes : cmtime[k] <= cmtime'[k]
          /\ \A k \in Nodes : n \in Sources[k] => file[n] <= cmtime'[k]
      <4> DEFINE ps == {p \in Nodes : n \in Sources[p]}
      <4>1. ps \in SUBSET Nodes /\ cmtime' = Make_TimeStamp(ps, file[n])
        BY <3>1
      <4>2. \A k \in Nodes : cmtime[k] <= cmtime'[k] /\ (k \in ps => file[n] <= cmtime'[k])
        <5> HIDE DEF ps
        <5> QED BY <1>0, <3>1, <4>1, TimeStamps
      <4> QED BY <4>2
    <3>4. Passed(n)'
      <4> SUFFICES ASSUME NEW c \in Sources[n]
                   PROVE  file'[c] <= file'[n] /\ (file'[c] = 0 => Unforced(n, c)')
        BY <2>1, <3>2 DEF Passed
      <4>1. c \in Nodes /\ c # n /\ Told(n, c) /\ made'[c] = made[c] /\ from'[c] = from[c]
        BY <1>c, <2>1, <2>2, <2>3, <3>1, NeverMet
      <4>2. file[c] \in Int /\ cmtime[n] \in Int /\ file[n] \in Int /\ Now \in Int
        BY <1>0, <4>1 DEF Times
      <4>3. file[c] <= file[n] /\ (file[c] = 0 => Now <= file[n] /\ made[c] = "made")
        BY <3>2, <4>1, <4>2 DEF Told
      <4>4. file[c] = 0 => from[c] # n
        BY <3>2, <4>1, <4>3 DEF Dated, Missing
      <4> QED BY <2>1, <4>1, <4>3, <4>4 DEF Unforced
    <3>5. \A k \in Nodes : n \in Sources[k] => Told(k, n)'
      BY <2>1, <3>2, <3>3 DEF Told
    <3>6. \A k \in Nodes : made'[k] = "made" => Done(k)
      BY <2>3, <3>1 DEF Done
    <3>7. \A k \in Nodes : made'[k] = "uptodate" => made[k] = "uptodate" \/ Passed(k)'
      BY <2>3, <3>4
    <3>8. \A k \in Nodes : made'[k] = "beingmade" =>
            \A c \in Sources[k] \ todo'[k] : Done(c)' => Told(k, c)'
      BY <2>4, <3>3, <3>5
    <3> QED BY <1>e, <3>6, <3>7, <3>8
  <2>6. CASE NoExec(n) \/ CommandsOk(n)
    <3>1. Made(n) /\ Recheck(n) \in Times /\ made'[n] = "made" /\ from' = from
      BY <1>0, <1>3, <2>6 DEF NoExec, CommandsOk, Made, Recheck, Times, TypeOK, Pops
    <3>2. /\ file[n] = 0 => from[n] \in force'
          /\ Recheck(n) <= cmtime'[from[n]]
          /\ \A k \in Nodes : cmtime[k] <= cmtime'[k]
      <4>1. from[n] \in Nodes /\ cmtime' = Make_TimeStamp({from[n]}, Recheck(n))
        BY <1>0, <3>1 DEF Made, TypeOK
      <4>2. file[n] = 0 => from[n] \in force'
        BY <3>1 DEF Made
      <4> QED BY <1>0, <3>1, <4>1, <4>2, TimeStamps
    <3>3. ASSUME NEW k \in Nodes, made[k] = "beingmade", k # n, n \in Sources[k] \ todo[k]
          PROVE  Told(k, n)'
      <4>1. from[n] = k
        BY <1>3, <2>2, <3>3 DEF Strict, Done
      <4> QED BY <1>0, <2>1, <3>1, <3>2, <4>1 DEF Told, Recheck, Times
    <3>4. Missing(n)' => from'[n] \in force'
      BY <2>1, <3>1, <3>2 DEF Missing
    <3> QED BY <1>e, <2>3, <2>4, <3>1, <3>2, <3>3, <3>4 DEF Done
  <2> QED BY <1>3, <2>5, <2>6
<1>4. ASSUME NEW n \in Nodes, Turns(n) \/ Runs PROVE Dated'
  <2>1. UNCHANGED <<cmtime, todo>>
    BY <1>4 DEF Turns, Runs
  <2>2. /\ \A k \in Nodes \ {n} : made'[k] = made[k]
        /\ made'[n] = made[n] \/ made'[n] = "error"
    BY <1>0, <1>4 DEF Turns, Runs, TypeOK
  <2>3. ASSUME NEW k \in Nodes, made'[k] = "beingmade", NEW c \in Sources[k] \ todo'[k], Done(c)'
        PROVE  Told(k, c)'
    <3>1. made[k] = "beingmade" /\ c \in Nodes /\ c \notin todo[k] /\ Done(c)
      BY <2>1, <2>2, <2>3 DEF Done
    <3>2. cmtime[k] <= cmtime'[k]
      BY <1>0, <2>1 DEF Times
    <3> QED BY <1>c, <1>d, <3>1, <3>2
  <2> QED BY <1>e, <2>2, <2>3 DEF Done
<1>5. CASE Runs
  <2>1. Nodes # {}
    BY <1>5 DEF Runs, Walk, Calls, Nested
  <2> QED BY <1>4, <1>5, <2>1
<1>6. ~Halts
  BY DEF Halts
<1> HIDE DEF Dated
<1> QED BY <1>1, <1>2, <1>3, <1>4, <1>5, <1>6, StrictSteps

\* All of it together.
Sound(rank) ==
  /\ FreshIfPassed
  /\ pc \notin Ended => Strict /\ Dated /\ \E lvl : Walk(lvl) /\ Falling(rank, lvl)

LEMMA SoundBegins == ASSUME NEW rank, Init PROVE Sound(rank)
<1>1. Walk([n \in Nodes |-> 0])
  BY WalkBegins
<1>2. Falling(rank, [n \in Nodes |-> 0])
  BY DEF Falling, On
<1>3. Strict /\ Dated /\ FreshIfPassed
  BY DEF Init, Strict, Dated, Done, FreshIfPassed, Missing
<1> QED BY <1>1, <1>2, <1>3 DEF Sound

LEMMA SoundKept ==
  ASSUME NEW rank, Acyclic(rank), ~KeepGoing, IInv, Sound(rank), [Next]_vars
  PROVE  Sound(rank)'
<1>1. ASSUME UNCHANGED vars PROVE Sound(rank)'
  <2>1. UNCHANGED <<made, remake, force, cmtime, from, todo, top, curTarg, pc, file, torn, proc, targs>>
    BY <1>1 DEF vars, nodes, calls, world
  <2>2. FreshIfPassed' /\ (Strict => Strict') /\ (Dated => Dated')
    BY <2>1 DEF Sound, FreshIfPassed, Strict, Dated, Done, Missing, Passed, Unforced
  <2>3. ASSUME NEW lvl, Walk(lvl) PROVE Walk(lvl)'
    <3>1. Calls(lvl)'
      BY <2>1, <2>3 DEF Walk, Calls, TypeOK, Nested, Noted, Doomed
    <3> QED BY <2>1, <2>3, <3>1 DEF Walk, Tried, Reasons, AbortedForAReason, Bad, Parts, Mutual, Doomed
  <2> QED BY <2>1, <2>2, <2>3 DEF Sound
<1>2. CASE Next /\ pc \in Ended
  BY <1>1, <1>2, Rested
<1>3. CASE Next /\ pc \notin Ended
  <2>1. Strict /\ Dated
    BY <1>3 DEF Sound
  <2>2. PICK lvl : Walk(lvl) /\ Falling(rank, lvl)
    BY <1>3 DEF Sound
  <2>3. CASE pc' \notin Ended
    <3>1. PICK lvl2 : Follows(lvl, lvl2) /\ Walk(lvl2)'
      BY <1>3, <2>2, <2>3, WalkGoesOn
    <3>2. Falling(rank, lvl2)
      BY <2>2, <3>1, FallsOn
    <3>3. TypeOK'
      BY <3>1 DEF Walk, Calls
    <3>4. Strict' /\ Dated'
      BY <1>3, <2>1, <2>2, <2>3, <3>3, StrictKept, DatedKept
    <3>5. FreshIfPassed'
      BY <3>4 DEF Dated, Passed, FreshIfPassed, Unforced
    <3> QED BY <3>1, <3>2, <3>4, <3>5 DEF Sound
  <2>4. CASE pc' \in Ended
    <3>1. made' = made
      <4>1. ASSUME NEW n \in Nodes PROVE ~Pops(n) /\ ~Turns(n)
        BY <2>4 DEF Pops, Turns, Ended
      <4>2. ASSUME NEW c \in Nodes, NEW p \in Nodes PROVE ~Pushes(c, p) /\ ~Knows(c, p)
        BY <1>3, <2>4 DEF Pushes, Knows, Ended
      <4>3. ~Runs
        BY <1>3, <2>4 DEF Runs
      <4>4. Halts
        BY <1>3, <2>1, <2>2, <4>1, <4>2, <4>3, StrictSteps
      <4> QED BY <4>4 DEF Halts
    <3>2. FreshIfPassed'
      <4>1. \A n \in Nodes : made[n] = "uptodate" => Passed(n)'
        BY <1>3, <2>1, <2>2, DoneRests, FreshRests
      <4> QED BY <3>1, <4>1 DEF Passed, Unforced, FreshIfPassed
    <3> QED BY <2>4, <3>2 DEF Sound
  <2> QED BY <2>3, <2>4
<1> QED BY <1>1, <1>2, <1>3

\* Without -k nothing is taken to be up to date that is older than a source, and it
\* stays so; nor what has a source that is not there, except where another parent
\* was flagged FORCE for it and the target is as new as make itself.
THEOREM PassedIsFresh ==
  ASSUME NEW rank, Acyclic(rank) PROVE Spec => []FreshIfPassed
<1>1. CASE ~KeepGoing
  <2>1. Init => IInv /\ Sound(rank)
    BY IInvBegins, SoundBegins
  <2>2. IInv /\ Sound(rank) /\ [Next]_vars => IInv' /\ Sound(rank)'
    BY <1>1, IInvKept, SoundKept
  <2>3. Sound(rank) => FreshIfPassed
    BY DEF Sound
  <2> QED BY <2>1, <2>2, <2>3, PTL DEF Spec
<1>2. CASE KeepGoing
  <2>1. FreshIfPassed
    BY <1>2 DEF FreshIfPassed
  <2> QED BY <2>1, PTL
<1> QED BY <1>1, <1>2 DEF FlagsAssumption

-----------------------------------------------------------------------------
(* Refinement.                                                             *)

LEMMA Moves ==
  ASSUME NEW n \in Nodes, NEW st, Status(n)' = st, UNCHANGED (pc \in Ended),
         \A p \in Nodes \ {n} : Status(p)' = Status(p)
  PROVE  Graph!Becomes(n, st)
BY Zenon DEF Graph!Becomes

LEMMA Stays ==
  ASSUME \A p \in Nodes : Status(p)' = Status(p), pc \in Ended => pc' \in Ended
  PROVE  Graph!End \/ UNCHANGED Graph!vars
<1>1. UNCHANGED [p \in Nodes |-> Status(p)]
  BY Zenon
<1> QED BY <1>1 DEF Graph!End, Graph!vars

LEMMA Unmoved ==
  ASSUME NEW p \in Nodes, p \in curTarg' <=> p \in curTarg,
         \/ made'[p] = made[p]
         \/ p \notin curTarg /\ made[p] = "unmade" /\ made'[p] = "beingmade"
  PROVE  Status(p)' = Status(p)
BY DEF Status

\* A node is examined while nothing is being made and everything it is made from
\* is done.
LEMMA GoingNow ==
  ASSUME NEW rank, Acyclic(rank), NEW lvl, Walk(lvl), Falling(rank, lvl), Strict,
         NEW n \in Nodes, Examined(n)
  PROVE  /\ Graph!Going /\ Graph!Ready(n) /\ Graph!Having("making") = {}
         /\ made[n] = "beingmade" /\ curTarg = {} /\ pc \notin Ended
<1>1. pc = "child" /\ top = {n} /\ todo[n] = {} /\ pc \notin Ended /\ curTarg = {}
  BY DEF Examined, Ended, Walk, Calls, Noted
<1>2. made[n] = "beingmade" /\ \A c \in Sources[n] : Done(c)
  BY <1>1, SourcesDone
<1>3. \A p \in Nodes : made[p] \notin {"error", "aborted"}
  BY <1>1 DEF Strict
<1>4. \A p \in Nodes : Status(p) \notin {"left", "making"}
  BY <1>1, <1>3 DEF Status
<1>5. Graph!Having("left") = {} /\ Graph!Having("making") = {}
  BY <1>4 DEF Graph!Having
<1>6. Graph!Going
  BY <1>1, <1>5 DEF Graph!Going
<1>7. Status(n) = "waiting" /\ \A c \in Sources[n] : c \in Nodes /\ Status(c) = "done"
  BY <1>1, <1>2 DEF Status, Done
<1>8. Graph!Ready(n)
  BY <1>7 DEF Graph!Ready
<1> QED BY <1>1, <1>2, <1>5, <1>6, <1>8

LEMMA SameCardinality == \A S : Graph!Cardinality(S) = Cardinality(S)
BY Zenon DEF Graph!Cardinality, Cardinality

LEMMA PopStep ==
  ASSUME NEW rank, Acyclic(rank), NEW lvl, Walk(lvl), Falling(rank, lvl), Strict,
         NEW n \in Nodes, Pops(n), UpToDate(n) \/ NoExec(n) \/ CommandsOk(n)
  PROVE  Graph!Pass(n) \/ Graph!Finish(n)
<1>1. made'[n] \in {"made", "uptodate"} /\ \A p \in Nodes \ {n} : made'[p] = made[p]
  <2>1. made' = [made EXCEPT ![n] = "made"] \/ made' = [made EXCEPT ![n] = "uptodate"]
    BY DEF UpToDate, NoExec, CommandsOk, Made
  <2> QED BY <2>1 DEF Walk, Calls, TypeOK
<1>2. Status(n)' = "done"
  BY <1>1 DEF Status
<1>3. pc \notin Ended /\ pc' \notin Ended /\ curTarg \subseteq {n} /\ curTarg' = {}
  BY DEF Pops, Ended, Walk, Calls, Noted
<1>4. \A p \in Nodes \ {n} : Status(p)' = Status(p)
  BY <1>1, <1>3, Unmoved
<1>5. Graph!Becomes(n, "done")
  BY <1>2, <1>3, <1>4, Moves
<1>6. CASE UpToDate(n) \/ NoExec(n)
  <2>1. Examined(n)
    BY <1>6 DEF UpToDate, NoExec
  <2> QED BY <1>5, <2>1, GoingNow DEF Graph!Pass
<1>7. CASE CommandsOk(n)
  <2>1. pc = "run" /\ top = {n} /\ curTarg = {n}
    BY <1>7 DEF CommandsOk, Walk, Calls, Noted
  <2>2. made[n] = "beingmade"
    BY <2>1, SourcesDone
  <2>3. Status(n) = "making"
    BY <2>1, <2>2 DEF Status
  <2> QED BY <1>3, <1>5, <2>3 DEF Graph!Finish
<1> QED BY <1>6, <1>7

LEMMA TurnStep ==
  ASSUME NEW rank, Acyclic(rank), NEW lvl, Walk(lvl), Falling(rank, lvl), Strict,
         NEW n \in Nodes, Turns(n), Execute(n) \/ CommandsBad(n)
  PROVE  Graph!Begin(n) \/ Graph!Leave(n)
<1>1. CASE Execute(n)
  <2>1. Examined(n) /\ curTarg' = {n} /\ made' = made /\ pc' \notin Ended
    BY <1>1 DEF Execute, nodes, Ended
  <2>2. /\ Graph!Going /\ Graph!Ready(n) /\ Graph!Having("making") = {}
        /\ made[n] = "beingmade" /\ curTarg = {} /\ pc \notin Ended
    BY <2>1, GoingNow
  <2>3. Status(n)' = "making"
    BY <2>1, <2>2 DEF Status
  <2>4. \A p \in Nodes \ {n} : Status(p)' = Status(p)
    BY <2>1, <2>2, Unmoved
  <2>5. Cardinality({}) < 1
    BY FS_EmptySet
  <2>6. Graph!Becomes(n, "making")
    BY <2>1, <2>2, <2>3, <2>4, Moves
  <2> QED BY <2>2, <2>5, <2>6, SameCardinality DEF Graph!Begin
<1>2. CASE CommandsBad(n)
  <2>1. /\ pc = "run" /\ top = {n} /\ curTarg = {n}
        /\ pc \notin Ended /\ pc' \notin Ended /\ curTarg' = curTarg
    BY <1>2 DEF CommandsBad, Walk, Calls, Noted, Ended
  <2>2. made[n] = "beingmade"
    BY <2>1, SourcesDone
  <2>3. made'[n] = "error" /\ \A p \in Nodes \ {n} : made'[p] = made[p]
    BY <1>2 DEF CommandsBad, Walk, Calls, TypeOK
  <2>4. Status(n) = "making" /\ Status(n)' = "left"
    BY <2>1, <2>2, <2>3 DEF Status
  <2>5. \A p \in Nodes \ {n} : Status(p)' = Status(p)
    BY <2>1, <2>3, Unmoved
  <2>6. Graph!Becomes(n, "left")
    BY <2>1, <2>4, <2>5, Moves
  <2> QED BY <2>1, <2>4, <2>6 DEF Graph!Leave
<1> QED BY <1>1, <1>2

\* Where the commands had failed, make may end without its curTarg.
LEMMA HaltStep ==
  ASSUME NEW lvl, Walk(lvl), Halts, Next
  PROVE  Graph!End \/ UNCHANGED Graph!vars
<1>1. made' = made /\ pc' \in Ended /\ Calls(lvl)
  BY DEF Halts, Walk
<1>2. ASSUME NEW p \in Nodes, ~(p \in curTarg' <=> p \in curTarg) PROVE made[p] = "error"
  <2>1. \E n \in Nodes : Stop(n)
    <3>1. UNCHANGED curTarg \/ \E n \in Nodes : Execute(n) \/ CommandsOk(n) \/ Stop(n)
      BY DEF Next, Program, Goal, Child, Abort, UpToDate, NoExec, DontKnow, CommandsBad, Finish,
             Shell, Write, Succeed, Fail, Interrupt, Rest, make, vars
    <3>2. ASSUME NEW n \in Nodes, Execute(n) \/ CommandsOk(n) PROVE FALSE
      BY <1>1, <3>2 DEF Execute, CommandsOk, Made, Return, Ended
    <3> QED BY <1>2, <3>1, <3>2
  <2>2. pc = "error" /\ \A n \in top : made[n] = "error"
    BY <1>1, <2>1 DEF Stop, Calls, Noted
  <2> QED BY <1>1, <1>2, <2>1, <2>2 DEF Stop, Calls, Noted
<1>3. ASSUME NEW p \in Nodes PROVE Status(p)' = Status(p)
  <2>1. CASE p \in curTarg' <=> p \in curTarg
    BY <1>1, <2>1, Unmoved
  <2>2. CASE made[p] = "error"
    BY <1>1, <2>2 DEF Status
  <2> QED BY <1>2, <2>1, <2>2
<1> QED BY <1>1, <1>3, Stays

LEMMA GraphNext ==
  ASSUME NEW rank, Acyclic(rank), NEW lvl, Walk(lvl), Falling(rank, lvl), Strict,
         Next, ~KeepGoing
  PROVE  Graph!Next \/ UNCHANGED Graph!vars
<1>0. Calls(lvl) /\ pc \notin Ended
  BY DEF Walk, Calls
<1>1. ASSUME NEW c \in Nodes, NEW p \in Nodes, Pushes(c, p)
      PROVE  Graph!End \/ UNCHANGED Graph!vars
  <2>1. /\ made[c] = "unmade" /\ made'[c] = "beingmade"
        /\ \A n \in Nodes \ {c} : made'[n] = made[n]
        /\ curTarg' = curTarg /\ curTarg = {}
    BY <1>0, <1>1 DEF Pushes, Calls, Noted, TypeOK
  <2> QED BY <1>0, <2>1, Unmoved, Stays
<1>2. ASSUME NEW c \in Nodes, NEW p \in Nodes, Knows(c, p), made' = made
      PROVE  Graph!End \/ UNCHANGED Graph!vars
  BY <1>2, Unmoved, Stays DEF Knows
<1>3. ASSUME NEW n \in Nodes, Pops(n), UpToDate(n) \/ NoExec(n) \/ CommandsOk(n)
      PROVE  Graph!Next
  BY <1>3, PopStep DEF Graph!Next
<1>4. ASSUME NEW n \in Nodes, Turns(n), Execute(n) \/ CommandsBad(n)
      PROVE  Graph!Next
  BY <1>4, TurnStep DEF Graph!Next
<1>5. ASSUME Runs PROVE Graph!End \/ UNCHANGED Graph!vars
  <2>1. made' = made /\ curTarg' = curTarg /\ pc' = pc
    BY <1>5 DEF Runs
  <2>2. \A p \in Nodes : Status(p)' = Status(p)
    BY <2>1, Unmoved
  <2> QED BY <1>0, <2>1, <2>2, Stays
<1>6. ASSUME Halts PROVE Graph!End \/ UNCHANGED Graph!vars
  BY <1>6, HaltStep
<1> QED BY <1>1, <1>2, <1>3, <1>4, <1>5, <1>6, StrictSteps DEF Graph!Next

\* Making one target after another implements, without -k, what make promises of
\* any graph without cycles.
THEOREM ImplementsGraph ==
  ASSUME NEW rank, Acyclic(rank), ~KeepGoing PROVE Spec => GraphSpec
<1>1. Init => Graph!Init
  BY DEF Init, Graph!Init, Status, Ended
<1>2. IInv /\ Sound(rank) /\ [Next]_vars => [Graph!Next]_(Graph!vars)
  <2>1. ASSUME UNCHANGED vars PROVE UNCHANGED Graph!vars
    <3>1. \A p \in Nodes : Status(p)' = Status(p)
      BY <2>1, Unmoved DEF vars, nodes
    <3>2. UNCHANGED [p \in Nodes |-> Status(p)]
      BY <3>1, Zenon
    <3> QED BY <2>1, <3>2 DEF vars, Graph!vars
  <2>2. ASSUME IInv, Next, pc \in Ended PROVE UNCHANGED Graph!vars
    BY <2>1, <2>2, Rested
  <2>3. ASSUME Sound(rank), Next, pc \notin Ended PROVE Graph!Next \/ UNCHANGED Graph!vars
    BY <2>3, GraphNext DEF Sound
  <2> QED BY <2>1, <2>2, <2>3
<1>3. Init => IInv /\ Sound(rank)
  BY IInvBegins, SoundBegins
<1>4. IInv /\ Sound(rank) /\ [Next]_vars => IInv' /\ Sound(rank)'
  BY IInvKept, SoundKept
<1> QED BY <1>1, <1>2, <1>3, <1>4, PTL DEF Spec, GraphSpec, Graph!Spec
=============================================================================
