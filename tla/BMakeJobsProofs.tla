-------------------------- MODULE BMakeJobsProofs --------------------------
(***************************************************************************)
(* Theorems about BMakeJobs, for any finite graph, any -j and any number of  *)
(* suspensions.                                                              *)
(***************************************************************************)
EXTENDS BMakeJobs, FiniteSetTheorems, TLAPS

USE GraphAssumption, KindsAssumption, FlagsAssumption

Pcs == {"start", "exec", "test", "catch", "restart"} \cup Ended

NodesType ==
  /\ made \in [Nodes -> {"unmade", "made", "uptodate"}]
  /\ unmade \in [Nodes -> Int] /\ cmtime \in [Nodes -> Times]
  /\ force \subseteq Nodes /\ toBeMade \in [Nodes -> Nat] /\ updated \subseteq Nodes
TableType ==
  /\ numNodes \in Int /\ begun \subseteq Nodes
  /\ jobs \subseteq Nodes /\ nJobs \in Int /\ jobFull \in BOOLEAN
  /\ stoppedJobs \subseteq Nodes /\ errors \subseteq Nodes
  /\ aborting \in {"no", "error", "interrupt"}
  /\ pc \in Pcs /\ hand \subseteq Nodes
WorldType ==
  /\ file \in [Nodes -> Times] /\ torn \subseteq Nodes
  /\ proc \in [Nodes -> {"none", "running", "stopped", "ok", "bad"}]
  /\ stops \in 0 .. MaxStops /\ failed \subseteq Nodes

LEMMA Types == TypeOK <=> NodesType /\ TableType /\ WorldType
BY DEF TypeOK, NodesType, TableType, WorldType, Pcs

-----------------------------------------------------------------------------
(* The invariant.                                                          *)

\* unmade counts the sources that are still to come.
Counts == \A n \in Nodes : unmade[n] = Cardinality(Sources[n] \ updated)

\* What is on the list is on it once, has its sources behind it and has not
\* been begun.
Fringe ==
  \A n \in Nodes :
    /\ toBeMade[n] <= 1
    /\ toBeMade[n] > 0 => n \notin begun /\ Sources[n] \subseteq updated

\* What has been begun has its sources and predecessors behind it.
Begun ==
  /\ updated \subseteq begun
  /\ \A n \in begun : Sources[n] \cup Preds[n] \subseteq updated
  /\ \A n \in Nodes : made[n] # "unmade" => n \in updated

\* A node that has been begun and not updated is in one place at most.
Places ==
  /\ jobs \cup hand \cup stoppedJobs \cup errors \subseteq begun \ updated
  /\ jobs \cap hand = {} /\ stoppedJobs \cap (jobs \cup hand) = {}
  /\ errors \cap (jobs \cup hand \cup stoppedJobs) = {}
  /\ pc = "exec" => \E n \in Nodes : hand = {n}
  /\ pc \notin {"exec", "interrupted"} => hand = {}

Slots ==
  /\ nJobs = Cardinality(jobs) /\ nJobs <= MaxJobs
  /\ jobFull <=> nJobs = MaxJobs
  /\ pc = "exec" => ~jobFull

\* Only what is being made, or was counted as an error, has a shell.
Shells == \A n \in Nodes : proc[n] # "none" => n \in begun \ updated

\* What was left without being made is on record as an error, or make aborts.
Lefts ==
  /\ KeepGoing => aborting # "error"
  /\ aborting = "no" => begun \subseteq updated \cup jobs \cup hand \cup stoppedJobs \cup errors
  /\ ~KeepGoing /\ errors # {} => aborting # "no" \/ pc = "restart"
  /\ aborting = "interrupt" => pc \in Ended
  /\ pc = "exec" => aborting = "no"

IInv ==
  /\ NodesType /\ TableType /\ WorldType
  /\ Counts /\ Fringe /\ Begun /\ Places /\ Slots /\ Shells /\ Lefts

-----------------------------------------------------------------------------
(* Steps, by what they do to the nodes.                                    *)

\* What a step that updates n does to the graph.
Updates(n, m) ==
  /\ n \notin updated /\ begun' = begun \cup {n} /\ pc' \notin Ended
  /\ Sources[n] \cup Preds[n] \subseteq updated
  /\ toBeMade[n] = 1 \/ n \in begun
  /\ m \in {"unmade", "made", "uptodate"}
  /\ Make_Update(n, m, IF n \in begun THEN toBeMade ELSE DeQueue(n))

Quiet == UNCHANGED <<nodes, begun>>

LEMMA Restraint ==
  ASSUME IInv, NEW n \in Nodes, Examine(n), ~Restrained(n)
  PROVE  /\ Sources[n] \cup Preds[n] \subseteq updated /\ toBeMade[n] = 1
         /\ n \notin begun /\ n \notin updated /\ aborting = "no"
BY DEF IInv, Fringe, Begun, Examine, Restrained, NodesType, Job_Full

LEMMA UpdateSteps ==
  ASSUME IInv, NEW n \in Nodes
  PROVE  /\ UpToDate(n) => Updates(n, "uptodate")
         /\ NoExec(n) => Updates(n, made[n]) /\ n \notin Commands
         /\ CatchOk(n) /\ aborting = "no" => Updates(n, "made")
         /\ CatchOk(n) /\ aborting # "no" => Quiet
<1>1. ASSUME LetThrough(n) PROVE Examine(n) /\ ~Restrained(n) /\ begun' = begun \cup {n}
  BY <1>1 DEF LetThrough
<1>2. ASSUME UpToDate(n) PROVE Updates(n, "uptodate")
  BY <1>1, <1>2, Restraint DEF UpToDate, Updates, LetThrough, Examine, Ended
<1>3. ASSUME NoExec(n) PROVE Updates(n, made[n]) /\ n \notin Commands
  BY <1>1, <1>3, Restraint
  DEF NoExec, Updates, LetThrough, Examine, Ended, IInv, NodesType
<1>4. ASSUME CatchOk(n), aborting = "no" PROVE Updates(n, "made")
  <2>1. n \in begun /\ n \notin updated
    BY <1>4 DEF CatchOk, Take, IInv, Places
  <2> QED BY <2>1, <1>4 DEF CatchOk, Take, Updates, IInv, Begun, Ended
<1>5. ASSUME CatchOk(n), aborting # "no" PROVE Quiet
  BY <1>5 DEF CatchOk, Take, Quiet
<1> QED BY <1>2, <1>3, <1>4, <1>5

\* Every step that touches the graph updates a node, or takes one off the list.
Dequeues(n) ==
  /\ toBeMade[n] > 0 /\ toBeMade' = DeQueue(n)
  /\ UNCHANGED <<made, unmade, cmtime, force, updated>>

LEMMA GraphSteps ==
  ASSUME IInv, Next
  PROVE  \/ Quiet
         \/ \E n \in Nodes : Drop(n) /\ Dequeues(n) /\ UNCHANGED begun
         \/ \E n \in Nodes : DontKnow(n) /\ Dequeues(n) /\ UNCHANGED begun
         \/ \E n \in Nodes : /\ Fork(n) /\ Dequeues(n) /\ begun' = begun \cup {n}
                             /\ Sources[n] \cup Preds[n] \subseteq updated
         \/ \E n \in Nodes, m \in {"unmade", "made", "uptodate"} :
              Updates(n, m) /\ (n \in Commands => m # "unmade")
<1>1. ASSUME NEW n \in Nodes, Drop(n) PROVE Dequeues(n) /\ UNCHANGED begun
  BY <1>1 DEF Drop, Dequeues, Examine
<1>2. ASSUME NEW n \in Nodes, DontKnow(n) PROVE Dequeues(n) /\ UNCHANGED begun
  BY <1>2 DEF DontKnow, Dequeues, Examine
<1>3. ASSUME NEW n \in Nodes, Fork(n)
      PROVE  Dequeues(n) /\ begun' = begun \cup {n} /\ Sources[n] \cup Preds[n] \subseteq updated
  BY <1>3, Restraint DEF Fork, LetThrough, Dequeues, Examine
<1>4. ASSUME NEW n \in Nodes, UpToDate(n) \/ NoExec(n) \/ CatchOk(n)
      PROVE  \/ Quiet
             \/ \E m \in {"unmade", "made", "uptodate"} :
                  Updates(n, m) /\ (n \in Commands => m # "unmade")
  BY <1>4, UpdateSteps DEF IInv, NodesType
<1>5. ASSUME NEW n \in Nodes, CatchStopped(n) \/ CatchBad(n) \/ CatchStray(n) \/ Restart(n)
      PROVE  Quiet
  BY <1>5 DEF CatchStopped, CatchBad, CatchStray, Restart, Take, Quiet
<1>6. Enter \/ StartEnd \/ Job_Empty \/ CatchEnd \/ Settle => Quiet
  BY DEF Enter, StartEnd, Job_Empty, CatchEnd, Settle, Quiet
<1>7. ASSUME NEW n \in Nodes, Shell(n) PROVE Quiet
  BY <1>7 DEF Shell, Write, Succeed, Fail, make, Quiet
<1>8. Suspend \/ Interrupt \/ Rest => Quiet
  BY DEF Suspend, Interrupt, Rest, make, vars, Quiet
<1> QED BY <1>1, <1>2, <1>3, <1>4, <1>5, <1>6, <1>7, <1>8 DEF Next, Program

LEMMA UpdateTypes ==
  ASSUME IInv, NEW n \in Nodes, NEW m, Updates(n, m)
  PROVE  NodesType'
<1> DEFINE queue == IF n \in begun THEN toBeMade ELSE DeQueue(n)
<1>1. queue \in [Nodes -> Nat]
  BY DEF IInv, NodesType, Updates, DeQueue
<1>2. Recheck(n, m) \in Times
  BY DEF Recheck, IInv, WorldType, Times
<1>3. made' \in [Nodes -> {"unmade", "made", "uptodate"}] /\ updated' \subseteq Nodes
  BY DEF Updates, Make_Update, IInv, NodesType
<1>4. unmade' \in [Nodes -> Int]
  BY DEF Updates, Make_Update, IInv, NodesType
<1>5. cmtime' \in [Nodes -> Times]
  BY <1>2 DEF Updates, Make_Update, IInv, NodesType
<1>6. force' \subseteq Nodes
  BY DEF Updates, Make_Update, IInv, NodesType
<1>7. toBeMade' \in [Nodes -> Nat]
  BY <1>1 DEF Updates, Make_Update
<1> QED BY <1>3, <1>4, <1>5, <1>6, <1>7 DEF NodesType

LEMMA NodesTypeKept ==
  ASSUME IInv, Next PROVE NodesType'
<1>1. CASE Quiet
  BY <1>1 DEF Quiet, nodes, IInv, NodesType
<1>2. ASSUME NEW n \in Nodes, Dequeues(n) PROVE NodesType'
  BY <1>2 DEF Dequeues, DeQueue, IInv, NodesType
<1> QED BY <1>1, <1>2, UpdateTypes, GraphSteps

LEMMA TableTypeKept ==
  ASSUME IInv, Next PROVE TableType'
<1> USE DEF IInv, TableType, Pcs, Ended
<1>1. ASSUME NEW n \in Nodes, Drop(n) \/ DontKnow(n) PROVE TableType'
  BY <1>1 DEF Drop, DontKnow, table
<1>2. ASSUME NEW n \in Nodes, UpToDate(n) \/ NoExec(n) \/ Fork(n) PROVE TableType'
  BY <1>2 DEF UpToDate, NoExec, Fork, LetThrough, table
<1>3. ASSUME NEW n \in Nodes,
             CatchOk(n) \/ CatchBad(n) \/ CatchStopped(n) \/ CatchStray(n)
      PROVE  TableType'
  <2>1. ASSUME Take(n)
        PROVE  /\ numNodes' \in Int /\ begun' \subseteq Nodes
               /\ jobs' \subseteq Nodes /\ nJobs' \in Int /\ jobFull' \in BOOLEAN
               /\ aborting' \in {"no", "error", "interrupt"} /\ hand' \subseteq Nodes
    <3>1. jobs' \subseteq Nodes
      BY <2>1 DEF Take
    <3>2. nJobs' \in Int
      BY <2>1 DEF Take
    <3>3. jobFull' \in BOOLEAN
      BY <2>1, Zenon DEF Take
    <3>4. numNodes' \in Int /\ begun' \subseteq Nodes /\ hand' \subseteq Nodes
      BY <2>1 DEF Take
    <3>5. aborting' \in {"no", "error", "interrupt"}
      BY <2>1 DEF Take
    <3> QED BY <3>1, <3>2, <3>3, <3>4, <3>5
  <2>2. CASE CatchOk(n) \/ CatchBad(n)
    <3>1. Take(n) /\ stoppedJobs' \subseteq Nodes /\ errors' \subseteq Nodes /\ pc' \in Pcs
      BY <2>2 DEF CatchOk, CatchBad
    <3> QED BY <3>1, <2>1
  <2>3. CASE CatchStopped(n)
    <3>1. Take(n) /\ stoppedJobs' \subseteq Nodes /\ errors' \subseteq Nodes /\ pc' \in Pcs
      BY <2>3 DEF CatchStopped
    <3> QED BY <3>1, <2>1
  <2>4. CASE CatchStray(n)
    BY <2>4 DEF CatchStray, table
  <2> QED BY <1>3, <2>1, <2>2, <2>3, <2>4
<1>4. ASSUME NEW n \in Nodes, Restart(n) PROVE TableType'
  BY <1>4 DEF Restart
<1>5. Enter => TableType'
  BY DEF Enter
<1>6. StartEnd \/ Job_Empty \/ CatchEnd => TableType'
  BY DEF StartEnd, Job_Empty, CatchEnd, table
<1>7. Settle => TableType'
  BY DEF Settle
<1>8. ASSUME NEW n \in Nodes, Shell(n) PROVE TableType'
  BY <1>8 DEF Shell, Write, Succeed, Fail, make, table
<1>9. Suspend \/ Rest => TableType'
  BY DEF Suspend, Rest, make, vars, table
<1>10. Interrupt => TableType'
  BY DEF Interrupt
<1> QED BY <1>1, <1>2, <1>3, <1>4, <1>5, <1>6, <1>7, <1>8, <1>9, <1>10 DEF Next, Program

LEMMA WorldTypeKept ==
  ASSUME IInv, Next PROVE WorldType'
<1> USE DEF IInv, WorldType
<1>1. ASSUME NEW n \in Nodes, Drop(n) \/ UpToDate(n) \/ NoExec(n) PROVE WorldType'
  BY <1>1 DEF Drop, UpToDate, NoExec, LetThrough, world
<1>2. ASSUME NEW n \in Nodes, DontKnow(n) \/ Fork(n) PROVE WorldType'
  BY <1>2 DEF DontKnow, Fork, LetThrough, Killed
<1>3. ASSUME NEW n \in Nodes,
             CatchOk(n) \/ CatchBad(n) \/ CatchStopped(n) \/ CatchStray(n) \/ Restart(n)
      PROVE  WorldType'
  BY <1>3 DEF CatchOk, CatchBad, CatchStopped, CatchStray, Restart, Take
<1>4. Enter \/ StartEnd \/ Job_Empty \/ CatchEnd \/ Settle \/ Rest => WorldType'
  BY DEF Enter, StartEnd, Job_Empty, CatchEnd, Settle, Rest, vars, world
<1>5. ASSUME NEW n \in Nodes, Shell(n) PROVE WorldType'
  BY <1>5 DEF Shell, Write, Succeed, Fail, Times
<1>6. Suspend => WorldType'
  BY DEF Suspend
<1>7. Interrupt => WorldType'
  BY DEF Interrupt, Killed, Times
<1> QED BY <1>1, <1>2, <1>3, <1>4, <1>5, <1>6, <1>7 DEF Next, Program

-----------------------------------------------------------------------------
(* The parts of the invariant.                                             *)

LEMMA CountsKept ==
  ASSUME IInv, Next PROVE Counts'
<1>1. CASE UNCHANGED <<unmade, updated>>
  BY <1>1 DEF IInv, Counts
<1>2. ASSUME NEW n \in Nodes, NEW m, Updates(n, m) PROVE Counts'
  <2> SUFFICES ASSUME NEW p \in Nodes
               PROVE  unmade'[p] = Cardinality(Sources[p] \ updated')
    BY DEF Counts
  <2>1. /\ unmade'[p] = (IF n \in Sources[p] THEN unmade[p] - 1 ELSE unmade[p])
        /\ updated' = updated \cup {n} /\ n \notin updated
    BY <1>2 DEF Updates, Make_Update
  <2>2. unmade[p] = Cardinality(Sources[p] \ updated) /\ IsFiniteSet(Sources[p] \ updated)
    BY FS_Subset DEF IInv, Counts
  <2>3. Sources[p] \ updated' = (Sources[p] \ updated) \ {n}
    BY <2>1
  <2> QED BY <2>1, <2>2, <2>3, FS_RemoveElement
<1> QED BY <1>1, <1>2, GraphSteps DEF Quiet, nodes, Dequeues

LEMMA FringeKept ==
  ASSUME IInv, Next, Counts', NodesType' PROVE Fringe'
<1>1. CASE Quiet
  BY <1>1 DEF Quiet, nodes, IInv, Fringe
<1>2. ASSUME NEW n \in Nodes, Dequeues(n), UNCHANGED begun \/ begun' = begun \cup {n}
      PROVE  Fringe'
  BY <1>2 DEF Dequeues, DeQueue, IInv, Fringe, NodesType
<1>3. ASSUME NEW n \in Nodes, NEW m, Updates(n, m) PROVE Fringe'
  <2> DEFINE queue == IF n \in begun THEN toBeMade ELSE DeQueue(n)
  <2>1. \A p \in Nodes : /\ queue[p] \in Nat /\ queue[p] <= 1
                         /\ queue[p] > 0 => p \notin begun' /\ Sources[p] \subseteq updated
    BY <1>3 DEF Updates, DeQueue, IInv, Fringe, NodesType
  <2>2. updated' = updated \cup {n} /\ n \notin updated /\ begun' = begun \cup {n}
    BY <1>3 DEF Updates, Make_Update
  <2> SUFFICES ASSUME NEW p \in Nodes
               PROVE  /\ toBeMade'[p] <= 1
                      /\ toBeMade'[p] > 0 => p \notin begun' /\ Sources[p] \subseteq updated'
    BY DEF Fringe
  <2>3. CASE toBeMade'[p] = queue[p]
    BY <2>1, <2>2, <2>3
  <2>4. CASE toBeMade'[p] # queue[p]
    <3>1. /\ toBeMade'[p] = queue[p] + 1 /\ unmade'[p] = 0
          /\ n \in Sources[p] \/ (n \in Preds[p] /\ queue[p] = 0)
      BY <1>3, <2>4 DEF Updates, Make_Update
    <3>2. Sources[p] \subseteq updated'
      <4>1. IsFiniteSet(Sources[p] \ updated')
        BY FS_Subset
      <4> QED BY <3>1, <4>1, FS_EmptySet DEF Counts
    <3>3. queue[p] = 0
      BY <2>1, <2>2, <3>1
    <3>4. p \notin begun
      BY <2>2, <3>1 DEF IInv, Begun
    <3>5. p # n
      BY <1>3, <2>2, <3>1 DEF Updates
    <3> QED BY <2>2, <3>1, <3>2, <3>3, <3>4, <3>5
  <2> QED BY <2>3, <2>4
<1> QED BY <1>1, <1>2, <1>3, GraphSteps

LEMMA BegunKept ==
  ASSUME IInv, Next PROVE Begun'
<1>1. CASE Quiet
  BY <1>1 DEF Quiet, nodes, IInv, Begun
<1>2. ASSUME NEW n \in Nodes, Dequeues(n),
             begun' = begun \/ (begun' = begun \cup {n} /\ Sources[n] \cup Preds[n] \subseteq updated)
      PROVE  Begun'
  BY <1>2 DEF Dequeues, IInv, Begun
<1>3. ASSUME NEW n \in Nodes, NEW m, Updates(n, m) PROVE Begun'
  BY <1>3 DEF Updates, Make_Update, IInv, Begun, NodesType
<1> QED BY <1>1, <1>2, <1>3, GraphSteps

\* The steps, by what they do to the job table: nothing, a job more, or less.
Idle ==
  /\ UNCHANGED <<jobs, nJobs, jobFull, hand, stoppedJobs, errors>>
  /\ pc' = pc \/ pc' = "interrupted" \/ (pc \notin {"exec", "interrupted"} /\ pc' # "exec")

\* Nothing that is being made or in error is lost from what has been begun.
Growing == begun \ updated \subseteq begun' \ updated'

LEMMA TableSteps ==
  ASSUME IInv, Next
  PROVE  \/ Idle /\ Growing
         \/ Enter \/ Job_Empty
         \/ \E n \in Nodes : Fork(n) \/ Restart(n) \/ CatchOk(n) \/ CatchBad(n)
                             \/ CatchStopped(n)
<1>1. ASSUME NEW n \in Nodes, Drop(n) \/ DontKnow(n) PROVE Idle /\ Growing
  BY <1>1 DEF Drop, DontKnow, Examine, table, Idle, Growing
<1>2. ASSUME NEW n \in Nodes, UpToDate(n) \/ NoExec(n) PROVE Idle /\ Growing
  <2>1. Examine(n) /\ ~Restrained(n) /\ n \notin begun
    BY <1>2, Restraint DEF UpToDate, NoExec, LetThrough
  <2> QED BY <1>2, <2>1 DEF UpToDate, NoExec, LetThrough, Make_Update, table, Idle, Growing
<1>3. ASSUME NEW n \in Nodes, CatchStray(n) \/ Shell(n) PROVE Idle /\ Growing
  BY <1>3 DEF CatchStray, Shell, Write, Succeed, Fail, make, nodes, table, Idle, Growing
<1>4. StartEnd \/ CatchEnd \/ Settle \/ Suspend \/ Interrupt \/ Rest => Idle /\ Growing
  BY DEF StartEnd, CatchEnd, Settle, Suspend, Interrupt, Rest, make, vars, nodes, table,
         Idle, Growing
<1> QED BY <1>1, <1>2, <1>3, <1>4 DEF Next, Program

LEMMA SlotsKept ==
  ASSUME IInv, Next PROVE Slots'
<1>0. /\ IsFiniteSet(jobs) /\ nJobs = Cardinality(jobs) /\ nJobs \in Nat
      /\ nJobs <= MaxJobs /\ MaxJobs \in Nat
  BY FS_Subset, FS_CardinalityType DEF IInv, TableType, Slots
<1>1. CASE Idle
  BY <1>1 DEF Idle, IInv, Slots
<1>2. CASE Enter
  <2>1. PICK n \in Nodes : hand = {n} /\ n \notin jobs
    BY <1>2 DEF Enter, IInv, Places
  <2>2. nJobs' = nJobs + 1 /\ jobs' = jobs \cup {n} /\ pc' = "start"
    BY <1>2, <2>1 DEF Enter
  <2>3. Cardinality(jobs') = nJobs'
    BY <1>0, <2>1, <2>2, FS_AddElement
  <2>4. ~jobFull /\ nJobs # MaxJobs
    BY <1>2 DEF Enter, IInv, Slots
  <2>5. jobFull' <=> nJobs' = MaxJobs
    <3>1. jobFull' = (nJobs + 1 = MaxJobs \/ jobFull)
      BY <1>2, Zenon DEF Enter
    <3> QED BY <3>1, <2>2, <2>4, Zenon
  <2>6. nJobs' <= MaxJobs
    BY <1>0, <2>2, <2>4
  <2> QED BY <2>2, <2>3, <2>5, <2>6 DEF Slots
<1>3. ASSUME NEW n \in Nodes, CatchOk(n) \/ CatchBad(n) \/ CatchStopped(n)
      PROVE  Slots'
  <2>1. n \in jobs /\ jobs' = jobs \ {n} /\ nJobs' = nJobs - 1 /\ pc' # "exec"
    BY <1>3 DEF CatchOk, CatchBad, CatchStopped, Take
  <2>2. ~jobFull'
    BY <1>3 DEF CatchOk, CatchBad, CatchStopped, Take
  <2>3. nJobs' = Cardinality(jobs') /\ nJobs' <= MaxJobs /\ nJobs' # MaxJobs
    <3>1. Cardinality(jobs \ {n}) = Cardinality(jobs) - 1
      BY <1>0, <2>1, FS_RemoveElement
    <3> QED BY <1>0, <2>1, <3>1
  <2>4. (jobFull <=> nJobs = MaxJobs)'
    BY <2>2, <2>3
  <2>5. (pc = "exec" => ~jobFull)'
    BY <2>1
  <2> QED BY <2>3, <2>4, <2>5 DEF Slots
<1>4. CASE Job_Empty
  <2>1. UNCHANGED <<jobs, nJobs>> /\ pc' # "exec"
    BY <1>4 DEF Job_Empty
  <2>2. jobFull' <=> nJobs' = MaxJobs
    BY <1>0, <1>4 DEF Job_Empty, IInv, Slots
  <2> QED BY <1>0, <2>1, <2>2 DEF Slots
<1>5. ASSUME NEW n \in Nodes, Fork(n) PROVE Slots'
  <2>1. UNCHANGED <<jobs, nJobs, jobFull>> /\ ~jobFull
    BY <1>5 DEF Fork, LetThrough, Examine, Job_Full, table
  <2> QED BY <2>1, Zenon DEF IInv, Slots
<1>6. ASSUME NEW n \in Nodes, Restart(n) PROVE Slots'
  BY <1>6 DEF Restart, IInv, Slots
<1> QED BY <1>1, <1>2, <1>3, <1>4, <1>5, <1>6, TableSteps

LEMMA PlacesKept ==
  ASSUME IInv, Next PROVE Places'
<1> USE DEF IInv, Places
<1>1. CASE Idle /\ Growing
  BY <1>1 DEF Idle, Growing
<1>2. CASE Enter
  BY <1>2 DEF Enter, nodes
<1>3. ASSUME NEW n \in Nodes, Fork(n) PROVE Places'
  <2>1. n \notin begun /\ pc = "start"
    BY <1>3, Restraint DEF Fork, LetThrough, Examine
  <2>2. /\ begun' = begun \cup {n} /\ hand' = {n} /\ pc' = "exec"
        /\ UNCHANGED <<updated, jobs, stoppedJobs, errors>>
    BY <1>3 DEF Fork, LetThrough, table
  <2> QED BY <2>1, <2>2, <1>3, Restraint DEF Fork, LetThrough
<1>4. ASSUME NEW n \in Nodes, Restart(n) PROVE Places'
  BY <1>4 DEF Restart, nodes
<1>5. ASSUME NEW n \in Nodes, CatchOk(n) PROVE Places'
  <2>1. updated' = updated \/ updated' = updated \cup {n}
    BY <1>5 DEF CatchOk, Make_Update, nodes
  <2> QED BY <1>5, <2>1 DEF CatchOk, Take
<1>6. ASSUME NEW n \in Nodes, CatchBad(n) \/ CatchStopped(n) PROVE Places'
  BY <1>6 DEF CatchBad, CatchStopped, Take, nodes
<1>7. CASE Job_Empty
  BY <1>7 DEF Job_Empty, nodes
<1> QED BY <1>1, <1>2, <1>3, <1>4, <1>5, <1>6, <1>7, TableSteps

LEMMA ShellsKept ==
  ASSUME IInv, Next PROVE Shells'
<1> USE DEF IInv, Shells
<1>1. CASE UNCHANGED proc /\ Growing
  BY <1>1 DEF Growing
<1>2. ASSUME NEW n \in Nodes, Fork(n) PROVE Shells'
  BY <1>2, Restraint DEF Fork, LetThrough, WorldType
<1>3. ASSUME NEW n \in Nodes, CatchOk(n) PROVE Shells'
  BY <1>3 DEF CatchOk, Take, Make_Update, nodes, WorldType
<1>4. ASSUME NEW n \in Nodes, CatchBad(n) \/ CatchStray(n) \/ Shell(n) PROVE Shells'
  BY <1>4
  DEF CatchBad, CatchStray, Take, Shell, Write, Succeed, Fail, make, nodes, WorldType
<1>5. ASSUME NEW n \in Nodes, Restart(n) PROVE Shells'
  BY <1>5 DEF Restart, nodes, Places, WorldType
<1>6. CASE Suspend \/ Interrupt
  BY <1>6 DEF Suspend, Interrupt, Killed, make, nodes
<1>7. ASSUME NEW n \in Nodes, DontKnow(n) PROVE Shells'
  BY <1>7 DEF DontKnow, Killed
<1>8. ASSUME NEW n \in Nodes, Drop(n) \/ UpToDate(n) \/ NoExec(n) PROVE UNCHANGED proc
  BY <1>8 DEF Drop, UpToDate, NoExec, world
<1>9. ASSUME NEW n \in Nodes, CatchStopped(n) PROVE UNCHANGED proc /\ Growing
  BY <1>9 DEF CatchStopped, Take, nodes, Growing
<1>10. ASSUME NEW n \in Nodes, Drop(n) \/ UpToDate(n) \/ NoExec(n) PROVE Growing
  <2>1. Drop(n) => Growing
    BY DEF Drop, Growing
  <2>2. ASSUME UpToDate(n) \/ NoExec(n) PROVE Growing
    <3>1. n \notin begun
      BY <2>2, Restraint DEF UpToDate, NoExec, LetThrough
    <3> QED BY <2>2, <3>1 DEF UpToDate, NoExec, LetThrough, Make_Update, Growing
  <2> QED BY <1>10, <2>1, <2>2
<1>11. Enter \/ StartEnd \/ Job_Empty \/ CatchEnd \/ Settle \/ Rest
         => UNCHANGED proc /\ Growing
  BY DEF Enter, StartEnd, Job_Empty, CatchEnd, Settle, Rest, vars, world, nodes, Growing
<1> QED BY <1>1, <1>2, <1>3, <1>4, <1>5, <1>6, <1>7, <1>8, <1>9, <1>10, <1>11
        DEF Next, Program

LEMMA LeftsKept ==
  ASSUME IInv, Next PROVE Lefts'
<1> USE DEF IInv, Lefts
<1>1. ASSUME NEW n \in Nodes, Drop(n) PROVE Lefts'
  BY <1>1 DEF Drop, table, Examine
<1>2. ASSUME NEW n \in Nodes, DontKnow(n) PROVE Lefts'
  BY <1>2 DEF DontKnow, table, Examine, Ended
<1>3. ASSUME NEW n \in Nodes, UpToDate(n) \/ NoExec(n) PROVE Lefts'
  BY <1>3, Restraint DEF UpToDate, NoExec, LetThrough, Make_Update, table, Examine
<1>4. ASSUME NEW n \in Nodes, Fork(n) PROVE Lefts'
  <2>1. /\ begun' = begun \cup {n} /\ hand = {} /\ hand' = {n} /\ aborting = "no"
        /\ UNCHANGED <<updated, table>>
    BY <1>4, Restraint DEF Fork, LetThrough, Examine, Places
  <2> QED BY <2>1, <1>4 DEF table, Fork, LetThrough, Examine
<1>5. ASSUME NEW n \in Nodes, CatchOk(n) PROVE Lefts'
  <2>1. /\ jobs' = jobs \ {n} /\ pc = "catch" /\ pc' = "restart"
        /\ UNCHANGED <<begun, aborting, hand, stoppedJobs, errors>>
    BY <1>5 DEF CatchOk, Take
  <2>2. updated \subseteq updated' /\ (aborting = "no" => n \in updated')
    BY <1>5 DEF CatchOk, Make_Update, nodes
  <2> QED BY <2>1, <2>2 DEF Ended
<1>6. ASSUME NEW n \in Nodes, CatchBad(n) \/ CatchStopped(n) PROVE Lefts'
  BY <1>6 DEF CatchBad, CatchStopped, Take, nodes, Ended
<1>7. ASSUME NEW n \in Nodes, CatchStray(n) \/ Shell(n) PROVE Lefts'
  BY <1>7 DEF CatchStray, Shell, Write, Succeed, Fail, make, nodes, table
<1>8. ASSUME NEW n \in Nodes, Restart(n) PROVE Lefts'
  BY <1>8 DEF Restart, nodes
<1>9. CASE Enter
  BY <1>9 DEF Enter, nodes
<1>10. CASE StartEnd \/ CatchEnd
  BY <1>10 DEF StartEnd, CatchEnd, nodes, table, Ended
<1>11. CASE Job_Empty
  BY <1>11 DEF Job_Empty, nodes, Ended
<1>12. CASE Settle
  BY <1>12 DEF Settle, nodes, Ended, TableType
<1>13. CASE Suspend \/ Rest
  BY <1>13 DEF Suspend, Rest, make, vars, nodes, table
<1>14. CASE Interrupt
  BY <1>14 DEF Interrupt, nodes, Ended
<1> QED BY <1>1, <1>2, <1>3, <1>4, <1>5, <1>6, <1>7, <1>8, <1>9, <1>10, <1>11,
           <1>12, <1>13, <1>14 DEF Next, Program

LEMMA Begins == Init => IInv
<1> SUFFICES ASSUME Init PROVE IInv
  OBVIOUS
<1>0. /\ Cardinality(Nodes) \in Nat /\ Cardinality({}) = 0
      /\ \A n \in Nodes : Cardinality(Sources[n]) \in Nat
  BY FS_CardinalityType, FS_Subset, FS_EmptySet
<1>1. NodesType
  BY <1>0 DEF Init, NodesType, Times
<1>2. TableType
  <2>1. jobFull \in BOOLEAN
    BY Zenon DEF Init
  <2>2. /\ numNodes \in Int /\ begun \subseteq Nodes /\ jobs \subseteq Nodes /\ nJobs \in Int
        /\ stoppedJobs \subseteq Nodes /\ errors \subseteq Nodes
        /\ aborting \in {"no", "error", "interrupt"} /\ pc \in Pcs /\ hand \subseteq Nodes
    BY <1>0 DEF Init, Pcs
  <2> QED BY <2>1, <2>2 DEF TableType
<1>3. WorldType
  BY DEF Init, WorldType, Times
<1>4. Counts
  <2>1. \A n \in Nodes : Sources[n] \ updated = Sources[n]
    BY DEF Init
  <2> QED BY <2>1 DEF Init, Counts
<1>5. Fringe /\ Begun /\ Shells
  BY DEF Init, Fringe, Begun, Shells, Leaves
<1>6. Places
  BY DEF Init, Places
<1>7. Slots
  <2>1. nJobs = Cardinality(jobs) /\ nJobs <= MaxJobs /\ pc # "exec"
    BY <1>0 DEF Init
  <2>2. ~jobFull /\ nJobs # MaxJobs
    BY DEF Init
  <2> QED BY <2>1, <2>2, Zenon DEF Slots
<1>8. Lefts
  BY DEF Init, Lefts
<1> QED BY <1>1, <1>2, <1>3, <1>4, <1>5, <1>6, <1>7, <1>8 DEF IInv

LEMMA IInvKept == IInv /\ [Next]_vars => IInv'
<1> SUFFICES ASSUME IInv, [Next]_vars PROVE IInv'
  OBVIOUS
<1>1. CASE UNCHANGED vars
  BY <1>1 DEF vars, nodes, table, world, IInv, NodesType, TableType, WorldType, Counts,
              Fringe, Begun, Places, Slots, Shells, Lefts
<1>2. CASE Next
  BY <1>2, NodesTypeKept, TableTypeKept, WorldTypeKept, CountsKept, FringeKept, BegunKept,
     PlacesKept, SlotsKept, ShellsKept, LeftsKept DEF IInv
<1> QED BY <1>1, <1>2

\* The invariant the rest of the module rests on.
THEOREM Invariance == Spec => []IInv
BY Begins, IInvKept, PTL DEF Spec

\* Every variable keeps to its values: toBeMade stays a natural number although
\* Make_Update is called from MakeStartJobs, JobStart and JobFinish.
THEOREM TypeCorrect == Spec => []TypeOK
BY Invariance, Types, PTL DEF IInv

\* No target is looked at twice, for any graph: the fringe of make.c holds a
\* node once, and never one that was let through.
THEOREM NeverExaminedTwice == Spec => []ExaminedOnce
<1>1. IInv => ExaminedOnce
  BY DEF IInv, Fringe, NodesType, ExaminedOnce
<1> QED BY <1>1, Invariance, PTL

\* Job_Full and JobExec keep jobFull such that the table never overflows.
THEOREM SlotsSuffice == Spec => []SlotFree
<1>1. IInv => SlotFree
  <2> SUFFICES ASSUME IInv, ~jobFull PROVE nJobs < MaxJobs
    BY DEF SlotFree
  <2>1. nJobs # MaxJobs /\ nJobs <= MaxJobs
    BY DEF IInv, Slots
  <2> QED BY <2>1 DEF IInv, TableType
<1> QED BY <1>1, Invariance, PTL

\* No shell runs while another makes what its target is made from, however jobs
\* are stopped, continued, or counted as errors while they still run.
THEOREM SourcesRest == Spec => []SourcesQuiet
<1>1. IInv => SourcesQuiet
  BY DEF IInv, Shells, Begun, WorldType, SourcesQuiet
<1> QED BY <1>1, Invariance, PTL

-----------------------------------------------------------------------------
(* The job table and the fringe implement MakeGraph.                       *)

\* Where a node is tells its status.
Mapped ==
  \A n \in Nodes :
    /\ n \notin begun => Status(n) = "waiting"
    /\ n \in updated => Status(n) = "done"
    /\ n \in jobs \cup hand => Status(n) = "making"
    /\ n \in stoppedJobs => Status(n) = "held"
    /\ n \in begun \ (updated \cup jobs \cup hand \cup stoppedJobs) => Status(n) = "left"

LEMMA MappedNow == IInv => Mapped
BY DEF IInv, Begun, Places, Mapped, Status

LEMMA MappedNext == IInv' => Mapped'
BY DEF IInv, Begun, Places, Mapped, Status

\* A step that moves n and nothing else is the step of MakeGraph that does.
LEMMA Moves ==
  ASSUME NEW n \in Nodes, NEW st, Status(n)' = st, UNCHANGED (pc \in Ended),
         \A p \in Nodes \ {n} : Status(p)' = Status(p)
  PROVE  Graph!Becomes(n, st)
BY Zenon DEF Graph!Becomes

LEMMA Stays ==
  ASSUME \A p \in Nodes : Status(p)' = Status(p)
  PROVE  UNCHANGED [p \in Nodes |-> Status(p)]
BY Zenon

LEMMA GoingNow ==
  ASSUME IInv, NEW n \in Nodes, Examine(n), ~Restrained(n)
  PROVE  Graph!Going /\ Graph!Ready(n) /\ Graph!Having("making") = jobs
<1>1. pc \notin Ended /\ hand = {} /\ aborting = "no"
  BY Restraint DEF Examine, Ended, IInv, Places
<1>2. ~KeepGoing => errors = {}
  BY <1>1 DEF IInv, Lefts, Examine
<1>3. ASSUME NEW p \in Nodes, Status(p) = "left" PROVE p \in errors
  BY <1>1, <1>3, MappedNow DEF Mapped, IInv, Lefts
<1>4. Graph!Having("left") = {p \in Nodes : Status(p) = "left"}
  BY DEF Graph!Having
<1>5. Graph!Going
  BY <1>1, <1>2, <1>3, <1>4 DEF Graph!Going
<1>6. Graph!Ready(n)
  BY Restraint, MappedNow DEF Mapped, Graph!Ready
<1>7. Graph!Having("making") = {p \in Nodes : Status(p) = "making"}
  BY DEF Graph!Having
<1>8. \A p \in Nodes : Status(p) = "making" <=> p \in jobs
  BY <1>1, MappedNow DEF Mapped
<1> QED BY <1>5, <1>6, <1>7, <1>8 DEF IInv, TableType

LEMMA Unmoved ==
  ASSUME NEW p \in Nodes,
         p \in begun' <=> p \in begun, p \in updated' <=> p \in updated,
         p \in (jobs \cup hand)' <=> p \in jobs \cup hand,
         p \in stoppedJobs' <=> p \in stoppedJobs
  PROVE  Status(p)' = Status(p)
BY DEF Status

LEMMA PassStep ==
  ASSUME IInv, IInv', NEW n \in Nodes, UpToDate(n) \/ NoExec(n)
  PROVE  Graph!Pass(n)
<1>1. Examine(n) /\ ~Restrained(n)
  BY DEF UpToDate, NoExec, LetThrough
<1>2. /\ begun' = begun \cup {n} /\ updated' = updated \cup {n}
      /\ UNCHANGED <<jobs, hand, stoppedJobs, pc>>
  BY DEF UpToDate, NoExec, LetThrough, Make_Update, table
<1>3. Status(n)' = "done"
  BY <1>2, MappedNext DEF Mapped
<1>4. \A p \in Nodes \ {n} : Status(p)' = Status(p)
  BY <1>2, Unmoved
<1> QED BY <1>1, <1>2, <1>3, <1>4, GoingNow, Moves DEF Graph!Pass

LEMMA SameCardinality == \A S : Graph!Cardinality(S) = Cardinality(S)
BY Zenon DEF Graph!Cardinality, Cardinality

LEMMA BeginStep ==
  ASSUME IInv, IInv', NEW n \in Nodes, Fork(n)
  PROVE  Graph!Begin(n)
<1>1. Examine(n) /\ ~Restrained(n)
  BY DEF Fork, LetThrough
<1>2. /\ begun' = begun \cup {n} /\ hand' = {n} /\ pc \notin Ended /\ pc' \notin Ended
      /\ UNCHANGED <<jobs, updated, stoppedJobs>>
  BY <1>1 DEF Fork, LetThrough, Examine, Ended, table
<1>3. hand = {}
  BY <1>1 DEF Examine, IInv, Places
<1>4. Status(n)' = "making"
  BY <1>2, MappedNext DEF Mapped
<1>5. \A p \in Nodes \ {n} : Status(p)' = Status(p)
  BY <1>2, <1>3, Unmoved
<1>6. Cardinality(jobs) < MaxJobs
  <2>1. ~jobFull
    BY <1>1 DEF Examine, Job_Full
  <2>2. nJobs = Cardinality(jobs) /\ nJobs <= MaxJobs /\ nJobs # MaxJobs
    BY <2>1 DEF IInv, Slots
  <2> QED BY <2>2 DEF IInv, TableType
<1> QED BY <1>1, <1>2, <1>4, <1>5, <1>6, GoingNow, Moves,
           SameCardinality DEF Graph!Begin

LEMMA CatchSteps ==
  ASSUME IInv, IInv', NEW n \in Nodes, CatchOk(n) \/ CatchBad(n) \/ CatchStopped(n)
  PROVE  Graph!Finish(n) \/ Graph!Leave(n) \/ Graph!Hold(n)
<1>1. /\ n \in jobs /\ jobs' = jobs \ {n} /\ n \notin hand /\ n \notin stoppedJobs
      /\ n \in begun /\ n \notin updated
      /\ UNCHANGED <<begun, hand>> /\ pc \notin Ended /\ pc' \notin Ended
  BY DEF CatchOk, CatchBad, CatchStopped, Take, Ended, IInv, Places
<1>2. Status(n) = "making"
  BY <1>1, MappedNow DEF Mapped
<1>3. CASE CatchOk(n) /\ aborting = "no"
  <2>1. updated' = updated \cup {n} /\ UNCHANGED stoppedJobs
    BY <1>3 DEF CatchOk, Make_Update
  <2>2. Status(n)' = "done"
    BY <2>1, MappedNext DEF Mapped
  <2>3. \A p \in Nodes \ {n} : Status(p)' = Status(p)
    BY <1>1, <2>1, Unmoved
  <2> QED BY <1>1, <1>2, <2>2, <2>3, Moves DEF Graph!Finish
<1>4. CASE (CatchOk(n) /\ aborting # "no") \/ CatchBad(n)
  <2>1. UNCHANGED <<updated, stoppedJobs>>
    BY <1>4 DEF CatchOk, CatchBad, nodes
  <2>2. Status(n)' = "left"
    BY <1>1, <2>1, MappedNext DEF Mapped
  <2>3. \A p \in Nodes \ {n} : Status(p)' = Status(p)
    BY <1>1, <2>1, Unmoved
  <2> QED BY <1>1, <1>2, <2>2, <2>3, Moves DEF Graph!Leave
<1>5. CASE CatchStopped(n)
  <2>1. UNCHANGED updated /\ stoppedJobs' = stoppedJobs \cup {n}
    BY <1>5 DEF CatchStopped, nodes
  <2>2. Status(n)' = "held"
    BY <2>1, MappedNext DEF Mapped
  <2>3. \A p \in Nodes \ {n} : Status(p)' = Status(p)
    BY <1>1, <2>1, Unmoved
  <2> QED BY <1>1, <1>2, <2>2, <2>3, Moves DEF Graph!Hold
<1> QED BY <1>3, <1>4, <1>5

LEMMA RestartStep ==
  ASSUME IInv, IInv', NEW n \in Nodes, Restart(n)
  PROVE  Graph!Leave(n)
<1>1. /\ n \in stoppedJobs /\ stoppedJobs' = stoppedJobs \ {n}
      /\ n \notin jobs \cup hand /\ n \in begun /\ n \notin updated
      /\ UNCHANGED <<begun, updated, jobs, hand, pc>> /\ pc \notin Ended
  BY DEF Restart, nodes, Ended, IInv, Places
<1>2. Status(n) = "held" /\ Status(n)' = "left"
  BY <1>1, MappedNow, MappedNext DEF Mapped
<1>3. \A p \in Nodes \ {n} : Status(p)' = Status(p)
  BY <1>1, Unmoved
<1> QED BY <1>1, <1>2, <1>3, Moves DEF Graph!Leave

\* The other steps move nothing, and some of them end make.
Still == UNCHANGED <<begun, updated, jobs \cup hand, stoppedJobs>>

LEMMA StillSteps ==
  ASSUME IInv, Still, pc \in Ended => pc' \in Ended
  PROVE  Graph!End \/ UNCHANGED Graph!vars
<1>1. \A p \in Nodes : Status(p)' = Status(p)
  BY Unmoved DEF Still
<1> QED BY <1>1, Stays DEF Graph!End, Graph!vars

LEMMA StillOnes ==
  ASSUME \/ \E n \in Nodes : Drop(n) \/ DontKnow(n) \/ CatchStray(n) \/ Shell(n)
         \/ Enter \/ StartEnd \/ Job_Empty \/ CatchEnd \/ Settle
         \/ Suspend \/ Interrupt \/ Rest
  PROVE  Still /\ (pc \in Ended => pc' \in Ended)
<1>1. ASSUME NEW n \in Nodes, Drop(n) \/ DontKnow(n)
      PROVE  Still /\ (pc \in Ended => pc' \in Ended)
  BY <1>1 DEF Drop, DontKnow, Examine, table, Still, Ended
<1>2. ASSUME NEW n \in Nodes, CatchStray(n) \/ Shell(n)
      PROVE  Still /\ (pc \in Ended => pc' \in Ended)
  BY <1>2 DEF CatchStray, Shell, Write, Succeed, Fail, make, nodes, table, Still, Ended
<1>3. Enter \/ StartEnd \/ Job_Empty \/ CatchEnd \/ Settle
        => Still /\ (pc \in Ended => pc' \in Ended)
  BY DEF Enter, StartEnd, Job_Empty, CatchEnd, Settle, nodes, table, Still, Ended
<1>4. Suspend \/ Interrupt \/ Rest => Still /\ (pc \in Ended => pc' \in Ended)
  BY DEF Suspend, Interrupt, Rest, make, vars, nodes, table, Still, Ended
<1> QED BY <1>1, <1>2, <1>3, <1>4

LEMMA GraphNext ==
  ASSUME IInv, IInv', Next
  PROVE  Graph!Next \/ UNCHANGED Graph!vars
<1>1. ASSUME NEW n \in Nodes, UpToDate(n) \/ NoExec(n) \/ Fork(n) PROVE Graph!Next
  BY <1>1, PassStep, BeginStep DEF Graph!Next
<1>2. ASSUME NEW n \in Nodes,
             CatchOk(n) \/ CatchBad(n) \/ CatchStopped(n) \/ Restart(n)
      PROVE  Graph!Next
  BY <1>2, CatchSteps, RestartStep DEF Graph!Next
<1>3. CASE \/ \E n \in Nodes : Drop(n) \/ DontKnow(n) \/ CatchStray(n) \/ Shell(n)
           \/ Enter \/ StartEnd \/ Job_Empty \/ CatchEnd \/ Settle
           \/ Suspend \/ Interrupt \/ Rest
  BY <1>3, StillOnes, StillSteps DEF Graph!Next
<1> QED BY <1>1, <1>2, <1>3 DEF Next, Program

\* make -j implements what make promises of any graph: a target is begun once,
\* after its sources and its .ORDER predecessors, within the limit, and never
\* after an error without -k.
THEOREM ImplementsGraph == Spec => GraphSpec
<1>1. Init => Graph!Init
  BY DEF Init, Graph!Init, Status, Ended
<1>2. IInv /\ IInv' /\ [Next]_vars => [Graph!Next]_(Graph!vars)
  <2>1. CASE Next
    BY <2>1, GraphNext
  <2>2. ASSUME UNCHANGED vars PROVE UNCHANGED Graph!vars
    <3>1. \A p \in Nodes : Status(p)' = Status(p)
      BY <2>2, Unmoved DEF vars, nodes, table
    <3> QED BY <2>2, <3>1, Stays DEF vars, Graph!vars
  <2> QED BY <2>1, <2>2
<1> QED BY <1>1, <1>2, Invariance, PTL DEF Spec, GraphSpec, Graph!Spec

-----------------------------------------------------------------------------
(* Theorems that need more of the invariant.                               *)

\* What is known of a file when it is updated is known of it ever after: nobody
\* writes or removes it any more.
Dated ==
  /\ \A n \in Nodes : \A c \in Sources[n] \cap updated :
       file[c] <= cmtime[n] /\ (file[c] = 0 => n \in force)
  /\ \A n \in Nodes : made[n] = "uptodate" =>
       file[n] # 0 /\ cmtime[n] <= file[n] /\ n \notin force

LEMMA FilesRest ==
  ASSUME IInv, Next, NEW n \in updated
  PROVE  file'[n] = file[n]
<1>0. n \in Nodes /\ n \notin jobs /\ proc[n] = "none"
  BY DEF IInv, NodesType, Places, Shells
<1>1. ASSUME NEW p \in Nodes, Drop(p) \/ DontKnow(p) \/ UpToDate(p) \/ NoExec(p) \/ Fork(p)
      PROVE  UNCHANGED file
  BY <1>1 DEF Drop, DontKnow, UpToDate, NoExec, Fork, LetThrough, world
<1>2. ASSUME NEW p \in Nodes,
             \/ CatchOk(p) \/ CatchBad(p) \/ CatchStopped(p) \/ CatchStray(p) \/ Restart(p)
      PROVE  UNCHANGED file
  BY <1>2 DEF CatchOk, CatchBad, CatchStopped, CatchStray, Restart, Take
<1>3. Enter \/ StartEnd \/ Job_Empty \/ CatchEnd \/ Settle \/ Suspend \/ Rest
        => UNCHANGED file
  BY DEF Enter, StartEnd, Job_Empty, CatchEnd, Settle, Suspend, Rest, vars, world
<1>4. ASSUME NEW p \in Nodes, Shell(p) PROVE file'[n] = file[n]
  BY <1>0, <1>4 DEF Shell, Write, Succeed, Fail, IInv, WorldType
<1>5. Interrupt => file'[n] = file[n]
  BY <1>0 DEF Interrupt
<1> QED BY <1>1, <1>2, <1>3, <1>4, <1>5 DEF Next, Program

LEMMA DatedKept ==
  ASSUME IInv, Dated, Next PROVE Dated'
<1>0. \A n \in updated : n \in Nodes /\ file'[n] = file[n]
  BY FilesRest DEF IInv, NodesType
<1>1. ASSUME UNCHANGED <<made, cmtime, force, updated>> PROVE Dated'
  BY <1>0, <1>1 DEF Dated, IInv, Begun
<1>2. ASSUME NEW n \in Nodes, NEW m, Updates(n, m),
             m = "uptodate" =>
               file[n] # 0 /\ cmtime[n] <= file[n] /\ n \notin force,
             file'[n] = file[n]
      PROVE  Dated'
  <2>1. ASSUME NEW p \in Nodes, NEW c \in Sources[p] \cap updated'
        PROVE  file'[c] <= cmtime'[p] /\ (file'[c] = 0 => p \in force')
    <3>1. CASE c = n
      BY <1>2, <2>1, <3>1
      DEF Updates, Make_Update, Recheck, IInv, NodesType, WorldType, Times
    <3>2. CASE c \in updated
      <4>1. cmtime[p] <= cmtime'[p] /\ (p \in force => p \in force')
        BY <1>2 DEF Updates, Make_Update, Recheck, IInv, NodesType, WorldType, Times
      <4>2. file'[c] = file[c] /\ file[c] \in Times /\ cmtime[p] \in Times /\ cmtime'[p] \in Times
        BY <1>0, <1>2, <3>2, UpdateTypes DEF IInv, NodesType, WorldType
      <4> QED BY <2>1, <3>2, <4>1, <4>2 DEF Dated, Times
    <3> QED BY <1>2, <3>1, <3>2 DEF Updates, Make_Update
  <2>2. ASSUME NEW p \in Nodes, made'[p] = "uptodate"
        PROVE  file'[p] # 0 /\ cmtime'[p] <= file'[p] /\ p \notin force'
    <3>1. n \notin Sources[p]
      <4>1. p \in updated \/ p = n
        BY <1>2, <2>2 DEF Updates, Make_Update, IInv, Begun, NodesType
      <4> QED BY <1>2, <4>1 DEF Updates, IInv, Begun
    <3>2. cmtime'[p] = cmtime[p] /\ (p \in force' => p \in force)
      BY <1>2, <3>1 DEF Updates, Make_Update
    <3>3. CASE p = n
      <4>1. m = "uptodate"
        BY <1>2, <2>2, <3>3 DEF Updates, Make_Update, IInv, NodesType
      <4> QED BY <1>2, <3>2, <3>3, <4>1
    <3>4. CASE p # n
      <4>1. made[p] = "uptodate" /\ p \in updated
        BY <1>2, <2>2, <3>4 DEF Updates, Make_Update, IInv, Begun, NodesType
      <4> QED BY <1>0, <3>2, <4>1 DEF Dated
    <3> QED BY <3>3, <3>4
  <2> QED BY <2>1, <2>2 DEF Dated
<1>3. ASSUME NEW n \in Nodes, UpToDate(n) \/ NoExec(n) \/ CatchOk(n)
      PROVE  file' = file
  BY <1>3 DEF UpToDate, NoExec, CatchOk, LetThrough, Take
<1>4. ASSUME NEW n \in Nodes, UpToDate(n) PROVE Dated'
  <2>1. file[n] # 0 /\ cmtime[n] <= file[n] /\ n \notin force
    BY <1>4 DEF UpToDate, OODate, IInv, NodesType, WorldType, Times
  <2> QED BY <1>2, <1>3, <1>4, <2>1, UpdateSteps
<1>5. ASSUME NEW n \in Nodes, NoExec(n) PROVE Dated'
  <2>1. made[n] # "uptodate"
    <3>1. n \notin updated
      BY <1>5, Restraint DEF NoExec, LetThrough
    <3> QED BY <3>1 DEF IInv, Begun
  <2> QED BY <1>2, <1>3, <1>5, <2>1, UpdateSteps
<1>6. ASSUME NEW n \in Nodes, CatchOk(n) PROVE Dated'
  <2>1. CASE aborting = "no"
    BY <1>2, <1>3, <1>6, <2>1, UpdateSteps
  <2>2. CASE aborting # "no"
    BY <1>1, <1>6, <2>2 DEF CatchOk, nodes
  <2> QED BY <2>1, <2>2
<1>7. ASSUME NEW n \in Nodes,
             \/ Drop(n) \/ DontKnow(n) \/ Fork(n) \/ CatchBad(n) \/ CatchStopped(n)
             \/ CatchStray(n) \/ Restart(n) \/ Shell(n)
      PROVE  UNCHANGED <<made, cmtime, force, updated>>
  BY <1>7 DEF Drop, DontKnow, Fork, CatchBad, CatchStopped, CatchStray, Restart,
              Shell, Write, Succeed, Fail, make, nodes
<1>8. Enter \/ StartEnd \/ Job_Empty \/ CatchEnd \/ Settle \/ Suspend \/ Interrupt \/ Rest
        => UNCHANGED <<made, cmtime, force, updated>>
  BY DEF Enter, StartEnd, Job_Empty, CatchEnd, Settle, Suspend, Interrupt, Rest, vars, make,
         nodes
<1> QED BY <1>1, <1>4, <1>5, <1>6, <1>7, <1>8 DEF Next, Program

\* What Make_OODate passes over is no older than its sources and stays so: a
\* source that was made but is not there has forced it through FORCE.
THEOREM PassedIsFresh == Spec => []FreshIfPassed
<1>1. Init => Dated
  BY DEF Init, Dated
<1>2. IInv /\ Dated /\ [Next]_vars => Dated'
  <2>1. CASE UNCHANGED vars
    BY <2>1 DEF vars, nodes, world, Dated
  <2> QED BY <2>1, DatedKept
<1>3. IInv /\ Dated => FreshIfPassed
  <2> SUFFICES ASSUME IInv, Dated, NEW n \in Nodes, NEW c \in Sources[n], made[n] = "uptodate"
               PROVE  file[n] # 0 /\ file[c] # 0 /\ file[c] <= file[n]
    BY DEF FreshIfPassed
  <2>1. c \in updated /\ c \in Nodes
    BY DEF IInv, Begun
  <2> QED BY <2>1 DEF Dated, IInv, WorldType, NodesType, Times
<1> QED BY <1>1, <1>2, <1>3, Invariance, PTL DEF Spec

\* When nobody types ^Z, what runs is in the table, or in make's hand.
Tabled ==
  /\ stops = 0 /\ stoppedJobs = {} /\ \A n \in Nodes : proc[n] # "stopped"
  /\ \A n \in Nodes : proc[n] = "running" =>
       n \in hand \/ (n \in jobs /\ pc # "interrupted")
  /\ \A n, p \in hand : n = p

LEMMA TabledKept ==
  ASSUME IInv, IInv', Tabled, Next, MaxStops = 0 PROVE Tabled'
<1> USE DEF Tabled
<1>0. \A n, p \in hand' : n = p
  <2>1. ASSUME NEW n \in Nodes, Fork(n) PROVE hand' = {n}
    BY <2>1 DEF Fork
  <2>2. UNCHANGED hand \/ hand' = {} \/ \E n \in Nodes : Fork(n)
    BY TableSteps
    DEF Idle, Enter, Job_Empty, Restart, CatchOk, CatchBad, CatchStopped, Take
  <2> QED BY <2>1, <2>2
<1>1. ASSUME NEW n \in Nodes, Drop(n) \/ UpToDate(n) \/ NoExec(n) PROVE Tabled'
  BY <1>0, <1>1 DEF Drop, UpToDate, NoExec, LetThrough, table, world
<1>2. ASSUME NEW n \in Nodes, DontKnow(n) PROVE Tabled'
  BY <1>0, <1>2 DEF DontKnow, Killed, table
<1>3. ASSUME NEW n \in Nodes, Fork(n) PROVE Tabled'
  <2>1. /\ UNCHANGED <<stops, stoppedJobs, jobs>> /\ hand' = {n} /\ pc' = "exec"
        /\ proc' = [proc EXCEPT ![n] = "running"]
    BY <1>3 DEF Fork, LetThrough, table
  <2>2. hand = {}
    BY <1>3 DEF Fork, LetThrough, Examine, IInv, Places
  <2> QED BY <1>0, <2>1, <2>2 DEF IInv, WorldType
<1>4. ASSUME NEW n \in Nodes, CatchOk(n) \/ CatchBad(n) \/ CatchStray(n) PROVE Tabled'
  BY <1>0, <1>4 DEF CatchOk, CatchBad, CatchStray, Take, table, IInv, WorldType
<1>5. ASSUME NEW n \in Nodes, CatchStopped(n) \/ Restart(n) PROVE FALSE
  BY <1>5 DEF CatchStopped, Restart
<1>6. Enter \/ StartEnd \/ Job_Empty \/ CatchEnd \/ Settle \/ Rest => Tabled'
  BY <1>0
  DEF Enter, StartEnd, Job_Empty, CatchEnd, Settle, Rest, vars, table, world, Ended
<1>7. ASSUME NEW n \in Nodes, Shell(n) PROVE Tabled'
  BY <1>0, <1>7 DEF Shell, Write, Succeed, Fail, make, table, IInv, WorldType
<1>8. Suspend => FALSE
  BY DEF Suspend
<1>9. Interrupt => Tabled'
  BY <1>0 DEF Interrupt, Killed, Ended
<1> QED BY <1>1, <1>2, <1>3, <1>4, <1>5, <1>6, <1>7, <1>8, <1>9 DEF Next, Program

\* Without ^Z, make -j runs no more shells than it was told to, also while it
\* has one in hand, and after ^C.
THEOREM NoMoreThanAsked == ASSUME MaxStops = 0 PROVE Spec => []LimitKept
<1>1. Init => Tabled
  BY DEF Init, Tabled
<1>2. IInv /\ IInv' /\ Tabled /\ [Next]_vars => Tabled'
  <2>1. CASE UNCHANGED vars
    BY <2>1 DEF vars, table, world, Tabled
  <2> QED BY <2>1, TabledKept
<1>3. IInv /\ Tabled => LimitKept
  <2> SUFFICES ASSUME IInv, Tabled PROVE LimitKept
    OBVIOUS
  <2> DEFINE running == {n \in Nodes : proc[n] = "running"}
  <2>0. IsFiniteSet(jobs) /\ IsFiniteSet(hand) /\ nJobs = Cardinality(jobs) /\ nJobs <= MaxJobs
        /\ Cardinality(jobs) \in Nat /\ MaxJobs \in Nat \ {0}
    BY FS_Subset, FS_CardinalityType DEF IInv, TableType, Slots
  <2>1. CASE hand = {}
    <3>1. running \subseteq jobs
      BY <2>1 DEF Tabled
    <3> QED BY <2>0, <3>1, FS_Subset, FS_CardinalityType DEF LimitKept
  <2>2. CASE pc = "exec"
    <3>1. PICK n \in Nodes : hand = {n}
      BY <2>2 DEF IInv, Places
    <3>2. n \notin jobs
      BY <3>1 DEF IInv, Places
    <3>3. ~jobFull /\ nJobs # MaxJobs
      BY <2>2 DEF IInv, Slots
    <3>4. Cardinality(jobs \cup {n}) = Cardinality(jobs) + 1 /\ IsFiniteSet(jobs \cup {n})
      BY <2>0, <3>2, FS_AddElement
    <3>5. running \subseteq jobs \cup {n}
      BY <3>1 DEF Tabled
    <3>6. Cardinality(running) <= Cardinality(jobs \cup {n}) /\ Cardinality(running) \in Nat
      BY <3>4, <3>5, FS_Subset, FS_CardinalityType
    <3>7. Cardinality(running) <= MaxJobs
      BY <2>0, <3>3, <3>4, <3>6
    <3> QED BY <3>7 DEF LimitKept
  <2>3. CASE pc = "interrupted" /\ hand # {}
    <3>1. PICK n \in hand : running \subseteq {n}
      BY <2>3 DEF Tabled
    <3>2. Cardinality({n}) = 1 /\ IsFiniteSet({n})
      BY FS_Singleton
    <3>3. Cardinality(running) <= 1 /\ Cardinality(running) \in Nat
      BY <3>1, <3>2, FS_Subset, FS_CardinalityType
    <3>4. Cardinality(running) <= MaxJobs
      BY <2>0, <3>3
    <3> QED BY <3>4 DEF LimitKept
  <2> QED BY <2>1, <2>2, <2>3 DEF IInv, Places
<1> QED BY <1>1, <1>2, <1>3, Invariance, PTL DEF Spec

\* Commands are run before what has them is updated.
Executed == \A n \in Commands \cap updated : made[n] # "unmade"

LEMMA DroppedKept ==
  ASSUME IInv, IInv', Executed, DroppedComesBack, Next,
         \A n \in Nodes : Preds[n] \subseteq Commands
  PROVE  Executed' /\ DroppedComesBack'
<1>0. pc = "died" => pc' = "died" /\ Quiet
  <2>1. ASSUME NEW n \in Nodes, pc = "died",
               \/ Drop(n) \/ UpToDate(n) \/ NoExec(n) \/ DontKnow(n) \/ Fork(n)
               \/ CatchStopped(n) \/ CatchOk(n) \/ CatchBad(n) \/ CatchStray(n)
               \/ Restart(n)
        PROVE  FALSE
    BY <2>1 DEF Drop, UpToDate, NoExec, DontKnow, Fork, LetThrough, Examine, CatchStopped,
                CatchOk, CatchBad, Take, CatchStray, Restart
  <2>2. Enter \/ StartEnd \/ Job_Empty \/ CatchEnd \/ Settle \/ Interrupt => pc # "died"
    BY DEF Enter, StartEnd, Job_Empty, CatchEnd, Settle, Interrupt, Ended
  <2>3. ASSUME NEW n \in Nodes, Shell(n) PROVE pc' = pc /\ Quiet
    BY <2>3 DEF Shell, Write, Succeed, Fail, make, Quiet
  <2>4. Suspend \/ Rest => pc' = pc /\ Quiet
    BY DEF Suspend, Rest, make, vars, Quiet
  <2> QED BY <2>1, <2>2, <2>3, <2>4 DEF Next, Program
<1>1. CASE Quiet
  BY <1>0, <1>1 DEF Quiet, nodes, Executed, DroppedComesBack
<1>2. ASSUME NEW n \in Nodes, Drop(n), Dequeues(n), UNCHANGED begun
      PROVE  Executed' /\ DroppedComesBack'
  <2>1. PICK p \in Preds[n] : made[p] = "unmade"
    BY <1>2 DEF Drop, Restrained
  <2>2. p \notin updated
    BY <2>1 DEF Executed
  <2>3. pc # "died"
    BY <1>2 DEF Drop, Examine
  <2> QED BY <1>2, <2>1, <2>2, <2>3
          DEF Dequeues, DeQueue, Executed, DroppedComesBack, IInv, NodesType
<1>3. ASSUME NEW n \in Nodes, DontKnow(n), Dequeues(n) PROVE Executed' /\ DroppedComesBack'
  BY <1>3 DEF DontKnow, Dequeues, Executed, DroppedComesBack
<1>4. ASSUME NEW n \in Nodes, Fork(n), Dequeues(n), begun' = begun \cup {n}
      PROVE  Executed' /\ DroppedComesBack'
  <2>1. pc # "died"
    BY <1>4 DEF Fork, LetThrough, Examine
  <2> QED BY <1>4, <2>1 DEF Dequeues, DeQueue, Executed, DroppedComesBack, IInv, NodesType
<1>5. ASSUME NEW n \in Nodes, NEW m \in {"unmade", "made", "uptodate"}, Updates(n, m),
             n \in Commands => m # "unmade"
      PROVE  Executed' /\ DroppedComesBack'
  <2> DEFINE queue == IF n \in begun THEN toBeMade ELSE DeQueue(n)
  <2>1. Executed'
    BY <1>5 DEF Updates, Make_Update, Executed, IInv, NodesType
  <2>2. pc # "died"
    BY <1>0, <1>5 DEF Updates, Ended
  <2> SUFFICES ASSUME NEW q \in Nodes \ begun', unmade'[q] = 0, toBeMade'[q] = 0
               PROVE  \E p \in Preds[q] : p \notin updated'
    BY <2>1 DEF DroppedComesBack
  <2>3. q \notin begun /\ q # n
    BY <1>5 DEF Updates
  <2>4. queue[q] = toBeMade[q] /\ toBeMade[q] \in Nat
    BY <2>3 DEF DeQueue, IInv, NodesType
  <2>5. made'[q] = "unmade"
    BY <1>5, <2>3 DEF Updates, Make_Update, IInv, Begun, NodesType
  <2>6. n \notin Sources[q] /\ toBeMade[q] = 0 /\ n \notin Preds[q]
    BY <1>5, <2>4, <2>5 DEF Updates, Make_Update
  <2>7. unmade[q] = 0
    BY <1>5, <2>6 DEF Updates, Make_Update
  <2>8. PICK p \in Preds[q] : p \notin updated
    BY <2>2, <2>3, <2>6, <2>7 DEF DroppedComesBack
  <2> QED BY <1>5, <2>6, <2>8 DEF Updates, Make_Update
<1> QED BY <1>1, <1>2, <1>3, <1>4, <1>5, GraphSteps

\* A target .ORDER put off always has somebody left who will put it back on the
\* list, as long as what it waits for has commands: without them made stays
\* "unmade" and the target is put off for ever.
THEOREM NoWakeUpLost ==
  ASSUME \A n \in Nodes : Preds[n] \subseteq Commands
  PROVE  Spec => []DroppedComesBack
<1>1. Init => Executed /\ DroppedComesBack
  <2> SUFFICES ASSUME Init, NEW n \in Nodes, unmade[n] = 0, toBeMade[n] = 0 PROVE FALSE
    BY DEF Init, Executed, DroppedComesBack
  <2>1. IsFiniteSet(Sources[n]) /\ Cardinality(Sources[n]) = 0
    BY FS_Subset DEF Init
  <2>2. Sources[n] = {}
    BY <2>1, FS_EmptySet
  <2> QED BY <2>2 DEF Init, Leaves
<1>2. IInv /\ IInv' /\ Executed /\ DroppedComesBack /\ [Next]_vars
        => Executed' /\ DroppedComesBack'
  <2>1. CASE UNCHANGED vars
    BY <2>1 DEF vars, nodes, Executed, DroppedComesBack
  <2> QED BY <2>1, DroppedKept
<1> QED BY <1>1, <1>2, Invariance, PTL DEF Spec

\* Job_Empty looks at the table when the list is empty or the table full.
Emptied ==
  /\ pc = "test" /\ aborting = "no" => jobFull \/ \A n \in Nodes : toBeMade[n] = 0
  /\ pc = "finished" => /\ aborting = "no" /\ jobs = {} /\ stoppedJobs = {}
                        /\ \A n \in Nodes : toBeMade[n] = 0

LEMMA EmptiedKept ==
  ASSUME IInv, Emptied, Next, KeepGoing PROVE Emptied'
<1> USE DEF Emptied
<1>1. ASSUME NEW n \in Nodes,
             \/ Drop(n) \/ UpToDate(n) \/ NoExec(n) \/ DontKnow(n) \/ Fork(n)
             \/ CatchStopped(n) \/ CatchOk(n) \/ CatchBad(n) \/ CatchStray(n) \/ Restart(n)
      PROVE  pc' \notin {"test", "finished"}
  BY <1>1 DEF Drop, UpToDate, NoExec, DontKnow, Fork, LetThrough, Examine, CatchStopped,
              CatchOk, CatchBad, Take, CatchStray, Restart
<1>2. Enter \/ CatchEnd \/ Settle \/ Interrupt => pc' \notin {"test", "finished"}
  BY DEF Enter, CatchEnd, Settle, Interrupt
<1>3. StartEnd => Emptied'
  BY DEF StartEnd, Job_Full, nodes, table
<1>4. ASSUME Job_Empty PROVE Emptied'
  <2>1. pc' # "test"
    BY <1>4 DEF Job_Empty
  <2>2. ASSUME pc' = "finished"
        PROVE  /\ aborting' = "no" /\ jobs' = {} /\ stoppedJobs' = {}
               /\ \A n \in Nodes : toBeMade'[n] = 0
    <3>1. /\ nJobs = 0 /\ (stoppedJobs = {} \/ aborting # "no") /\ pc = "test"
          /\ UNCHANGED <<aborting, jobs, stoppedJobs, toBeMade>>
      BY <1>4, <2>2 DEF Job_Empty, nodes
    <3>2. aborting = "no"
      BY <3>1 DEF IInv, Lefts, TableType, Ended
    <3>3. jobs = {}
      BY <3>1, FS_Subset, FS_EmptySet DEF IInv, Slots, TableType
    <3>4. ~jobFull
      BY <3>1 DEF IInv, Slots
    <3> QED BY <3>1, <3>2, <3>3, <3>4
  <2> QED BY <2>1, <2>2
<1>5. ASSUME NEW n \in Nodes, Shell(n) PROVE Emptied'
  BY <1>5 DEF Shell, Write, Succeed, Fail, make, nodes, table
<1>6. Suspend \/ Rest => Emptied'
  BY DEF Suspend, Rest, make, vars, nodes, table
<1> QED BY <1>1, <1>2, <1>3, <1>4, <1>5, <1>6 DEF Next, Program

\* With -k, whatever make leaves undone was in error, or has something undone
\* before it: the list is empty at the end and no wake-up was lost.
THEOREM NothingLeftOut ==
  ASSUME KeepGoing, \A n \in Nodes : Preds[n] \subseteq Commands
  PROVE  Spec => []LeftForAReason
<1>1. Init => Emptied
  BY DEF Init, Emptied
<1>2. IInv /\ Emptied /\ [Next]_vars => Emptied'
  <2>1. CASE UNCHANGED vars
    BY <2>1 DEF vars, nodes, table, Emptied
  <2> QED BY <2>1, EmptiedKept
<1>3. IInv /\ Emptied /\ DroppedComesBack => LeftForAReason
  <2> SUFFICES ASSUME IInv, Emptied, DroppedComesBack, pc = "finished",
                      NEW n \in Nodes \ updated, n \notin errors
               PROVE  \E c \in Sources[n] \cup Preds[n] : c \notin updated
    BY DEF LeftForAReason
  <2>1. n \notin begun
    BY DEF Emptied, IInv, Lefts, Places
  <2>2. CASE unmade[n] = 0
    BY <2>1, <2>2 DEF Emptied, DroppedComesBack
  <2>3. CASE unmade[n] # 0
    <3>1. Cardinality(Sources[n] \ updated) # 0
      BY <2>3 DEF IInv, Counts
    <3>2. Sources[n] \ updated # {}
      BY <3>1, FS_EmptySet
    <3> QED BY <3>2
  <2> QED BY <2>2, <2>3
<1> QED BY <1>1, <1>2, <1>3, Invariance, NoWakeUpLost, PTL DEF Spec

\* Where a node is whose shell is not in the table.
Astray == errors \cup stoppedJobs \cup hand

\* A shell that may still write, and what a shell has left in part, belong to a node
\* in the table, or astray; ^C deals with the table.
Traced ==
  /\ \A n \in torn : proc[n] # "ok"
  /\ \A n \in Nodes : proc[n] \in {"running", "stopped"} =>
       n \in Astray \/ (n \in jobs /\ pc # "interrupted")
  /\ \A n \in torn :
       n \in Astray \/ (IF pc = "interrupted" THEN n \in Precious ELSE n \in jobs)
  /\ pc \in {"finished", "aborted"} => jobs = {}

LEMMA TracedKept ==
  ASSUME IInv, IInv', Traced, Next PROVE Traced'
<1> USE DEF Traced, Astray
<1>1. ASSUME NEW n \in Nodes, Drop(n) \/ UpToDate(n) \/ NoExec(n) PROVE Traced'
  BY <1>1 DEF Drop, UpToDate, NoExec, LetThrough, Examine, table, world
<1>2. ASSUME NEW n \in Nodes, DontKnow(n) PROVE Traced'
  BY <1>2 DEF DontKnow, Examine, Killed, table, IInv, WorldType
<1>3. ASSUME NEW n \in Nodes, Fork(n) PROVE Traced'
  <2>1. /\ UNCHANGED <<errors, stoppedJobs, jobs, torn>> /\ hand' = {n} /\ hand = {}
        /\ proc' = [proc EXCEPT ![n] = "running"] /\ pc = "start" /\ pc' = "exec"
    BY <1>3 DEF Fork, LetThrough, Examine, table, IInv, Places
  <2> QED BY <2>1 DEF IInv, WorldType
<1>4. ASSUME Enter PROVE Traced'
  BY <1>4 DEF Enter, world
<1>5. ASSUME NEW n \in Nodes, CatchOk(n) \/ CatchBad(n) \/ CatchStopped(n) PROVE Traced'
  BY <1>5 DEF CatchOk, CatchBad, CatchStopped, Take, IInv, WorldType
<1>6. ASSUME NEW n \in Nodes, CatchStray(n) \/ Restart(n) PROVE Traced'
  BY <1>6 DEF CatchStray, Restart, table, IInv, WorldType
<1>7. ASSUME StartEnd \/ CatchEnd \/ Rest PROVE Traced'
  BY <1>7 DEF StartEnd, CatchEnd, Rest, vars, table, world
<1>8. ASSUME Job_Empty \/ Settle PROVE Traced'
  <2>1. pc' \in {"finished", "aborted"} => nJobs = 0
    BY <1>8 DEF Job_Empty, Settle
  <2>2. nJobs = 0 => jobs = {}
    BY FS_Subset, FS_EmptySet DEF IInv, Slots, TableType
  <2>3. pc # "interrupted" /\ pc' # "interrupted"
        /\ UNCHANGED <<errors, stoppedJobs, hand, jobs, torn, proc>>
    BY <1>8 DEF Job_Empty, Settle, world
  <2> QED BY <2>1, <2>2, <2>3
<1>9. ASSUME NEW n \in Nodes, Shell(n) PROVE Traced'
  BY <1>9 DEF Shell, Write, Succeed, Fail, make, table, IInv, WorldType
<1>10. ASSUME Suspend PROVE Traced'
  BY <1>10 DEF Suspend, make, table, IInv, WorldType
<1>11. ASSUME Interrupt PROVE Traced'
  BY <1>11 DEF Interrupt, Killed, Ended, IInv, WorldType
<1> QED
  BY <1>1, <1>2, <1>3, <1>4, <1>5, <1>6, <1>7, <1>8, <1>9, <1>10, <1>11 DEF Next, Program

\* However make -j has ended, a target that is written in part is one whose job failed
\* or is suspended; after ^C also one whose job was not in the table yet, or that is
\* precious; and where make died, one whose job was in the table and was killed.
THEOREM PartialsKnown == Spec => []PartialKnown
<1>1. Init => Traced
  BY DEF Init, Traced
<1>2. IInv /\ IInv' /\ Traced /\ [Next]_vars => Traced'
  <2>1. CASE UNCHANGED vars
    BY <2>1 DEF vars, table, world, Traced, Astray
  <2> QED BY <2>1, TracedKept
<1>3. IInv /\ Traced => PartialKnown
  BY DEF IInv, Places, Traced, Astray, PartialKnown
<1> QED BY <1>1, <1>2, <1>3, Invariance, PTL DEF Spec
=============================================================================
