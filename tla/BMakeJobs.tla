----------------------------- MODULE BMakeJobs -----------------------------
(***************************************************************************)
(* bmake's parallel mode (make -j): the fringe of the graph that make.c     *)
(* works up from the leaves, and the job table of job.c.                    *)
(*                                                                         *)
(* make itself is sequential; pc says where in the loop of Make_Run it is.  *)
(* What runs beside it are the shells of the jobs, which write their        *)
(* targets and end when they like, and the terminal, from which ^Z and ^C   *)
(* may come between any two steps.  A step is what make does between two    *)
(* such points: one turn of the loop of MakeStartJobs, of Job_CatchChildren *)
(* or of JobRestartJobs; forking a shell and entering it in the table are   *)
(* two, for a signal may come between them.                                 *)
(*                                                                         *)
(* Nodes holds the nodes Make_ExpandUse has reached and marked REMAKE, with *)
(* .USE nodes and suffix rules already expanded.  Left out are libraries,   *)
(* archive members, .JOIN and .EXEC nodes, `::' cohorts, .BEGIN, .END,      *)
(* .INTERRUPT, and the flags -n, -q, -t and -B.                             *)
(***************************************************************************)
EXTENDS Integers, FiniteSets

CONSTANTS
  Nodes, Sources, Preds, \* the graph: children and .ORDER predecessors
  Commands,              \* the nodes that have commands
  Forced,                \* .PHONY nodes and the targets of `!'
  Plain,                 \* files that are no target of any rule
  Precious,              \* nodes an interrupt does not remove
  MaxJobs,               \* the argument of -j
  KeepGoing,             \* the -k flag
  Now,                   \* the time make is started
  Last,                  \* bound: the latest time of a file
  MaxStops               \* bound: how often ^Z is typed

ASSUME GraphAssumption ==
  /\ IsFiniteSet(Nodes)
  /\ Sources \in [Nodes -> SUBSET Nodes] /\ Preds \in [Nodes -> SUBSET Nodes]
ASSUME KindsAssumption ==
  /\ Commands \subseteq Nodes /\ Forced \subseteq Nodes /\ Precious \subseteq Nodes
  /\ Plain \subseteq {n \in Nodes : Sources[n] = {}} \ (Commands \cup Forced)
ASSUME FlagsAssumption ==
  /\ MaxJobs \in Nat \ {0} /\ KeepGoing \in BOOLEAN
  /\ Now \in Nat \ {0} /\ Last \in Nat /\ Now <= Last /\ MaxStops \in Nat

VARIABLES
  \* the nodes (GNode)
  made,      \* "unmade" also while the job runs and after it failed
  unmade,    \* the number of sources not yet dealt with
  cmtime,    \* the time of the youngest source
  force,     \* the nodes flagged FORCE: a source does not exist, though made
  \* make.c
  toBeMade,  \* how often each node is on the list, whose order is left open
  numNodes,  \* nodes not examined yet
  \* job.c
  jobs, nJobs, jobFull, stoppedJobs,
  errors,    \* the nodes whose jobs have been counted as errors
  aborting,
  pc, hand,  \* where make is; the node it has just forked a shell for
  \* the world
  file,      \* the times of the files, 0 for one that does not exist
  torn,      \* files that are written in part
  proc,      \* the shell of each node
  stops,
  \* history
  begun, updated, \* nodes MakeStartJobs has let through; Make_Update was called on
  failed          \* nodes whose commands ended in error

nodes == <<made, unmade, cmtime, force, toBeMade, updated>>
table == <<jobs, nJobs, jobFull, stoppedJobs, errors, aborting>>
world == <<file, torn, proc, stops, failed>>
vars == <<nodes, numNodes, begun, table, pc, hand, world>>

Times == 0 .. Last  \* 0 for a file that does not exist
Ended == {"finished", "aborted", "died", "interrupted"}
Leaves == {n \in Nodes : Sources[n] = {}}

Init ==
  /\ made = [n \in Nodes |-> "unmade"]
  /\ unmade = [n \in Nodes |-> Cardinality(Sources[n])]
  /\ cmtime = [n \in Nodes |-> 0] /\ force = {}
  /\ toBeMade = [n \in Nodes |-> IF n \in Leaves THEN 1 ELSE 0]
  /\ numNodes = Cardinality(Nodes)
  /\ jobs = {} /\ nJobs = 0 /\ jobFull = FALSE /\ stoppedJobs = {}
  /\ errors = {} /\ aborting = "no" /\ pc = "start" /\ hand = {}
  /\ file \in [Nodes -> Times]
  /\ torn = {} /\ proc = [n \in Nodes |-> "none"] /\ stops = 0
  /\ begun = {} /\ updated = {} /\ failed = {}
-----------------------------------------------------------------------------
(* make.c                                                                  *)

\* Mutant: a source that is newer forces nothing unless it was made.
OODateMade(n) == n \in Forced \/ file[n] = 0 \/ cmtime[n] = Now

OODate(n) ==
  \/ n \in Forced
  \/ file[n] < cmtime[n]
  \/ cmtime[n] = 0 /\ file[n] = 0
  \/ n \in force

\* The time Make_Recheck leaves in a node that was made as m.
Recheck(n, m) == IF m # "uptodate" /\ file[n] = 0 THEN Now ELSE file[n]

\* Mutant: the fringe filled without Lst_Member.
UpdateTwice(n, m, queue) ==
  /\ made' = [made EXCEPT ![n] = m]
  /\ unmade' = [p \in Nodes |-> IF n \in Sources[p] THEN unmade[p] - 1 ELSE unmade[p]]
  /\ UNCHANGED <<cmtime, force>>
  /\ toBeMade' = [p \in Nodes |->
       IF unmade'[p] = 0 /\ (n \in Sources[p] \/ (n \in Preds[p] /\ made'[p] = "unmade"))
       THEN queue[p] + 1 ELSE queue[p]]
  /\ updated' = updated \cup {n}

\* Mutant: the successors forgotten.
UpdateParents(n, m, queue) ==
  /\ made' = [made EXCEPT ![n] = m]
  /\ unmade' = [p \in Nodes |-> IF n \in Sources[p] THEN unmade[p] - 1 ELSE unmade[p]]
  /\ UNCHANGED <<cmtime, force>>
  /\ toBeMade' = [p \in Nodes |->
       IF n \in Sources[p] /\ unmade'[p] = 0 THEN queue[p] + 1 ELSE queue[p]]
  /\ updated' = updated \cup {n}

\* Mutant: a parent put on the list with its last source still to come.
UpdateEarly(n, m, queue) ==
  /\ made' = [made EXCEPT ![n] = m]
  /\ unmade' = [p \in Nodes |-> IF n \in Sources[p] THEN unmade[p] - 1 ELSE unmade[p]]
  /\ UNCHANGED <<cmtime, force>>
  /\ toBeMade' = [p \in Nodes |->
       IF n \in Sources[p] /\ unmade'[p] <= 1 THEN 1 ELSE queue[p]]
  /\ updated' = updated \cup {n}

\* Mutant: no parent is forced.
UpdateUnforced(n, m, queue) ==
  /\ made' = [made EXCEPT ![n] = m]
  /\ unmade' = [p \in Nodes |-> IF n \in Sources[p] THEN unmade[p] - 1 ELSE unmade[p]]
  /\ cmtime' = [p \in Nodes |->
       IF n \in Sources[p] /\ Recheck(n, m) > cmtime[p] THEN Recheck(n, m)
       ELSE cmtime[p]]
  /\ toBeMade' = [p \in Nodes |->
       IF n \in Sources[p] /\ unmade'[p] = 0 THEN queue[p] + 1 ELSE queue[p]]
  /\ updated' = updated \cup {n} /\ UNCHANGED force

\* Make_Update(n), its made field being m and queue what is left on the list:
\* the parents have one source less to wait for, and go on the list after the
\* last; a successor that had restrained itself goes back on it.
Make_Update(n, m, queue) ==
  /\ made' = [made EXCEPT ![n] = m]
  /\ unmade' = [p \in Nodes |-> IF n \in Sources[p] THEN unmade[p] - 1 ELSE unmade[p]]
  /\ cmtime' = [p \in Nodes |->
       IF n \in Sources[p] /\ Recheck(n, m) > cmtime[p] THEN Recheck(n, m)
       ELSE cmtime[p]]
  /\ force' = IF m # "uptodate" /\ file[n] = 0
              THEN force \cup {p \in Nodes : n \in Sources[p]} ELSE force
  /\ toBeMade' = [p \in Nodes |->
       IF /\ unmade'[p] = 0
          /\ \/ n \in Sources[p]
             \/ n \in Preds[p] /\ made'[p] = "unmade" /\ queue[p] = 0
       THEN queue[p] + 1 ELSE queue[p]]
  /\ updated' = updated \cup {n}

DeQueue(n) == [toBeMade EXCEPT ![n] = @ - 1]

Job_Full == aborting # "no" \/ jobFull

\* Mutant: .ORDER ignored.
RestrainedNever(n) == FALSE

\* A predecessor that is going to be made has not been.
Restrained(n) == \E p \in Preds[n] : made[p] = "unmade"

\* MakeStartJobs takes n off the list.
Examine(n) == pc = "start" /\ ~Job_Full /\ toBeMade[n] > 0

\* It drops n on the floor: who makes the predecessor will put it back.
Drop(n) ==
  /\ Examine(n) /\ Restrained(n)
  /\ toBeMade' = DeQueue(n)
  /\ UNCHANGED <<made, unmade, cmtime, force, updated, numNodes, begun, table,
                 pc, hand, world>>

LetThrough(n) ==
  /\ Examine(n) /\ ~Restrained(n)
  /\ numNodes' = numNodes - 1 /\ begun' = begun \cup {n}
  /\ UNCHANGED <<table, file, torn, stops, failed>>

UpToDate(n) ==
  /\ LetThrough(n) /\ ~OODate(n)
  /\ Make_Update(n, "uptodate", DeQueue(n))
  /\ UNCHANGED <<pc, hand, proc>>

\* Out of date, but without commands: JobStart has nothing to execute and
\* updates the parents itself, leaving made as it was.
NoExec(n) ==
  /\ LetThrough(n) /\ OODate(n) /\ n \notin Commands \cup Plain
  /\ Make_Update(n, made[n], DeQueue(n))
  /\ UNCHANGED <<pc, hand, proc>>

Killed(ns) == [n \in Nodes |-> IF n \in ns THEN "none" ELSE proc[n]]

\* A file that is missing and no target: Job_CheckCommands gives up, JobStart
\* dies horribly, -k or not, and Job_AbortAll kills what runs.
DontKnow(n) ==
  /\ Examine(n) /\ ~Restrained(n) /\ OODate(n) /\ n \in Plain
  /\ numNodes' = numNodes - 1 /\ toBeMade' = DeQueue(n)
  /\ pc' = "died" /\ proc' = Killed(jobs)
  /\ UNCHANGED <<made, unmade, cmtime, force, updated, begun, hand, table,
                 file, torn, stops, failed>>

\* JobExec: the shell is forked ...
Fork(n) ==
  /\ LetThrough(n) /\ OODate(n) /\ n \in Commands
  /\ toBeMade' = DeQueue(n) /\ hand' = {n} /\ pc' = "exec"
  /\ proc' = [proc EXCEPT ![n] = "running"]
  /\ UNCHANGED <<made, unmade, cmtime, force, updated>>

\* Mutant: the table never full.
EnterAnyway ==
  /\ pc = "exec" /\ pc' = "start"
  /\ jobs' = jobs \cup hand /\ nJobs' = nJobs + 1 /\ hand' = {}
  /\ UNCHANGED <<nodes, numNodes, begun, jobFull, stoppedJobs, errors, aborting, world>>

\* ... and then entered in the job table.
Enter ==
  /\ pc = "exec" /\ pc' = "start"
  /\ jobs' = jobs \cup hand /\ nJobs' = nJobs + 1 /\ hand' = {}
  /\ jobFull' = (nJobs + 1 = MaxJobs \/ jobFull)
  /\ UNCHANGED <<nodes, numNodes, begun, stoppedJobs, errors, aborting, world>>

StartEnd ==
  /\ pc = "start" /\ (Job_Full \/ \A n \in Nodes : toBeMade[n] = 0)
  /\ pc' = "test"
  /\ UNCHANGED <<nodes, numNodes, begun, table, hand, world>>
-----------------------------------------------------------------------------
(* job.c                                                                   *)

\* Mutant: the stopped jobs forgotten.
Job_EmptyNow ==
  /\ pc = "test" /\ pc' = IF nJobs = 0 THEN "finished" ELSE "catch"
  /\ UNCHANGED <<nodes, numNodes, begun, table, hand, world>>

\* Mutant: the stopped jobs waited for, but not restarted.
Job_EmptyWaits ==
  /\ pc = "test"
  /\ pc' = IF nJobs = 0 /\ (stoppedJobs = {} \/ aborting # "no") THEN "finished"
           ELSE "catch"
  /\ UNCHANGED <<nodes, numNodes, begun, table, hand, world>>

\* Job_Empty, the condition of the loop of Make_Run.
Job_Empty ==
  /\ pc = "test"
  /\ \/ nJobs > 0 /\ pc' = "catch" /\ UNCHANGED jobFull
     \/ /\ nJobs = 0 /\ stoppedJobs # {} /\ aborting = "no"
        /\ jobFull' = FALSE /\ pc' = "restart"
     \/ /\ nJobs = 0 /\ (stoppedJobs = {} \/ aborting # "no")
        /\ pc' = "finished" /\ UNCHANGED jobFull
  /\ UNCHANGED <<nodes, numNodes, begun, jobs, nJobs, stoppedJobs, errors,
                 aborting, hand, world>>

\* Job_CatchChildren finds n in the table.
Take(n) ==
  /\ pc = "catch" /\ n \in jobs
  /\ jobs' = jobs \ {n} /\ nJobs' = nJobs - 1 /\ jobFull' = FALSE
  /\ UNCHANGED <<numNodes, begun, aborting, hand, file, torn, stops, failed>>

\* JobFinish, the shell having been stopped.
CatchStopped(n) ==
  /\ Take(n) /\ proc[n] = "stopped"
  /\ stoppedJobs' = stoppedJobs \cup {n}
  /\ UNCHANGED <<nodes, errors, proc, pc>>

\* JobFinish, the commands having ended well.  When make is aborting, nobody
\* is told.
CatchOk(n) ==
  /\ Take(n) /\ proc[n] = "ok"
  /\ IF aborting = "no" THEN Make_Update(n, "made", toBeMade)
                        ELSE UNCHANGED nodes
  /\ proc' = [proc EXCEPT ![n] = "none"] /\ pc' = "restart"
  /\ UNCHANGED <<errors, stoppedJobs>>

CatchBad(n) ==
  /\ Take(n) /\ proc[n] = "bad"
  /\ errors' = errors \cup {n}
  /\ proc' = [proc EXCEPT ![n] = "none"] /\ pc' = "restart"
  /\ UNCHANGED <<nodes, stoppedJobs>>

\* "Child not in table?"
CatchStray(n) ==
  /\ pc = "catch" /\ n \notin jobs /\ proc[n] \in {"ok", "bad"}
  /\ proc' = [proc EXCEPT ![n] = "none"]
  /\ UNCHANGED <<nodes, numNodes, begun, table, pc, hand, file, torn, stops, failed>>

Reports(n) == proc[n] \in {"ok", "bad"} \/ (proc[n] = "stopped" /\ n \in jobs)

CatchEnd ==
  /\ pc = "catch" /\ (nJobs = 0 \/ \A n \in Nodes : ~Reports(n))
  /\ pc' = "start"
  /\ UNCHANGED <<nodes, numNodes, begun, table, hand, world>>

\* JobRestartJobs, at the end of JobFinish.  JobRestart continues the shell and
\* calls JobFinish with the status of a shell stopped by SIGCONT; no branch
\* there knows it, and the job ends as an error.
Restart(n) ==
  /\ pc = "restart" /\ ~jobFull /\ n \in stoppedJobs
  /\ stoppedJobs' = stoppedJobs \ {n} /\ errors' = errors \cup {n}
  /\ proc' = [proc EXCEPT ![n] = "running"]
  /\ UNCHANGED <<nodes, numNodes, begun, jobs, nJobs, jobFull, aborting, pc, hand,
                 file, torn, stops, failed>>

\* The end of JobFinish: no more jobs after an error, unless -k was given.
Settle ==
  /\ pc = "restart" /\ (jobFull \/ stoppedJobs = {})
  /\ aborting' = IF errors # {} /\ ~KeepGoing THEN "error" ELSE aborting
  /\ pc' = IF nJobs = 0 /\ aborting' = "error" THEN "aborted" ELSE "catch"
  /\ UNCHANGED <<nodes, numNodes, begun, jobs, nJobs, jobFull, stoppedJobs, errors,
                 hand, world>>
-----------------------------------------------------------------------------
(* The shells and the terminal.                                            *)

make == <<nodes, numNodes, begun, table, pc, hand>>

\* The commands of n write into its target ...
Write(n) ==
  /\ proc[n] = "running" /\ n \notin torn
  /\ \E time \in Now .. Last : file' = [file EXCEPT ![n] = time]
  /\ torn' = torn \cup {n}
  /\ UNCHANGED <<make, proc, stops, failed>>

\* ... and have written all of it, or nothing, or fail on the way.
Succeed(n) ==
  /\ proc[n] = "running" /\ proc' = [proc EXCEPT ![n] = "ok"]
  /\ torn' = torn \ {n}
  /\ UNCHANGED <<make, file, stops, failed>>

Fail(n) ==
  /\ proc[n] = "running" /\ proc' = [proc EXCEPT ![n] = "bad"]
  /\ failed' = failed \cup {n}
  /\ UNCHANGED <<make, file, torn, stops>>

\* ^Z, and then fg: JobPassSig stops the jobs in the table and make itself.
\* Only make is continued.
Suspend ==
  /\ pc \notin Ended /\ stops < MaxStops /\ stops' = stops + 1
  /\ proc' = [n \in Nodes |->
       IF n \in jobs /\ proc[n] = "running" THEN "stopped" ELSE proc[n]]
  /\ UNCHANGED <<make, file, torn, failed>>

\* Mutant: the jobs are killed, and their targets left.
InterruptKills ==
  /\ pc \notin Ended /\ pc' = "interrupted" /\ aborting' = "interrupt"
  /\ proc' = Killed(jobs)
  /\ UNCHANGED <<nodes, numNodes, begun, jobs, nJobs, jobFull, stoppedJobs, errors,
                 hand, file, torn, stops, failed>>

\* ^C: JobPassSig and JobInterrupt kill the jobs in the table and remove their
\* targets.
Interrupt ==
  /\ pc \notin Ended /\ pc' = "interrupted" /\ aborting' = "interrupt"
  /\ file' = [n \in Nodes |-> IF n \in jobs \ Precious THEN 0 ELSE file[n]]
  /\ torn' = torn \ (jobs \ Precious)
  /\ proc' = Killed(jobs)
  /\ UNCHANGED <<nodes, numNodes, begun, jobs, nJobs, jobFull, stoppedJobs, errors,
                 hand, stops, failed>>

Program ==
  \/ \E n \in Nodes :
       \/ Drop(n) \/ UpToDate(n) \/ NoExec(n) \/ DontKnow(n) \/ Fork(n)
       \/ CatchStopped(n) \/ CatchOk(n) \/ CatchBad(n) \/ CatchStray(n)
       \/ Restart(n)
  \/ Enter \/ StartEnd \/ Job_Empty \/ CatchEnd \/ Settle

Shell(n) == Write(n) \/ Succeed(n) \/ Fail(n)

\* A make that has ended.
Rest == pc \in Ended /\ UNCHANGED vars

Next == Program \/ (\E n \in Nodes : Shell(n)) \/ Suspend \/ Interrupt \/ Rest

Spec == Init /\ [][Next]_vars

\* make goes on, and the commands of a job that is not stopped come to an end.
FairSpec ==
  /\ Spec /\ WF_vars(Program)
  /\ \A n \in Nodes : WF_vars(Succeed(n) \/ Fail(n))
-----------------------------------------------------------------------------
TypeOK ==
  /\ made \in [Nodes -> {"unmade", "made", "uptodate"}]
  /\ unmade \in [Nodes -> Int] /\ cmtime \in [Nodes -> Times]
  /\ force \subseteq Nodes /\ toBeMade \in [Nodes -> Nat] /\ numNodes \in Int
  /\ jobs \subseteq Nodes /\ nJobs \in Int /\ jobFull \in BOOLEAN
  /\ stoppedJobs \subseteq Nodes /\ errors \subseteq Nodes
  /\ aborting \in {"no", "error", "interrupt"}
  /\ pc \in {"start", "exec", "test", "catch", "restart"} \cup Ended
  /\ hand \subseteq Nodes
  /\ file \in [Nodes -> Times] /\ torn \subseteq Nodes
  /\ proc \in [Nodes -> {"none", "running", "stopped", "ok", "bad"}]
  /\ stops \in 0 .. MaxStops
  /\ begun \subseteq Nodes /\ updated \subseteq Nodes /\ failed \subseteq Nodes

\* No target is looked at twice, although parents, successors and the first
\* pass over the graph all put nodes on one list and only the successors look
\* whether they are on it: what is on the list is there once, and not begun.
ExaminedOnce ==
  \A n \in Nodes : toBeMade[n] + (IF n \in begun THEN 1 ELSE 0) <= 1

\* No wake-up is lost: a node whose sources are done is on the list, or was let
\* through, or a predecessor is still to come that will put it back.  (DontKnow
\* takes a node off the list for good, and ends make.)
DroppedComesBack ==
  pc # "died" => \A n \in Nodes \ begun : unmade[n] = 0 /\ toBeMade[n] = 0 =>
    \E p \in Preds[n] : p \notin updated

\* jobFull is enough to keep to -j: whenever MakeStartJobs may start a job, or
\* JobRestartJobs continue one, there is a slot, so that the branches of JobStart
\* and JobRestart that hold a job back are never taken.
SlotFree == pc \in {"start", "restart"} /\ ~jobFull => nJobs < MaxJobs

\* make never runs more shells at once than -j allows.
LimitKept == Cardinality({n \in Nodes : proc[n] = "running"}) <= MaxJobs

\* When make ends by itself, whatever it has not dealt with failed, or waits for
\* something it has not dealt with: -k leaves out no more than it must.
LeftForAReason ==
  pc = "finished" => \A n \in Nodes \ updated :
    n \in errors \/ \E c \in Sources[n] \cup Preds[n] : c \notin updated

\* A target make takes to be up to date is: it exists, and so does everything it
\* is made from, which is no younger and stays so whatever else make does.
FreshIfPassed ==
  \A n \in Nodes : \A c \in Sources[n] :
    made[n] = "uptodate" => file[n] # 0 /\ file[c] # 0 /\ file[c] <= file[n]

\* A shell makes its target while nobody else makes anything it is made from.
SourcesQuiet ==
  \A n \in Nodes : proc[n] = "running" => \A c \in Sources[n] : proc[c] = "none"

\* When make has ended, what is written in part is known: the commands failed, or
\* are suspended and were not waited for (Job_Empty, job.c 2569); after ^C it is
\* precious, or of a shell that was not in the table yet (job.c 1356, 2821); and
\* where make died, of a job in the table, which Job_AbortAll kills without removing
\* what it has written (job.c 3039).
PartialKnown ==
  /\ pc \in {"finished", "aborted"} => torn \subseteq errors \cup stoppedJobs
  /\ pc = "died" => torn \subseteq errors \cup stoppedJobs \cup jobs
  /\ pc = "interrupted" =>
       torn \subseteq errors \cup stoppedJobs \cup hand \cup Precious

\* make ends: nothing waits for what will never come.
Ends == <>(pc \in Ended)

-----------------------------------------------------------------------------
(* Refinement.                                                             *)

Status(n) ==
  CASE n \notin begun -> "waiting"
    [] n \in updated -> "done"
    [] n \in (jobs \cup hand) \ updated -> "making"
    [] n \in stoppedJobs \ (jobs \cup hand \cup updated) -> "held"
    [] OTHER -> "left"

Graph == INSTANCE MakeGraph WITH
  status <- [n \in Nodes |-> Status(n)], over <- pc \in Ended, Limit <- MaxJobs

\* The job table and the fringe implement what make promises of the graph.
GraphSpec == Graph!Spec
=============================================================================
