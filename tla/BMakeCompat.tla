---------------------------- MODULE BMakeCompat ----------------------------
(***************************************************************************)
(* bmake without -j: compat.c walks down the graph from each goal and makes *)
(* one target at a time, in the order the sources come in.                  *)
(*                                                                         *)
(* The nested calls of CompatMake are kept as pointers: top is the node of   *)
(* the innermost call, from[n] the parent n's call was for, and todo[n] what *)
(* is left of n's children, whose order is left open.  A step is one call    *)
(* that returns at once, the start of one that does not, or the end of one.  *)
(*                                                                         *)
(* Nodes holds the nodes Make_ExpandUse has reached and marked REMAKE, with *)
(* .USE nodes and suffix rules already expanded.  Left out are              *)
(* libraries, .JOIN, .EXEC and .MADE nodes, `::' cohorts, .BEGIN, .END,      *)
(* .INTERRUPT, and the flags -n, -q and -t.  The commands of a node are one  *)
(* shell; errors that are ignored (-i, .IGNORE, `-') are no errors here.     *)
(***************************************************************************)
EXTENDS Integers, FiniteSets

CONSTANTS
  Nodes, Sources,    \* the graph
  Targs,             \* the goals
  Commands,          \* the nodes that have commands
  Forced,            \* .PHONY nodes and the targets of `!'
  Plain,             \* files that are no target of any rule
  Precious,          \* nodes an interrupt does not remove
  KeepGoing,         \* the -k flag
  Now,               \* the time make is started
  Last               \* bound: the latest time of a file

ASSUME GraphAssumption ==
  IsFiniteSet(Nodes) /\ Sources \in [Nodes -> SUBSET Nodes] /\ Targs \subseteq Nodes
ASSUME KindsAssumption ==
  /\ Commands \subseteq Nodes /\ Forced \subseteq Nodes /\ Precious \subseteq Nodes
  /\ Plain \subseteq {n \in Nodes : Sources[n] = {}} \ (Commands \cup Forced)
ASSUME FlagsAssumption ==
  KeepGoing \in BOOLEAN /\ Now \in Nat \ {0} /\ Last \in Nat /\ Now <= Last

VARIABLES
  \* the nodes (GNode)
  made,            \* what CompatMake leaves in them
  remake,          \* the nodes flagged REMAKE: no source of theirs had an error
  force, cmtime,   \* flagged FORCE; the time of the youngest source
  \* the calls of CompatMake
  from, todo, top,
  \* Compat_Run
  targs,           \* the goals still to come
  curTarg,         \* the node whose commands are run
  pc,
  \* the world
  file, torn, proc

nodes == <<made, remake, force, cmtime>>
calls == <<from, todo, top, targs>>
world == <<file, torn, proc>>
vars == <<nodes, calls, curTarg, pc, world>>

Times == 0 .. Last  \* 0 for a file that does not exist
Ended == {"finished", "stopped", "died", "interrupted"}

Init ==
  /\ made = [n \in Nodes |-> "unmade"] /\ remake = Nodes /\ force = {}
  /\ cmtime = [n \in Nodes |-> 0]
  /\ from = [n \in Nodes |-> n] /\ todo = [n \in Nodes |-> {}] /\ top = {}
  /\ targs = Targs /\ curTarg = {} /\ pc = "next"
  /\ file \in [Nodes -> Times] /\ torn = {} /\ proc = "none"
-----------------------------------------------------------------------------
(* make.c                                                                  *)

\* Mutant: a source that is newer forces nothing unless it was made.
OODateMade(n) == n \in Forced \/ file[n] = 0 \/ cmtime[n] = Now

OODate(n) ==
  \/ n \in Forced
  \/ file[n] < cmtime[n]
  \/ cmtime[n] = 0 /\ file[n] = 0
  \/ n \in force

\* Mutant: what is not there is newer than any file.
RecheckLater(n) == IF file[n] = 0 THEN Last + 1 ELSE file[n]

\* The time Make_Recheck leaves in a node that was made.
Recheck(n) == IF file[n] = 0 THEN Now ELSE file[n]

\* cmtime after Make_TimeStamp has shown ps a child of that time.
Make_TimeStamp(ps, time) ==
  [p \in Nodes |-> IF p \in ps /\ time > cmtime[p] THEN time ELSE cmtime[p]]
-----------------------------------------------------------------------------
(* CompatMake: a call that finds the node already dealt with.              *)

\* Mutant: the parent of a cycle is not told.
KnownCycle(c, p) ==
  /\ made' = [made EXCEPT ![c] = IF @ = "beingmade" THEN "error" ELSE @]
  /\ remake' = IF made[c] = "error" THEN remake \ {p} ELSE remake
  /\ cmtime' = CASE made[c] = "made"     -> Make_TimeStamp({p}, Recheck(c))
                 [] made[c] = "uptodate" -> Make_TimeStamp({p}, file[c])
                 [] OTHER                -> cmtime
  /\ UNCHANGED force

\* Mutant: every child that has not been made is one too many.
KnownUnlessMade(c, p) ==
  /\ made' = [made EXCEPT ![c] = IF @ = "beingmade" THEN "error" ELSE @]
  /\ remake' = IF made[c] # "made" THEN remake \ {p} ELSE remake
  /\ cmtime' = CASE made[c] = "made"     -> Make_TimeStamp({p}, Recheck(c))
                 [] made[c] = "uptodate" -> Make_TimeStamp({p}, file[c])
                 [] OTHER                -> cmtime
  /\ UNCHANGED force

\* CompatMake(c, p) when c is not unmade.  A c that is being made is made for
\* the sake of p: the graph has a cycle.  For one that was aborted nothing is
\* done, and p goes on.
Known(c, p) ==
  /\ made' = [made EXCEPT ![c] = IF @ = "beingmade" THEN "error" ELSE @]
  /\ remake' = IF made[c] \in {"error", "beingmade"} THEN remake \ {p} ELSE remake
  /\ cmtime' = CASE made[c] = "made"     -> Make_TimeStamp({p}, Recheck(c))
                 [] made[c] = "uptodate" -> Make_TimeStamp({p}, file[c])
                 [] OTHER                -> cmtime
  /\ UNCHANGED force

\* CompatMake(c, p) when c is unmade: its children come first.
Descend(c, p, rest) ==
  /\ made' = [made EXCEPT ![c] = "beingmade"] /\ remake' = remake \cup {c}
  /\ from' = [from EXCEPT ![c] = p] /\ todo' = [rest EXCEPT ![c] = Sources[c]]
  /\ top' = {c} /\ pc' = "child"
  /\ UNCHANGED <<force, cmtime>>

\* Compat_Run takes the next goal and calls CompatMake(g, g).
Goal(g) ==
  /\ pc = "next" /\ g \in targs /\ targs' = targs \ {g}
  /\ \/ made[g] = "unmade" /\ Descend(g, g, todo)
     \/ made[g] # "unmade" /\ Known(g, g) /\ UNCHANGED <<from, todo, top, pc>>
  /\ UNCHANGED <<curTarg, world>>

\* Mutant: a node that is being made is descended into again.
ChildAgain(n, c) ==
  /\ pc = "child" /\ top = {n} /\ c \in todo[n]
  /\ \/ /\ made[c] \in {"unmade", "beingmade"}
        /\ Descend(c, n, [todo EXCEPT ![n] = @ \ {c}])
     \/ /\ made[c] \notin {"unmade", "beingmade"} /\ Known(c, n)
        /\ todo' = [todo EXCEPT ![n] = @ \ {c}] /\ UNCHANGED <<from, top, pc>>
  /\ UNCHANGED <<targs, curTarg, world>>

\* The loop of CompatMake(n, ...) over its children.
Child(n, c) ==
  /\ pc = "child" /\ top = {n} /\ c \in todo[n]
  /\ \/ made[c] = "unmade" /\ Descend(c, n, [todo EXCEPT ![n] = @ \ {c}])
     \/ /\ made[c] # "unmade" /\ Known(c, n)
        /\ todo' = [todo EXCEPT ![n] = @ \ {c}] /\ UNCHANGED <<from, top, pc>>
  /\ UNCHANGED <<targs, curTarg, world>>
-----------------------------------------------------------------------------
(* CompatMake: the children of n have been dealt with.                     *)

\* CompatMake returns to the call for the parent, or to Compat_Run.
Return(n) ==
  /\ top' = IF from[n] = n THEN {} ELSE {from[n]}
  /\ pc' = IF from[n] = n THEN "next" ELSE "child"
  /\ UNCHANGED <<from, todo, targs>>

Examined(n) == pc = "child" /\ top = {n} /\ todo[n] = {}

\* Mutant: the first error ends the loop over the children.
AbortedAtOnce(n) == pc = "child" /\ top = {n} /\ n \notin remake

\* A child had an error: so has its parent now.
Aborted(n) == Examined(n) /\ n \notin remake

Abort(n) ==
  /\ Aborted(n)
  /\ made' = [made EXCEPT ![n] = "aborted"] /\ remake' = remake \ {from[n]}
  /\ Return(n) /\ UNCHANGED <<force, cmtime, curTarg, world>>

UpToDate(n) ==
  /\ Examined(n) /\ n \in remake /\ ~OODate(n)
  /\ made' = [made EXCEPT ![n] = "uptodate"]
  /\ cmtime' = Make_TimeStamp({p \in Nodes : n \in Sources[p]}, file[n])
  /\ Return(n) /\ UNCHANGED <<remake, force, curTarg, world>>

\* Mutant: the parent is not forced.
MadeUnforced(n) ==
  /\ made' = [made EXCEPT ![n] = "made"]
  /\ cmtime' = Make_TimeStamp({from[n]}, Recheck(n))
  /\ Return(n) /\ UNCHANGED <<remake, force>>

\* n is made: the parent is forced if there is no file even so.
Made(n) ==
  /\ made' = [made EXCEPT ![n] = "made"]
  /\ force' = IF file[n] = 0 THEN force \cup {from[n]} ELSE force
  /\ cmtime' = Make_TimeStamp({from[n]}, Recheck(n))
  /\ Return(n) /\ UNCHANGED remake

\* Out of date, without commands.
NoExec(n) ==
  /\ Examined(n) /\ n \in remake /\ OODate(n) /\ n \notin Commands \cup Plain
  /\ Made(n) /\ UNCHANGED <<curTarg, world>>

\* Job_CheckCommands: nobody knows how to make n.  Without -k it is fatal.
DontKnow(n) ==
  /\ Examined(n) /\ n \in remake /\ OODate(n) /\ n \in Plain
  /\ IF KeepGoing
     THEN /\ made' = [made EXCEPT ![n] = "error"] /\ remake' = remake \ {from[n]}
          /\ Return(n)
     ELSE pc' = "died" /\ UNCHANGED <<made, remake, calls>>
  /\ UNCHANGED <<force, cmtime, curTarg, world>>

\* Mutant: the target being made is not noted for CompatInterrupt.
ExecuteUnnoted(n) ==
  /\ Examined(n) /\ n \in remake /\ OODate(n) /\ n \in Commands
  /\ proc' = "running" /\ pc' = "run"
  /\ UNCHANGED <<nodes, calls, curTarg, file, torn>>

\* The commands are executed.
Execute(n) ==
  /\ Examined(n) /\ n \in remake /\ OODate(n) /\ n \in Commands
  /\ curTarg' = {n} /\ proc' = "running" /\ pc' = "run"
  /\ UNCHANGED <<nodes, calls, file, torn>>

CommandsOk(n) ==
  /\ pc = "run" /\ top = {n} /\ proc = "ok"
  /\ Made(n) /\ curTarg' = {} /\ proc' = "none"
  /\ UNCHANGED <<file, torn>>

\* CompatRunCommand leaves the error in the node ...
CommandsBad(n) ==
  /\ pc = "run" /\ top = {n} /\ proc = "bad"
  /\ made' = [made EXCEPT ![n] = "error"] /\ pc' = "error" /\ proc' = "none"
  /\ UNCHANGED <<remake, force, cmtime, calls, curTarg, file, torn>>

\* Mutant: -k taken for granted.
StopNever(n) ==
  /\ pc = "error" /\ top = {n} /\ curTarg' = {}
  /\ remake' = remake \ {from[n]} /\ Return(n)
  /\ UNCHANGED <<made, force, cmtime, world>>

\* ... and CompatMake tells the parent of it, or exits.
Stop(n) ==
  /\ pc = "error" /\ top = {n} /\ curTarg' = {}
  /\ \/ KeepGoing /\ remake' = remake \ {from[n]} /\ Return(n)
     \/ ~KeepGoing /\ pc' = "stopped" /\ UNCHANGED <<remake, calls>>
  /\ UNCHANGED <<made, force, cmtime, world>>

Finish ==
  /\ pc = "next" /\ targs = {} /\ pc' = "finished"
  /\ UNCHANGED <<nodes, calls, curTarg, world>>
-----------------------------------------------------------------------------
(* The commands and the terminal.                                          *)

make == <<nodes, calls, curTarg, pc>>

Write ==
  /\ proc = "running" /\ torn # top
  /\ \E time \in Now .. Last :
       file' = [n \in Nodes |-> IF n \in top THEN time ELSE file[n]]
  /\ torn' = torn \cup top
  /\ UNCHANGED <<make, proc>>

Succeed == proc = "running" /\ proc' = "ok" /\ torn' = torn \ top /\ UNCHANGED <<make, file>>

Fail == proc = "running" /\ proc' = "bad" /\ UNCHANGED <<make, file, torn>>

\* ^C reaches make and the command.  CompatInterrupt removes the target.
Interrupt ==
  /\ pc \notin Ended /\ pc' = "interrupted" /\ proc' = "none"
  /\ file' = [n \in Nodes |-> IF n \in curTarg \ Precious THEN 0 ELSE file[n]]
  /\ torn' = torn \ (curTarg \ Precious)
  /\ UNCHANGED <<nodes, calls, curTarg>>

Program ==
  \/ \E n \in Nodes :
       \/ Goal(n) \/ \E c \in Nodes : Child(n, c)
       \/ Abort(n) \/ UpToDate(n) \/ NoExec(n) \/ DontKnow(n) \/ Execute(n)
       \/ CommandsOk(n) \/ CommandsBad(n) \/ Stop(n)
  \/ Finish

Shell == Write \/ Succeed \/ Fail

Rest == pc \in Ended /\ UNCHANGED vars

Next == Program \/ Shell \/ Interrupt \/ Rest

Spec == Init /\ [][Next]_vars

\* make goes on, and commands come to an end.
FairSpec == Spec /\ WF_vars(Program) /\ WF_vars(Succeed \/ Fail)
-----------------------------------------------------------------------------
MadeValues == {"unmade", "beingmade", "made", "uptodate", "error", "aborted"}

TypeOK ==
  /\ made \in [Nodes -> MadeValues] /\ remake \subseteq Nodes /\ force \subseteq Nodes
  /\ cmtime \in [Nodes -> Times]
  /\ from \in [Nodes -> Nodes] /\ todo \in [Nodes -> SUBSET Nodes] /\ top \subseteq Nodes
  /\ targs \subseteq Nodes /\ curTarg \subseteq Nodes
  /\ pc \in {"next", "child", "run", "error"} \cup Ended
  /\ file \in [Nodes -> Times] /\ torn \subseteq Nodes
  /\ proc \in {"none", "running", "ok", "bad"}

\* c was made, and is not there, for another parent, which was flagged FORCE for
\* it; n has been told the time make was started at, and is no older.
Unforced(n, c) == made[c] = "made" /\ from[c] # n /\ Now <= file[n]

\* Without -k, and when the graph has no cycles, a target make takes to be up to
\* date is: it exists, and everything it is made from is no younger, and stays so.
\* That a source does not exist goes unnoticed only where the code flags the wrong
\* parent for it (compat.c 479, 512) and the target is as new as make itself.
FreshIfPassed ==
  ~KeepGoing => \A n \in Nodes : \A c \in Sources[n] : made[n] = "uptodate" =>
    /\ file[n] # 0 /\ file[c] <= file[n]
    /\ file[c] = 0 => Unforced(n, c)

\* ^C leaves no target half made, but for precious ones and those whose commands
\* had failed before.
PartialRemoved ==
  pc = "interrupted" => torn \subseteq Precious \cup {n \in Nodes : made[n] = "error"}

\* Nothing is given up without a reason: an aborted target has a source that is
\* in error or aborted itself, also in a graph with cycles.
AbortedForAReason ==
  \A n \in Nodes : made[n] = "aborted" =>
    \E c \in Sources[n] : made[c] \in {"error", "aborted"}

\* When make ends by itself, every goal and every source of what it looked at
\* has been dealt with: -k tries all there is, and nobody is left being made.
AllTried ==
  pc = "finished" => \A n \in Nodes :
    /\ made[n] # "beingmade"
    /\ n \in Targs => made[n] # "unmade"
    /\ made[n] # "unmade" => \A c \in Sources[n] : made[c] # "unmade"

\* Of two targets that are made from each other neither is made.
MutualNotMade ==
  \A n \in Nodes : \A c \in Sources[n] :
    n \in Sources[c] => made[n] \notin {"made", "uptodate"}

\* make ends, whatever cycles the graph has.
Ends == <>(pc \in Ended)

\* make.1: -k goes on with those targets only that do not depend on the target
\* that caused the error.
DependentsSkipped ==
  \A n \in Nodes : made[n] = "made" \/ curTarg = {n} =>
    \A c \in Sources[n] : made[c] \notin {"error", "aborted"}
-----------------------------------------------------------------------------
(* Refinement.                                                             *)

Status(n) ==
  CASE made[n] \in {"made", "uptodate"} -> "done"
    [] made[n] \in {"error", "aborted"} -> "left"
    [] made[n] = "beingmade" /\ n \in curTarg -> "making"
    [] OTHER -> "waiting"

Graph == INSTANCE MakeGraph WITH
  status <- [n \in Nodes |-> Status(n)], over <- pc \in Ended, Limit <- 1,
  Preds <- [n \in Nodes |-> {}]

\* Making target by target implements, without -k, what make promises.
GraphSpec == Graph!Spec
=============================================================================
