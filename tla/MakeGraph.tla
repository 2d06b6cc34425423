----------------------------- MODULE MakeGraph -----------------------------
(***************************************************************************)
(* What make promises of a graph of targets, however it goes about it:      *)
(* a target is dealt with once, after everything it depends on and          *)
(* everything .ORDER puts before it; none is begun while Limit are being    *)
(* made; and once a target could not be made, nothing more is begun         *)
(* (without -k), or at least nothing that depends on it (with -k).  One     *)
(* whose job is suspended is held and does not count.  It is never in the   *)
(* making again: a job that is continued is given up by make, though its    *)
(* shell runs (job.c, JobRestart), and so the limit is on what make begins. *)
(* BMakeJobs (make -j) and BMakeCompat (make) are shown to implement it.     *)
(***************************************************************************)
EXTENDS Integers, FiniteSets

CONSTANTS
  Nodes,      \* the targets and sources of the graph
  Sources,    \* Sources[n]: what n is made from
  Preds,      \* Preds[n]: what .ORDER puts before n
  Limit,      \* how many may be in the making at once
  KeepGoing   \* the -k flag

\* What a graph is, for the theorems; what implements this assumes as much.
IsGraph == Sources \in [Nodes -> SUBSET Nodes] /\ Preds \in [Nodes -> SUBSET Nodes]

VARIABLES
  status,  \* status[n]: waiting, making, held (suspended), done, or left unmade
  over     \* make has ended, or been ended

vars == <<status, over>>

Status == {"waiting", "making", "held", "done", "left"}

TypeOK == status \in [Nodes -> Status] /\ over \in BOOLEAN

Init == status = [n \in Nodes |-> "waiting"] /\ over = FALSE

Having(st) == {n \in Nodes : status[n] = st}

Going == ~over /\ (KeepGoing \/ Having("left") = {})

Ready(n) ==
  /\ status[n] = "waiting"
  /\ \A c \in Sources[n] \cup Preds[n] : status[c] = "done"

Becomes(n, st) == status' = [status EXCEPT ![n] = st] /\ UNCHANGED over

\* Nothing needs doing for n: it is up to date, or has no commands.
Pass(n) == Going /\ Ready(n) /\ Becomes(n, "done")

Begin(n) ==
  /\ Going /\ Ready(n) /\ Cardinality(Having("making")) < Limit
  /\ Becomes(n, "making")

Finish(n) == ~over /\ status[n] = "making" /\ Becomes(n, "done")

Hold(n) == ~over /\ status[n] = "making" /\ Becomes(n, "held")

Leave(n) == ~over /\ status[n] \in {"making", "held"} /\ Becomes(n, "left")

End == ~over /\ over' = TRUE /\ UNCHANGED status

Next ==
  \/ \E n \in Nodes : \/ Pass(n) \/ Begin(n) \/ Finish(n)
                      \/ Hold(n) \/ Leave(n)
  \/ End

Spec == Init /\ [][Next]_vars
-----------------------------------------------------------------------------
\* Whatever has been begun or passed had all it depends on done by then, and
\* what is done stays done: no target is ever made from an unmade source.
DependentsAfter ==
  \A n \in Nodes : status[n] # "waiting" =>
    \A c \in Sources[n] \cup Preds[n] : status[c] = "done"
=============================================================================
