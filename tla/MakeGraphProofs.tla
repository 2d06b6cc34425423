-------------------------- MODULE MakeGraphProofs --------------------------
(***************************************************************************)
(* What follows from MakeGraph's steps for any graph and any limit, and so   *)
(* holds of everything shown to implement it.                               *)
(***************************************************************************)
EXTENDS MakeGraph, TLAPS

\* What one step does to the node it is about.
LEMMA StepsOf ==
  ASSUME TypeOK, NEW n \in Nodes, NEW st \in Status, Becomes(n, st)
  PROVE  TypeOK' /\ status'[n] = st /\ \A k \in Nodes \ {n} : status'[k] = status[k]
BY DEF TypeOK, Becomes

\* The statuses keep to their values.
THEOREM TypeCorrect == Spec => []TypeOK
<1>1. Init => TypeOK
  BY DEF Init, TypeOK, Status
<1>2. TypeOK /\ [Next]_vars => TypeOK'
  <2> SUFFICES ASSUME TypeOK, [Next]_vars PROVE TypeOK'
    OBVIOUS
  <2>1. ASSUME NEW n \in Nodes, NEW st \in Status, Becomes(n, st) PROVE TypeOK'
    BY <2>1, StepsOf
  <2>2. CASE End \/ UNCHANGED vars
    BY <2>2 DEF End, vars, TypeOK
  <2> QED BY <2>1, <2>2 DEF Next, Pass, Begin, Finish, Hold, Leave, Status
<1> QED BY <1>1, <1>2, PTL DEF Spec

\* Whoever implements this specification never makes a target from a source that
\* is not done, nor before what .ORDER puts first.
THEOREM DependentsComeAfter ==
  ASSUME IsGraph PROVE Spec => []DependentsAfter
<1> USE DEF IsGraph
<1>1. Init => DependentsAfter
  BY DEF Init, DependentsAfter
<1>2. TypeOK /\ DependentsAfter /\ [Next]_vars => DependentsAfter'
  <2> SUFFICES ASSUME TypeOK, DependentsAfter, [Next]_vars PROVE DependentsAfter'
    OBVIOUS
  <2> USE DEF DependentsAfter
  <2>1. ASSUME NEW n \in Nodes, NEW st \in Status, Becomes(n, st), status[n] # "done",
               status[n] = "waiting" => Ready(n)
        PROVE  DependentsAfter'
    <3>1. status'[n] = st /\ \A k \in Nodes \ {n} : status'[k] = status[k]
      BY <2>1, StepsOf
    <3>2. \A c \in Nodes : status[c] = "done" => status'[c] = "done"
      BY <2>1, <3>1
    <3>3. ASSUME NEW k \in Nodes, status'[k] # "waiting", NEW c \in Sources[k] \cup Preds[k]
          PROVE  status[c] = "done"
      <4>1. CASE k = n
        BY <2>1, <4>1 DEF Ready
      <4>2. CASE k # n
        BY <3>1, <3>3, <4>2
      <4> QED BY <4>1, <4>2
    <3> QED BY <3>2, <3>3
  <2>2. ASSUME NEW n \in Nodes, Pass(n) \/ Begin(n) PROVE DependentsAfter'
    BY <2>1, <2>2 DEF Pass, Begin, Ready, Status
  <2>3. ASSUME NEW n \in Nodes, Finish(n) \/ Hold(n) \/ Leave(n)
        PROVE  DependentsAfter'
    BY <2>1, <2>3 DEF Finish, Hold, Leave, Status
  <2>4. CASE End \/ UNCHANGED vars
    BY <2>4 DEF End, vars
  <2> QED BY <2>2, <2>3, <2>4 DEF Next
<1> QED BY <1>1, <1>2, TypeCorrect, PTL DEF Spec
=============================================================================
