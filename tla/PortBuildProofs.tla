--------------------------- MODULE PortBuildProofs ---------------------------
(***************************************************************************)
(* Theorems about PortBuild, for any number of patch files and any flags.   *)
(* Base is the part of the inductive invariant that every build keeps;      *)
(* Sound is the part that needs a make without -k.                          *)
(***************************************************************************)
EXTENDS PortBuild, TLAPS

USE DEF Extract, Patch, Configure, Build, Install, Package, Release, InstPkg

Base == TypeOK /\ Shape /\ Undone /\ Claimed /\ Patching

\* The numbers of the stages and their subsets, as the provers want them.
LEMMA StageFacts ==
  /\ Stages = 1 .. 8 /\ InWrkdir = 1 .. 6 /\ Phony \subseteq {4}
BY DEF Stages, InWrkdir, Phony

LEMMA EntryFacts ==
  ASSUME NEW s \in Stages
  PROVE  /\ Entry(s) \in {"checksum", "claim", "skip", "do"}
         /\ Entry(s) = "checksum" => s = Extract
         /\ Entry(s) = "claim" => s = InstPkg
         /\ Entry(s) = "skip" => s \in Phony
         /\ Entry(s) = "do" => s \in Stages \ (Phony \cup {Extract, InstPkg})
BY StageFacts DEF Entry

\* How a nest of makes for g starts (port.mk 541-564)
Descended(g) ==
  /\ goal' = g /\ at' \in 1 .. g /\ next' = next /\ pc' = Entry(at')
  /\ \A t \in at' .. g : t \in cookies => t \in Phony
  /\ at' = Extract \/ (at' - 1 \in cookies /\ at' - 1 \notin Phony)

LEMMA DescendFacts ==
  ASSUME NEW g \in Stages, Descend(g)
  PROVE  Descended(g)
BY StageFacts DEF Descend, Descended, StartsAt

\* Wherever a session stops, nothing of it is left but what is on the disk.
LEMMA StopFacts ==
  ASSUME Stop
  PROVE  /\ Shape' /\ Undone' /\ Claimed' /\ Patching'
         /\ goal' = 0 /\ at' = 0 /\ pc' = "idle" /\ force' = FALSE /\ next' = 1
BY StageFacts DEF Stop, Shape, Undone, Claimed, Patching

\* A session that goes on keeps its goal and its place.
LEMMA SubmakeFacts ==
  ASSUME NEW then, SubmakeFails(then)
  PROVE  Stop \/ (pc' = then /\ UNCHANGED <<goal, at, force, next>>)
BY DEF SubmakeFails

\* The types of the session's variables.
SessionType ==
  /\ goal \in 0 .. InstPkg /\ at \in 0 .. goal /\ force \in BOOLEAN
  /\ pc \in Steps /\ next \in 1 .. NPatches + 1
DiskType ==
  /\ cookies \subseteq Stages /\ dirty \in BOOLEAN
  /\ made \in [Stages -> Condition] /\ applied \in [PatchFiles -> 0 .. 1]

LEMMA InitType == Init => TypeOK
<1> SUFFICES ASSUME Init PROVE TypeOK
  OBVIOUS
<1>1. made \in [Stages -> Condition] /\ applied \in [PatchFiles -> 0 .. 1]
  BY DEF Init, Condition
<1>2. cookies \subseteq Stages /\ dirty \in BOOLEAN /\ force \in BOOLEAN
  BY DEF Init
<1>3. goal \in 0 .. InstPkg /\ at \in 0 .. goal
  BY DEF Init
<1>4. pc \in Steps /\ next \in 1 .. NPatches + 1
  BY NPatchesAssumption DEF Init, Steps
<1> QED
  BY <1>1, <1>2, <1>3, <1>4 DEF TypeOK

LEMMA DiskTypeStep == TypeOK /\ Shape /\ [Next]_vars => DiskType'
<1> SUFFICES ASSUME TypeOK, Shape, [Next]_vars PROVE DiskType'
  OBVIOUS
<1> USE DEF TypeOK, DiskType
<1>1. CASE UNCHANGED disk
  BY <1>1 DEF disk
<1>2. CASE WipeBegin
  <2>1. made' \in [Stages -> Condition]
    BY <1>2 DEF WipeBegin, Condition
  <2> QED
    BY <1>2, <2>1 DEF WipeBegin
<1>3. CASE WipeEnd
  <2>1. made' \in [Stages -> Condition]
    BY <1>3 DEF WipeEnd, Condition
  <2>2. applied' \in [PatchFiles -> 0 .. 1]
    BY <1>3 DEF WipeEnd
  <2> QED
    BY <1>3, <2>1, <2>2 DEF WipeEnd
<1>4. CASE Unmark
  BY <1>4 DEF Unmark
<1>5. CASE Unstage
  BY <1>5 DEF Unstage, Outdated, Condition
<1>6. CASE Claim
  BY <1>6 DEF Claim, Condition
<1>7. CASE PkgRm
  BY <1>7 DEF PkgRm, Condition
<1>8. CASE Skip
  BY <1>8, StageFacts DEF Skip, Shape
<1>9. CASE DoBegin
  BY <1>9 DEF DoBegin, Outdated, Condition
<1>10. CASE ApplyPatch
  BY <1>10 DEF ApplyPatch
<1>11. CASE RunEnd
  BY <1>11, StageFacts DEF RunEnd, Result, Complete, Condition
<1>12. CASE Touch
  BY <1>12 DEF Touch, Shape
<1>13. CASE Interrupt
  BY <1>13 DEF Interrupt
<1>14. CASE UserPkgRm
  BY <1>14 DEF UserPkgRm, Condition
<1> QED
  BY <1>1, <1>2, <1>3, <1>4, <1>5, <1>6, <1>7, <1>8, <1>9, <1>10, <1>11, <1>12, <1>13, <1>14
  DEF Next, Operator, Work, Make, Clean, Reinstall, CheckSum, Depends, DoFails,
      NoRelease, RunFails, Advance, Crash, vars, disk

LEMMA SessionTypeStep == TypeOK /\ Shape /\ [Next]_vars => SessionType'
<1> SUFFICES ASSUME TypeOK, Shape, [Next]_vars PROVE SessionType'
  OBVIOUS
<1>1. CASE UNCHANGED session
  BY <1>1 DEF session, TypeOK, SessionType
<1>2. CASE Stop
  <2>1. goal' \in 0 .. InstPkg /\ at' \in 0 .. goal'
    BY <1>2 DEF Stop
  <2>2. pc' \in Steps /\ next' \in 1 .. NPatches + 1
    BY <1>2, NPatchesAssumption DEF Stop, Steps
  <2> QED
    BY <1>2, <2>1, <2>2 DEF Stop, SessionType
<1>3. ASSUME NEW g \in Stages, Descend(g), force' \in BOOLEAN PROVE SessionType'
  <2>1. Descended(g)
    BY <1>3, DescendFacts
  <2>2. at' \in Stages
    BY <2>1, StageFacts DEF Descended
  <2>3. pc' \in Steps
    BY <2>1, <2>2, EntryFacts DEF Descended, Steps
  <2>4. goal' \in 0 .. InstPkg /\ at' \in 0 .. goal'
    BY <1>3, <2>1, StageFacts DEF Descended
  <2>5. next' \in 1 .. NPatches + 1
    BY <2>1 DEF Descended, TypeOK
  <2> QED
    BY <1>3, <2>3, <2>4, <2>5 DEF SessionType
<1>4. CASE pc' \in Steps /\ UNCHANGED <<goal, at, force, next>>
  BY <1>4 DEF SessionType, TypeOK
<1>5. CASE ApplyPatch
  BY <1>5, NPatchesAssumption DEF ApplyPatch, SessionType, TypeOK, PatchFiles
<1>6. CASE DoBegin
  BY <1>6, NPatchesAssumption DEF DoBegin, SessionType, TypeOK, Steps
<1>7. CASE Advance
  <2>1. CASE at # goal
    <3>1. at + 1 \in Stages
      BY <1>7, <2>1, StageFacts DEF Advance, TypeOK
    <3>2. Entry(at + 1) \in Steps
      BY <3>1, EntryFacts DEF Steps
    <3> QED
      BY <1>7, <2>1, <3>2 DEF Advance, SessionType, TypeOK
  <2> QED
    BY <1>2, <1>7, <2>1 DEF Advance
<1>8. CASE Unstage
  BY <1>2, <1>3, <1>8, StageFacts DEF Unstage, TypeOK
<1>9. ASSUME NEW g \in Goals, NEW f \in BOOLEAN, Make(g, f) PROVE SessionType'
  BY <1>3, <1>9, GoalsAssumption DEF Make
<1>10. CASE Clean \/ Reinstall \/ WipeBegin \/ Unmark
  BY <1>4, <1>10 DEF Clean, Reinstall, WipeBegin, Unmark, Steps
<1>11. CASE WipeEnd \/ Claim \/ PkgRm
  BY <1>2, <1>4, <1>11 DEF WipeEnd, Claim, PkgRm, Steps
<1>12. CASE CheckSum \/ Depends \/ DoFails \/ RunFails
  BY <1>2, <1>4, <1>12 DEF CheckSum, Depends, DoFails, RunFails, SubmakeFails, Steps
<1>13. CASE Skip \/ NoRelease \/ RunEnd \/ Touch
  BY <1>4, <1>13 DEF Skip, NoRelease, RunEnd, Touch, Steps
<1>14. CASE Interrupt \/ Crash
  BY <1>2, <1>14 DEF Interrupt, Crash
<1> QED
  BY <1>1, <1>5, <1>6, <1>7, <1>8, <1>9, <1>10, <1>11, <1>12, <1>13, <1>14
  DEF Next, Operator, Work, UserPkgRm, vars

LEMMA TypeStep == TypeOK /\ Shape /\ [Next]_vars => TypeOK'
BY DiskTypeStep, SessionTypeStep DEF TypeOK, DiskType, SessionType

\* Where the steps of a session belong, and what a nest still has to make.
LEMMA ShapeStep == TypeOK /\ Shape /\ Undone /\ [Next]_vars => Shape' /\ Undone'
<1> SUFFICES ASSUME TypeOK, Shape, Undone, [Next]_vars PROVE Shape' /\ Undone'
  OBVIOUS
<1>1. CASE UNCHANGED <<cookies, dirty, goal, at, pc>>
  BY <1>1 DEF Shape, Undone
<1>2. CASE Stop
  BY <1>2, StopFacts
<1>3. ASSUME NEW g \in Stages, Descend(g), cookies' = cookies PROVE Shape' /\ Undone'
  <2>1. Descended(g)
    BY <1>3, DescendFacts
  <2>2. at' \in Stages
    BY <2>1, StageFacts DEF Descended
  <2> QED
    BY <1>3, <2>1, <2>2, EntryFacts, StageFacts DEF Descended, Shape, Undone
<1>4. ASSUME NEW g \in Goals, NEW f \in BOOLEAN, Make(g, f) PROVE Shape' /\ Undone'
  BY <1>3, <1>4, GoalsAssumption DEF Make, disk
<1>5. CASE Clean \/ Reinstall
  BY <1>5 DEF Clean, Reinstall, Shape, Undone, disk
<1>6. CASE WipeBegin
  BY <1>6 DEF WipeBegin, Shape, Undone
<1>7. CASE WipeEnd
  BY <1>2, <1>7, StageFacts DEF WipeEnd, Shape, Undone
<1>8. CASE Unmark
  BY <1>8 DEF Unmark, Shape, Undone
<1>9. CASE Unstage
  BY <1>2, <1>3, <1>9, StageFacts DEF Unstage
<1>10. CASE CheckSum
  BY <1>2, <1>10 DEF CheckSum, SubmakeFails, Shape, Undone, disk
<1>11. CASE Depends
  BY <1>2, <1>11, StageFacts DEF Depends, SubmakeFails, Shape, Undone, disk
<1>12. CASE Claim \/ PkgRm
  BY <1>2, <1>12 DEF Claim, PkgRm, Shape, Undone
<1>13. CASE Skip
  BY <1>13, StageFacts DEF Skip, Shape, Undone
<1>14. CASE DoFails \/ RunFails
  BY <1>2, <1>14, StageFacts DEF DoFails, RunFails, SubmakeFails, Shape, Undone, disk
<1>15. CASE DoBegin \/ NoRelease \/ RunEnd
  BY <1>15, StageFacts DEF DoBegin, NoRelease, RunEnd, Shape, Undone, disk
<1>16. CASE Touch
  BY <1>16, StageFacts DEF Touch, Shape, Undone
<1>17. CASE Advance
  <2>1. CASE at # goal
    <3>1. at + 1 \in Stages
      BY <1>17, <2>1, StageFacts DEF Advance, TypeOK
    <3> QED
      BY <1>17, <2>1, <3>1, EntryFacts, StageFacts
      DEF Advance, Shape, Undone, TypeOK, disk
  <2> QED
    BY <1>2, <1>17, <2>1 DEF Advance
<1>18. CASE Interrupt \/ Crash
  BY <1>2, <1>18 DEF Interrupt, Crash
<1> QED
  BY <1>1, <1>4, <1>5, <1>6, <1>7, <1>8, <1>9, <1>10, <1>11, <1>12, <1>13,
     <1>14, <1>15, <1>16, <1>17, <1>18
  DEF Next, Operator, Work, ApplyPatch, UserPkgRm, session, vars, disk

\* The package database and the loop of do-patch.
LEMMA DatabaseStep == Base /\ [Next]_vars => Claimed' /\ Patching'
<1> SUFFICES ASSUME Base, [Next]_vars PROVE Claimed' /\ Patching'
  OBVIOUS
<1> USE DEF Base
<1>1. CASE UNCHANGED <<made, applied, at, pc, next>>
  BY <1>1 DEF Claimed, Patching
<1>2. CASE Stop
  BY <1>2, StopFacts
<1>3. ASSUME NEW g \in Stages, Descend(g) PROVE Claimed' /\ Patching'
  <2>1. Descended(g)
    BY <1>3, DescendFacts
  <2>2. at' \in Stages
    BY <2>1, StageFacts DEF Descended
  <2> QED
    BY <2>1, <2>2, EntryFacts DEF Descended, Claimed, Patching
<1>4. ASSUME NEW g \in Goals, NEW f \in BOOLEAN, Make(g, f) PROVE Claimed' /\ Patching'
  BY <1>3, <1>4, GoalsAssumption DEF Make
<1>5. CASE pc' \in {"wipe", "unmark", "wiping", "unstage", "skip", "touch", "touched"}
  BY <1>5 DEF Claimed, Patching
<1>6. CASE WipeEnd
  BY <1>2, <1>6 DEF WipeEnd, Claimed, Patching, Shape
<1>7. CASE Unstage
  BY <1>2, <1>3, <1>7, StageFacts DEF Unstage
<1>8. CASE CheckSum
  BY <1>2, <1>8 DEF CheckSum, SubmakeFails, Claimed, Patching, Shape
<1>9. CASE Depends
  BY <1>2, <1>9 DEF Depends, SubmakeFails, Claimed, Patching, Shape, disk
<1>10. CASE Claim \/ PkgRm
  BY <1>2, <1>10, StageFacts DEF Claim, PkgRm, Claimed, Patching, Shape, TypeOK
<1>11. CASE DoFails \/ RunFails
  BY <1>2, <1>5, <1>11 DEF DoFails, RunFails, SubmakeFails
<1>12. CASE DoBegin
  BY <1>12, StageFacts DEF DoBegin, Claimed, Patching, TypeOK
<1>13. CASE ApplyPatch
  BY <1>13 DEF ApplyPatch, Claimed, Patching, TypeOK, PatchFiles
<1>14. CASE Advance
  <2>1. CASE at # goal
    <3>1. at + 1 \in Stages
      BY <1>14, <2>1, StageFacts DEF Advance, TypeOK
    <3> QED
      BY <1>14, <2>1, <3>1, EntryFacts DEF Advance, Claimed, Patching
  <2> QED
    BY <1>2, <1>14, <2>1 DEF Advance
<1>15. CASE UserPkgRm
  BY <1>15, StageFacts DEF UserPkgRm, Claimed, Patching, TypeOK, session
<1> QED
  BY <1>1, <1>2, <1>4, <1>5, <1>6, <1>7, <1>8, <1>9, <1>10, <1>11, <1>12, <1>13,
     <1>14, <1>15
  DEF Next, Operator, Work, Clean, Reinstall, WipeBegin, Unmark, Skip, NoRelease,
      RunEnd, Touch, Interrupt, Crash, vars, disk, session

LEMMA BaseStep == Base /\ [Next]_vars => Base'
BY TypeStep, ShapeStep, DatabaseStep DEF Base

LEMMA InitBase == Init => Base
BY InitType, StageFacts DEF Init, Base, Shape, Undone, Claimed, Patching

\* The types, and the shape of a session, for every value of the constants
\* (port.mk 541-682).
THEOREM TypeCorrect == Spec => []Base
BY InitBase, BaseStep, PTL DEF Spec
-----------------------------------------------------------------------------
(* Cookies.                                                                *)

Sound == InOrder /\ Truthful

LEMMA InitSound == Init => Sound
BY DEF Init, Sound, InOrder, Truthful, CookiesInOrder, CookiesTruthful

\* Without -k a sub-make that fails stops the session.
LEMMA FailureStops ==
  ASSUME ~KeepGoing, NEW then, SubmakeFails(then)
  PROVE  Stop
BY DEF SubmakeFails

\* The cookies stay in order, and a nest stands on the ones below it.
LEMMA InOrderStep ==
  ASSUME ~KeepGoing, Base, InOrder, [Next]_vars
  PROVE  InOrder'
<1> USE StageFacts DEF InOrder, CookiesInOrder
<1>1. CASE UNCHANGED <<cookies, dirty, at, pc>>
  BY <1>1
<1>2. CASE Stop /\ UNCHANGED <<cookies, dirty>>
  BY <1>2, StopFacts
<1>3. ASSUME NEW g \in Stages, Descend(g), UNCHANGED <<cookies, dirty>> PROVE InOrder'
  <2>1. Descended(g)
    BY <1>3, DescendFacts
  <2>2. at' \in Stages
    BY <2>1 DEF Descended
  <2>3. pc' # "touched"
    BY <2>1, <2>2, EntryFacts DEF Descended
  <2>4. at' = Extract \/ at' - 1 \in cookies
    BY <2>1 DEF Descended
  <2> QED
    BY <1>3, <2>2, <2>3, <2>4
<1>4. ASSUME NEW g \in Goals, NEW f \in BOOLEAN, Make(g, f) PROVE InOrder'
  BY <1>3, <1>4, GoalsAssumption DEF Make, disk
<1>5. CASE UNCHANGED <<cookies, dirty, at>> /\ pc' # "touched"
  BY <1>5
<1>6. CASE WipeBegin
  BY <1>6 DEF WipeBegin
<1>7. CASE WipeEnd
  <2>1. cookies' = {} /\ at' \in {0, Extract} /\ pc' # "touched"
    BY <1>7, StopFacts DEF WipeEnd, Base, Shape
  <2> QED
    BY <2>1
<1>8. CASE Unmark
  BY <1>8 DEF Unmark, Base, Shape
<1>9. CASE Unstage
  BY <1>2, <1>3, <1>9 DEF Unstage
<1>10. CASE CheckSum \/ Depends \/ DoFails \/ RunFails
  BY <1>2, <1>5, <1>10, FailureStops DEF CheckSum, Depends, DoFails, RunFails, disk
<1>11. CASE Claim \/ PkgRm
  BY <1>2, <1>5, <1>11 DEF Claim, PkgRm
<1>12. CASE Skip \/ Touch
  <2>1. at \in Stages /\ at' = at /\ cookies' = cookies \cup {at} /\ dirty' = dirty
    BY <1>12 DEF Skip, Touch, Base, Shape
  <2>2. CookiesInOrder'
    BY <2>1
  <2>3. ~dirty /\ at # Install /\ at \notin Phony => \A s \in cookies : s <= at
    BY <1>12, <2>1 DEF Skip, Touch, Base, TypeOK, Shape, Undone
  <2> QED
    BY <2>1, <2>2, <2>3
<1>13. CASE Advance
  BY <1>2, <1>13, EntryFacts DEF Advance, Base, TypeOK, Shape, disk
<1>14. CASE Interrupt
  <2>1. dirty' = dirty /\ at' = 0 /\ pc' = "idle"
    BY <1>14, StopFacts DEF Interrupt
  <2>2. CASE pc = "touched" /\ at \notin Phony
    <3>1. cookies' = cookies \ {at}
      BY <1>14, <2>2 DEF Interrupt, Base, TypeOK, Shape, Undone
    <3> QED
      BY <2>1, <2>2, <3>1 DEF Base, TypeOK
  <2>3. CASE ~(pc = "touched" /\ at \notin Phony)
    <3>1. at > 0 \/ (at = 0 /\ goal = 0)
      BY DEF Base, TypeOK, Shape, Steps
    <3>2. \A t \in cookies : t \notin (at .. goal) \ Phony
      BY <2>3, <3>1 DEF Base, TypeOK, Undone
    <3>3. cookies' = cookies
      BY <1>14, <3>2 DEF Interrupt
    <3> QED
      BY <2>1, <3>3
  <2> QED
    BY <2>2, <2>3
<1>15. CASE Crash
  BY <1>2, <1>15 DEF Crash, disk
<1> QED
  BY <1>1, <1>4, <1>5, <1>6, <1>7, <1>8, <1>9, <1>10, <1>11, <1>12, <1>13, <1>14, <1>15
  DEF Next, Operator, Work, Clean, Reinstall, DoBegin, NoRelease, ApplyPatch,
      RunEnd, UserPkgRm, vars, disk, session

\* A stage that ends has made what its cookie is going to say: the cookie of
\* its input vouches for that.
LEMMA ResultVouched ==
  ASSUME Base, Sound, RunEnd, ~dirty
  PROVE  Vouches(at)'
<1> USE StageFacts DEF Base, TypeOK, Sound
<1>1. /\ at \in Stages /\ at' = at /\ made' = [made EXCEPT ![at] = Result(at)]
      /\ applied' = applied
  BY DEF RunEnd, Shape
<1>2. made'[at] = Result(at)
  BY <1>1
<1>3. at > Extract => Input(at) \in cookies /\ Vouches(Input(at))
  BY <1>1 DEF InOrder, Truthful, CookiesTruthful, Input
<1>4. CASE at = Extract
  BY <1>1, <1>2, <1>4 DEF Vouches, Result
<1>5. CASE at = Patch
  <2>1. \A i \in PatchFiles : applied[i] = 1
    BY <1>5, NPatchesAssumption DEF RunEnd, Patching, PatchFiles
  <2> QED
    BY <1>1, <1>2, <1>3, <1>5, <2>1 DEF Vouches, Result, Input, Complete
<1>6. CASE at \in {Configure, Build}
  BY <1>1, <1>2, <1>3, <1>6 DEF Vouches, Result, Input, Complete
<1>7. CASE at \in {Install, Package, Release, InstPkg}
  BY <1>1, <1>2, <1>3, <1>7 DEF Vouches, Result, Input, Complete
<1> QED
  BY <1>1, <1>4, <1>5, <1>6, <1>7

\* No cookie starts to lie.
LEMMA TruthfulStep ==
  ASSUME ~KeepGoing, Base, Sound, [Next]_vars
  PROVE  Truthful'
<1> USE StageFacts DEF Base, TypeOK, Sound, Truthful, CookiesTruthful
<1>1. CASE UNCHANGED <<cookies, made, applied, dirty>> /\ pc' # "touch"
  BY <1>1 DEF Vouches
<1>2. CASE Stop /\ UNCHANGED <<cookies, made, applied, dirty>>
  BY <1>1, <1>2, StopFacts
<1>3. ASSUME NEW g \in Stages, Descend(g) PROVE pc' # "touch"
  BY <1>3, DescendFacts, EntryFacts DEF Descended
<1>4. ASSUME NEW g \in Goals, NEW f \in BOOLEAN, Make(g, f) PROVE Truthful'
  BY <1>1, <1>3, <1>4, GoalsAssumption DEF Make, disk
<1>5. CASE WipeBegin
  BY <1>5 DEF WipeBegin
<1>6. CASE WipeEnd
  BY <1>6, StopFacts DEF WipeEnd
<1>7. CASE Unmark
  BY <1>7 DEF Unmark, Vouches
<1>8. CASE Unstage
  <2>1. pc' # "touch"
    <3>1. Install \in Stages
      OBVIOUS
    <3>2. Descend(Install) => pc' # "touch"
      BY <1>3, <3>1
    <3> QED
      BY <1>8, <3>2, StopFacts DEF Unstage
  <2>2. /\ Install \notin cookies /\ made'[Package] = Outdated(made[Package])
        /\ \A s \in Stages \ {Install, Package} : made'[s] = made[s]
    BY <1>8 DEF Unstage, Shape
  <2> QED
    BY <1>8, <2>1, <2>2 DEF Unstage, Vouches, Outdated, Complete
<1>9. CASE CheckSum \/ Depends \/ DoFails \/ RunFails
  BY <1>1, <1>2, <1>9, FailureStops DEF CheckSum, Depends, DoFails, RunFails, disk
<1>10. CASE Claim \/ PkgRm
  <2>1. InstPkg \notin cookies
    BY <1>10, StageFacts DEF Claim, PkgRm, Shape, Undone
  <2>2. \A s \in Stages \ {InstPkg} : made'[s] = made[s]
    BY <1>10 DEF Claim, PkgRm
  <2>3. pc' # "touch" /\ UNCHANGED <<cookies, applied, dirty>>
    BY <1>10, StopFacts DEF Claim, PkgRm
  <2> QED
    BY <2>1, <2>2, <2>3 DEF Vouches
<1>11. CASE Skip
  <2>1. /\ at = Build /\ pc' = "touched"
        /\ \A s \in Stages : made'[s] = IF s = Build THEN made[Configure] ELSE made[s]
    BY <1>11 DEF Skip, Shape
  <2>2. ~dirty => Vouches(Configure)
    BY <2>1 DEF InOrder
  <2> QED
    BY <1>11, <2>1, <2>2 DEF Skip, Vouches
<1>12. CASE DoBegin
  <2>1. at \in Stages /\ at \notin cookies
    BY <1>12 DEF DoBegin, Shape, Undone
  <2>2. \A s \in cookies : made'[s] = made[s] \/ (s = Package /\ made'[s] = Outdated(made[s]))
    BY <1>12, <2>1 DEF DoBegin
  <2> QED
    BY <1>12, <2>2 DEF DoBegin, Vouches, Outdated, Complete
<1>13. CASE NoRelease
  BY <1>13 DEF NoRelease, Vouches, disk
<1>14. CASE ApplyPatch
  BY <1>14 DEF ApplyPatch, Vouches
<1>15. CASE RunEnd
  <2>1. at \in Stages /\ at \notin cookies
    BY <1>15 DEF RunEnd, Shape, Undone
  <2>2. \A s \in cookies : made'[s] = made[s]
    BY <1>15, <2>1 DEF RunEnd
  <2>3. CookiesTruthful'
    BY <1>15, <2>2 DEF RunEnd, Vouches
  <2> QED
    BY <1>15, <2>3, ResultVouched DEF RunEnd
<1>16. CASE Touch
  <2>1. ~dirty => \A s \in cookies \cup {at} : Vouches(s)
    BY <1>16 DEF Touch
  <2> QED
    BY <1>16, <2>1 DEF Touch, Vouches
<1>17. CASE Advance
  BY <1>1, <1>2, <1>17, EntryFacts DEF Advance, Shape, disk
<1>18. CASE Interrupt
  BY <1>18, StopFacts DEF Interrupt, Vouches
<1>19. CASE Crash
  BY <1>2, <1>19 DEF Crash, disk
<1>20. CASE UserPkgRm
  BY <1>20 DEF UserPkgRm, Vouches, session
<1> QED
  BY <1>1, <1>4, <1>5, <1>6, <1>7, <1>8, <1>9, <1>10, <1>11, <1>12, <1>13, <1>14,
     <1>15, <1>16, <1>17, <1>18, <1>19, <1>20
  DEF Next, Operator, Work, Clean, Reinstall, vars, disk, session, Vouches

\* IInv is inductive for a make without -k.
THEOREM Inductive == ~KeepGoing => (Spec => []IInv)
<1> SUFFICES ASSUME ~KeepGoing PROVE Spec => []IInv
  OBVIOUS
<1>1. Init => IInv
  BY InitBase, InitSound DEF IInv, Base, Sound
<1>2. IInv /\ [Next]_vars => IInv'
  BY BaseStep, InOrderStep, TruthfulStep DEF IInv, Base, Sound
<1> QED
  BY <1>1, <1>2, PTL DEF Spec

\* A cookie never lies (port.mk 541-682, 566-571): whatever failures,
\* interrupts, crashes and reinstalls came before, and for any number of patches.
THEOREM CookiesNeverLie == ~KeepGoing => (Spec => []CookiesTruthful)
BY Inductive, PTL DEF IInv, Truthful

\* No do-<stage> of a make without -k runs on the torn work of an earlier stage
\* (port.mk 541-564).
THEOREM InputsWhole == ~KeepGoing => (Spec => []NoStageOnTornInput)
<1> SUFFICES ASSUME ~KeepGoing PROVE Spec => []NoStageOnTornInput
  OBVIOUS
<1>1. IInv => NoStageOnTornInput
  <2> SUFFICES ASSUME IInv, pc \in {"do", "run"}, at > Extract, ~dirty
               PROVE  made[Input(at)] # "torn"
    BY DEF NoStageOnTornInput
  <2>1. at \in Stages /\ Input(at) \in cookies
    BY StageFacts DEF IInv, TypeOK, Shape, InOrder, Input
  <2>2. Vouches(Input(at)) /\ Input(at) \in Stages /\ Input(at) # Release
    BY <2>1, StageFacts DEF IInv, TypeOK, Truthful, CookiesTruthful, Input
  <2> QED
    BY <2>2, StageFacts DEF Vouches, Complete
<1> QED
  BY <1>1, Inductive, PTL

\* The stages are made in order, but for the INSTALL_COOKIE reinstall removes
\* (port.mk 541-571).
THEOREM InOrderAlways == ~KeepGoing => (Spec => []CookiesInOrder)
BY Inductive, PTL DEF IInv, InOrder

\* No session without FORCE_INSTPKG, with or without -k, disturbs an installed
\* package (port.mk 664-682).
THEOREM InstalledAlwaysSurvives == Spec => InstalledSurvives
<1>1. Base /\ [Next]_vars =>
        [made[InstPkg] \in Complete /\ made'[InstPkg] # made[InstPkg] =>
           force \/ (made'[InstPkg] = "none" /\ UNCHANGED session)]_vars
  <2> SUFFICES ASSUME Base, Next, made[InstPkg] \in Complete, made'[InstPkg] # made[InstPkg]
               PROVE  force \/ (made'[InstPkg] = "none" /\ UNCHANGED session)
    OBVIOUS
  <2> USE StageFacts DEF Base, TypeOK, Complete
  <2>1. CASE UserPkgRm
    BY <2>1 DEF UserPkgRm
  <2>2. CASE WipeBegin \/ WipeEnd \/ Unstage \/ Skip
    BY <2>2 DEF WipeBegin, WipeEnd, Unstage, Skip, Shape
  <2>3. CASE Claim \/ PkgRm
    BY <2>3 DEF Claim, PkgRm, Claimed, Shape
  <2>4. CASE DoBegin \/ RunEnd
    BY <2>4 DEF DoBegin, RunEnd, Claimed, Shape
  <2> QED
    BY <2>1, <2>2, <2>3, <2>4
    DEF Next, Operator, Work, Make, Clean, Reinstall, Unmark, CheckSum, Depends,
        DoFails, NoRelease, ApplyPatch, RunFails, Touch, Advance, Interrupt, Crash, disk
<1> QED
  BY <1>1, TypeCorrect, PTL DEF Spec, InstalledSurvives

\* What reinstall leaves behind: an out-of-date package with a cookie is used
\* until the work directory is wiped (port.mk 566-571).
THEOREM StaleAlwaysStays == Spec => StaleUntilWiped
<1>1. Base /\ [Next]_vars =>
        [made[Package] = "stale" /\ Package \in cookies /\ ~dirty =>
           made'[Package] = "stale" \/ pc \in {"wipe", "wiping"}]_vars
  <2> SUFFICES ASSUME Base, Next, made[Package] = "stale", Package \in cookies,
                      pc \notin {"wipe", "wiping"}
               PROVE  made'[Package] = "stale"
    OBVIOUS
  <2> USE StageFacts DEF Base, TypeOK
  <2>1. CASE Unstage \/ Skip \/ UserPkgRm \/ Claim \/ PkgRm
    BY <2>1 DEF Unstage, Outdated, Skip, UserPkgRm, Claim, PkgRm, Shape
  <2>2. CASE DoBegin \/ RunEnd
    BY <2>2 DEF DoBegin, RunEnd, Outdated, Shape, Undone
  <2> QED
    BY <2>1, <2>2
    DEF Next, Operator, Work, Make, Clean, Reinstall, WipeBegin, WipeEnd, Unmark,
        CheckSum, Depends, DoFails, NoRelease, ApplyPatch, RunFails, Touch, Advance,
        Interrupt, Crash, disk
<1> QED
  BY <1>1, TypeCorrect, PTL DEF Spec, StaleUntilWiped
-----------------------------------------------------------------------------
(* PortBuild implements PortSlot.                                          *)

Found == made[InstPkg] # "none"
Marked == InstPkg \in cookies

\* FORCE_INSTPKG belongs to a make of instpkg, and only it removes a package.
Forcing == (force => goal = InstPkg) /\ (pc = "pkgrm" => force)

LEMMA ForcingStep == Base /\ Forcing /\ [Next]_vars => Forcing'
<1> SUFFICES ASSUME Base, Forcing, [Next]_vars PROVE Forcing'
  OBVIOUS
<1> USE DEF Base, Forcing
<1>1. CASE UNCHANGED session
  BY <1>1 DEF session
<1>2. CASE Stop
  BY <1>2 DEF Stop
<1>3. CASE pc' # "pkgrm" /\ UNCHANGED <<goal, force>>
  BY <1>3
<1>4. ASSUME NEW g \in Stages, Descend(g), force' => g = InstPkg PROVE Forcing'
  <2>1. Descended(g)
    BY <1>4, DescendFacts
  <2>2. at' \in Stages
    BY <2>1, StageFacts DEF Descended
  <2> QED BY <1>4, <2>1, <2>2, EntryFacts DEF Descended
<1>5. ASSUME NEW g \in Goals, NEW f \in BOOLEAN, Make(g, f) PROVE Forcing'
  BY <1>4, <1>5, GoalsAssumption DEF Make
<1>6. CASE Unstage
  BY <1>2, <1>4, <1>6, StageFacts DEF Unstage, Shape
<1>7. CASE Claim
  BY <1>2, <1>7 DEF Claim
<1>8. CASE CheckSum \/ Depends \/ DoFails \/ RunFails
  BY <1>2, <1>3, <1>8 DEF CheckSum, Depends, DoFails, RunFails, SubmakeFails
<1>9. CASE Advance
  <2>1. CASE at # goal
    <3>1. at + 1 \in Stages
      BY <1>9, <2>1, StageFacts DEF Advance, TypeOK
    <3> QED BY <1>3, <1>9, <2>1, <3>1, EntryFacts DEF Advance
  <2> QED BY <1>2, <1>9, <2>1 DEF Advance
<1>10. CASE Clean \/ Reinstall \/ WipeBegin \/ Unmark \/ Skip \/ DoBegin \/ NoRelease
  BY <1>3, <1>10 DEF Clean, Reinstall, WipeBegin, Unmark, Skip, DoBegin, NoRelease
<1>11. CASE ApplyPatch \/ RunEnd \/ Touch
  BY <1>3, <1>11 DEF ApplyPatch, RunEnd, Touch
<1>12. CASE WipeEnd \/ PkgRm \/ Interrupt \/ Crash
  BY <1>2, <1>3, <1>12 DEF WipeEnd, PkgRm, Interrupt, Crash
<1> QED
  BY <1>1, <1>5, <1>6, <1>7, <1>8, <1>9, <1>10, <1>11, <1>12
  DEF Next, Operator, Work, UserPkgRm, vars

\* What leaves package, cookie and phase alone is no step of the slot.
LEMMA SlotStays ==
  ASSUME Found' <=> Found, Marked' <=> Marked, SlotPhase' = SlotPhase, force' = force
  PROVE  UNCHANGED Slot!vars
<1>1. (made[InstPkg] # "none")' = (made[InstPkg] # "none")
  BY Zenon DEF Found
<1>2. (InstPkg \in cookies)' = (InstPkg \in cookies)
  BY SMT DEF Marked
<1> QED BY <1>1, <1>2, Zenon DEF Slot!vars

\* A session may be left at any point, and the cookie with it.
LEMMA SlotLeft ==
  ASSUME Base, Forcing, Stop, Found' <=> Found, Marked' => Marked
  PROVE  Slot!Next \/ UNCHANGED Slot!vars
<1>1. SlotPhase' = "idle" /\ force' = FALSE
  BY DEF Stop, SlotPhase
<1>2. (made[InstPkg] # "none")' = (made[InstPkg] # "none")
  BY Zenon DEF Found
<1>3. (InstPkg \in cookies)' = (InstPkg \in cookies) \/ (InstPkg \in cookies)' = FALSE
  BY SMT DEF Marked
<1>4. CASE SlotPhase # "idle"
  BY <1>1, <1>2, <1>3, <1>4, Zenon DEF Slot!Next, Slot!Leave
<1>5. CASE SlotPhase = "idle"
  <2>1. force = FALSE
    BY <1>5 DEF SlotPhase, Forcing, Base, TypeOK, Shape
  <2>2. CASE (InstPkg \in cookies)' = FALSE
    BY <1>1, <1>2, <1>5, <2>1, <2>2, Zenon DEF Slot!Next, Slot!Clean
  <2>3. CASE (InstPkg \in cookies)' = (InstPkg \in cookies)
    BY <1>1, <1>2, <1>5, <2>1, <2>3, Zenon DEF Slot!vars
  <2> QED BY <1>3, <2>2, <2>3, Zenon
<1> QED BY <1>4, <1>5, Zenon

\* A nest that begins above instpkg, or for it, whose cookie is not there
LEMMA SlotEntered ==
  ASSUME Base, Forcing, NEW g \in Stages, Descend(g), goal = 0,
         force' \in BOOLEAN, force' => g = InstPkg, Found' <=> Found, Marked' <=> Marked
  PROVE  Slot!Next \/ UNCHANGED Slot!vars
<1>1. Descended(g)
  BY DescendFacts
<1>2. at' \in Stages /\ at' <= g
  BY <1>1, StageFacts DEF Descended
<1>3. SlotPhase = "idle" /\ ~force
  BY DEF SlotPhase, Forcing
<1>4. CASE g # InstPkg
  <2>1. SlotPhase' = "idle"
    BY <1>1, <1>4 DEF Descended, SlotPhase
  <2>2. force' = force
    BY <1>3, <1>4 DEF Base, TypeOK
  <2> QED BY <1>3, <2>1, <2>2, SlotStays, Zenon
<1>5. CASE g = InstPkg
  <2>1. SlotPhase' = "stages"
    BY <1>1, <1>2, <1>5, EntryFacts, StageFacts DEF Descended, SlotPhase, Entry
  <2>2. InstPkg \notin cookies
    BY <1>1, <1>2, <1>5, StageFacts DEF Descended
  <2>3. (InstPkg \in cookies)' = (InstPkg \in cookies)
    BY SMT DEF Marked
  <2>4. (made[InstPkg] # "none")' = (made[InstPkg] # "none")
    BY Zenon DEF Found
  <2> QED BY <1>3, <2>1, <2>2, <2>3, <2>4, Zenon DEF Slot!Next, Slot!Enter
<1> QED BY <1>4, <1>5

\* The steps of instpkg are those of the slot.
LEMMA SlotStep ==
  ASSUME ~KeepGoing, Base, Forcing, [Next]_vars
  PROVE  Slot!Next \/ UNCHANGED Slot!vars
<1> USE DEF Base
<1> DEFINE Step == Slot!Next \/ UNCHANGED Slot!vars
<1> SUFFICES Step
  BY Zenon
<1> HIDE DEF Step
<1>1. ASSUME Stop, Found' <=> Found, Marked' => Marked PROVE Step
  BY <1>1, SlotLeft, Zenon DEF Step
<1>2. ASSUME Found' <=> Found, Marked' <=> Marked, SlotPhase' = SlotPhase, force' = force
      PROVE  Step
  BY <1>2, SlotStays, Zenon DEF Step
<1>3. CASE UNCHANGED vars
  <2>1. SlotPhase' = SlotPhase
    BY <1>3 DEF vars, session, SlotPhase
  <2>2. (Found' <=> Found) /\ (Marked' <=> Marked) /\ force' = force
    BY <1>3 DEF vars, disk, session, Found, Marked
  <2> QED BY <1>2, <2>1, <2>2, Zenon
<1>4. ASSUME NEW g \in Goals, NEW f \in BOOLEAN, Make(g, f) PROVE Step
  <2>1. g \in Stages /\ Descend(g) /\ goal = 0 /\ force' = f /\ (f => g = InstPkg)
    BY <1>4, GoalsAssumption DEF Make, Shape
  <2>2. (Found' <=> Found) /\ (Marked' <=> Marked)
    BY <1>4 DEF Make, disk, Found, Marked
  <2> QED BY <2>1, <2>2, SlotEntered, Zenon DEF Step
<1>5. CASE Unstage
  <2>1. (Found' <=> Found) /\ (Marked' <=> Marked) /\ goal = 0 /\ ~force
    BY <1>5, StageFacts DEF Unstage, TypeOK, Shape, Forcing, Found, Marked
  <2>2. CASE Stop
    BY <1>1, <2>1, <2>2, Zenon
  <2>3. CASE Descend(Install) /\ UNCHANGED force
    <3>1. Install \in Stages /\ force' \in BOOLEAN /\ (force' => Install = InstPkg)
      BY <2>1, <2>3, StageFacts DEF TypeOK
    <3> QED BY <2>1, <2>3, <3>1, SlotEntered, Zenon DEF Step
  <2> QED BY <1>5, <2>2, <2>3 DEF Unstage
<1>6. CASE Clean \/ Reinstall \/ Unmark
  <2>1. (Found' <=> Found) /\ (Marked' <=> Marked) /\ UNCHANGED <<goal, force>> /\ goal # InstPkg
    BY <1>6 DEF Clean, Reinstall, Unmark, disk, Shape, Found, Marked
  <2>2. SlotPhase' = SlotPhase
    BY <2>1 DEF SlotPhase
  <2> QED BY <1>2, <2>1, <2>2, Zenon
<1>7. CASE WipeBegin
  <2>1. (Found' <=> Found) /\ (Marked' => Marked) /\ at # InstPkg
    BY <1>7, StageFacts DEF WipeBegin, TypeOK, Shape, Found, Marked
  <2>2. UNCHANGED <<goal, at, force>>
    BY <1>7 DEF WipeBegin
  <2>3. SlotPhase' = SlotPhase /\ SlotPhase \in {"idle", "stages"}
    BY <2>1, <2>2 DEF SlotPhase
  <2>4. CASE Marked' <=> Marked
    BY <1>2, <2>1, <2>2, <2>3, <2>4, Zenon
  <2>5. CASE goal = InstPkg
    <3>1. ~Marked
      BY <1>7, <2>5, StageFacts DEF WipeBegin, Shape, Undone, Marked
    <3> QED BY <2>1, <2>4, <3>1
  <2>6. CASE goal # InstPkg /\ ~Marked'
    <3>1. (made[InstPkg] # "none")' = (made[InstPkg] # "none") /\ (InstPkg \in cookies)' = FALSE
      BY <2>1, <2>6, SMT DEF Found, Marked
    <3>2. SlotPhase = "idle" /\ force' = force
      BY <2>2, <2>6 DEF SlotPhase
    <3> QED BY <2>3, <3>1, <3>2, Zenon DEF Step, Slot!Next, Slot!Clean
  <2> QED BY <2>1, <2>4, <2>5, <2>6
<1>8. CASE WipeEnd
  <2>1. (Found' <=> Found) /\ ~Marked'
    BY <1>8, StageFacts DEF WipeEnd, TypeOK, Found, Marked
  <2>2. CASE Stop
    BY <1>1, <2>1, <2>2, Zenon
  <2>3. CASE at = Extract /\ UNCHANGED <<goal, at, force>>
    <3>1. SlotPhase' = SlotPhase /\ SlotPhase \in {"idle", "stages"}
      BY <2>3 DEF SlotPhase
    <3>2. CASE goal = InstPkg
      <4>1. ~Marked
        BY <1>8, <2>3, <3>2, StageFacts DEF WipeEnd, Undone, Marked
      <4> QED BY <1>2, <2>1, <2>3, <3>1, <4>1, Zenon
    <3>3. CASE goal # InstPkg
      <4>1. (made[InstPkg] # "none")' = (made[InstPkg] # "none") /\ (InstPkg \in cookies)' = FALSE
        BY <2>1, SMT DEF Found, Marked
      <4>2. SlotPhase = "idle" /\ force' = force
        BY <2>3, <3>3 DEF SlotPhase
      <4> QED BY <3>1, <4>1, <4>2, Zenon DEF Step, Slot!Next, Slot!Clean
    <3> QED BY <3>2, <3>3
  <2> QED BY <1>8, <2>2, <2>3 DEF WipeEnd
<1>9. CASE CheckSum \/ Depends \/ DoFails \/ RunFails \/ Crash
  <2>1. (Found' <=> Found) /\ (Marked' <=> Marked)
    BY <1>9 DEF CheckSum, Depends, DoFails, RunFails, Crash, disk, Found, Marked
  <2>2. CASE Stop
    BY <1>1, <2>1, <2>2, Zenon
  <2>3. CASE UNCHANGED <<goal, at, force>> /\ SlotPhase' = SlotPhase
    BY <1>2, <2>1, <2>3, Zenon
  <2>4. CASE CheckSum \/ Depends
    <3>1. CASE pc' \in {"depends", "wipe", "do"} /\ UNCHANGED <<goal, at, force>>
      <4>1. at = InstPkg => pc = "depends" /\ pc' = "do"
        BY <2>4, <3>1 DEF CheckSum, Depends, Shape, SubmakeFails, Stop
      <4>2. SlotPhase' = SlotPhase
        BY <3>1, <4>1 DEF SlotPhase
      <4> QED BY <2>3, <3>1, <4>2
    <3> QED BY <2>2, <2>4, <3>1 DEF CheckSum, Depends, SubmakeFails
  <2>5. CASE DoFails \/ RunFails \/ Crash
    BY <2>2, <2>5 DEF DoFails, RunFails, Crash, SubmakeFails
  <2> QED BY <1>9, <2>4, <2>5
<1>10. CASE Claim
  <2>1. at = InstPkg /\ goal = InstPkg /\ (Marked' <=> Marked) /\ made[InstPkg] \in Condition
    BY <1>10, StageFacts DEF Claim, TypeOK, Shape, Marked
  <2>2. CASE Stop /\ UNCHANGED made
    BY <1>1, <2>1, <2>2 DEF Found
  <2>3. CASE force /\ made[InstPkg] # "none" /\ pc' = "pkgrm" /\ UNCHANGED <<goal, at, force>>
             /\ made' = [made EXCEPT ![InstPkg] = "torn"]
    <3>1. Found /\ Found'
      BY <2>3, StageFacts DEF Found, TypeOK
    <3>2. SlotPhase = "stages" /\ SlotPhase' = "stages"
      BY <1>10, <2>1, <2>3 DEF Claim, SlotPhase
    <3> QED BY <1>2, <2>1, <2>3, <3>1, <3>2, Zenon
  <2>4. CASE ~force /\ made[InstPkg] = "none" /\ pc' = "depends" /\ UNCHANGED <<goal, at, force>>
             /\ made'[InstPkg] = "none"
    <3>1. (made[InstPkg] # "none") = FALSE /\ (made[InstPkg] # "none")' = FALSE
      BY <2>4
    <3>2. SlotPhase = "stages" /\ SlotPhase' = "claimed"
      BY <1>10, <2>1, <2>4 DEF Claim, SlotPhase
    <3>3. (InstPkg \in cookies)' = (InstPkg \in cookies)
      BY <2>1, SMT DEF Marked
    <3>4. force = FALSE /\ force' = force
      BY <2>4 DEF TypeOK
    <3> QED BY <3>1, <3>2, <3>3, <3>4, Zenon DEF Step, Slot!Next, Slot!Claim
  <2> QED BY <1>10, <2>1, <2>2, <2>3, <2>4, StageFacts DEF Claim, TypeOK
<1>11. CASE PkgRm
  <2>1. at = InstPkg /\ goal = InstPkg /\ (Marked' <=> Marked) /\ Found /\ force
    BY <1>11, StageFacts DEF PkgRm, TypeOK, Shape, Claimed, Forcing, Found, Marked
  <2>2. CASE Stop /\ UNCHANGED made
    BY <1>1, <2>1, <2>2 DEF Found
  <2>3. CASE pc' = "depends" /\ UNCHANGED <<goal, at, force>> /\ made'[InstPkg] = "none"
    <3>1. (made[InstPkg] # "none") = TRUE /\ (made[InstPkg] # "none")' = FALSE
      BY <2>1, <2>3 DEF Found
    <3>2. SlotPhase = "stages" /\ SlotPhase' = "claimed"
      BY <1>11, <2>1, <2>3 DEF PkgRm, SlotPhase
    <3>3. (InstPkg \in cookies)' = (InstPkg \in cookies)
      BY <2>1, SMT DEF Marked
    <3>4. force = TRUE /\ force' = force
      BY <2>1, <2>3 DEF TypeOK
    <3> QED BY <3>1, <3>2, <3>3, <3>4, Zenon DEF Step, Slot!Next, Slot!Claim
  <2> QED BY <1>11, <2>2, <2>3, StageFacts DEF PkgRm, TypeOK
<1>12. CASE DoBegin
  <2>1. UNCHANGED <<cookies, goal, at, force>> /\ (Marked' <=> Marked)
    BY <1>12 DEF DoBegin, Marked
  <2>2. CASE at = InstPkg
    <3>1. goal = InstPkg
      BY <2>2, StageFacts DEF TypeOK
    <3>2. (made[InstPkg] # "none") = FALSE /\ (made[InstPkg] # "none")' = TRUE
      BY <1>12, <2>2, StageFacts DEF DoBegin, TypeOK, Claimed
    <3>3. SlotPhase = "claimed" /\ SlotPhase' = "adding"
      BY <1>12, <2>1, <2>2, <3>1 DEF DoBegin, SlotPhase
    <3>4. (InstPkg \in cookies)' = (InstPkg \in cookies) /\ force' = force
      BY <2>1
    <3> QED BY <3>2, <3>3, <3>4, Zenon DEF Step, Slot!Next, Slot!Add
  <2>3. CASE at # InstPkg
    <3>1. Found' <=> Found
      BY <1>12, <2>3, StageFacts DEF DoBegin, TypeOK, Found
    <3>2. SlotPhase' = SlotPhase /\ force' = force
      BY <2>1, <2>3 DEF SlotPhase
    <3> QED BY <1>2, <2>1, <3>1, <3>2, Zenon
  <2> QED BY <2>2, <2>3
<1>13. CASE RunEnd
  <2>1. UNCHANGED <<cookies, goal, at, force>> /\ (Marked' <=> Marked)
    BY <1>13 DEF RunEnd, Marked
  <2>2. CASE at = InstPkg
    <3>1. goal = InstPkg
      BY <2>2, StageFacts DEF TypeOK
    <3>2. (made[InstPkg] # "none") = TRUE /\ (made[InstPkg] # "none")' = TRUE
      BY <1>13, <2>2, StageFacts DEF RunEnd, TypeOK, Claimed, Result, Complete
    <3>3. SlotPhase = "adding" /\ SlotPhase' = "added"
      BY <1>13, <2>1, <2>2, <3>1 DEF RunEnd, SlotPhase
    <3>4. (InstPkg \in cookies)' = (InstPkg \in cookies) /\ force' = force
      BY <2>1
    <3> QED BY <3>2, <3>3, <3>4, Zenon DEF Step, Slot!Next, Slot!Added
  <2>3. CASE at # InstPkg
    <3>1. Found' <=> Found
      BY <1>13, <2>3, StageFacts DEF RunEnd, TypeOK, Found
    <3>2. SlotPhase' = SlotPhase /\ force' = force
      BY <2>1, <2>3 DEF SlotPhase
    <3> QED BY <1>2, <2>1, <3>1, <3>2, Zenon
  <2> QED BY <2>2, <2>3
<1>14. CASE Touch
  <2>1. UNCHANGED <<made, goal, at, force>> /\ (Found' <=> Found)
    BY <1>14 DEF Touch, Found
  <2>2. CASE at = InstPkg
    <3>1. goal = InstPkg
      BY <2>2, StageFacts DEF TypeOK
    <3>2. SlotPhase = "added" /\ SlotPhase' = "marked"
      BY <1>14, <2>1, <2>2, <3>1 DEF Touch, SlotPhase
    <3>3. (InstPkg \in cookies)' = TRUE
      BY <1>14, <2>2 DEF Touch
    <3>4. (made[InstPkg] # "none")' = (made[InstPkg] # "none") /\ force' = force
      BY <2>1
    <3> QED BY <3>2, <3>3, <3>4, Zenon DEF Step, Slot!Next, Slot!Mark
  <2>3. CASE at # InstPkg
    <3>1. Marked' <=> Marked
      BY <1>14, <2>3 DEF Touch, Marked
    <3>2. SlotPhase' = SlotPhase /\ force' = force
      BY <2>1, <2>3 DEF SlotPhase
    <3> QED BY <1>2, <2>1, <3>1, <3>2, Zenon
  <2> QED BY <2>2, <2>3
<1>15. CASE Skip \/ NoRelease \/ ApplyPatch
  <2>1. at # InstPkg /\ UNCHANGED <<goal, at, force>>
    BY <1>15, StageFacts DEF Skip, NoRelease, ApplyPatch, Shape
  <2>2. (Found' <=> Found) /\ (Marked' <=> Marked)
    BY <1>15, <2>1, StageFacts
    DEF Skip, NoRelease, ApplyPatch, disk, TypeOK, Found, Marked
  <2>3. SlotPhase' = SlotPhase /\ force' = force
    BY <2>1 DEF SlotPhase
  <2> QED BY <1>2, <2>2, <2>3, Zenon
<1>16. CASE Advance
  <2>1. (Found' <=> Found) /\ (Marked' <=> Marked)
    BY <1>16 DEF Advance, disk, Found, Marked
  <2>2. CASE at = goal
    BY <1>1, <1>16, <2>1, <2>2, Zenon DEF Advance
  <2>3. CASE at # goal
    <3>1. at + 1 \in Stages /\ at' = at + 1 /\ pc' = Entry(at + 1) /\ UNCHANGED <<goal, force>>
      BY <1>16, <2>3, StageFacts DEF Advance, TypeOK
    <3>2. at # InstPkg
      BY <2>3, StageFacts DEF TypeOK
    <3>3. at' = InstPkg => pc' = "claim"
      BY <3>1, EntryFacts, StageFacts
    <3>4. SlotPhase' = SlotPhase /\ force' = force
      BY <3>1, <3>2, <3>3 DEF SlotPhase
    <3> QED BY <1>2, <2>1, <3>4, Zenon
  <2> QED BY <2>2, <2>3
<1>17. CASE Interrupt
  <2>1. (Found' <=> Found) /\ (Marked' => Marked) /\ Stop
    BY <1>17 DEF Interrupt, Found, Marked
  <2> QED BY <1>1, <2>1, Zenon
<1>18. CASE UserPkgRm
  <2>1. (made[InstPkg] # "none") = TRUE /\ (made[InstPkg] # "none")' = FALSE
    BY <1>18, StageFacts DEF UserPkgRm, TypeOK
  <2>2. SlotPhase # "adding"
    BY <1>18 DEF UserPkgRm, SlotPhase
  <2>3. SlotPhase' = SlotPhase /\ force' = force
    BY <1>18 DEF UserPkgRm, session, SlotPhase
  <2>4. (InstPkg \in cookies)' = (InstPkg \in cookies)
    BY <1>18 DEF UserPkgRm
  <2> QED BY <2>1, <2>2, <2>3, <2>4, Zenon DEF Step, Slot!Next, Slot!PkgRm
<1> QED
  BY <1>3, <1>4, <1>5, <1>6, <1>7, <1>8, <1>9, <1>10, <1>11, <1>12, <1>13, <1>14,
     <1>15, <1>16, <1>17, <1>18
  DEF Next, Operator, Work

\* Without -k, a port implements PortSlot: for any number of patches and any
\* flags, instpkg adds, marks and takes away as the ports above it rely on.
THEOREM ImplementsSlot == ~KeepGoing => (Spec => SlotSpec)
<1> SUFFICES ASSUME ~KeepGoing PROVE Spec => SlotSpec
  OBVIOUS
<1>1. Init => Slot!Init
  BY StageFacts DEF Init, Slot!Init, SlotPhase
<1>2. Init => Forcing
  BY DEF Init, Forcing
<1>3. Base /\ Forcing /\ [Next]_vars => [Slot!Next]_(Slot!vars)
  BY SlotStep, Zenon
<1> QED BY <1>1, <1>2, <1>3, TypeCorrect, ForcingStep, PTL DEF Spec, SlotSpec, Slot!Spec

=============================================================================
