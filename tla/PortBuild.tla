------------------------------ MODULE PortBuild ------------------------------
(***************************************************************************)
(* One port of the tree, as ports/Mk/port.mk builds it.                     *)
(*                                                                         *)
(* The eight stages of a port each own a cookie, a file in the work         *)
(* directory.  `make <stage>` is a nest of makes: the rule of a missing     *)
(* cookie first runs `make <stage before>`, then `make real-<stage>`, whose *)
(* last command touches the cookie.  The nest therefore goes down to the    *)
(* first cookie it finds and comes back up, one real-<stage> at a time.     *)
(* The way down changes nothing and is one step here; the way up is one     *)
(* step for every point at which a failure, an interrupt (^C, caught by     *)
(* bmake) or a crash (SIGKILL, power) leaves something different behind.    *)
(*                                                                         *)
(* One operator works at a time, as port.mk takes no lock; the package      *)
(* database alone is shared, and another terminal may pkgrm at any time.    *)
(***************************************************************************)
EXTENDS Integers, FiniteSets

CONSTANTS
  NPatches,       \* number of patch files in PATCHDIR and PATCHFILES
  NoBuild,        \* the port sets NO_BUILD
  HasReleaseDir,  \* RELEASE_PKG_DIR exists
  KeepGoing,      \* MAKEFLAGS carries -k
  Goals           \* the stages the operator asks for

Extract == 1    Patch == 2     Configure == 3   Build == 4
Install == 5    Package == 6   Release == 7     InstPkg == 8
Stages == Extract .. InstPkg

ASSUME NPatchesAssumption == NPatches \in Nat
ASSUME FlagsAssumption ==
  /\ NoBuild \in BOOLEAN /\ HasReleaseDir \in BOOLEAN /\ KeepGoing \in BOOLEAN
ASSUME GoalsAssumption == Goals \subseteq Stages

VARIABLES
  cookies,  \* the stages whose cookie file exists in WRKDIR
  made,     \* what each stage has produced, and in what condition
  applied,  \* how often each patch file has been applied to the source tree
  dirty,    \* an rm -rf of WRKDIR has begun and none has ended since
  goal,     \* the stage the running make was asked for, 0 when there is none
  at,       \* the stage whose real- target is running
  pc,       \* where in that target, or in clean or reinstall, the session is
  force,    \* FORCE_INSTPKG is defined for the session
  next      \* the patch file the loop of do-patch has come to

disk == <<cookies, made, applied, dirty>>
session == <<goal, at, pc, force, next>>
vars == <<disk, session>>

PatchFiles == 1 .. NPatches
InWrkdir == Extract .. Package           \* what rm -rf WRKDIR takes away
Condition == {"none", "torn", "whole", "stale"}
Complete == {"whole", "stale"}
Phony == IF NoBuild THEN {Build} ELSE {}  \* stages made on every call, no do-

Steps == {"idle", "unmark", "unstage", "wipe", "wiping", "checksum", "depends",
          "claim", "pkgrm", "skip", "do", "run", "touch", "touched"}

Init ==
  /\ cookies = {} /\ dirty = FALSE
  /\ applied = [i \in PatchFiles |-> 0]
  /\ \E rel, db \in {"none", "whole"} :
       made = [s \in Stages |-> IF s = Release THEN rel
                                ELSE IF s = InstPkg THEN db ELSE "none"]
  /\ goal = 0 /\ at = 0 /\ pc = "idle" /\ force = FALSE /\ next = 1
-----------------------------------------------------------------------------
(* Starting a session.                                                     *)

\* Mutant: a make that looks at the cookie of the last stage only.
StartsAtGoal(g, s) == s = g

\* Every stage from s up to g is one whose rule will run: s - 1 is the first
\* that `make g` finds made on its way down.
StartsAt(g, s) ==
  /\ s \in Extract .. g
  /\ \A t \in s .. g : t \in cookies => t \in Phony
  /\ s = Extract \/ (s - 1 \in cookies /\ s - 1 \notin Phony)

\* The first command of real-<s> that matters.
Entry(s) ==
  CASE s = Extract -> "checksum"
    [] s = InstPkg -> "claim"
    [] s \in Phony -> "skip"
    [] OTHER -> "do"

Descend(g) ==
  \E s \in Stages :
    /\ StartsAt(g, s)
    /\ goal' = g /\ at' = s /\ pc' = Entry(s) /\ UNCHANGED next

Make(g, f) ==
  /\ pc = "idle" /\ (f => g = InstPkg)
  /\ Descend(g) /\ force' = f
  /\ UNCHANGED disk

Stop == goal' = 0 /\ at' = 0 /\ pc' = "idle" /\ force' = FALSE /\ next' = 1

\* Mutant: `cd ...; make` for `cd ... && make`, its status lost.
SubmakeIgnored(then) == pc' = then /\ UNCHANGED <<goal, at, force, next>>

\* A sub-make failed: its parent stops too, unless -k made it exit with 0.
SubmakeFails(then) ==
  IF KeepGoing THEN pc' = then /\ UNCHANGED <<goal, at, force, next>> ELSE Stop
-----------------------------------------------------------------------------
(* clean and reinstall.                                                    *)

Clean ==
  /\ pc = "idle" /\ pc' = "wipe"
  /\ UNCHANGED <<disk, goal, at, force, next>>

\* rm -rf takes some of the cookies and some of every tree, in any order ...
WipeBegin ==
  /\ pc = "wipe" /\ pc' = "wiping"
  /\ cookies' \in SUBSET cookies
  /\ made' = [s \in Stages |->
                IF s \in InWrkdir /\ made[s] # "none" THEN "torn" ELSE made[s]]
  /\ dirty' = TRUE
  /\ UNCHANGED <<applied, goal, at, force, next>>

\* ... and then the rest.  do-extract goes on to unpack the distfiles.
WipeEnd ==
  /\ pc = "wiping"
  /\ cookies' = {}
  /\ made' = [s \in Stages |->
                IF s \notin InWrkdir THEN made[s]
                ELSE IF s = at THEN "torn" ELSE "none"]
  /\ applied' = [i \in PatchFiles |-> 0]
  /\ dirty' = FALSE
  /\ IF at = Extract THEN pc' = "run" /\ UNCHANGED <<goal, at, force, next>>
                     ELSE Stop

Outdated(c) == IF c = "whole" THEN "stale" ELSE c

Reinstall ==
  /\ pc = "idle" /\ pc' = "unmark"
  /\ UNCHANGED <<disk, goal, at, force, next>>

\* Mutant: reinstall forgets the cookie.
UnmarkNothing ==
  pc = "unmark" /\ pc' = "unstage" /\ UNCHANGED <<disk, goal, at, force, next>>

Unmark ==
  /\ pc = "unmark" /\ pc' = "unstage"
  /\ cookies' = cookies \ {Install}
  /\ UNCHANGED <<made, applied, dirty, goal, at, force, next>>

\* rm -rf INSTPREFIX, whole or cut short, and the `make install` after it
Unstage ==
  /\ pc = "unstage"
  /\ \/ /\ made' = [made EXCEPT ![Install] = "none", ![Package] = Outdated(@)]
        /\ Descend(Install) /\ UNCHANGED force
     \/ /\ made' = [made EXCEPT ![Install] = IF @ = "none" THEN @ ELSE "torn",
                                ![Package] = Outdated(@)]
        /\ Stop
  /\ UNCHANGED <<cookies, applied, dirty>>
-----------------------------------------------------------------------------
(* The real- targets.                                                      *)

CheckSum ==
  /\ pc = "checksum"
  /\ \/ pc' = "depends" /\ UNCHANGED <<goal, at, force, next>>
     \/ SubmakeFails("depends")
  /\ UNCHANGED disk

\* build-depends and lib-depends of real-extract, run-depends and lib-depends
\* of real-instpkg
Depends ==
  /\ pc = "depends"
  /\ LET then == IF at = Extract THEN "wipe" ELSE "do"
     IN  \/ pc' = then /\ UNCHANGED <<goal, at, force, next>>
         \/ SubmakeFails(then)
  /\ UNCHANGED disk

\* Mutant: real-instpkg without the pkginfo -q.
ClaimUnchecked ==
  /\ pc = "claim" /\ pc' = "depends"
  /\ UNCHANGED <<disk, goal, at, force, next>>

\* real-instpkg: without FORCE_INSTPKG an installed package is an error; with
\* it, a package that is not installed is one, for pkgrm.
Claim ==
  /\ pc = "claim"
  /\ IF force = (made[InstPkg] # "none")
       THEN /\ pc' = IF force THEN "pkgrm" ELSE "depends"
            /\ made' = [made EXCEPT ![InstPkg] = IF force THEN "torn" ELSE @]
            /\ UNCHANGED <<goal, at, force, next>>
       ELSE Stop /\ UNCHANGED made
  /\ UNCHANGED <<cookies, applied, dirty>>

PkgRm ==
  /\ pc = "pkgrm"
  /\ \/ /\ pc' = "depends" /\ made' = [made EXCEPT ![InstPkg] = "none"]
        /\ UNCHANGED <<goal, at, force, next>>
     \/ Stop /\ UNCHANGED made
  /\ UNCHANGED <<cookies, applied, dirty>>

\* `build: configure` of a NO_BUILD port touches the cookie and does nothing.
Skip ==
  /\ pc = "skip" /\ pc' = "touched"
  /\ made' = [made EXCEPT ![at] = made[at - 1]]
  /\ cookies' = cookies \cup {at}
  /\ UNCHANGED <<applied, dirty, goal, at, force, next>>

\* do-<stage> may stop before it has changed anything: a cd, a generated file
DoFails ==
  /\ pc = "do" /\ SubmakeFails("touch")
  /\ UNCHANGED disk

\* It starts to write: what the stage makes is torn until it ends.  Writing
\* INSTPREFIX anew puts the spooled package out of date.
DoBegin ==
  /\ pc = "do" /\ ~(at = Release /\ ~HasReleaseDir)
  /\ pc' = "run" /\ next' = 1
  /\ made' = [made EXCEPT ![at] = "torn",
                          ![Package] = IF at = Package THEN "torn"
                                       ELSE IF at = Install THEN Outdated(@)
                                       ELSE @]
  /\ UNCHANGED <<cookies, applied, dirty, goal, at, force>>

\* do-release without a release directory is an `if` that is not taken.
NoRelease ==
  /\ pc = "do" /\ at = Release /\ ~HasReleaseDir
  /\ pc' = "touch" /\ UNCHANGED <<disk, goal, at, force, next>>

\* gpatch -N refuses a patch that is applied already.
ApplyPatch ==
  /\ pc = "run" /\ at = Patch /\ next \in PatchFiles /\ applied[next] = 0
  /\ applied' = [applied EXCEPT ![next] = @ + 1]
  /\ next' = next + 1
  /\ UNCHANGED <<cookies, made, dirty, goal, at, pc, force>>

\* Mutant: a failed stage is tried again.
RunRetries ==
  /\ pc = "run" /\ pc' = "do" /\ UNCHANGED <<disk, goal, at, force, next>>

RunFails ==
  /\ pc = "run" /\ SubmakeFails("touch")
  /\ UNCHANGED disk

\* A stage is as good as what it was made from.
Input(s) == IF s = InstPkg THEN Package ELSE s - 1
Result(s) ==
  IF s = Extract THEN "whole"
  ELSE IF made[Input(s)] \in Complete THEN made[Input(s)] ELSE "torn"

RunEnd ==
  /\ pc = "run" /\ (at = Patch => next \notin PatchFiles)
  /\ pc' = "touch"
  /\ made' = [made EXCEPT ![at] = Result(at)]
  /\ UNCHANGED <<cookies, applied, dirty, goal, at, force, next>>

\* Mutant: the cookie of the goal is touched, not that of the stage.
TouchGoal ==
  /\ pc = "touch" /\ pc' = "touched"
  /\ cookies' = cookies \cup {goal}
  /\ UNCHANGED <<made, applied, dirty, goal, at, force, next>>

Touch ==
  /\ pc = "touch" /\ pc' = "touched"
  /\ cookies' = cookies \cup {at}
  /\ UNCHANGED <<made, applied, dirty, goal, at, force, next>>

\* `make <stage>` is done; the rule that called it runs the next real- target.
Advance ==
  /\ pc = "touched"
  /\ IF at = goal THEN Stop
     ELSE /\ at' = at + 1 /\ pc' = Entry(at + 1)
          /\ UNCHANGED <<goal, force, next>>
  /\ UNCHANGED disk
-----------------------------------------------------------------------------
(* What may cut a session short, and the other terminal.                   *)

\* Every make of the nest unlinks the target it is making: the cookies of the
\* stages from at to goal, a NO_BUILD port's `build` being no file.
Interrupt ==
  /\ pc # "idle"
  /\ cookies' = cookies \ ((at .. goal) \ Phony)
  /\ Stop /\ UNCHANGED <<made, applied, dirty>>

Crash == pc # "idle" /\ Stop /\ UNCHANGED disk

\* pkgrm and pkgadd lock the package database.
UserPkgRm ==
  /\ made[InstPkg] # "none" /\ pc # "pkgrm" /\ ~(pc = "run" /\ at = InstPkg)
  /\ made' = [made EXCEPT ![InstPkg] = "none"]
  /\ UNCHANGED <<cookies, applied, dirty, session>>

Work ==
  \/ WipeBegin \/ WipeEnd \/ Unmark \/ Unstage
  \/ CheckSum \/ Depends \/ Claim \/ PkgRm \/ Skip
  \/ DoFails \/ DoBegin \/ NoRelease \/ ApplyPatch \/ RunFails \/ RunEnd
  \/ Touch \/ Advance

Operator ==
  \/ \E g \in Goals, f \in BOOLEAN : Make(g, f)
  \/ Clean \/ Reinstall

Next == Operator \/ Work \/ Interrupt \/ Crash \/ UserPkgRm

\* Nobody has to start a session, but a started one goes on by itself.
Spec == Init /\ [][Next]_vars /\ WF_vars(Work)
-----------------------------------------------------------------------------
(* Properties.                                                             *)

\* Types, and what at and goal can be at each step of a session.
TypeOK ==
  /\ cookies \subseteq Stages /\ dirty \in BOOLEAN /\ force \in BOOLEAN
  /\ made \in [Stages -> Condition]
  /\ applied \in [PatchFiles -> 0 .. 1]
  /\ goal \in 0 .. InstPkg /\ at \in 0 .. goal
  /\ pc \in Steps /\ next \in 1 .. NPatches + 1

\* What a cookie says of the work directory.  The spool may be older than
\* INSTPREFIX; a package may have been removed since, but is never half there.
Vouches(s) ==
  CASE s = Release -> HasReleaseDir => made[s] \in Complete
    [] s = InstPkg -> made[s] # "torn"
    [] s = Package -> made[s] \in Complete
    [] s = Install -> made[s] = "whole"
    [] OTHER -> made[s] = "whole" /\ \A i \in PatchFiles : s >= Patch => applied[i] = 1

\* A cookie never lies (port.mk 541-682): after any failures, interrupts,
\* crashes and reinstalls, each existing cookie stands for a stage that ran to
\* its end on complete inputs, with every patch applied exactly once - unless
\* an rm -rf of WRKDIR was cut short and none has ended since.
CookiesTruthful == ~dirty => \A s \in cookies : Vouches(s)

\* Stages are made in order (port.mk 541-564): below a cookie every cookie
\* exists, but for INSTALL_COOKIE, which reinstall takes away alone.
CookiesInOrder ==
  ~dirty => \A s \in cookies, t \in Stages \ {Install} : t < s => t \in cookies

\* bmake's promise for a failed source (and make.1's for -k): no do-<stage>
\* runs on what an earlier stage left unfinished.
NoStageOnTornInput ==
  pc \in {"do", "run"} /\ at > Extract /\ ~dirty => made[Input(at)] # "torn"

\* An installed package survives every session that does not define
\* FORCE_INSTPKG, however it ends (port.mk 664-682): although a whole run of
\* run-depends lies between the pkginfo -q and the pkgadd, pkgadd never lands
\* on an installed package, and only a pkgrm by hand takes one away.
InstalledSurvives ==
  [][made[InstPkg] \in Complete /\ made'[InstPkg] # made[InstPkg] =>
       force \/ (made'[InstPkg] = "none" /\ UNCHANGED session)]_vars

\* Once out of date, a spooled package with its cookie stays: package, release
\* and instpkg all use it, until the work directory is wiped (port.mk 566-571).
StaleUntilWiped ==
  [][made[Package] = "stale" /\ Package \in cookies /\ ~dirty =>
       made'[Package] = "stale" \/ pc \in {"wipe", "wiping"}]_vars

\* How far the make of instpkg is, as the port that called it sees it
SlotPhase ==
  IF goal # InstPkg THEN "idle"
  ELSE IF at # InstPkg THEN "stages"
  ELSE CASE pc \in {"claim", "pkgrm"} -> "stages"
         [] pc \in {"depends", "do"} -> "claimed"
         [] pc = "run" -> "adding"
         [] pc = "touch" -> "added"
         [] OTHER -> "marked"

Slot == INSTANCE PortSlot WITH
  found <- made[InstPkg] # "none", marked <- InstPkg \in cookies,
  phase <- SlotPhase, forced <- force

\* Without -k, whatever the stages, failures, interrupts, wipes and reinstalls
\* of a port do, its package and instpkg cookie go through the few steps of
\* PortSlot, all that the make of a port above relies on (port.mk 664-682).
SlotSpec == Slot!Spec

\* Every session ends: no make of the nest waits or loops for ever.
SessionsEnd == pc # "idle" ~> pc = "idle"
-----------------------------------------------------------------------------
(* The invariant the proofs are by induction on.                           *)

\* Which stages the steps of a session belong to
Shape ==
  /\ pc \in {"idle", "unmark", "unstage"} => at = 0 /\ goal = 0
  /\ pc \in {"wipe", "wiping"} => at = Extract \/ (at = 0 /\ goal = 0)
  /\ pc = "checksum" => at = Extract
  /\ pc = "depends" => at \in {Extract, InstPkg}
  /\ pc \in {"claim", "pkgrm"} => at = InstPkg
  /\ pc = "skip" => at \in Phony
  /\ pc = "do" => at \in Stages \ (Phony \cup {Extract})
  /\ pc \in {"run", "touch"} => at \in Stages \ Phony
  /\ pc = "touched" => at \in cookies
  /\ pc = "wiping" => dirty
  /\ pc = "unstage" => Install \notin cookies

\* The nest still has to make all the stages from at to goal.
Undone ==
  at > 0 => \A t \in (at .. goal) \ Phony : t \in cookies => t = at /\ pc = "touched"

\* Between the check of real-instpkg and pkgadd the package is not installed;
\* under pkgrm and pkgadd it is half there.
Claimed ==
  at = InstPkg => /\ pc \in {"depends", "do"} => made[InstPkg] = "none"
                  /\ pc \in {"pkgrm", "run"} => made[InstPkg] = "torn"

Patching ==
  pc = "run" /\ at = Patch => \A i \in 1 .. next - 1 : applied[i] = 1

\* What the nest has below it, and what it is about to put a cookie on
InOrder ==
  /\ CookiesInOrder
  /\ ~dirty /\ at > Extract =>
       \A t \in Stages : t < at /\ (t # Install \/ at = Package) => t \in cookies
  /\ ~dirty /\ pc = "touched" /\ at # Install /\ at \notin Phony =>
       \A s \in cookies : s <= at
Truthful ==
  /\ CookiesTruthful
  /\ ~dirty /\ pc = "touch" => Vouches(at)

IInv == TypeOK /\ Shape /\ Undone /\ Claimed /\ Patching /\ InOrder /\ Truthful
=============================================================================
