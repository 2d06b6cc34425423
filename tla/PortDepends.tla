----------------------------- MODULE PortDepends -----------------------------
(***************************************************************************)
(* How `make instpkg` of one port installs the ports it depends on          *)
(* (ports/Mk/port.mk 902-954).                                              *)
(*                                                                         *)
(* The real-extract of a port goes through BUILD_DEPENDS and LIB_DEPENDS,   *)
(* its real-instpkg through LIB_DEPENDS and RUN_DEPENDS.  For an entry      *)
(* pkg:dir that `pkginfo -q pkg` does not find, it runs `make instpkg` in   *)
(* dir, which does the same for its own entries: a stack of nested makes,   *)
(* one per port, that share the package database and nothing else.  A       *)
(* failure anywhere ends them all.                                          *)
(*                                                                         *)
(* The stages of each port are those of PortBuild, cut down to the points   *)
(* where ports meet: the loop of real-extract, the stages up to release,    *)
(* the check of real-instpkg, its loop, and pkgadd.                         *)
(***************************************************************************)
EXTENDS Integers, Sequences, FiniteSets

CONSTANTS
  Ports,       \* the port directories
  Pkgs,        \* the names of packages
  PkgOf,       \* [Ports -> Pkgs], the PKG of each port
  BuildDeps, LibDeps, RunDeps,  \* [Ports -> Seq(Entries)], the *_DEPENDS
  NoDir,       \* the directory of an entry whose port does not exist
  Ignored,     \* the ports that define IGNORE
  Rank,        \* [Ports -> Nat], a witness that the dependencies are acyclic
  Goals,       \* the ports the operator runs `make instpkg` in
  Touchable    \* the ports the operator cleans, or pkgrms the package of

Entries == [pkg : Pkgs, dir : Ports \cup {NoDir}]

\* DEPENDS_TMP in `make build-depends lib-depends` and `run-depends lib-depends`
BuildTime(p) == BuildDeps[p] \o LibDeps[p]
RunTime(p) == LibDeps[p] \o RunDeps[p]

ASSUME PortsAssumption ==
  /\ NoDir \notin Ports
  /\ PkgOf \in [Ports -> Pkgs]
  /\ BuildDeps \in [Ports -> Seq(Entries)]
  /\ LibDeps \in [Ports -> Seq(Entries)]
  /\ RunDeps \in [Ports -> Seq(Entries)]
  /\ Ignored \subseteq Ports /\ Goals \subseteq Ports /\ Touchable \subseteq Ports

\* The dependencies of the 188 ports of the tree have no cycle.
ASSUME AcyclicAssumption ==
  /\ Rank \in [Ports -> Nat]
  /\ \A p \in Ports : \A deps \in {BuildTime(p), RunTime(p)} :
       \A i \in DOMAIN deps :
         deps[i].dir # NoDir => Rank[deps[i].dir] < Rank[p]

VARIABLES
  db,     \* the installed packages, what pkginfo -q finds
  work,   \* how far the work directory of each port has come
  marked, \* the ports with an INSTPKG_COOKIE
  stack,  \* the nested makes, the one that runs last
  force,  \* FORCE_INSTPKG is defined for the session, in every nested make
  last    \* how the last session ended

\* What the properties remember of the running session: the packages and
\* cookies there were when it began, and the packages pkgrm'd by hand since.
VARIABLES base, stood, taken

history == <<base, stood, taken>>
vars == <<db, work, marked, stack, force, last, history>>

Loops == {"builddeps", "rundeps"}
Phases ==
  Loops \cup {"enter", "build", "claim", "add", "adding", "added", "marked"}
Frames == [port : Ports, phase : Phases, i : Nat \ {0}]

Init ==
  /\ db \in SUBSET {PkgOf[p] : p \in Touchable}
  /\ work = [p \in Ports |-> "none"] /\ marked = {}
  /\ stack = <<>> /\ force = FALSE /\ last = "none"
  /\ base = {} /\ stood = {} /\ taken = {}
-----------------------------------------------------------------------------
(* The stack of makes.                                                     *)

Depth == Len(stack)
Top == stack[Depth]
Running == stack # <<>>

\* Mutant: the loop calls make without going to the directory of the entry.
FrameHere(p) ==
  [port |-> IF Running THEN Top.port ELSE p, phase |-> "enter", i |-> 1]

Frame(p) == [port |-> p, phase |-> "enter", i |-> 1]

At(phase) == Running /\ Top.phase = phase
Goto(phase) ==
  stack' = [stack EXCEPT ![Depth] = [port |-> @.port, phase |-> phase, i |-> 1]]

\* The make of the top of the stack ends well: the loop that called it goes
\* on, or the session is over.
Return ==
  /\ stack' = SubSeq(stack, 1, Depth - 1)
  /\ last' = IF Depth = 1 THEN "ok" ELSE last
\* It fails, and with it every make below.
Fail == stack' = <<>> /\ last' = "failed"
-----------------------------------------------------------------------------
InstPkg(p, f) ==
  /\ ~Running
  /\ stack' = <<Frame(p)>> /\ force' = f /\ last' = "none"
  /\ base' = db /\ stood' = marked /\ taken' = {}
  /\ UNCHANGED <<db, work, marked>>

\* An ignored port says so and ends well, and so does one whose cookie exists.
\* Else the nest of stages starts where the work directory has come to.
Enter ==
  /\ At("enter")
  /\ \/ /\ Top.port \in Ignored \cup marked
        /\ Return
     \/ /\ Top.port \notin Ignored \cup marked
        /\ Goto(CASE work[Top.port] = "none" -> "builddeps"
                  [] work[Top.port] = "extracted" -> "build"
                  [] OTHER -> "claim")
        /\ UNCHANGED last
  /\ UNCHANGED <<db, work, marked, force, history>>

NextEntry == [stack EXCEPT ![Depth].i = @ + 1]

\* Mutant: no pkginfo -q before `make instpkg`.
EntryUnchecked(deps, then) ==
  LET e == deps[Top.i] IN
  /\ IF Top.i > Len(deps) THEN Goto(then)
     ELSE IF e.dir = NoDir THEN stack' = NextEntry
     ELSE stack' = Append(NextEntry, Frame(e.dir))
  /\ UNCHANGED <<db, work, marked, force, last, history>>

\* Mutant: an entry is verified again after its make has returned.
EntryVerified(deps, then) ==
  LET e == deps[Top.i] IN
  /\ IF Top.i > Len(deps) THEN Goto(then)
     ELSE IF e.pkg \in db \/ e.dir = NoDir THEN stack' = NextEntry
     ELSE stack' = Append(stack, Frame(e.dir))
  /\ UNCHANGED <<db, work, marked, force, last, history>>

\* Mutant: no test that the directory exists.
EntryAnywhere(deps, then) ==
  LET e == deps[Top.i] IN
  /\ IF Top.i > Len(deps) THEN Goto(then)
     ELSE IF e.pkg \in db THEN stack' = NextEntry
     ELSE stack' = Append(NextEntry, Frame(e.dir))
  /\ UNCHANGED <<db, work, marked, force, last, history>>

\* One entry of the loop of _DEPENDS_USE, or its end
Entry(deps, then) ==
  LET e == deps[Top.i] IN
  /\ IF Top.i > Len(deps) THEN Goto(then)
     ELSE IF e.pkg \in db \/ e.dir = NoDir THEN stack' = NextEntry
     ELSE stack' = Append(NextEntry, Frame(e.dir))
  /\ UNCHANGED <<db, work, marked, force, last, history>>

BuildEntry == At("builddeps") /\ Entry(BuildTime(Top.port), "build")

\* Mutant: real-instpkg makes run-depends only.
RunEntryOnly == At("rundeps") /\ Entry(RunDeps[Top.port], "add")

RunEntry == At("rundeps") /\ Entry(RunTime(Top.port), "add")

\* do-extract to real-release: each stage may fail, the first one wiping the
\* work directory before it does.
Build ==
  /\ At("build")
  /\ \/ /\ work' = [work EXCEPT ![Top.port] = "released"]
        /\ Goto("claim") /\ UNCHANGED last
     \/ work' = [work EXCEPT ![Top.port] = "extracted"] /\ Fail
     \/ UNCHANGED work /\ Fail
  /\ UNCHANGED <<db, marked, force, history>>

\* Mutant: only the first make of the nest is forced.
ClaimForcedOnce ==
  /\ At("claim")
  /\ IF (force /\ Depth = 1) = (PkgOf[Top.port] \in db)
       THEN db' = db \ {PkgOf[Top.port]} /\ Goto("rundeps") /\ UNCHANGED last
       ELSE Fail /\ UNCHANGED db
  /\ UNCHANGED <<work, marked, force, history>>

\* real-instpkg: pkgrm of a package that is not installed is an error, and so
\* is, without FORCE_INSTPKG, a package that is.
Claim ==
  /\ At("claim")
  /\ IF force = (PkgOf[Top.port] \in db)
       THEN db' = db \ {PkgOf[Top.port]} /\ Goto("rundeps") /\ UNCHANGED last
       ELSE Fail /\ UNCHANGED db
  /\ UNCHANGED <<work, marked, force, history>>

\* Mutant: do-instpkg succeeds without pkgadd.
AddNothing ==
  /\ At("add") /\ Goto("adding")
  /\ UNCHANGED <<db, work, marked, force, last, history>>

\* pkgadd begins, and pkginfo -q finds something; or it fails at once.
Add ==
  /\ At("add")
  /\ \/ db' = db \cup {PkgOf[Top.port]} /\ Goto("adding") /\ UNCHANGED last
     \/ Fail /\ UNCHANGED db
  /\ UNCHANGED <<work, marked, force, history>>

\* It ends; one that fails leaves what pkginfo -q finds.
Added ==
  /\ At("adding")
  /\ (Goto("added") /\ UNCHANGED last) \/ Fail
  /\ UNCHANGED <<db, work, marked, force, history>>

\* The cookie is touched ...
Mark ==
  /\ At("added") /\ Goto("marked")
  /\ marked' = marked \cup {Top.port}
  /\ UNCHANGED <<db, work, force, last, history>>

\* ... and the make whose target it is ends.
Leave ==
  /\ At("marked") /\ Return
  /\ UNCHANGED <<db, work, marked, force, history>>
-----------------------------------------------------------------------------
\* ^C or a crash ends every make; ^C removes a target that is there, which is
\* the cookie a make has just touched.
Abort ==
  /\ Running /\ Fail
  /\ \/ UNCHANGED marked
     \/ At("marked") /\ marked' = marked \ {Top.port}
  /\ UNCHANGED <<db, work, force, history>>

Clean(p) ==
  /\ ~Running /\ (work[p] # "none" \/ p \in marked)
  /\ work' = [work EXCEPT ![p] = "none"] /\ marked' = marked \ {p}
  /\ UNCHANGED <<db, stack, force, last, history>>

\* pkgrm by hand, at any time, leaves the cookie of the port alone; it waits for
\* a pkgadd.
PkgRm(p) ==
  /\ PkgOf[p] \in db /\ ~At("adding")
  /\ db' = db \ {PkgOf[p]}
  /\ taken' = IF Running THEN taken \cup {PkgOf[p]} ELSE taken
  /\ UNCHANGED <<work, marked, stack, force, last, base, stood>>

Work ==
  \/ Enter \/ BuildEntry \/ RunEntry \/ Build
  \/ Claim \/ Add \/ Added \/ Mark \/ Leave

Next ==
  \/ \E p \in Goals, f \in BOOLEAN : InstPkg(p, f)
  \/ Work \/ Abort
  \/ \E p \in Touchable : Clean(p) \/ PkgRm(p)

\* Nobody has to start a session, but a started one goes on by itself.
Spec == Init /\ [][Next]_vars /\ WF_vars(Work)
-----------------------------------------------------------------------------
(* Properties.                                                             *)

\* The types of the variables.
TypeOK ==
  /\ db \subseteq Pkgs /\ base \subseteq Pkgs /\ taken \subseteq Pkgs
  /\ marked \subseteq Ports /\ stood \subseteq Ports
  /\ work \in [Ports -> {"none", "extracted", "released"}]
  /\ stack \in Seq(Frames)
  /\ force \in BOOLEAN /\ last \in {"none", "ok", "failed"}

\* No port is entered twice: two makes of one nest never work in one work
\* directory (port.mk 941 calls make again with no check and no lock).
NoReentry ==
  \A j, k \in 1 .. Depth : stack[j].port = stack[k].port => j = k

\* What excuses a dependency that is not there: its directory is missing
\* (port.mk 938), its port is ignored (453-486), does not make the package it is
\* looked up by, or shares it with another port; the cookie of its port was
\* there before (562), so that the make in its directory does nothing; or the
\* package was removed by hand after the loop had found it.
Excused(e) ==
  \/ e.dir = NoDir
  \/ e.dir \in Ignored \cup stood
  \/ \E q \in Ports : (PkgOf[q] = e.pkg) # (q = e.dir)
  \/ e.pkg \in taken

\* The sources of a port are unpacked, and its package added, only when every
\* dependency its loops have gone through is installed, or excused: whatever the
\* nested makes did meanwhile, none of them takes away what an earlier entry
\* found (port.mk 592, 674).
DependsInstalled ==
  LET Installed(deps) ==
        \A j \in DOMAIN deps : deps[j].pkg \in db \/ Excused(deps[j])
  IN  /\ At("build") /\ work[Top.port] = "none" => Installed(BuildTime(Top.port))
      /\ At("add") => Installed(RunTime(Top.port))

\* When `make instpkg` says it succeeded (port.mk 664-682), its package is
\* installed - unless the port is ignored or its cookie stood already - and no
\* package is gone that was there before: what FORCE_INSTPKG removed, in this
\* port or in one below, has been added again.  Only pkgrm by hand undoes it.
SuccessKeeps ==
  [][Running /\ last' = "ok" =>
       /\ \/ PkgOf[stack[1].port] \in db' \cup taken
          \/ stack[1].port \in Ignored \cup stood
       /\ base \subseteq db' \cup taken]_vars

\* Every entry names the package its directory makes, and no two ports make
\* the same.
WellNamed ==
  /\ \A p \in Ports : \A deps \in {BuildTime(p), RunTime(p)} : \A i \in DOMAIN deps :
       deps[i].dir # NoDir => PkgOf[deps[i].dir] = deps[i].pkg
  /\ \A p, q \in Ports : PkgOf[p] = PkgOf[q] => p = q

\* The pkginfo -q of real-instpkg never stops a port that another one needs:
\* what was not installed when the loop looked (port.mk 929) still is not after
\* the whole build of the dependency (port.mk 668), if entries are well named.
DependencyNotBlocked ==
  WellNamed /\ At("claim") /\ Depth > 1 => PkgOf[Top.port] \notin db

\* FORCE_INSTPKG reaches every make of the nest, where pkgrm of a package that
\* is missing is an error (port.mk 666): a forced session never adds a missing
\* dependency, if entries are well named.
ForcedNestAddsNothing ==
  WellNamed /\ force => \A k \in 2 .. Depth : stack[k].phase \notin {"rundeps", "add"}

\* The make of p is in one of these phases.
In(p, phases) == \E k \in 1 .. Depth : stack[k].port = p /\ stack[k].phase \in phases

\* How the make of p looks to the ports above it
SlotPhase(p) ==
  CASE In(p, {"builddeps", "build", "claim"}) -> "stages"
    [] In(p, {"rundeps", "add"}) -> "claimed"
    [] In(p, {"adding"}) -> "adding"
    [] In(p, {"added"}) -> "added"
    [] In(p, {"marked"}) -> "marked"
    [] OTHER -> "idle"

Slot(p) == INSTANCE PortSlot WITH
  found <- PkgOf[p] \in db, marked <- p \in marked,
  phase <- SlotPhase(p), forced <- force /\ SlotPhase(p) # "idle"

\* No other port makes the package of p.
Own(p) == \A q \in Ports : PkgOf[q] = PkgOf[p] => q = p

\* Each port of the tree keeps the promise of PortSlot, which is that of
\* PortBuild, whatever the makes above and below it do, unless another port makes
\* the same package (port.mk 561-564, 664-682, 923-950).
SlotsKept ==
  /\ \A p \in Ports : Own(p) => Slot(p)!Init
  /\ [][\A p \in Ports : Own(p) => [Slot(p)!Next]_(Slot(p)!vars)]_vars

\* However deep the dependencies, every session ends.
SessionsEnd == Running ~> ~Running
-----------------------------------------------------------------------------
(* The invariant the proofs are by induction on.                           *)

\* Each make was called by the loop of the one below, from an entry that lies
\* lower in the dependencies.
Nested ==
  /\ \A k, m \in 1 .. Depth : k < m => Rank[stack[m].port] < Rank[stack[k].port]
  /\ \A k \in 1 .. Depth - 1 : stack[k].phase \in Loops

\* The make at depth k has removed or not found its package, and will add it.
InHand(k, g) ==
  k \in 1 .. Depth /\ PkgOf[stack[k].port] = g /\ stack[k].phase \in {"rundeps", "add"}

RemovedIsInHand ==
  Running => \A g \in base : g \in db \cup taken \/ \E k \in 1 .. Depth : InHand(k, g)

\* What pkgadd has installed is there.
Installing == {"adding", "added", "marked"}
AddedInstalled ==
  Running /\ Top.phase \in Installing => PkgOf[Top.port] \in db \cup taken

\* A cookie made in this session stands for a package that is there.
MarkedInstalled ==
  Running => \A p \in marked \ stood :
    PkgOf[p] \in db \cup taken \/ \E k \in 1 .. Depth : InHand(k, PkgOf[p])

LoopDeps(f) == IF f.phase = "builddeps" THEN BuildTime(f.port) ELSE RunTime(f.port)

\* An entry the make at depth k is done with is installed or excused, or a make
\* above will add it again ...
Settled(k, e) ==
  e.pkg \in db \/ Excused(e) \/ \E m \in k + 1 .. Depth : InHand(m, e.pkg)

\* ... and so are all that a loop has gone by, but for the one it called.
LoopsDone ==
  \A k \in 1 .. Depth : stack[k].phase \in Loops =>
    \A j \in DOMAIN LoopDeps(stack[k]) : \A e \in {LoopDeps(stack[k])[j]} :
      j < stack[k].i =>
        Settled(k, e) \/ (k < Depth /\ j = stack[k].i - 1 /\ e.dir = stack[k + 1].port)

\* What a nested make was called for is not there until it adds it.
CalledFor ==
  \A k \in 2 .. Depth :
    WellNamed /\ stack[k].phase \notin Installing => PkgOf[stack[k].port] \notin db

\* A session has not ended, and its first make starts before any cookie is made.
Unended ==
  Running => last = "none" /\ (stack[1].phase = "enter" => marked = stood)

IInv ==
  /\ TypeOK /\ Unended /\ Nested /\ RemovedIsInHand /\ AddedInstalled
  /\ MarkedInstalled /\ LoopsDone
  /\ DependsInstalled /\ CalledFor /\ ForcedNestAddsNothing
=============================================================================
