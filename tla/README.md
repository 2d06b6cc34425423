# Solarpack in TLA+

Solarpack builds Solaris packages from source. Every piece of software is a
*port*, a directory with a short Makefile that includes `ports/Mk/port.mk`; bmake
runs the targets of that file, and shell commands in them do the work. The
program is therefore a make file, and make: the one's state is files (cookies, work directories,
distribution files, checksum lists) and the package database, its control flow
is nests of makes that call each other, and nothing takes a lock or rolls
anything back. What can go wrong is what a session leaves behind that fails, is
interrupted, or meets another one, and what the next session makes of it. The
other's state is a graph of targets and a table of running jobs; what can go wrong
there is a target that is made too early, twice, never, or not although it should.

This directory holds TLA+ modules of that behaviour, the TLC configurations that
check them, and theorems proved with TLAPS.

## Contents

| Module | What it is |
|---|---|
| `PortSlot` | what one port promises the ports above it (abstract) |
| `PortBuild` | one port: stages, cookies, clean, reinstall, instpkg; implements `PortSlot` |
| `PortBuildProofs` | its theorems |
| `MCPortBuild` | its instances: `MCPortBuild.cfg`, `MCPortBuildNoBuild.cfg`, `MCPortBuildDependents.cfg` |
| `PortDepends` | several ports: the nest of makes that installs dependencies; each port implements `PortSlot` |
| `PortDependsProofs` | its theorems |
| `PortDependsSlotProofs` | each port of it implements `PortSlot` |
| `MCPortDepends` | two excerpts of the tree: `MCPortDependsPerl.cfg`, `MCPortDependsGraph.cfg` |
| `Distfiles` | the shared directory of distribution files, checksums, makesum, distclean |
| `DistfilesProofs` | its theorems |
| `MCDistfiles` | two excerpts of the tree: `MCDistfilesSums.cfg`, `MCDistfilesTogether.cfg` |
| `MakeGraph` | what make promises of a graph of targets (abstract) |
| `MakeGraphProofs` | what follows from that promise |
| `BMakeJobs` | `make -j`: the fringe of make.c and the job table of job.c; implements `MakeGraph` |
| `BMakeJobsProofs` | its theorems |
| `MCBMakeJobs` | a small program: `MCBMakeJobs.cfg`, `MCBMakeJobsOrder.cfg` |
| `BMakeCompat` | make without `-j`: the recursion of compat.c; implements `MakeGraph` |
| `BMakeCompatProofs` | its theorems, for graphs with cycles too |
| `BMakeCompatFreshProofs` | its theorems about graphs without cycles: freshness and `MakeGraph` |
| `MCBMakeCompat` | a small program, with a cycle and without: `MCBMakeCompat.cfg`, `MCBMakeCompatRound.cfg`, `MCBMakeCompatAborted.cfg` |

`PROJECT.json` says which lines each definition stands for. Definitions whose
comment begins with *Mutant* are wrong on purpose: each is a plausible bug in the
definition after it, and no specification uses them. They document that the
properties notice.

## Inventory

Line numbers are those of `ports/Mk/port.mk` unless a file is named.

**Port stages** (194-201, 488-682, 714-853, 1075-1084). *State*: per port, a work
directory with one cookie file per stage (extract, patch, configure, build,
install, package, release, instpkg), the results of the stages, and the package
database. *Operations*: `make <stage>`, `clean`, `reinstall`, `instpkg` with and
without `FORCE_INSTPKG`. *Interaction*: the rule of a cookie runs `make` of the
stage before it and then `make real-<stage>`, which ends by touching the cookie;
extract and instpkg call the dependencies. *Hard*: failure, ^C (bmake removes the
target of every make of the nest, `compat.c` 112-140), SIGKILL, and `-k`, at any
point. *Correct if*: a cookie vouches for a completed stage; no stage works on
what was left unfinished; an installed package is never disturbed.

**Dependencies** (902-954). *State*: the package database, and the stack of
nested makes. *Operations*: the loops of build-, lib- and run-depends.
*Interaction*: for a package that `pkginfo -q` does not find, `make instpkg` in
the directory of its entry. *Hard*: the nest is as deep as the dependencies, each
level has read the database at an earlier time, entries may name a package their
directory does not make, directories may be missing, ports may be ignored, and
`FORCE_INSTPKG` reaches every level. *Correct if*: what a port needs is installed
when it is built and when it is added; the nest never re-enters a port and ends;
success means installed.

**Distfiles and checksums** (573-596, 686-765, 869-897, 1086-1112). *State*:
`DISTDIR`, one directory for all ports; a distinfo per port. *Operations*: fetch,
checksum, the reading of the files by extract and patch, makesum, makesum with
`MERGE_MD5=yes`, distclean. *Interaction*: files shared by two ports, sessions in
two terminals. *Hard*: a transfer that breaks off leaves a torn file; a file is
read twice, to be summed and to be unpacked; PATCHFILES are read in a later
session. *Correct if*: nothing is unpacked that the distinfo does not list.

**Variants of a master port** (22, 114, 232): ports with a `MASTERDIR`
(`editors/mule-canna`, `editors/emcws20-*`, `mail/mew-emacs20`, ...) use the work
directory, the cookies and the distinfo of another one. *Correct if*: the package
of a variant is made from the sources of that variant — which the cookies alone
do not ensure.

**Package metadata** (816-827, 957-1073, `ports/Template/pkginfo`): `gen-pkginfo`,
`gen-prototype`, `gen-depend`. Text is generated from variables; `depend` is
appended to (986), and `gen-depend-pkg-list` walks the dependencies once for each
way that leads to a port (958-966). *Correct if*: `depend` lists each dependency
once, after any number of sessions.

**Class action scripts** (`ports/Template/[ir].*`): run by pkgadd and pkgrm for
files of the classes backup, info, initd and shell. *State*: `/etc/shells`,
`info/dir`, `/etc/init.d` and `rc?.d`, `.bak` files. *Correct if*: removing a
package undoes what adding it did.

**Subdirectory traversal** (`ports/Mk/port.subdir.mk`, `ports/Makefile`): the same
target in each directory below, one after another.

**Configuration** (`port.pre.mk`, `port.site.mk`, `port.mk` 1-486): variables, no
state. What they decide is a constant of the modules: `IGNORE` (453-486) is
`Ignored`, `NO_BUILD` is `NoBuild`, `ALLFILES` (399) is `Needs`.

**Bootstrap** (`src/Makefile.in`, `src/bootstrap/rule.mk`, `src/tools/lndir.sh`,
`src/sunos.5.*.mk`): builds bmake, ftp, md5 and GNU tools with Solaris make, with
link trees and cookies of its own. *Correct if*: the required packages are there
(103-112 never finds one missing), and the cookies stand for what is built.

**bmake, making targets** (`src/contrib/bsd/bmake`: `make.c`, `job.c`,
`compat.c`). Every line above runs under it, and it is the one program here with
concurrency of its own. *State*: per node of the graph, whether it is made, how
many of its sources are not, the time of the youngest one, flags; in `make -j` the
list of nodes that may be made (the fringe), the table of jobs, the list of
stopped jobs, `jobFull`, `aborting`; in compat mode the stack of `CompatMake` and
`curTarg`. *Operations*: `Make_Run`, `MakeStartJobs`, `Make_Update`, `JobStart`,
`JobExec`, `Job_CatchChildren`, `JobFinish`, `JobRestart`, `JobPassSig`,
`JobInterrupt`; `Compat_Run`, `CompatMake`, `CompatRunCommand`, `CompatInterrupt`;
`Make_OODate` and `Make_Recheck` in both. *Interaction*: shells that are forked and
reaped, signals from the terminal that reach make and shells, files written by the
commands while make goes on. *Hard*: nodes restrained by `.ORDER` that somebody
else must put back, jobs that stop, errors with `-k` and without while other jobs
run, ^C between a fork and its entry in the table, cycles. *Correct if*: a target
is dealt with once, after all it depends on; no more than the limit run; after an
error nothing more than allowed is begun; what is passed over is fresh; make ends.

**bmake, the rest** (`parse.c`, `var.c`, `suff.c`, `dir.c`, `cond.c`, `for.c`,
`str.c`, `hash.c`, ...): builds the graph from text before anything is made.
**lukemftp** (vendored): what a transfer leaves. **Other vendored
tools** (gcc, tar, gzip, patch, ...) and the **ports** themselves (about 190
directories) are data here.

The hazards these components are exposed to are listed with their lines in
`PROJECT.json`.

## The modules

How they fit together: `PortBuild` is one frame of `PortDepends` taken apart;
`PortSlot` is what the two agree on. `Distfiles` is what extract and patch of
`PortBuild` do with files other ports share. `BMakeCompat` is the make that runs
each of the makes of these three; `MakeGraph` is what it and `BMakeJobs` agree on.

### PortSlot

One port seen from above: `found` is what `pkginfo -q` says, `marked` the cookie of
instpkg, `phase` how far a make of instpkg is. A package is taken away before one is
added, only if the make was forced; only a package that was added is marked; a make
may end anywhere. The two modules below implement it. `PortBuild!SlotSpec` maps the stages to it: everything before the
claim is `"stages"`, the claim is pkgrm or the finding that there is nothing to
remove, and an interrupt that takes the cookie with it is `Leave`. `PortDepends!Slot(p)`
maps one port of a nest of makes: its phase is that of the frame for `p`, of which there
is one at most, and it is forced while there is such a frame and the session is. What
other ports do is a stutter for `p` if no other one makes its package (`Own`); ports that
make the same one, in the tree the variants of `editors/emcws20-*`, of `editors/mule-*`,
and the two `xml4j`, disturb each other, and nothing is claimed of them.

### PortBuild

The nest of makes goes down to the first cookie it finds, changing nothing, and
comes back up one `real-<stage>` at a time. `Make` is the way down (`StartsAt`
says where it ends); from there, `at` is the stage at work and `pc` the point in
it. There is one action for every point at which a failure, an interrupt or a
crash leaves something different: the checksum and the dependency loops before
do-extract and do-instpkg, the wipe of the work directory in two steps, pkgrm,
each single patch, each other `do-` target with a beginning and an end, the touch
of the cookie, and the moment after it, when the make above still has the cookie
as its target.

| Variable | In the code |
|---|---|
| `cookies` | the `.<stage>_done` files |
| `made` | what each stage has produced: work tree, `INSTPREFIX`, spool, release directory, package database |
| `applied` | how often each patch is in the tree |
| `dirty` | an `rm -rf ${WRKDIR}` has begun and none has ended since |
| `goal`, `at`, `pc`, `force`, `next` | the running session |

`Interrupt` is `CompatInterrupt`, `Crash` SIGKILL or power, `SubmakeFails` what a
failed sub-make does to its parent (`exit(1)`, unless `-k` made it exit with 0:
`main.c` 940-944). `UserPkgRm` is pkgrm by hand at any time.

### PortDepends

`stack` holds one frame for each nested make: the port, its phase and the position
in the list of entries. Stages between the two dependency loops are one step
(`Build`), which PortBuild takes apart. `Enter` is where a make finds its port
ignored or its cookie standing and returns at once; `Entry` is one turn of the
loop of `_DEPENDS_USE`; `Claim` is `pkginfo -q` or, forced, pkgrm; `Add` and
`Added` are the beginning and the end of pkgadd, `Mark` touches the cookie, `Leave` ends
the make whose target that is. `Abort` ends the whole nest; a ^C before `Leave` removes
the cookie just touched. A pkgrm by hand waits for a pkgadd (`PkgRm`). `base`, `stood` and `taken` are
history: the packages and cookies there were when the session began, and what was
pkgrm'd by hand since. The constant `Rank` says that the dependencies have no
cycle, which is true of the tree (188 ports, 242 entries).

### Distfiles

Each port may have a session of its own, in a terminal of its own. Each action
reads or writes one file once, so that the sessions interleave between the test
for a file and its transfer, between the sums of two files, between the sum and
the unpacking. A file is `"good"`, `"torn"` or another member of `Data`; a
distinfo is, for each file, the set of contents it has a sum of. `work` is the
extract and the patch cookie: a session that finds the first goes on with
do-patch, and reads PATCHFILES without comparing them. `Read` lets a torn or
missing file go unnoticed, since the last command of `gzcat | tar` decides.
`Kill` may come between any two steps. With `Alone` sessions take turns.

### MakeGraph

Per node, one of waiting, making, held (its job is suspended), done, left (it could
not be made). A node passes or begins only when all its sources and its `.ORDER`
predecessors are done, and while fewer than `Limit` are in the making; after a node was
left nothing is begun unless `KeepGoing`. A node that is held is never in the making again:
a continued job is left (`JobRestart`, `job.c` 887), though its shell runs, so that the
limit here is on what make begins. `IsGraph` says what a graph is.

### BMakeJobs

make itself is one thread; the actions of `Program` are its steps, and `pc` is where
it is in the loop of `Make_Run`: starting jobs, between a fork and the entry of the
job in the table, testing `Job_Empty`, catching children, restarting stopped jobs.
Between any two of them, shells write their targets and end (`Write`, `Succeed`,
`Fail`), ^Z stops the jobs in the table and make (`Suspend`), ^C ends everything
(`Interrupt`).

| Variable | In the code |
|---|---|
| `made`, `unmade`, `cmtime`, `force` | fields and flags of `GNode` |
| `toBeMade` | the list of that name; a count per node, so that one on it twice is seen; its order is left open |
| `numNodes`, `jobs`, `nJobs`, `jobFull`, `stoppedJobs`, `aborting` | the variables of those names |
| `errors` | the nodes counted by `errors` |
| `hand` | the node whose shell is forked and not yet in `jobs` |
| `file`, `torn`, `proc` | the files, which of them are half written, the shells |
| `begun`, `updated`, `failed`, `stops` | history, and the bound on ^Z |

Three things in it are as surprising as in the code: a node without commands is
updated with `made` as it was (`NoExec`, `job.c` 1878), a continued job is counted as
an error and forgotten while its shell runs on (`Restart`, `job.c` 887), and a job
that is not in the table yet survives ^C (`Interrupt`, `job.c` 1356).

### BMakeCompat

The calls of `CompatMake` in progress are a chain: `top` is the innermost, `from[n]`
the parent n was called for, `todo[n]` the children of n still to come, in any order.
`Child` is one turn of the loop over the children: a descent into one that is unmade, or
`Known` for one that is not, which is where cycles are noticed and where a child
that was aborted for somebody else is passed over in silence. Then the node is
aborted, up to date, without commands, without anybody who knows how to make it, or
executed; its end is `CommandsOk` or `CommandsBad` and `Stop`.

### What they leave out

* `-k` is in PortBuild and the modules of bmake. Two makes in one port directory at once are in
  none: nothing in the code is meant to survive them.
* pre- and post- targets, and do- targets that a port defines itself, belong to
  the stage they are part of. `NO_INSTALL` is set by no port.
* Compilers, configure scripts, tar and pkgadd succeed or fail; what they compute
  is not modelled.
* Of bmake: libraries and archive members, `.JOIN`, `.EXEC` and `.MADE` nodes, `::`
  cohorts, `.BEGIN`, `.END`, `.INTERRUPT`, `-n`, `-q`, `-t`, `-i`, `-B`, remote jobs,
  the output of jobs. The graph is what `Make_ExpandUse` leaves: nodes that are
  marked to be remade, `.USE` nodes and suffix rules expanded. Files are missing or have
  any time up to `Last`: before make was started, at that time (`Now`, which is what make
  itself compares with, and the case `FORCE` is for, `make.c` 267-278), or after it. What
  a command writes has a time from `Now` on.
* `NO_FETCH` prints a message and fetches nevertheless; it needs no model.

## What is checked

Type invariants apart, each property needs several steps, often of several
sessions, to be violated.

| Run | Distinct states | Shows |
|---|---|---|
| `portbuild` | 124,029 | All sessions of a port with two patches. A cookie never lies (`CookiesTruthful`), cookies come in order but for reinstall (`CookiesInOrder`), no stage runs on torn work (`NoStageOnTornInput`), only `FORCE_INSTPKG` or pkgrm takes an installed package away (`InstalledSurvives`), a package that is out of date stays so until the work directory is wiped (`StaleUntilWiped`), the port implements `PortSlot` (`SlotSpec`), every session ends (`SessionsEnd`) |
| `portbuild_nobuild` | 87,550 | The cookies of a port whose build cookie is touched by every call, without a release directory, do not lie either |
| `portbuild_dependents` | violation | With `-k`, `NoStageOnTornInput` fails: see *Findings* |
| `depends_perl` | 46,703 | `make instpkg` of `textproc/a2ps.pl` over `perl5`, `gcc`, `jless`, `binutils`, whose entries are all well named. No port is re-entered (`NoReentry`), dependencies are installed when they are needed (`DependsInstalled`), the check for an installed package never stops a dependency (`DependencyNotBlocked`), a forced session adds no missing dependency (`ForcedNestAddsNothing`), each port keeps the promise of `PortSlot` (`SlotsKept`), every session ends |
| `depends_graph` | 303,399 | `graphics/gd`, `graphics/pnmtopng` and `editors/emacs`: a missing directory, an ignored port, two entries that name the wrong package. `DependsInstalled` where entries are right, and a successful session has its package and has lost none (`SuccessKeeps`) |
| `distfiles_sums` | 205,739 | `graphics/xv`, which has PATCHFILES, with all targets: a finished makesum matches what it read (`MakesumMatches`), every session ends |
| `distfiles_together` | 168,177 | `graphics/xv` and a port that shares one of its files, as `print/cjk-ghostscript` shares one with `graphics/jpeg`, at the same time: nothing unlisted is unpacked where the code can tell (`UnpacksWhatIsListed`), a file that is there stays (`DistfileStays`) |
| `bmake_jobs` | 382,633 | `make -j2` of a program, three objects and a header, files that are missing, older than make, or as new, commands that write or do not, failures and ^C: `jobFull` always leaves a slot for who may start (`SlotFree`), never more than two shells (`LimitKept`), what is passed over is fresh (`FreshIfPassed`), `MakeGraph` is implemented (`GraphSpec`) |
| `bmake_jobs_order` | 88,056 | `make -k -j2`, two of the objects in `.ORDER`, one ^Z: what is dropped off the fringe comes back (`DroppedComesBack`), once (`ExaminedOnce`), only what failed or waits for it is left out (`LeftForAReason`), no shell works while a source of its target is being made (`SourcesQuiet`), what has been left written in part belongs to a job that failed, is suspended, was not in the table or was killed in it when make died, or is precious (`PartialKnown`), `MakeGraph` again, and make ends (`Ends`) |
| `bmake_compat` | 922,215 | make of a program, an object, a header and a generated source, two goals, files that are missing, older than make, as new or newer: what is passed over is fresh but where `FORCE` went to another parent (`FreshIfPassed`), ^C leaves nothing half made (`PartialRemoved`), `MakeGraph` with a limit of one |
| `bmake_compat_round` | 379,890 | Two objects, `-k`, and one of them made from the program: neither is made (`MutualNotMade`), a target is given up for a reason (`AbortedForAReason`), everything is tried (`AllTried`), make ends |
| `bmake_compat_aborted` | violation | With `-k`, a target is made from an aborted source: see *Findings* |

Some of these properties state what the code *does not* do for its user, because
that is what a reader of the code would get wrong: `StaleUntilWiped`,
`ForcedNestAddsNothing` and `DistfileStays` (no retry repairs a torn file).
The conditions in `UnpacksWhatIsListed` are as weak as the code allows: without
them two sessions on a shared file, a shared PATCHFILE that another port has
fetched anew, or makesum break it.

**Bounds.** Two patches are the least for which a crash may come between patches.
All stages are goals. The excerpts of the
tree have five and six ports, of depth four: ports needed twice by one port, to build and to run (`binutils` by
`gcc`, `perl5` by `a2pspl`), shared libraries, and each kind of entry that occurs. The
operator cleans or removes two of them. Two files per port are the least for
which sums, transfers and removals of one port come apart; one site per file is
enough for a transfer that fails, one that breaks off and one that succeeds. A second
site for the same file, after the first one failed, is not among the behaviours TLC
sees; the proofs are for any number of sites. Two sessions are enough to race for a file.
Of make's graph, three objects for two jobs are the least for which the table is full with
work left; the header gives two of them a common source, which is no target; `all` has no
commands. `.ORDER` of two objects lets a node be dropped and put back while a third job
runs. `MaxStops` is how often ^Z is typed: once is enough to stop, continue and lose a
job. Where freshness is checked `Now` is 3, so that a file may be missing, older than make
and older than, as old as or younger than another such file, or as new as make; in
`bmake_compat` `Last` is one more, for files from after that. Both runs are of the program
with a node less (`BareNodes`), to make room for these times; elsewhere files are missing
or as new as make (`Now` is 1) or, in the other runs of compat mode, newer, which is
enough for every way a node is dealt with. In the graphs of BMakeCompat the generated
source is a goal's child and a grandchild, so that it is met again after it was dealt
with; with `RoundSources` two targets are made from each other. The proofs have none of
these bounds, but `LimitKept` is proved for no ^Z.

**Fairness.** `WF_vars(Work)` in PortBuild and PortDepends, `WF_vars(Work(p))` for
each port in Distfiles: a command that has been started ends, well or not. This is
what a shell and the system give to any program; ftp has a timeout for sites that
do not answer. Nothing is assumed of the operator, who may never start a session,
nor of interrupts, crashes and failures, which never have to happen. `SessionsEnd`
is therefore about the control flow: no loop, and no nest, without an end. In the
modules of bmake, `FairSpec` adds `WF_vars(Program)`, make goes on when it can, and for
each node weak fairness of `Succeed \/ Fail`, the commands of a shell that is not
stopped end, well or not. Nothing is assumed of the user: ^C and ^Z may come or not. A stopped shell is under no fairness: that it is continued is what
`Job_Empty` and `JobRestartJobs` are for.

**Deadlock** is checked in every run; a make of bmake that has ended rests (`Rest`), and
so nothing else may get stuck.

## Findings

`portbuild_dependents`: the manual of bmake (`src/contrib/bsd/bmake/make.1`
164-165) says that `-k` goes on "only on those targets that do not depend on the
target whose creation caused the error". Every stage depends on the one before
it, but through a sub-make, and a sub-make under `-k` exits with 0. `make -k` goes
on to configure sources that were not patched, and leaves cookies for stages
that failed.

`bmake_compat_aborted`: the same sentence, and the comment in `CompatMake` that a node
without REMAKE is to "abort our parent as well" (`compat.c` 390-391). The first parent
of a source with a bad child is aborted. Another parent that comes to that source later
finds it aborted, and the switch at 489-522 has no case for that: the second parent is
made, from a source that was not.

Met while modelling, and kept in the model as the code has it, but not runs of their own:

* `job.c` 887: `JobRestart` calls `JobFinish` with a status made from `WTERMSIG`, which
  `JobFinish` takes for neither an exit, a stop nor a death; the continued job is counted
  as an error while it runs on. `LimitKept` needs `MaxStops = 0` for this reason.
* `job.c` 1878: the parents of a node without commands are updated and its `made` is not,
  so that an `.ORDER` successor waits for it for ever. `make.c` then reports what is left
  over as a cycle (1057) although there is none. `DroppedComesBack` and `LeftForAReason`
  are proved for predecessors with commands.
* `job.c` 1745: with `-k -j`, a file nobody knows how to make ends make at once, where
  compat mode goes on (`DontKnow` in both modules). `Job_AbortAll` (3039) kills the jobs in
  the table and removes nothing, so that their targets stay half written, with `-k` and
  without, precious or not; `PartialKnown` says so for a make that died this way.
* `compat.c` 479: only the parent a source was made for is flagged `FORCE` when the source
  does not exist. Another parent is told the time make was started at (512), and if it is
  as new as that, it is passed over as up to date although a source of it is missing.
  `make -j` flags every parent (`make.c` 592). `FreshIfPassed` of BMakeCompat excepts this
  case (`Unforced`) and no other; without the exception TLC finds it in a few steps.
* `job.c` 1356: a shell that is forked and not yet in the table survives ^C, and so does
  the partial target of a job that is stopped. `PartialKnown` says that after ^C nothing
  else does, but for precious targets and those whose commands had failed.

Without a document that says otherwise, and therefore not findings, but worth
knowing: a distinfo vanishes when makesum is interrupted, and every checksum after
that passes (871-873); makesum after a broken transfer lists the sum of the torn
file; a forced session with a missing dependency cannot succeed; and after
reinstall, `make instpkg` installs the old package.

## What is proved

All theorems hold for every value of the constants that the `ASSUME`s of a module
allow, and for every reachable state; TLC evaluates these assumptions on the
instances.

**PortBuild**, any number of patches, any flags. The invariant is `IInv`. Its first
part (`TypeOK`, `Shape`, `Undone`, `Claimed`, `Patching`) ties `pc` to `at` and to
what the session has done so far: that no cookie from `at` to `goal` exists yet
but the one just touched, that the package is gone or half there under pkgrm and
pkgadd, that the patches before `next` are applied. It holds with `-k` too
(`TypeCorrect`) and gives `InstalledAlwaysSurvives` and `StaleAlwaysStays`. The
second part needs a make without `-k`: `InOrder` says that the stages below `at`
have their cookies, and `Truthful` that a cookie vouches for its stage, and that
the stage about to be touched would be vouched for. Neither is inductive without
the other: a stage leaves a whole result because its input was whole, its input
was whole because of a cookie, and the cookie is there because of the order. From
`Inductive` follow `CookiesNeverLie`, `InputsWhole` and `InOrderAlways`.
`ImplementsSlot` shows each step to be one of `PortSlot` or none. It needs `Claimed`
(between the claim and pkgadd there is no package) and one thing more, that `force` is
only set while a make of instpkg is on its way (`Forcing`); the steps are sorted into
those that stay out of instpkg, enter it, leave it, and happen in it (`SlotStays`,
`SlotEntered`, `SlotLeft`, `SlotStep`).

**PortDepends**, any ports and entries without a cycle. The properties are about the
make on top of the stack, but what makes them true is below it. `IInv` says of every
frame that its port ranks below its caller's (`Nested`, which gives
`NeverReentered`), that every entry its loop has passed is installed, excused, or
just being added by a frame above (`LoopsDone`), that every package removed since
the session began is in the hand of some frame (`RemovedIsInHand`), and that what a
frame was called for is still missing (`CalledFor`). An entry passed long ago stays
installed because the only makes that remove a package are those above, and they
either put it back or end the whole nest. `AddedInstalled` carries what pkgadd has done to
the end of the make: from it, `RemovedIsInHand` and `MarkedInstalled` follows
`SuccessAlwaysKeeps`.

`PortDependsSlotProofs` shows that each port implements `PortSlot` (`SlotsAlwaysKept`,
`ImplementsSlot`). A step of the nest moves the top frame only, so that it is a step of
the top port (`OwnStep`) and changes neither the phase nor the package nor the cookie of
another one (`OtherRests`); a failure or ^C is `Leave` for every port with a frame
(`FailStep`). Two facts about the nest are needed: that no port has two frames
(`Nested`), so that there *is* a phase of the port, and that the package of a make
between its claim and its pkgadd stays away while the makes of its run-time dependencies
come and go (`ClaimedMissing`), which is what the check at line 668 relies on. With
`PortBuild!ImplementsSlot` the two modules meet: what one port does, stage by stage, and
what a port of a nest does are the same steps of the same abstract port.

**Distfiles**, any ports, files, sites, distinfos and any number of sessions.
`TypeCorrect`; `OnlyListedUnpacked`, from an invariant that holds when nobody runs
makesum: what has been summed still fits (`Summed`) until it is unpacked, and for
files no other port needs as long as there is a work directory (`Kept`), because a
session only fetches what is missing (`Fetches`) and distclean removes the work
directory before the files. The proof has two halves, a step of the port itself
(`LocalStep`) and a step of another one (`LocalElsewhere`, from `StepElsewhere`:
another session changes only its own files, and only while it runs).
`DistfileAlwaysStays` holds with makesum as well, from `FetchInv`. So does
`MakesumAlwaysMatches`: `SumInv` adds to it that what md5 has read of the files so far
(`seen`) is what they still are (`Recorded`), where no other session may write them
(`Reliable`: sessions take turns, or the file is no other port's), and that nobody but
distclean and makesum of the same port touches its distinfo (`SumsNotByOthers`).

**MakeGraph**, any graph (`IsGraph`): `DependentsComeAfter` is what a user gets from the
two refinements: whatever has been begun, passed or left had all it depends on done. What
the limit is worth in shells that run is a matter of the job table (`SlotsSuffice`,
`NoMoreThanAsked`).

**BMakeJobs**, any graph, cycles included, any `.ORDER`, `-j` and `-k`. `IInv` has one
conjunct for each thing the code keeps in two places: `Counts` (the counter `unmade` is
the number of sources not updated), `Fringe` (what is on the list is there once, is not
begun and has its sources updated), `Begun` (so has all that was begun), `Places` (a node
that is begun is in the hand, the table, the stopped list, updated, or counted as an
error), `Slots` (`nJobs` counts the table, and `jobFull` says when it is full), `Shells`
(a shell belongs to a node that was begun and is not updated), `Lefts` (an error without
`-k` ends in aborting before anything is begun). None is inductive alone: a node is put on
the list when its counter reaches 0, which happens once only because its sources are
updated once, which is because they were on the list once. From `Invariance` follow
`NeverExaminedTwice`, `SlotsSuffice`, `SourcesRest` and, step by step, `ImplementsGraph`.
`PassedIsFresh` adds `Dated` (the time recorded for the sources is no less than that of
any updated one, a source that is missing has forced all its parents, and their files
rest); `NoMoreThanAsked` adds `Tabled` and assumes that ^Z is not typed; `PartialsKnown`
adds `Traced` (a shell that may still write, and a file written in part, belong to a node
in the table or to one of the lists of those that left it); `NoWakeUpLost` and
`NothingLeftOut` assume that `.ORDER` predecessors have commands.

**BMakeCompat**, any graph, cycles included. What the recursion of `CompatMake` keeps on the
C stack, the model keeps in `from` and `top`, and nothing in the state says that they form
a chain. The proof numbers the calls: `Nested(lvl)` says that some `lvl`, 1 for the
outermost call and 0 for a node that is not being made, rises along `from` to `top`; each
step changes it in one of three ways (`Follows`: a call, a return, neither). A node that
is met again by a call within its own is in error, and so its call is *doomed*
(`Doomed`: it or one within it has lost REMAKE), whatever happens until it returns. The
invariant is that there is a `lvl` with `Walk(lvl)`, which adds `Tried`
(`EverythingTried`), `Reasons` (`NothingGivenUpInVain`), `Parts` (`InterruptCleans`) and
`Mutual` (`NeitherIsMade`: of two targets that are sources of each other, the one called
first is met by the call for the other). `NeitherIsMade` does not extend to longer
cycles: a source that was aborted for one parent is passed over in silence by
another (see *Findings*).

`BMakeCompatFreshProofs` assumes that there is no cycle (`Acyclic(rank)`: a rank that falls
from a target to its sources); with a cycle its theorems are false, as TLC shows at once,
since make goes on after the node it met again. Without `-k`, `Strict` (the sources dealt with are made or up
to date) and `Dated` (the time recorded for them is no less than theirs, and no less than
`Now` if they are missing, in which case the parent they were made for has `FORCE`; and
their files rest) give `PassedIsFresh` and `ImplementsGraph`.

`InstalledAlwaysSurvives` is proved with `-k` as well, and `OnlyListedUnpacked` for sessions
that take turns as well; the runs are without `-k`, and with sessions side by side.

**Only model-checked**: `SessionsEnd` and `Ends` (liveness is beyond the prover), and the
violations, which are about single behaviours. All other properties of the runs are theorems.

## Not modelled

* *Variants of a master port*: PortBuild is one make at a time in one work directory. Which
  variant a cookie was made for is recorded nowhere, so that there is nothing to hold
  to but that the operator cleans in between.
* *Two makes in one port directory*: nothing in the code is meant to survive them.
* *Package metadata*: generation of text by sed and awk; no later step reads what is
  appended to twice.
* *Class action scripts*: sequences of sed and mv, run by pkgadd and pkgrm, which are not
  part of the repository; the modules take pkgadd as one step that succeeds or fails.
* *Subdirectory traversal*: a shell loop around makes; nothing comes between them.
* *Bootstrap and its packages*: run once, by hand, by the make of Solaris.
* *bmake, the rest*: parsing, variables, suffixes, directory caches. Strings without
  concurrency; what they produce are the constants `Sources`, `Commands`, `Forced`, `Plain`.
* *Vendored tools*: gcc, tar, gzip, patch and the others are built and packaged here, not
  part of the program. They are the bulk of the repository (well over a million lines
  beside some thousand of port.mk, its templates and the three files of bmake), so that the
  share of the repository's lines a model of solarpack stands for is small whatever it
  covers of solarpack.

## Plan

The order is that of what a user would lose. 1 to 4 are done: PortBuild, PortDepends and
Distfiles with their proofs; PortSlot, which PortBuild and each port of PortDepends implement; MakeGraph, BMakeJobs and
BMakeCompat with their refinements and proofs. What is left, should the code change or
somebody need more:

5. `.BEGIN`, `.END`, `.INTERRUPT` and `::` cohorts in the modules of bmake; `-t` and `-q`.
6. *DependList*: gen-depend-pkg-list and gen-depend against the set of dependencies as the
   reference definition; depend over repeated sessions.
7. *ClassScripts*: /etc/shells, backups, init.d and info/dir under sequences of pkgadd and
   pkgrm, with the round trip as the property.
8. Proofs: a number that falls with every step of make, from which that it ends would follow.
