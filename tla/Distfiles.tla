------------------------------ MODULE Distfiles ------------------------------
(***************************************************************************)
(* The distribution files and their checksums (ports/Mk/port.mk 686-765,    *)
(* 869-897, 1077-1112).                                                     *)
(*                                                                         *)
(* All ports keep their files in one DISTDIR, without a lock.  A session of *)
(* a port fetches the files that do not exist, compares the MD5 sums of all *)
(* with its distinfo, and unpacks them; it may stop on the way, and another *)
(* one goes on at the cookie it finds.  Each step reads or writes one file: *)
(* between two of them other sessions work in the same directory, and the   *)
(* session itself may be killed.                                            *)
(***************************************************************************)
EXTENDS Integers, Sequences, Functions

CONSTANTS
  Ports,     \* the ports at work, each in a terminal of its own
  Files,     \* the names of files in DISTDIR
  Distfiles, \* [Ports -> Seq(Files)], what do-extract unpacks
  Patches,   \* [Ports -> Seq(Files)], PATCHFILES
  NSites,    \* number of sites that are tried for a file
  Listed,    \* the ports that come with a distinfo ...
  Shipped,   \* ... and what it lists, [Ports -> [Files -> SUBSET Data]]
  Data,      \* what a file may hold: "good", all the port was made for, "torn",
             \* the beginning of a file, or something else under its name
  Jobs,      \* what the sessions are for
  Alone      \* TRUE if at most one session works at a time

Contents == Data \cup {"none"}
AllJobs == {"patch", "fetch", "makesum", "merge", "clean", "distclean"}

ASSUME FilesAssumption ==
  /\ {"good", "torn"} \subseteq Data /\ "none" \notin Data
  /\ Distfiles \in [Ports -> Seq(Files)] /\ Patches \in [Ports -> Seq(Files)]
  /\ NSites \in Nat /\ Listed \subseteq Ports
  /\ Shipped \in [Ports -> [Files -> SUBSET Data]]
  /\ Jobs \subseteq AllJobs /\ Alone \in BOOLEAN

VARIABLES
  dist,  \* the files in DISTDIR
  list,  \* the ports whose distinfo exists
  sums,  \* what is listed there
  work,  \* how far each port has come: "none", "extracted" or "patched"
  got,   \* what has been read into the work directory
  \* and of the session of each port:
  pc,    \* where it is
  at,    \* the position in Needs(p) it has come to
  site,  \* the site it is at
  job,   \* what it is for: make patch, fetch, makesum, clean or distclean,
         \* or make makesum MERGE_MD5=yes
  ok,    \* no sum has been wrong so far
  seen,  \* the files makesum has summed
  bak    \* the distinfo.bak of a merge, which no later session reads

store == <<list, sums, work, got>>
mode == <<job, ok, seen, bak>>
vars == <<dist, store, pc, at, site, mode>>

Nothing == [f \in Files |-> "none"]
NoSums == [f \in Files |-> {}]

Init ==
  /\ dist = Nothing /\ list = Listed /\ sums = Shipped
  /\ work = [p \in Ports |-> "none"] /\ got = [p \in Ports |-> Nothing]
  /\ pc = [p \in Ports |-> "idle"] /\ at = [p \in Ports |-> 1]
  /\ site = [p \in Ports |-> 1] /\ job = [p \in Ports |-> "patch"]
  /\ ok = [p \in Ports |-> TRUE] /\ seen = [p \in Ports |-> Nothing]
  /\ bak = [p \in Ports |-> NoSums]
-----------------------------------------------------------------------------
\* ALLFILES, which are CKSUMFILES, too
Needs(p) == Distfiles[p] \o Patches[p]
NeededBy(p) == Range(Needs(p))
More(p) == at[p] <= Len(Needs(p))
File(p) == Needs(p)[at[p]]
Holds(p) == dist[File(p)]  \* read only when More(p)

Goto(p, step) == pc' = [pc EXCEPT ![p] = step]
\* The next loop over the files begins.
Loop(p, step) ==
  Goto(p, step) /\ at' = [at EXCEPT ![p] = 1] /\ UNCHANGED site
NextFile(p, step) ==
  Goto(p, step) /\ at' = [at EXCEPT ![p] = @ + 1] /\ UNCHANGED site
NextSite(p) ==
  Goto(p, "site") /\ site' = [site EXCEPT ![p] = @ + 1] /\ UNCHANGED at

\* The session is over, well or not.
Stop(p) ==
  /\ Goto(p, "idle") /\ at' = [at EXCEPT ![p] = 1] /\ site' = [site EXCEPT ![p] = 1]
  /\ job' = [job EXCEPT ![p] = "patch"] /\ ok' = [ok EXCEPT ![p] = TRUE]
  /\ seen' = [seen EXCEPT ![p] = Nothing] /\ bak' = [bak EXCEPT ![p] = NoSums]

Quiet == Alone => \A q \in Ports : pc[q] = "idle"

\* fetch leaves no cookie and is made every time; extract does.  Whether there
\* is a distinfo to merge with is decided when the Makefile is read.
Start(p, j) ==
  /\ pc[p] = "idle" /\ Quiet
  /\ \/ j = "patch" /\ work[p] = "none" /\ Loop(p, "fetch")
     \/ /\ j = "patch" /\ work[p] = "extracted" /\ Goto(p, "patch")
        /\ at' = [at EXCEPT ![p] = Len(Distfiles[p]) + 1] /\ UNCHANGED site
     \/ j \in {"fetch", "makesum", "merge"} /\ Loop(p, "fetch")
     \/ j \in {"clean", "distclean"} /\ Loop(p, "clean")
  /\ job' = [job EXCEPT ![p] = IF j = "merge" /\ p \notin list THEN "makesum" ELSE j]
  /\ UNCHANGED <<dist, store, ok, seen, bak>>
-----------------------------------------------------------------------------
(* do-fetch                                                                *)

\* A file that exists is not fetched, whatever is in it.
Found(p) ==
  /\ pc[p] = "fetch" /\ More(p) /\ Holds(p) # "none"
  /\ NextFile(p, "fetch")
  /\ UNCHANGED <<dist, store, mode>>

\* Mutant: it is.
MissingAlways(p) ==
  /\ pc[p] = "fetch" /\ More(p)
  /\ Goto(p, "site") /\ site' = [site EXCEPT ![p] = 1]
  /\ UNCHANGED <<dist, at, store, mode>>

Missing(p) ==
  /\ pc[p] = "fetch" /\ More(p) /\ Holds(p) = "none"
  /\ Goto(p, "site") /\ site' = [site EXCEPT ![p] = 1]
  /\ UNCHANGED <<dist, at, store, mode>>

\* A site may not answer ...
Refused(p) ==
  /\ pc[p] = "site" /\ site[p] <= NSites /\ NextSite(p)
  /\ UNCHANGED <<dist, store, mode>>

\* ... or it does, and the file is created or truncated.
Open(p) ==
  /\ pc[p] = "site" /\ site[p] <= NSites
  /\ Goto(p, "get") /\ dist' = [dist EXCEPT ![File(p)] = "torn"]
  /\ UNCHANGED <<at, site, store, mode>>

\* Mutant: the loop of sites starts over.
GiveUpNever(p) ==
  /\ pc[p] = "site" /\ site[p] > NSites
  /\ site' = [site EXCEPT ![p] = 1]
  /\ UNCHANGED <<dist, pc, at, store, mode>>

\* When every site has failed, nothing else has: the next file is looked for.
GiveUp(p) ==
  /\ pc[p] = "site" /\ site[p] > NSites
  /\ NextFile(p, "fetch")
  /\ UNCHANGED <<dist, store, mode>>

\* A transfer breaks off, and leaves the file as it is.
Break(p) ==
  /\ pc[p] \in {"get", "unlinked"} /\ NextSite(p)
  /\ UNCHANGED <<dist, store, mode>>

\* It ends.  A connection may have been closed early without an error, or other
\* sessions have been writing into the file: anything may have arrived.
Arrive(p) ==
  /\ pc[p] = "get" /\ NextFile(p, "fetch")
  /\ \E c \in Data : dist' = [dist EXCEPT ![File(p)] = c]
  /\ UNCHANGED <<store, mode>>

\* It ends, but the file has been removed meanwhile.
ArriveUnlinked(p) ==
  /\ pc[p] = "unlinked" /\ NextFile(p, "fetch")
  /\ UNCHANGED <<dist, store, mode>>

Fetched(p) ==
  /\ pc[p] = "fetch" /\ ~More(p)
  /\ \/ job[p] = "patch" /\ Loop(p, "list") /\ UNCHANGED mode
     \/ job[p] = "fetch" /\ Stop(p)
     \/ job[p] \in {"makesum", "merge"} /\ Loop(p, "drop") /\ UNCHANGED mode
  /\ UNCHANGED <<dist, store>>
-----------------------------------------------------------------------------
(* checksum                                                                *)

\* do-extract starts with an empty work directory.
Extract(p) ==
  /\ Loop(p, "extract") /\ got' = [got EXCEPT ![p] = Nothing]
  /\ UNCHANGED <<dist, list, sums, work, mode>>

\* Without a distinfo there is nothing to compare, and no error.
Unlisted(p) == pc[p] = "list" /\ p \notin list /\ Extract(p)

CheckList(p) ==
  /\ pc[p] = "list" /\ p \in list /\ Loop(p, "sum")
  /\ UNCHANGED <<dist, store, mode>>

\* Mutant: the verdict is that on the last file.
SumLast(p) ==
  /\ pc[p] = "sum" /\ More(p) /\ Holds(p) # "none"
  /\ ok' = [ok EXCEPT ![p] = Holds(p) \in sums[p][File(p)]]
  /\ NextFile(p, "sum")
  /\ UNCHANGED <<dist, store, job, seen, bak>>

\* A wrong sum, none that is listed or one listed as IGNORE, does not end the
\* loop ...
Sum(p) ==
  /\ pc[p] = "sum" /\ More(p) /\ Holds(p) # "none"
  /\ ok' = [ok EXCEPT ![p] = @ /\ Holds(p) \in sums[p][File(p)]]
  /\ NextFile(p, "sum")
  /\ UNCHANGED <<dist, store, job, seen, bak>>

\* ... a file that is not there does.
SumMissing(p) ==
  /\ pc[p] = "sum" /\ More(p) /\ Holds(p) = "none" /\ Stop(p)
  /\ UNCHANGED <<dist, store>>

Mismatch(p) ==
  /\ pc[p] = "sum" /\ ~More(p) /\ ~ok[p] /\ Stop(p)
  /\ UNCHANGED <<dist, store>>

Match(p) == pc[p] = "sum" /\ ~More(p) /\ ok[p] /\ Extract(p)
-----------------------------------------------------------------------------
(* do-extract, do-patch                                                    *)

\* What is torn or missing may show, or not, as tar or gpatch has the last word
\* in `gzcat | tar` and `gzcat | gpatch`.
Read(p, step) ==
  /\ got' = [got EXCEPT ![p][File(p)] = Holds(p)]
  /\ \/ NextFile(p, step) /\ UNCHANGED mode
     \/ Holds(p) # "good" /\ Stop(p)
  /\ UNCHANGED <<dist, list, sums, work>>

Unpack(p) ==
  pc[p] = "extract" /\ at[p] <= Len(Distfiles[p]) /\ Read(p, "extract")

\* The cookie, which is all that later sessions look at
Extracted(p) ==
  /\ pc[p] = "extract" /\ at[p] > Len(Distfiles[p])
  /\ work' = [work EXCEPT ![p] = "extracted"] /\ Goto(p, "patch")
  /\ UNCHANGED <<dist, list, sums, got, at, site, mode>>

Patch(p) ==
  pc[p] = "patch" /\ More(p) /\ got[p][File(p)] = "none" /\ Read(p, "patch")

\* gpatch -N fails on a file that has had this patch in an earlier session.
PatchedBefore(p) ==
  /\ pc[p] = "patch" /\ More(p) /\ got[p][File(p)] # "none" /\ Stop(p)
  /\ UNCHANGED <<dist, store>>

Patched(p) ==
  /\ pc[p] = "patch" /\ ~More(p) /\ Stop(p)
  /\ work' = [work EXCEPT ![p] = "patched"]
  /\ UNCHANGED <<dist, list, sums, got>>
-----------------------------------------------------------------------------
(* makesum                                                                 *)

\* The old distinfo is removed, or renamed for a merge.
Drop(p) ==
  /\ pc[p] = "drop" /\ Goto(p, "create")
  /\ list' = list \ {p}
  /\ bak' = [bak EXCEPT ![p] = IF job[p] = "merge" THEN sums[p] ELSE NoSums]
  /\ UNCHANGED <<dist, sums, work, got, at, site, job, ok, seen>>

\* The shell creates the new one before md5 and sort begin.
Create(p) ==
  /\ pc[p] = "create" /\ Loop(p, "record")
  /\ list' = list \cup {p} /\ sums' = [sums EXCEPT ![p] = NoSums]
  /\ UNCHANGED <<dist, work, got, mode>>

\* Mutant: the sums of the PATCHFILES are left out.
RecordUnpacked(p) ==
  /\ pc[p] = "record" /\ More(p) /\ NextFile(p, "record")
  /\ seen' = [seen EXCEPT ![p][File(p)] =
                IF at[p] <= Len(Distfiles[p]) THEN Holds(p) ELSE @]
  /\ UNCHANGED <<dist, store, job, ok, bak>>

\* A file that is missing is left out without an error.
Record(p) ==
  /\ pc[p] = "record" /\ More(p) /\ NextFile(p, "record")
  /\ seen' = [seen EXCEPT ![p][File(p)] = Holds(p)]
  /\ UNCHANGED <<dist, store, job, ok, bak>>

Write(p) ==
  /\ pc[p] = "record" /\ ~More(p) /\ Stop(p)
  /\ sums' = [sums EXCEPT ![p] =
                [f \in Files |-> ({seen[p][f]} \ {"none"}) \cup bak[p][f]]]
  /\ UNCHANGED <<dist, list, work, got>>
-----------------------------------------------------------------------------
(* clean, distclean                                                        *)

\* clean is all, or distclean goes on to the files.
Cleaned(p) ==
  \/ job[p] = "clean" /\ Stop(p)
  \/ job[p] = "distclean" /\ Loop(p, "remove") /\ UNCHANGED mode

Clean(p) ==
  /\ pc[p] = "clean" /\ Cleaned(p)
  /\ work' = [work EXCEPT ![p] = "none"]
  /\ got' = [got EXCEPT ![p] = Nothing]
  /\ UNCHANGED <<dist, list, sums>>

\* A transfer into the file goes on, into a file without a name.
Remove(p) ==
  /\ pc[p] = "remove" /\ More(p)
  /\ dist' = [dist EXCEPT ![File(p)] = "none"]
  /\ pc' = [q \in Ports |->
              IF pc[q] = "get" /\ File(q) = File(p) THEN "unlinked" ELSE pc[q]]
  /\ at' = [at EXCEPT ![p] = @ + 1]
  /\ UNCHANGED <<site, store, mode>>

Removed(p) ==
  /\ pc[p] = "remove" /\ ~More(p) /\ Stop(p)
  /\ UNCHANGED <<dist, store>>
-----------------------------------------------------------------------------
\* ^C or a crash between any two steps; ftp leaves what it has written.
Kill(p) ==
  /\ pc[p] # "idle" /\ Stop(p)
  /\ UNCHANGED <<dist, store>>

Work(p) ==
  \/ Found(p) \/ Missing(p) \/ Refused(p) \/ Open(p) \/ GiveUp(p) \/ Break(p)
  \/ Arrive(p) \/ ArriveUnlinked(p) \/ Fetched(p)
  \/ Unlisted(p) \/ CheckList(p) \/ Sum(p) \/ SumMissing(p) \/ Mismatch(p) \/ Match(p)
  \/ Unpack(p) \/ Extracted(p) \/ Patch(p) \/ PatchedBefore(p) \/ Patched(p)
  \/ Drop(p) \/ Create(p) \/ Record(p) \/ Write(p)
  \/ Clean(p) \/ Remove(p) \/ Removed(p)

Next ==
  \E p \in Ports : \/ \E j \in Jobs : Start(p, j)
                   \/ Work(p)
                   \/ Kill(p)

\* Nobody has to start a session, but each goes on by itself.
Spec == Init /\ [][Next]_vars /\ \A p \in Ports : WF_vars(Work(p))
-----------------------------------------------------------------------------
(* Properties.                                                             *)

Steps == {"idle", "fetch", "site", "get", "unlinked", "list", "sum", "extract",
          "patch", "drop", "create", "record", "clean", "remove"}

\* The types of the variables.
TypeOK ==
  /\ dist \in [Files -> Contents] /\ list \subseteq Ports
  /\ sums \in [Ports -> [Files -> SUBSET Data]]
  /\ bak \in [Ports -> [Files -> SUBSET Data]]
  /\ work \in [Ports -> {"none", "extracted", "patched"}]
  /\ pc \in [Ports -> Steps] /\ at \in [Ports -> Nat \ {0}]
  /\ site \in [Ports -> Nat \ {0}]
  /\ job \in [Ports -> AllJobs] /\ ok \in [Ports -> BOOLEAN]
  /\ seen \in [Ports -> [Files -> Contents]]
  /\ got \in [Ports -> [Files -> Contents]]

\* Only sessions of p touch the file.
Private(p, f) == \A q \in Ports \ {p} : f \notin NeededBy(q)
\* The sums of the ports stay what they are.
NoMakesum == Jobs \cap {"makesum", "merge"} = {}

\* Nothing that the port's distinfo does not list is unpacked or applied as a
\* patch (port.mk 587-593, 717-765), although files are read again after their
\* sums have been compared, and PATCHFILES in a later session, which does not
\* compare them: unless two sessions work at once on a file they share, or the
\* PATCHFILE is one another port fetches anew, or makesum has rewritten the sums.
UnpacksWhatIsListed ==
  NoMakesum =>
    \A p \in list : \A f \in Files :
      Private(p, f) \/ (Alone /\ f \notin Range(Patches[p])) =>
        got[p][f] \in Shipped[p][f] \cup {"none"}

\* A file that is there stays as it is, torn or not, until distclean removes it:
\* no retry repairs it (port.mk 690, 702).  It is overwritten only while it is
\* fetched, by the session that found it missing, unless another session has
\* begun to fetch it, too.
DistfileStays ==
  [][\A f \in Files : dist[f] # "none" /\ dist'[f] # dist[f] =>
       \E p \in Ports :
         /\ More(p) /\ File(p) = f
         /\ \/ pc[p] \in {"get", "remove"}
            \/ pc[p] = "site" /\ (site[p] > 1 \/ ~(Alone \/ Private(p, f)))]_vars

\* A makesum that comes to its end leaves sums its own files pass with (port.mk
\* 1099-1112, 869-897), if nobody works on them meanwhile.
MakesumMatches ==
  [][\A p \in Ports : pc[p] = "record" /\ sums'[p] # sums[p] =>
       /\ p \in list'
       /\ \A f \in NeededBy(p) :
            Alone \/ Private(p, f) => dist[f] \in sums'[p][f] \cup {"none"}]_vars

\* Every session ends, whatever the sites do.
SessionsEnd == \A p \in Ports : pc[p] # "idle" ~> pc[p] = "idle"
=============================================================================
