-------------------------- MODULE DistfilesProofs --------------------------
(***************************************************************************)
(* Theorems about Distfiles, for any ports, files, sites, distinfos, and    *)
(* any number of sessions at work.                                          *)
(***************************************************************************)
EXTENDS Distfiles, TLAPS

USE FilesAssumption

\* The types of what is on the disk, and of what belongs to the sessions
StoreType ==
  /\ list \subseteq Ports /\ sums \in [Ports -> [Files -> SUBSET Data]]
  /\ work \in [Ports -> {"none", "extracted", "patched"}]
  /\ got \in [Ports -> [Files -> Contents]]
ModeType ==
  /\ job \in [Ports -> AllJobs] /\ ok \in [Ports -> BOOLEAN]
  /\ seen \in [Ports -> [Files -> Contents]]
  /\ bak \in [Ports -> [Files -> SUBSET Data]]
PlaceType ==
  pc \in [Ports -> Steps] /\ at \in [Ports -> Nat \ {0}] /\ site \in [Ports -> Nat \ {0}]
DistType == dist \in [Files -> Contents]

LEMMA Types == TypeOK <=> DistType /\ StoreType /\ PlaceType /\ ModeType
BY DEF TypeOK, DistType, StoreType, PlaceType, ModeType

LEMMA NothingTypes ==
  Nothing \in [Files -> Contents] /\ NoSums \in [Files -> SUBSET Data]
BY DEF Nothing, NoSums, Contents

\* ALLFILES: the distfiles first, the patches after them
LEMMA NeedsFacts ==
  ASSUME NEW p \in Ports
  PROVE  /\ Needs(p) \in Seq(Files)
         /\ Len(Needs(p)) = Len(Distfiles[p]) + Len(Patches[p])
         /\ Len(Distfiles[p]) \in Nat /\ Len(Patches[p]) \in Nat
         /\ \A i \in 1 .. Len(Needs(p)) :
              /\ Needs(p)[i] \in Files
              /\ i > Len(Distfiles[p]) => Needs(p)[i] \in Range(Patches[p])
              /\ Needs(p)[i] \in NeededBy(p)
<1>1. Distfiles[p] \in Seq(Files) /\ Patches[p] \in Seq(Files)
  OBVIOUS
<1>2. /\ Needs(p) \in Seq(Files)
      /\ Len(Needs(p)) = Len(Distfiles[p]) + Len(Patches[p])
      /\ Len(Distfiles[p]) \in Nat /\ Len(Patches[p]) \in Nat
  BY <1>1 DEF Needs
<1>3. ASSUME NEW i \in 1 .. Len(Needs(p))
      PROVE  /\ Needs(p)[i] \in Files
             /\ i > Len(Distfiles[p]) => Needs(p)[i] \in Range(Patches[p])
             /\ Needs(p)[i] \in NeededBy(p)
  <2>1. Needs(p)[i] \in Files
    BY <1>2
  <2>2. ASSUME i > Len(Distfiles[p])
        PROVE  Needs(p)[i] \in Range(Patches[p])
    <3>1. /\ Needs(p)[i] = Patches[p][i - Len(Distfiles[p])]
          /\ i - Len(Distfiles[p]) \in 1 .. Len(Patches[p])
      BY <1>1, <1>2, <2>2 DEF Needs
    <3>2. DOMAIN Patches[p] = 1 .. Len(Patches[p])
      BY <1>1
    <3> QED BY <3>1, <3>2 DEF Range
  <2>3. Needs(p)[i] \in NeededBy(p)
    <3>1. DOMAIN Needs(p) = 1 .. Len(Needs(p))
      BY <1>2
    <3>2. i \in DOMAIN Needs(p)
      BY <3>1
    <3> QED BY <3>2 DEF NeededBy, Range
  <2> QED BY <2>1, <2>2, <2>3
<1> QED BY <1>2, <1>3

\* The file a loop has come to
LEMMA FileFacts ==
  ASSUME NEW p \in Ports, PlaceType, More(p)
  PROVE  /\ File(p) \in Files /\ File(p) \in NeededBy(p)
         /\ at[p] > Len(Distfiles[p]) => File(p) \in Range(Patches[p])
BY NeedsFacts DEF PlaceType, More, File
\* Each file a port needs has its place in ALLFILES.
LEMMA NeededFacts ==
  ASSUME NEW p \in Ports, NEW f \in NeededBy(p)
  PROVE  f \in Files /\ \E i \in 1 .. Len(Needs(p)) : f = Needs(p)[i]
<1>1. DOMAIN Needs(p) = 1 .. Len(Needs(p))
  BY NeedsFacts
<1>2. PICK i \in DOMAIN Needs(p) : f = Needs(p)[i]
  BY DEF NeededBy, Range
<1> QED BY <1>1, <1>2, NeedsFacts
-----------------------------------------------------------------------------
(* Types.                                                                  *)

LEMMA StopTypes ==
  ASSUME NEW p \in Ports, PlaceType, ModeType, Stop(p)
  PROVE  PlaceType' /\ ModeType'
<1>1. PlaceType'
  BY DEF PlaceType, Stop, Goto, Steps
<1>2. ModeType'
  BY NothingTypes DEF ModeType, Stop, AllJobs
<1> QED BY <1>1, <1>2

LEMMA LoopTypes ==
  ASSUME NEW p \in Ports, NEW step \in Steps, PlaceType
  PROVE  /\ Loop(p, step) => PlaceType'
         /\ NextFile(p, step) => PlaceType'
         /\ NextSite(p) => PlaceType'
<1>1. Loop(p, step) => PlaceType'
  BY DEF PlaceType, Loop, Goto
<1>2. NextFile(p, step) => PlaceType'
  BY DEF PlaceType, NextFile, Goto
<1>3. "site" \in Steps
  BY DEF Steps
<1>4. NextSite(p) => PlaceType'
  BY <1>3 DEF PlaceType, NextSite, Goto
<1> QED BY <1>1, <1>2, <1>4

\* What UNCHANGED says of the types
LEMMA KeptTypes ==
  /\ UNCHANGED dist /\ DistType => DistType'
  /\ UNCHANGED store /\ StoreType => StoreType'
  /\ UNCHANGED mode /\ ModeType => ModeType'
BY DEF DistType, StoreType, ModeType, store, mode

LEMMA StepTypes ==
  ASSUME TypeOK, NEW p \in Ports,
         Work(p) \/ Kill(p) \/ \E j \in Jobs : Start(p, j)
  PROVE  TypeOK'
<1> DistType /\ StoreType /\ PlaceType /\ ModeType
  BY Types
<1> SUFFICES DistType' /\ StoreType' /\ PlaceType' /\ ModeType'
  BY DEF TypeOK, DistType, StoreType, PlaceType, ModeType
<1> /\ {"fetch", "clean", "patch", "list", "drop", "sum", "extract", "record",
        "create", "remove", "get", "site", "idle", "unlinked"} \subseteq Steps
    /\ "none" \in Contents /\ Data \subseteq Contents /\ "torn" \in Contents
    /\ {"patch", "makesum"} \subseteq AllJobs /\ Jobs \subseteq AllJobs
  BY DEF Steps, Contents, AllJobs
<1>1. CASE \E j \in Jobs : Start(p, j)
  <2> PICK j \in Jobs : Start(p, j)
    BY <1>1
  <2>1. PlaceType'
    <3>1. CASE Loop(p, "fetch") \/ Loop(p, "clean")
      BY <3>1, LoopTypes
    <3>2. CASE /\ Goto(p, "patch")
               /\ at' = [at EXCEPT ![p] = Len(Distfiles[p]) + 1] /\ UNCHANGED site
      BY <3>2, NeedsFacts DEF PlaceType, Goto
    <3> QED BY <3>1, <3>2 DEF Start
  <2>2. ModeType'
    BY DEF ModeType, Start
  <2> QED BY <2>1, <2>2, KeptTypes DEF Start
<1>2. CASE Found(p) \/ GiveUp(p) \/ ArriveUnlinked(p)
  <2>1. NextFile(p, "fetch") /\ UNCHANGED <<dist, store, mode>>
    BY <1>2 DEF Found, GiveUp, ArriveUnlinked
  <2> QED BY <2>1, LoopTypes, KeptTypes
<1>3. CASE Missing(p)
  BY <1>3, KeptTypes DEF Missing, PlaceType, Goto
<1>4. CASE Refused(p) \/ Break(p)
  <2>1. NextSite(p) /\ UNCHANGED <<dist, store, mode>>
    BY <1>4 DEF Refused, Break
  <2> QED BY <2>1, LoopTypes, KeptTypes
<1>5. CASE Open(p)
  <2>1. DistType'
    BY <1>5 DEF Open, DistType
  <2>2. PlaceType'
    BY <1>5 DEF Open, PlaceType, Goto
  <2> QED BY <1>5, <2>1, <2>2, KeptTypes DEF Open
<1>6. CASE Arrive(p)
  <2>1. DistType'
    BY <1>6 DEF Arrive, DistType
  <2> QED BY <1>6, <2>1, LoopTypes, KeptTypes DEF Arrive
<1>7. CASE Fetched(p)
  BY <1>7, LoopTypes, StopTypes, KeptTypes DEF Fetched
<1>8. CASE Unlisted(p) \/ Match(p)
  <2>1. Extract(p)
    BY <1>8 DEF Unlisted, Match
  <2>2. StoreType'
    BY <2>1, NothingTypes DEF Extract, StoreType
  <2> QED BY <2>1, <2>2, LoopTypes, KeptTypes DEF Extract
<1>9. CASE CheckList(p)
  BY <1>9, LoopTypes, KeptTypes DEF CheckList
<1>10. CASE Sum(p)
  <2>1. ModeType'
    BY <1>10 DEF Sum, ModeType
  <2> QED BY <1>10, <2>1, LoopTypes, KeptTypes DEF Sum
<1>11. CASE SumMissing(p) \/ Mismatch(p) \/ PatchedBefore(p) \/ Removed(p) \/ Kill(p)
  <2>1. Stop(p) /\ UNCHANGED <<dist, store>>
    BY <1>11 DEF SumMissing, Mismatch, PatchedBefore, Removed, Kill
  <2> QED BY <2>1, StopTypes, KeptTypes
<1>12. CASE Unpack(p) \/ Patch(p)
  <2>1. More(p)
    BY <1>12, NeedsFacts DEF Unpack, Patch, More, PlaceType
  <2>2. PICK step \in {"extract", "patch"} : Read(p, step)
    BY <1>12 DEF Unpack, Patch
  <2>3. Holds(p) \in Contents
    BY <2>1, FileFacts DEF Holds, DistType
  <2>4. StoreType'
    BY <2>2, <2>3 DEF Read, StoreType
  <2> QED BY <2>2, <2>4, LoopTypes, StopTypes, KeptTypes DEF Read
<1>13. CASE Extracted(p)
  BY <1>13, KeptTypes DEF Extracted, StoreType, PlaceType, Goto
<1>14. CASE Patched(p)
  <2>1. StoreType'
    BY <1>14 DEF Patched, StoreType
  <2> QED BY <1>14, <2>1, StopTypes, KeptTypes DEF Patched
<1>15. CASE Drop(p)
  <2>1. StoreType'
    BY <1>15 DEF Drop, StoreType
  <2>2. PlaceType'
    BY <1>15 DEF Drop, PlaceType, Goto
  <2>3. ModeType'
    BY <1>15, NothingTypes DEF Drop, ModeType, StoreType
  <2> QED BY <1>15, <2>1, <2>2, <2>3, KeptTypes DEF Drop
<1>16. CASE Create(p)
  <2>1. StoreType'
    BY <1>16, NothingTypes DEF Create, StoreType
  <2> QED BY <1>16, <2>1, LoopTypes, KeptTypes DEF Create
<1>17. CASE Record(p)
  <2>1. Holds(p) \in Contents
    BY <1>17, FileFacts DEF Record, Holds, DistType
  <2>2. ModeType'
    BY <1>17, <2>1 DEF Record, ModeType
  <2> QED BY <1>17, <2>2, LoopTypes, KeptTypes DEF Record
<1>18. CASE Write(p)
  <2>1. [f \in Files |-> ({seen[p][f]} \ {"none"}) \cup bak[p][f]]
          \in [Files -> SUBSET Data]
    BY DEF ModeType, Contents
  <2>2. StoreType'
    BY <1>18, <2>1 DEF Write, StoreType
  <2> QED BY <1>18, <2>2, StopTypes, KeptTypes DEF Write
<1>19. CASE Clean(p)
  <2>1. StoreType'
    BY <1>19, NothingTypes DEF Clean, StoreType
  <2>2. PlaceType' /\ ModeType'
    BY <1>19, LoopTypes, StopTypes, KeptTypes DEF Clean, Cleaned
  <2> QED BY <1>19, <2>1, <2>2, KeptTypes DEF Clean
<1>20. CASE Remove(p)
  <2>1. DistType'
    BY <1>20 DEF Remove, DistType
  <2>2. PlaceType'
    BY <1>20 DEF Remove, PlaceType
  <2> QED BY <1>20, <2>1, <2>2, KeptTypes DEF Remove
<1> QED
  BY <1>1, <1>2, <1>3, <1>4, <1>5, <1>6, <1>7, <1>8, <1>9, <1>10, <1>11, <1>12, <1>13,
     <1>14, <1>15, <1>16, <1>17, <1>18, <1>19, <1>20 DEF Work

\* Every session stays within the types, whatever the others do.
THEOREM TypeCorrect == Spec => []TypeOK
<1>1. Init => TypeOK
  BY NothingTypes DEF Init, TypeOK, Steps, AllJobs
<1>2. TypeOK /\ [Next]_vars => TypeOK'
  <2>1. ASSUME TypeOK, Next PROVE TypeOK'
    BY <2>1, StepTypes DEF Next
  <2>2. ASSUME TypeOK, UNCHANGED vars PROVE TypeOK'
    BY <2>2 DEF TypeOK, vars, store, mode
  <2> QED BY <2>1, <2>2
<1> QED BY <1>1, <1>2, PTL DEF Spec
-----------------------------------------------------------------------------
(* Nothing unlisted is unpacked.                                           *)

\* The files for which the distinfo of p is to be relied on
Safe(p, f) == Private(p, f) \/ (Alone /\ f \notin Range(Patches[p]))
Fits(p, f) == dist[f] \in Shipped[p][f]

\* With Alone there is one session at most; and nobody writes a distinfo.
OneAtATime ==
  Alone => \A p, q \in Ports : p # q => pc[p] = "idle" \/ pc[q] = "idle"
Common == list = Listed /\ sums = Shipped /\ OneAtATime

\* Where the session of p may be, with what behind it
Place(p) ==
  /\ job[p] \notin {"makesum", "merge"}
  /\ pc[p] \notin {"drop", "create", "record"}
  /\ pc[p] \in {"site", "get", "unlinked"} => More(p)
  /\ pc[p] = "remove" => work[p] = "none"
  /\ pc[p] = "patch" => work[p] = "extracted" /\ at[p] > Len(Distfiles[p])

\* A private file is fetched only before it has been unpacked.
Fetches(p) ==
  pc[p] \in {"site", "get", "unlinked"} =>
    \A f \in Files : File(p) = f /\ Private(p, f) => work[p] = "none"

\* What has been summed fits as long as it matters: until it is unpacked, and
\* the private files even until the work directory is removed.
Summed(p) ==
  /\ pc[p] = "sum" /\ ok[p] =>
       \A i \in 1 .. Len(Needs(p)) :
         i < at[p] /\ Safe(p, Needs(p)[i]) => Fits(p, Needs(p)[i])
  /\ pc[p] = "extract" => \A f \in NeededBy(p) : Safe(p, f) => Fits(p, f)
Kept(p) ==
  /\ work[p] # "none" => \A f \in NeededBy(p) : Private(p, f) => Fits(p, f)
  /\ \A f \in Files : Safe(p, f) => got[p][f] \in Shipped[p][f] \cup {"none"}

Local(p) == Place(p) /\ (p \in Listed => Fetches(p) /\ Summed(p) /\ Kept(p))
IInv == TypeOK /\ Common /\ \A p \in Ports : Local(p)

\* What a step of one session is to the others: it may change its own files and,
\* removing one, cut off a transfer of theirs.
Elsewhere(p, q) ==
  /\ at'[p] = at[p] /\ site'[p] = site[p] /\ ok'[p] = ok[p] /\ job'[p] = job[p]
  /\ work'[p] = work[p] /\ got'[p] = got[p]
  /\ pc'[p] = pc[p] \/ (pc[p] = "get" /\ pc'[p] = "unlinked")
  /\ \A f \in Files : dist'[f] # dist[f] => f \in NeededBy(q) /\ pc[q] # "idle"

LEMMA StopElsewhere ==
  ASSUME TypeOK, NEW p \in Ports, NEW q \in Ports, p # q
  PROVE  /\ Stop(q) => /\ at'[p] = at[p] /\ ok'[p] = ok[p] /\ job'[p] = job[p]
                       /\ pc'[p] = pc[p] /\ site'[p] = site[p]
         /\ \A step : Loop(q, step) \/ NextFile(q, step) \/ NextSite(q) \/ Goto(q, step) =>
                        pc'[p] = pc[p]
         /\ \A step : Loop(q, step) \/ NextFile(q, step) \/ NextSite(q) =>
                        at'[p] = at[p] /\ site'[p] = site[p]
BY DEF Stop, Loop, NextFile, NextSite, Goto, TypeOK

LEMMA KeptElsewhere ==
  ASSUME TypeOK, NEW p \in Ports
  PROVE  /\ UNCHANGED mode => ok'[p] = ok[p] /\ job'[p] = job[p]
         /\ UNCHANGED store => work'[p] = work[p] /\ got'[p] = got[p]
BY DEF mode, store

LEMMA StepElsewhere ==
  ASSUME TypeOK, NEW p \in Ports, NEW q \in Ports, p # q,
         pc[q] \in {"site", "get", "unlinked"} => More(q),
         Work(q) \/ Kill(q) \/ \E j \in Jobs : Start(q, j)
  PROVE  Elsewhere(p, q)
<1> PlaceType
  BY DEF TypeOK, PlaceType
<1>1. CASE \E j \in Jobs : Start(q, j)
  BY <1>1, StopElsewhere, KeptElsewhere DEF Start, Elsewhere, Loop, Goto, TypeOK
<1>2. CASE Found(q) \/ GiveUp(q) \/ ArriveUnlinked(q)
  BY <1>2, StopElsewhere, KeptElsewhere DEF Found, GiveUp, ArriveUnlinked, Elsewhere
<1>3. CASE Missing(q) \/ Refused(q) \/ Break(q) \/ CheckList(q)
  BY <1>3, StopElsewhere, KeptElsewhere
  DEF Missing, Refused, Break, CheckList, Elsewhere, TypeOK
<1>4. CASE Open(q)
  BY <1>4, StopElsewhere, KeptElsewhere, FileFacts DEF Open, Elsewhere, TypeOK
<1>5. CASE Arrive(q)
  BY <1>5, StopElsewhere, KeptElsewhere, FileFacts DEF Arrive, Elsewhere, TypeOK
<1>6. CASE Fetched(q)
  BY <1>6, StopElsewhere, KeptElsewhere DEF Fetched, Elsewhere
<1>7. CASE Unlisted(q) \/ Match(q)
  BY <1>7, StopElsewhere, KeptElsewhere DEF Unlisted, Match, Extract, Elsewhere, TypeOK
<1>8. CASE Sum(q) \/ Record(q)
  BY <1>8, StopElsewhere, KeptElsewhere DEF Sum, Record, Elsewhere, TypeOK
<1>9. CASE SumMissing(q) \/ Mismatch(q) \/ PatchedBefore(q) \/ Removed(q) \/ Kill(q)
  BY <1>9, StopElsewhere, KeptElsewhere
     DEF SumMissing, Mismatch, PatchedBefore, Removed, Kill, Elsewhere
<1>10. CASE Unpack(q) \/ Patch(q)
  <2>1. PICK step \in {"extract", "patch"} : Read(q, step)
    BY <1>10 DEF Unpack, Patch
  <2> QED BY <2>1, StopElsewhere, KeptElsewhere DEF Read, Elsewhere, TypeOK
<1>11. CASE Extracted(q) \/ Patched(q)
  BY <1>11, StopElsewhere, KeptElsewhere DEF Extracted, Patched, Elsewhere, TypeOK
<1>12. CASE Drop(q)
  BY <1>12, StopElsewhere, KeptElsewhere DEF Drop, Elsewhere
<1>13. CASE Create(q) \/ Write(q)
  BY <1>13, StopElsewhere, KeptElsewhere DEF Create, Write, Elsewhere
<1>14. CASE Clean(q)
  BY <1>14, StopElsewhere, KeptElsewhere DEF Clean, Cleaned, Elsewhere, TypeOK
<1>15. CASE Remove(q)
  BY <1>15, KeptElsewhere, FileFacts DEF Remove, Elsewhere, TypeOK
<1> QED
  BY <1>1, <1>2, <1>3, <1>4, <1>5, <1>6, <1>7, <1>8, <1>9, <1>10, <1>11, <1>12,
     <1>13, <1>14, <1>15 DEF Work

\* The steps of others leave what p relies on as it is.
LEMMA LocalElsewhere ==
  ASSUME IInv, NEW p \in Ports, NEW q \in Ports, p # q, Elsewhere(p, q)
  PROVE  Local(p)'
<1> TypeOK /\ Local(p) /\ Common
  BY DEF IInv
<1>1. Place(p)'
  BY DEF Local, Place, Elsewhere, More
<1>2. Fetches(p) => Fetches(p)'
  BY DEF Fetches, Elsewhere, File
<1>3. ASSUME NEW f \in NeededBy(p), Private(p, f)
      PROVE  dist'[f] = dist[f]
  BY <1>3, NeededFacts DEF Elsewhere, Private
<1>4. ASSUME NEW f \in NeededBy(p), Safe(p, f), pc[p] # "idle"
      PROVE  dist'[f] = dist[f]
  <2>1. CASE Private(p, f)
    BY <2>1, <1>3
  <2>2. CASE Alone
    BY <1>4, <2>2, NeededFacts DEF Common, OneAtATime, Elsewhere
  <2> QED BY <1>4, <2>1, <2>2 DEF Safe
<1>5. ASSUME Summed(p) PROVE Summed(p)'
  <2>1. ASSUME pc'[p] = "sum", ok'[p], NEW i \in 1 .. Len(Needs(p)),
               i < at'[p], Safe(p, Needs(p)[i])
        PROVE  dist'[Needs(p)[i]] \in Shipped[p][Needs(p)[i]]
    BY <1>4, <1>5, <2>1, NeedsFacts DEF Summed, Fits, Elsewhere
  <2>2. ASSUME pc'[p] = "extract", NEW f \in NeededBy(p), Safe(p, f)
        PROVE  dist'[f] \in Shipped[p][f]
    BY <1>4, <1>5, <2>2 DEF Summed, Fits, Elsewhere
  <2> QED BY <2>1, <2>2 DEF Summed, Fits
<1>6. ASSUME Kept(p) PROVE Kept(p)'
  BY <1>3, <1>6 DEF Kept, Fits, Elsewhere
<1> QED BY <1>1, <1>2, <1>5, <1>6 DEF Local

\* Wherever a session stops, what is on the disk is what counts.
LEMMA StopLocal ==
  ASSUME TypeOK, NEW p \in Ports, Stop(p)
  PROVE  Place(p)' /\ Fetches(p)' /\ Summed(p)'
<1>1. pc'[p] = "idle" /\ job'[p] = "patch"
  BY DEF TypeOK, Stop, Goto
<1> QED BY <1>1 DEF Place, Fetches, Summed

\* Where a session gets by a loop
LEMMA LoopFacts ==
  ASSUME TypeOK, NEW p \in Ports, NEW step
  PROVE  /\ Loop(p, step) => pc'[p] = step /\ at'[p] = 1
         /\ NextFile(p, step) => pc'[p] = step /\ at'[p] = at[p] + 1
         /\ NextSite(p) => pc'[p] = "site" /\ at'[p] = at[p]
         /\ UNCHANGED mode => ok'[p] = ok[p] /\ job'[p] = job[p]
BY DEF TypeOK, Loop, NextFile, NextSite, Goto, mode

\* What rests on the disk alone
LEMMA DiskKept ==
  ASSUME NEW p \in Ports, UNCHANGED <<dist, store>>, Kept(p)
  PROVE  Kept(p)'
BY DEF Kept, Fits, store

\* To reach one of the other places, nothing is needed.
LEMMA EasyPlaces ==
  ASSUME NEW p \in Ports, Place(p), job'[p] = job[p],
         pc'[p] \in {"fetch", "list", "sum", "extract", "clean"}
  PROVE  Place(p)' /\ Fetches(p)'
BY DEF Place, Fetches

\* A step of p keeps what p relies on.
LEMMA LocalStep ==
  ASSUME IInv, NoMakesum, NEW p \in Ports,
         Work(p) \/ Kill(p) \/ \E j \in Jobs : Start(p, j)
  PROVE  Local(p)'
<1> TypeOK /\ Common /\ Local(p) /\ PlaceType /\ Place(p)
  BY DEF IInv, TypeOK, PlaceType, Local
<1> SUFFICES Place(p)' /\ (p \in Listed => Fetches(p)' /\ Summed(p)' /\ Kept(p)')
  BY DEF Local
<1> p \in Listed => Fetches(p) /\ Summed(p) /\ Kept(p)
  BY DEF Local
<1>1. CASE \E j \in Jobs : Start(p, j)
  <2> PICK j \in Jobs : Start(p, j)
    BY <1>1
  <2>1. UNCHANGED <<dist, store>>
    BY DEF Start
  <2>2. j \notin {"makesum", "merge"} /\ job'[p] = j
    BY DEF Start, NoMakesum, TypeOK
  <2>3. CASE Loop(p, "fetch") \/ Loop(p, "clean")
    <3>1. pc'[p] \in {"fetch", "clean"}
      BY <2>3, LoopFacts
    <3> QED BY <2>1, <2>2, <3>1, DiskKept DEF Place, Fetches, Summed
  <2>4. CASE /\ work[p] = "extracted" /\ Goto(p, "patch")
             /\ at' = [at EXCEPT ![p] = Len(Distfiles[p]) + 1]
    <3>1. pc'[p] = "patch" /\ at'[p] > Len(Distfiles[p])
      BY <2>4, NeedsFacts DEF TypeOK, Goto
    <3>2. work'[p] = "extracted"
      BY <2>1, <2>4 DEF store
    <3> QED BY <2>1, <2>2, <3>1, <3>2, DiskKept DEF Place, Fetches, Summed
  <2> QED BY <2>3, <2>4 DEF Start
<1>2. CASE Found(p) \/ GiveUp(p) \/ ArriveUnlinked(p) \/ CheckList(p)
  <2>1. /\ NextFile(p, "fetch") \/ (Loop(p, "sum") /\ CheckList(p))
        /\ UNCHANGED <<dist, store, mode>>
    BY <1>2 DEF Found, GiveUp, ArriveUnlinked, CheckList
  <2>2. pc'[p] = "fetch" \/ (pc'[p] = "sum" /\ at'[p] = 1)
    BY <2>1, LoopFacts
  <2>3. Place(p)' /\ Fetches(p)'
    BY <2>1, <2>2, LoopFacts, EasyPlaces
  <2>4. Summed(p)'
    BY <2>2 DEF Summed
  <2> QED BY <2>1, <2>3, <2>4, DiskKept
<1>3. CASE Missing(p)
  <2>1. pc'[p] = "site" /\ at' = at /\ UNCHANGED <<dist, store, mode>>
    BY <1>3 DEF Missing, Goto, TypeOK
  <2>2. Place(p)'
    BY <1>3, <2>1, LoopFacts DEF Place, Missing, More
  <2>3. ASSUME p \in Listed, Private(p, File(p))
        PROVE  work[p] = "none"
    <3>1. File(p) \in NeededBy(p) /\ File(p) \in Files /\ dist[File(p)] = "none"
      BY <1>3, FileFacts DEF Missing, Holds
    <3>2. "none" \notin Shipped[p][File(p)]
      BY <3>1
    <3> QED BY <2>3, <3>1, <3>2 DEF Kept, Fits
  <2>4. ASSUME p \in Listed PROVE Fetches(p)'
    BY <2>1, <2>3, <2>4 DEF Fetches, File, store
  <2> QED BY <2>1, <2>2, <2>4, DiskKept DEF Summed
<1>4. CASE Refused(p) \/ Break(p)
  <2>1. /\ pc[p] \in {"site", "get", "unlinked"} /\ pc'[p] = "site"
        /\ at' = at /\ UNCHANGED <<dist, store, mode>>
    BY <1>4, LoopFacts DEF Refused, Break, NextSite
  <2> QED BY <2>1, LoopFacts, DiskKept DEF Place, Fetches, Summed, More, File, store
<1>5. CASE Open(p) \/ Arrive(p)
  <2>1. /\ pc[p] \in {"site", "get"} /\ UNCHANGED <<store, mode>>
        /\ pc'[p] = "fetch" \/ (pc'[p] = "get" /\ at' = at)
    BY <1>5, LoopFacts DEF Open, Arrive, Goto, TypeOK
  <2>2. More(p)
    BY <2>1 DEF Place
  <2>3. Place(p)'
    BY <2>1, <2>2, LoopFacts DEF Place, More
  <2>4. ASSUME p \in Listed PROVE Fetches(p)'
    BY <2>1, <2>4 DEF Fetches, File, store
  <2>5. \A f \in Files \ {File(p)} : dist'[f] = dist[f]
    BY <1>5 DEF Open, Arrive, TypeOK
  <2>6. ASSUME p \in Listed PROVE Kept(p)'
    <3>1. work'[p] = work[p] /\ got'[p] = got[p]
      BY <2>1 DEF store
    <3>2. ASSUME work[p] # "none", NEW f \in NeededBy(p), Private(p, f)
          PROVE  dist'[f] \in Shipped[p][f]
      <4>1. f \in Files /\ f # File(p)
        BY <2>1, <2>6, <3>2, NeededFacts DEF Fetches
      <4> QED BY <2>5, <2>6, <3>2, <4>1 DEF Kept, Fits
    <3> QED BY <2>6, <3>1, <3>2 DEF Kept, Fits
  <2> QED BY <2>1, <2>3, <2>4, <2>6 DEF Summed
<1>6. CASE Fetched(p)
  <2>1. UNCHANGED <<dist, store>>
    BY <1>6 DEF Fetched
  <2>2. CASE Stop(p)
    BY <2>1, <2>2, StopLocal, DiskKept
  <2>3. CASE Loop(p, "list") /\ UNCHANGED mode
    <3>1. pc'[p] = "list"
      BY <2>3, LoopFacts
    <3> QED BY <2>1, <2>3, <3>1, LoopFacts, EasyPlaces, DiskKept DEF Summed
  <2> QED BY <1>6, <2>2, <2>3 DEF Fetched, Place
<1>7. CASE Unlisted(p) \/ Match(p)
  <2>1. Extract(p)
    BY <1>7 DEF Unlisted, Match
  <2>2. pc'[p] = "extract" /\ job'[p] = job[p] /\ UNCHANGED <<dist, work>>
    BY <2>1, LoopFacts DEF Extract
  <2>3. Place(p)' /\ Fetches(p)'
    BY <2>2, EasyPlaces
  <2>4. ASSUME p \in Listed PROVE Summed(p)'
    <3>1. Match(p)
      BY <1>7, <2>4 DEF Unlisted, Common
    <3>2. ASSUME NEW f \in NeededBy(p), Safe(p, f)
          PROVE  dist[f] \in Shipped[p][f]
      <4>1. PICK i \in 1 .. Len(Needs(p)) : f = Needs(p)[i]
        BY NeededFacts
      <4>2. i < at[p]
        BY <3>1, NeedsFacts DEF Match, More, TypeOK
      <4> QED BY <2>4, <3>1, <3>2, <4>1, <4>2 DEF Summed, Match, Fits
    <3> QED BY <2>2, <3>2 DEF Summed, Fits
  <2>5. got'[p] = Nothing
    BY <2>1 DEF Extract, TypeOK
  <2>6. ASSUME p \in Listed PROVE Kept(p)'
    BY <2>2, <2>5, <2>6 DEF Kept, Fits, Nothing
  <2> QED BY <2>3, <2>4, <2>6
<1>8. CASE Sum(p)
  <2>1. /\ pc[p] = "sum" /\ pc'[p] = "sum" /\ at'[p] = at[p] + 1
        /\ job'[p] = job[p] /\ UNCHANGED <<dist, store>>
        /\ ok'[p] => ok[p] /\ dist[Needs(p)[at[p]]] \in sums[p][Needs(p)[at[p]]]
    BY <1>8, LoopFacts DEF Sum, Holds, File, TypeOK
  <2>2. Place(p)' /\ Fetches(p)'
    BY <2>1, EasyPlaces
  <2>3. ASSUME p \in Listed PROVE Summed(p)'
    <3>1. ASSUME ok'[p], NEW i \in 1 .. Len(Needs(p)),
                 i < at[p] + 1, Safe(p, Needs(p)[i])
          PROVE  dist[Needs(p)[i]] \in Shipped[p][Needs(p)[i]]
      <4>1. CASE i = at[p]
        BY <2>1, <3>1, <4>1 DEF Common
      <4>2. CASE i < at[p]
        BY <2>1, <2>3, <3>1, <4>2 DEF Summed, Fits
      <4> QED BY <3>1, <4>1, <4>2, NeedsFacts DEF TypeOK
    <3> QED BY <2>1, <3>1 DEF Summed, Fits
  <2> QED BY <2>1, <2>2, <2>3, DiskKept
<1>9. CASE SumMissing(p) \/ Mismatch(p) \/ PatchedBefore(p) \/ Removed(p) \/ Kill(p)
  <2>1. Stop(p) /\ UNCHANGED <<dist, store>>
    BY <1>9 DEF SumMissing, Mismatch, PatchedBefore, Removed, Kill
  <2> QED BY <2>1, StopLocal, DiskKept
<1>10. CASE Unpack(p) \/ Patch(p)
  <2>1. More(p)
    BY <1>10, NeedsFacts DEF Unpack, Patch, More, PlaceType
  <2>2. /\ UNCHANGED <<dist, work>>
        /\ \A f \in Files \ {File(p)} : got'[p][f] = got[p][f]
        /\ got'[p][File(p)] = dist[File(p)]
    BY <1>10, <2>1, FileFacts DEF Unpack, Patch, Read, Holds, TypeOK
  <2>3. ASSUME p \in Listed, Safe(p, File(p))
        PROVE  dist[File(p)] \in Shipped[p][File(p)]
    <3>1. CASE Unpack(p)
      BY <2>1, <2>3, <3>1, FileFacts DEF Unpack, Summed, Fits
    <3>2. CASE Patch(p)
      <4>1. work[p] = "extracted" /\ at[p] > Len(Distfiles[p])
        BY <3>2 DEF Patch, Place
      <4>2. File(p) \in NeededBy(p) /\ Private(p, File(p))
        BY <2>1, <2>3, <4>1, FileFacts DEF Safe
      <4> QED BY <2>3, <4>1, <4>2 DEF Kept, Fits
    <3> QED BY <1>10, <3>1, <3>2
  <2>4. ASSUME p \in Listed PROVE Kept(p)'
    <3>1. ASSUME NEW f \in Files, Safe(p, f)
          PROVE  got'[p][f] \in Shipped[p][f] \cup {"none"}
      BY <2>2, <2>3, <2>4, <3>1 DEF Kept
    <3> QED BY <2>2, <2>4, <3>1 DEF Kept, Fits
  <2>5. CASE Stop(p)
    BY <2>4, <2>5, StopLocal
  <2>6. CASE Unpack(p) /\ NextFile(p, "extract") /\ UNCHANGED mode
    <3>1. pc[p] = "extract" /\ pc'[p] = "extract" /\ job'[p] = job[p]
      BY <2>6, LoopFacts DEF Unpack
    <3> QED BY <2>2, <2>4, <3>1, EasyPlaces DEF Summed, Fits
  <2>7. CASE Patch(p) /\ NextFile(p, "patch") /\ UNCHANGED mode
    <3>1. /\ pc[p] = "patch" /\ pc'[p] = "patch" /\ job'[p] = job[p]
          /\ at'[p] = at[p] + 1
      BY <2>7, LoopFacts DEF Patch
    <3>2. at'[p] > Len(Distfiles[p])
      BY <3>1, NeedsFacts DEF Place, TypeOK
    <3> QED BY <2>2, <2>4, <3>1, <3>2 DEF Place, Fetches, Summed
  <2> QED BY <1>10, <2>5, <2>6, <2>7 DEF Unpack, Patch, Read
<1>11. CASE Extracted(p)
  <2>1. /\ pc[p] = "extract" /\ pc'[p] = "patch" /\ UNCHANGED <<dist, got, at, job>>
        /\ work'[p] = "extracted" /\ at[p] > Len(Distfiles[p])
    BY <1>11 DEF Extracted, Goto, TypeOK, mode
  <2>2. Place(p)' /\ Fetches(p)' /\ Summed(p)'
    BY <2>1 DEF Place, Fetches, Summed
  <2>3. ASSUME p \in Listed PROVE Kept(p)'
    BY <2>1, <2>3 DEF Kept, Summed, Safe, Fits
  <2> QED BY <2>2, <2>3
<1>12. CASE Patched(p)
  <2>1. /\ Stop(p) /\ UNCHANGED <<dist, got>>
        /\ work[p] = "extracted" /\ work'[p] = "patched"
    BY <1>12 DEF Patched, Place, TypeOK
  <2> QED BY <2>1, StopLocal DEF Kept, Fits
<1>13. CASE Drop(p) \/ Create(p) \/ Record(p) \/ Write(p)
  BY <1>13 DEF Drop, Create, Record, Write, Place
<1>14. CASE Clean(p)
  <2>1. work'[p] = "none" /\ got'[p] = Nothing
    BY <1>14 DEF Clean, TypeOK
  <2>2. Kept(p)'
    BY <2>1 DEF Kept, Nothing
  <2>3. CASE Stop(p)
    BY <2>2, <2>3, StopLocal
  <2>4. CASE Loop(p, "remove") /\ UNCHANGED mode
    <3>1. pc'[p] = "remove" /\ job'[p] = job[p]
      BY <2>4, LoopFacts
    <3> QED BY <2>1, <2>2, <3>1 DEF Place, Fetches, Summed
  <2> QED BY <1>14, <2>3, <2>4 DEF Clean, Cleaned
<1>15. CASE Remove(p)
  <2>1. /\ pc[p] = "remove" /\ pc'[p] = "remove" /\ work[p] = "none"
        /\ UNCHANGED <<store, mode>>
    BY <1>15 DEF Remove, Place, TypeOK
  <2>2. work'[p] = "none" /\ got'[p] = got[p] /\ job'[p] = job[p]
    BY <2>1 DEF store, mode
  <2> QED BY <2>1, <2>2 DEF Place, Fetches, Summed, Kept
<1> QED
  BY <1>1, <1>2, <1>3, <1>4, <1>5, <1>6, <1>7, <1>8, <1>9, <1>10, <1>11, <1>12, <1>13,
     <1>14, <1>15 DEF Work

LEMMA OneAtATimeStep ==
  ASSUME TypeOK, OneAtATime, NEW p \in Ports,
         pc[p] \in {"site", "get", "unlinked"} => More(p),
         Work(p) \/ Kill(p) \/ \E j \in Jobs : Start(p, j)
  PROVE  OneAtATime'
<1>1. Alone => \A q \in Ports \ {p} : pc[q] = "idle"
  <2>1. CASE pc[p] = "idle"
    <3>1. \E j \in Jobs : Start(p, j)
      BY <2>1
         DEF Work, Kill, Found, Missing, Refused, Open, GiveUp, Break, Arrive,
             ArriveUnlinked, Fetched, Unlisted, CheckList, Sum, SumMissing, Mismatch,
             Match, Unpack, Extracted, Patch, PatchedBefore, Patched, Drop, Create,
             Record, Write, Clean, Remove, Removed
    <3> QED BY <3>1 DEF Start, Quiet
  <2> QED BY <2>1 DEF OneAtATime
<1>2. \A q \in Ports \ {p} : pc[q] = "idle" => pc'[q] = "idle"
  BY StepElsewhere DEF Elsewhere
<1> QED BY <1>1, <1>2 DEF OneAtATime

LEMMA CommonStep ==
  ASSUME IInv, NoMakesum, NEW p \in Ports,
         Work(p) \/ Kill(p) \/ \E j \in Jobs : Start(p, j)
  PROVE  Common'
<1> TypeOK /\ Common /\ Place(p)
  BY DEF IInv, Local
<1>1. list' = list /\ sums' = sums
  BY DEF Work, Kill, Start, Found, Missing, Refused, Open, GiveUp, Break, Arrive,
         ArriveUnlinked, Fetched, Unlisted, CheckList, Sum, SumMissing, Mismatch, Match,
         Unpack, Extracted, Patch, PatchedBefore, Patched, Drop, Create, Record, Write,
         Clean, Remove, Removed, Extract, Read, Place, store
<1> QED BY <1>1, OneAtATimeStep DEF Common, Place

\* The invariant is inductive.
THEOREM Inductive ==
  ASSUME NoMakesum PROVE Spec => []IInv
<1>1. Init => IInv
  <2> SUFFICES ASSUME Init PROVE IInv
    OBVIOUS
  <2>1. TypeOK
    BY NothingTypes DEF Init, TypeOK, Steps, AllJobs
  <2>2. Common
    BY DEF Init, Common, OneAtATime
  <2>3. ASSUME NEW p \in Ports PROVE Local(p)
    BY DEF Init, Local, Place, Fetches, Summed, Kept, Nothing
  <2> QED BY <2>1, <2>2, <2>3 DEF IInv
<1>2. IInv /\ [Next]_vars => IInv'
  <2>1. ASSUME IInv, NEW p \in Ports,
               Work(p) \/ Kill(p) \/ \E j \in Jobs : Start(p, j)
        PROVE  IInv'
    <3>1. TypeOK'
      BY <2>1, StepTypes DEF IInv
    <3>2. Common'
      BY <2>1, CommonStep
    <3>3. ASSUME NEW q \in Ports PROVE Local(q)'
      <4>1. CASE q = p
        BY <2>1, <4>1, LocalStep
      <4>2. CASE q # p
        <5>1. Elsewhere(q, p)
          BY <2>1, <4>2, StepElsewhere DEF IInv, Local, Place
        <5> QED BY <2>1, <4>2, <5>1, LocalElsewhere
      <4> QED BY <4>1, <4>2
    <3> QED BY <3>1, <3>2, <3>3 DEF IInv
  <2>2. ASSUME IInv, UNCHANGED vars PROVE IInv'
    BY <2>2
    DEF IInv, TypeOK, Common, OneAtATime, Local, Place, Fetches, Summed, Kept, Fits, More,
                File, vars, store, mode
  <2> QED BY <2>1, <2>2 DEF Next
<1> QED BY <1>1, <1>2, PTL DEF Spec

\* Whatever is shared, interrupted or fetched again, no session unpacks or applies
\* a file its distinfo does not list, under the conditions the property names.
THEOREM OnlyListedUnpacked == Spec => []UnpacksWhatIsListed
<1>1. CASE NoMakesum
  <2>1. IInv => UnpacksWhatIsListed
    BY DEF IInv, Common, Local, Kept, Safe, UnpacksWhatIsListed
  <2> QED BY <1>1, <2>1, Inductive, PTL
<1>2. CASE ~NoMakesum
  <2>1. UnpacksWhatIsListed
    BY <1>2 DEF UnpacksWhatIsListed
  <2> QED BY <2>1, PTL
<1> QED BY <1>1, <1>2
-----------------------------------------------------------------------------
(* No retry touches a file that is there.                                  *)

\* A session comes to its first site for a file that is missing, and nobody else
\* has given it one since.
Untried(p) ==
  /\ pc[p] \in {"site", "get", "unlinked"} => More(p)
  /\ pc[p] = "site" /\ site[p] = 1 =>
       \A f \in Files : File(p) = f /\ (Alone \/ Private(p, f)) => dist[f] = "none"
FetchInv == TypeOK /\ OneAtATime /\ \A p \in Ports : Untried(p)

LEMMA UntriedElsewhere ==
  ASSUME FetchInv, NEW p \in Ports, NEW q \in Ports, p # q, Elsewhere(p, q)
  PROVE  Untried(p)'
<1> Untried(p) /\ TypeOK /\ PlaceType /\ OneAtATime
  BY DEF FetchInv, TypeOK, PlaceType
<1>1. pc'[p] \in {"site", "get", "unlinked"} => More(p)'
  BY DEF Untried, Elsewhere, More
<1>2. ASSUME pc'[p] = "site", site'[p] = 1, NEW f \in Files, File(p)' = f,
             Alone \/ Private(p, f)
      PROVE  dist'[f] = "none"
  <2>1. pc[p] = "site" /\ File(p) = f /\ dist[f] = "none" /\ f \in NeededBy(p)
    BY <1>2, FileFacts DEF Untried, Elsewhere, File
  <2>2. dist'[f] # dist[f] => f \in NeededBy(q) /\ pc[q] # "idle"
    BY DEF Elsewhere
  <2>3. dist'[f] = dist[f]
    BY <1>2, <2>1, <2>2 DEF OneAtATime, Private
  <2> QED BY <2>1, <2>3
<1> QED BY <1>1, <1>2 DEF Untried

LEMMA UntriedStep ==
  ASSUME FetchInv, NEW p \in Ports,
         Work(p) \/ Kill(p) \/ \E j \in Jobs : Start(p, j)
  PROVE  Untried(p)'
<1> Untried(p) /\ TypeOK
  BY DEF FetchInv
<1>1. CASE Missing(p)
  <2>1. pc'[p] = "site" /\ UNCHANGED <<dist, at>> /\ More(p) /\ dist[File(p)] = "none"
    BY <1>1 DEF Missing, Holds, Goto, TypeOK
  <2> QED BY <2>1 DEF Untried, More, File
<1>2. CASE Refused(p) \/ Break(p)
  <2>1. /\ pc[p] \in {"site", "get", "unlinked"} /\ UNCHANGED at
        /\ site'[p] = site[p] + 1
    BY <1>2 DEF Refused, Break, NextSite, TypeOK
  <2>2. site'[p] # 1
    BY <2>1 DEF TypeOK
  <2> QED BY <2>1, <2>2 DEF Untried, More
<1>3. CASE Open(p)
  <2>1. pc[p] = "site" /\ pc'[p] = "get" /\ UNCHANGED at
    BY <1>3 DEF Open, Goto, TypeOK
  <2> QED BY <2>1 DEF Untried, More
<1>4. CASE /\ ~Missing(p) /\ ~Refused(p) /\ ~Break(p) /\ ~Open(p)
  <2>1. pc'[p] \notin {"site", "get", "unlinked"}
    <3>1. Stop(p) => pc'[p] = "idle"
      BY DEF Stop, Goto, TypeOK
    <3>2. \A step : Loop(p, step) \/ NextFile(p, step) \/ Goto(p, step) => pc'[p] = step
      BY DEF Loop, NextFile, Goto, TypeOK
    <3>3. Remove(p) => pc'[p] = "remove"
      BY DEF Remove, TypeOK
    <3>4. CASE \E j \in Jobs : Start(p, j)
      BY <3>2, <3>4 DEF Start
    <3>5. CASE Work(p) \/ Kill(p)
      BY <1>4, <3>1, <3>2, <3>3, <3>5
         DEF Work, Kill, Found, GiveUp, Arrive, ArriveUnlinked, Fetched, Unlisted,
             CheckList, Sum, SumMissing, Mismatch, Match, Unpack, Extracted, Patch,
             PatchedBefore, Patched, Drop, Create, Record, Write, Clean, Cleaned,
             Removed, Extract, Read
    <3> QED BY <3>4, <3>5
  <2> QED BY <2>1 DEF Untried
<1> QED BY <1>1, <1>2, <1>3, <1>4

LEMMA FetchInvBegins == Init => FetchInv
BY NothingTypes DEF Init, FetchInv, TypeOK, OneAtATime, Untried, Steps, AllJobs

LEMMA FetchInvKept ==
  ASSUME FetchInv, NEW p \in Ports,
         Work(p) \/ Kill(p) \/ \E j \in Jobs : Start(p, j)
  PROVE  FetchInv'
<1>1. TypeOK' /\ OneAtATime'
  BY StepTypes, OneAtATimeStep DEF FetchInv, Untried
<1>2. ASSUME NEW q \in Ports PROVE Untried(q)'
  <2>1. CASE q = p
    BY <2>1, UntriedStep
  <2>2. CASE q # p
    <3>1. Elsewhere(q, p)
      BY <2>2, StepElsewhere DEF FetchInv, Untried
    <3> QED BY <2>2, <3>1, UntriedElsewhere
  <2> QED BY <2>1, <2>2
<1> QED BY <1>1, <1>2 DEF FetchInv

LEMMA FetchInvRests == FetchInv /\ UNCHANGED vars => FetchInv'
BY DEF FetchInv, TypeOK, OneAtATime, Untried, More, File, vars, store, mode

\* A file in DISTDIR, torn or not, is only removed, or overwritten by a session
\* that found it missing: what one fetch left is what every later one keeps.
THEOREM DistfileAlwaysStays == Spec => DistfileStays
<1>1. Init => FetchInv
  BY FetchInvBegins
<1>2. FetchInv /\ [Next]_vars => FetchInv'
  BY FetchInvKept, FetchInvRests DEF Next
<1>3. ASSUME FetchInv, NEW p \in Ports,
             Work(p) \/ Kill(p) \/ \E j \in Jobs : Start(p, j),
             NEW f \in Files, dist[f] # "none", dist'[f] # dist[f]
      PROVE  /\ More(p) /\ File(p) = f
             /\ \/ pc[p] \in {"get", "remove"}
                \/ pc[p] = "site" /\ (site[p] > 1 \/ ~(Alone \/ Private(p, f)))
  <2> TypeOK /\ Untried(p)
    BY <1>3 DEF FetchInv
  <2>1. CASE Open(p) \/ Arrive(p) \/ Remove(p)
    <3>1. More(p) /\ File(p) = f
      BY <1>3, <2>1 DEF Untried, Open, Arrive, Remove, TypeOK
    <3>2. CASE pc[p] = "site"
      BY <1>3, <3>1, <3>2 DEF Untried, TypeOK
    <3> QED BY <2>1, <3>1, <3>2 DEF Open, Arrive, Remove
  <2>2. CASE ~(Open(p) \/ Arrive(p) \/ Remove(p))
    <3>1. UNCHANGED dist
      BY <1>3, <2>2
         DEF Work, Kill, Start, Found, Missing, Refused, GiveUp, Break, ArriveUnlinked,
             Fetched, Unlisted, CheckList, Sum, SumMissing, Mismatch, Match, Unpack,
             Extracted, Patch, PatchedBefore, Patched, Drop, Create, Record, Write,
             Clean, Removed, Extract, Read
    <3> QED BY <1>3, <3>1
  <2> QED BY <2>1, <2>2
<1>4. FetchInv /\ [Next]_vars =>
        [\A f \in Files : dist[f] # "none" /\ dist'[f] # dist[f] =>
           \E p \in Ports :
             /\ More(p) /\ File(p) = f
             /\ \/ pc[p] \in {"get", "remove"}
                \/ pc[p] = "site" /\ (site[p] > 1 \/ ~(Alone \/ Private(p, f)))]_vars
  BY <1>3 DEF Next
<1> QED BY <1>1, <1>2, <1>4, PTL DEF Spec, DistfileStays
-----------------------------------------------------------------------------
(* makesum records what is there.                                          *)

\* What makesum has summed so far is still what DISTDIR holds, and the distinfo
\* it is going to fill stays where the shell created it.
Reliable(p, f) == Alone \/ Private(p, f)
Recorded(p) ==
  pc[p] = "record" =>
    /\ p \in list
    /\ \A i \in 1 .. Len(Needs(p)) :
         i < at[p] /\ Reliable(p, Needs(p)[i]) =>
           seen[p][Needs(p)[i]] = dist[Needs(p)[i]]
SumInv == FetchInv /\ \A p \in Ports : Recorded(p)

\* Nobody else writes the distinfo of p, or what its makesum has summed.
SumsElsewhere(p) ==
  seen'[p] = seen[p] /\ sums'[p] = sums[p] /\ (p \in list' <=> p \in list)

LEMMA SumsNotByOthers ==
  ASSUME TypeOK, NEW p \in Ports, NEW q \in Ports, p # q,
         Work(q) \/ Kill(q) \/ \E j \in Jobs : Start(q, j)
  PROVE  SumsElsewhere(p)
<1>1. Stop(q) \/ UNCHANGED mode => seen'[p] = seen[p]
  BY DEF Stop, mode, TypeOK
<1>2. UNCHANGED store => sums'[p] = sums[p] /\ list' = list
  BY DEF store
<1>3. CASE (\E j \in Jobs : Start(q, j)) \/ Sum(q)
  BY <1>2, <1>3 DEF Start, Sum, SumsElsewhere
<1>4. CASE \/ Found(q) \/ Missing(q) \/ Refused(q) \/ Open(q) \/ GiveUp(q) \/ Break(q)
           \/ Arrive(q) \/ ArriveUnlinked(q) \/ Fetched(q) \/ CheckList(q)
           \/ SumMissing(q) \/ Mismatch(q) \/ PatchedBefore(q) \/ Remove(q)
           \/ Removed(q) \/ Kill(q)
  <2>1. (Stop(q) \/ UNCHANGED mode) /\ UNCHANGED store
    BY <1>4
       DEF Found, Missing, Refused, Open, GiveUp, Break, Arrive, ArriveUnlinked, Fetched,
           CheckList, SumMissing, Mismatch, PatchedBefore, Remove, Removed, Kill
  <2> QED BY <1>1, <1>2, <2>1 DEF SumsElsewhere
<1>5. CASE \/ Unlisted(q) \/ Match(q) \/ Unpack(q) \/ Extracted(q) \/ Patch(q)
           \/ Patched(q) \/ Clean(q)
  <2>1. (Stop(q) \/ UNCHANGED mode) /\ UNCHANGED <<list, sums>>
    BY <1>5
       DEF Unlisted, Match, Extract, Unpack, Extracted, Patch, Patched, Clean, Cleaned, Read
  <2> QED BY <1>1, <2>1 DEF SumsElsewhere
<1>6. CASE Drop(q)
  BY <1>6 DEF Drop, SumsElsewhere
<1>7. CASE Create(q)
  BY <1>1, <1>7 DEF Create, SumsElsewhere, TypeOK
<1>8. CASE Record(q)
  BY <1>2, <1>8 DEF Record, SumsElsewhere, TypeOK
<1>9. CASE Write(q)
  BY <1>1, <1>9 DEF Write, SumsElsewhere, TypeOK
<1> QED BY <1>3, <1>4, <1>5, <1>6, <1>7, <1>8, <1>9 DEF Work

LEMMA RecordedElsewhere ==
  ASSUME SumInv, NEW p \in Ports, NEW q \in Ports, p # q,
         Elsewhere(p, q), SumsElsewhere(p)
  PROVE  Recorded(p)'
<1> SUFFICES ASSUME pc'[p] = "record"
             PROVE  /\ p \in list'
                    /\ \A i \in 1 .. Len(Needs(p)) :
                         i < at'[p] /\ Reliable(p, Needs(p)[i]) =>
                           seen'[p][Needs(p)[i]] = dist'[Needs(p)[i]]
  BY DEF Recorded
<1>1. pc[p] = "record" /\ at'[p] = at[p] /\ seen'[p] = seen[p] /\ p \in list'
  BY DEF Elsewhere, SumsElsewhere, SumInv, Recorded
<1>2. ASSUME NEW i \in 1 .. Len(Needs(p)), Reliable(p, Needs(p)[i])
      PROVE  dist'[Needs(p)[i]] = dist[Needs(p)[i]]
  <2>1. Needs(p)[i] \in Files /\ Needs(p)[i] \in NeededBy(p)
    BY NeedsFacts
  <2>2. dist'[Needs(p)[i]] # dist[Needs(p)[i]] =>
          Needs(p)[i] \in NeededBy(q) /\ pc[q] # "idle"
    BY <2>1 DEF Elsewhere
  <2> QED BY <1>1, <1>2, <2>2 DEF Reliable, Private, SumInv, FetchInv, OneAtATime
<1>3. ASSUME NEW i \in 1 .. Len(Needs(p)), i < at'[p], Reliable(p, Needs(p)[i])
      PROVE  seen'[p][Needs(p)[i]] = dist'[Needs(p)[i]]
  <2>1. seen[p][Needs(p)[i]] = dist[Needs(p)[i]]
    BY <1>1, <1>3 DEF SumInv, Recorded
  <2> QED BY <1>1, <1>2, <1>3, <2>1
<1> QED BY <1>1, <1>3

LEMMA RecordedStep ==
  ASSUME SumInv, NEW p \in Ports,
         Work(p) \/ Kill(p) \/ \E j \in Jobs : Start(p, j)
  PROVE  Recorded(p)'
<1> TypeOK /\ Recorded(p) /\ PlaceType
  BY DEF SumInv, FetchInv, TypeOK, PlaceType
<1>1. CASE Create(p)
  <2>1. at'[p] = 1 /\ p \in list'
    BY <1>1 DEF Create, Loop, TypeOK
  <2> QED BY <2>1 DEF Recorded
<1>2. CASE Record(p)
  <2>1. /\ pc[p] = "record" /\ at'[p] = at[p] + 1 /\ UNCHANGED <<dist, list>>
        /\ seen'[p] = [seen[p] EXCEPT ![File(p)] = dist[File(p)]]
    BY <1>2 DEF Record, NextFile, Holds, TypeOK, store
  <2>2. File(p) \in Files /\ File(p) = Needs(p)[at[p]]
    BY <1>2, FileFacts DEF Record, File
  <2>3. ASSUME NEW i \in 1 .. Len(Needs(p)), i < at'[p], Reliable(p, Needs(p)[i])
        PROVE  seen'[p][Needs(p)[i]] = dist'[Needs(p)[i]]
    <3>1. Needs(p)[i] \in Files
      BY NeedsFacts
    <3>2. CASE Needs(p)[i] = File(p)
      BY <2>1, <2>2, <3>2 DEF TypeOK
    <3>3. CASE Needs(p)[i] # File(p)
      <4>1. i < at[p]
        BY <2>1, <2>2, <2>3, <3>3, NeedsFacts DEF TypeOK
      <4> QED BY <2>1, <2>2, <2>3, <3>1, <3>3, <4>1 DEF Recorded, TypeOK
    <3> QED BY <3>2, <3>3
  <2> QED BY <2>1, <2>3 DEF Recorded
<1>3. CASE ~Create(p) /\ ~Record(p)
  <2>1. pc'[p] # "record"
    <3>1. Stop(p) => pc'[p] = "idle"
      BY DEF Stop, Goto, TypeOK
    <3>2. \A step : Loop(p, step) \/ NextFile(p, step) \/ Goto(p, step) => pc'[p] = step
      BY DEF Loop, NextFile, Goto, TypeOK
    <3>3. (Remove(p) => pc'[p] = "remove") /\ (NextSite(p) => pc'[p] = "site")
      BY DEF Remove, NextSite, Goto, TypeOK
    <3>4. CASE \E j \in Jobs : Start(p, j)
      BY <3>2, <3>4 DEF Start
    <3>5. CASE Work(p) \/ Kill(p)
      BY <1>3, <3>1, <3>2, <3>3, <3>5
         DEF Work, Kill, Found, Missing, Refused, Open, GiveUp, Break, Arrive,
             ArriveUnlinked, Fetched, Unlisted, CheckList, Sum, SumMissing, Mismatch,
             Match, Unpack, Extracted, Patch, PatchedBefore, Patched, Drop, Write, Clean,
             Cleaned, Removed, Extract, Read
    <3> QED BY <3>4, <3>5
  <2> QED BY <2>1 DEF Recorded
<1> QED BY <1>1, <1>2, <1>3

LEMMA SumInvKept ==
  ASSUME SumInv, NEW p \in Ports,
         Work(p) \/ Kill(p) \/ \E j \in Jobs : Start(p, j)
  PROVE  SumInv'
<1>1. FetchInv'
  BY FetchInvKept DEF SumInv
<1>2. ASSUME NEW q \in Ports PROVE Recorded(q)'
  <2>1. CASE q = p
    BY <2>1, RecordedStep
  <2>2. CASE q # p
    <3>1. Elsewhere(q, p) /\ SumsElsewhere(q)
      BY <2>2, StepElsewhere, SumsNotByOthers DEF SumInv, FetchInv, Untried
    <3> QED BY <2>2, <3>1, RecordedElsewhere
  <2> QED BY <2>1, <2>2
<1> QED BY <1>1, <1>2 DEF SumInv

\* The distinfo changes under a makesum that sums only by its own last step, which
\* writes what DISTDIR holds then.
LEMMA WrittenMatches ==
  ASSUME SumInv, NEW p \in Ports,
         Work(p) \/ Kill(p) \/ \E j \in Jobs : Start(p, j),
         NEW q \in Ports, pc[q] = "record", sums'[q] # sums[q]
  PROVE  /\ q \in list'
         /\ \A f \in NeededBy(q) : Reliable(q, f) => dist[f] \in sums'[q][f] \cup {"none"}
<1> TypeOK /\ Recorded(q)
  BY DEF SumInv, FetchInv
<1>1. p = q
  BY SumsNotByOthers DEF SumsElsewhere
<1>2. Write(q)
  BY <1>1
     DEF Work, Kill, Start, Found, Missing, Refused, Open, GiveUp, Break, Arrive,
         ArriveUnlinked, Fetched, Unlisted, CheckList, Sum, SumMissing, Mismatch, Match,
         Unpack, Extracted, Patch, PatchedBefore, Patched, Drop, Create, Record, Clean,
         Remove, Removed, store
<1>3. /\ q \in list' /\ ~More(q)
      /\ sums'[q] = [f \in Files |-> ({seen[q][f]} \ {"none"}) \cup bak[q][f]]
  BY <1>2 DEF Write, Recorded, TypeOK
<1>4. ASSUME NEW f \in NeededBy(q), Reliable(q, f)
      PROVE  dist[f] \in sums'[q][f] \cup {"none"}
  <2>1. PICK i \in 1 .. Len(Needs(q)) : f = Needs(q)[i]
    BY NeededFacts
  <2>2. i < at[q] /\ f \in Files
    BY <1>3, NeededFacts, NeedsFacts DEF More, TypeOK
  <2>3. seen[q][f] = dist[f]
    BY <1>4, <2>1, <2>2 DEF Recorded
  <2> QED BY <1>3, <2>2, <2>3
<1> QED BY <1>3, <1>4

\* A makesum that comes to its end has a distinfo the files of its port pass with,
\* whatever was killed, missing or merged on the way, if nobody else works on them.
THEOREM MakesumAlwaysMatches == Spec => MakesumMatches
<1>1. Init => SumInv
  BY FetchInvBegins DEF Init, SumInv, Recorded
<1>2. SumInv /\ [Next]_vars => SumInv'
  <2>1. ASSUME SumInv, UNCHANGED vars PROVE SumInv'
    BY <2>1, FetchInvRests DEF SumInv, Recorded, vars, store, mode
  <2> QED BY <2>1, SumInvKept DEF Next
<1>3. SumInv /\ [Next]_vars =>
        [\A p \in Ports : pc[p] = "record" /\ sums'[p] # sums[p] =>
           /\ p \in list'
           /\ \A f \in NeededBy(p) :
                Alone \/ Private(p, f) => dist[f] \in sums'[p][f] \cup {"none"}]_vars
  BY WrittenMatches DEF Next, Reliable
<1> QED BY <1>1, <1>2, <1>3, PTL DEF Spec, MakesumMatches
=============================================================================
