------------------------------- MODULE PortSlot -------------------------------
(***************************************************************************)
(* What a port promises the ports above it, and the operator: `make         *)
(* instpkg` adds a package where none is, marks it made when it has, and    *)
(* takes one away only for FORCE_INSTPKG, however its stages go and         *)
(* wherever they break off (ports/Mk/port.mk 561-564, 664-682).             *)
(* PortBuild implements it, and so does each port of a nest of makes in      *)
(* PortDepends.                                                             *)
(***************************************************************************)

VARIABLES
  found,   \* pkginfo -q finds the package
  marked,  \* the INSTPKG_COOKIE exists
  phase,   \* how far the make of instpkg is, "idle" when there is none
  forced   \* it was given FORCE_INSTPKG

vars == <<found, marked, phase, forced>>

Init == found \in BOOLEAN /\ marked = FALSE /\ phase = "idle" /\ forced = FALSE

\* A marked port is not made again.
Enter ==
  /\ phase = "idle" /\ ~marked
  /\ phase' = "stages" /\ forced' \in BOOLEAN /\ UNCHANGED <<found, marked>>

\* The package is there and to be replaced, or is not there.
Claim ==
  /\ phase = "stages" /\ found = forced
  /\ phase' = "claimed" /\ found' = FALSE /\ UNCHANGED <<marked, forced>>

\* pkgadd begins: from now on pkginfo -q finds something.
Add ==
  /\ phase = "claimed" /\ ~found
  /\ phase' = "adding" /\ found' = TRUE /\ UNCHANGED <<marked, forced>>

Added ==
  /\ phase = "adding"
  /\ phase' = "added" /\ UNCHANGED <<found, marked, forced>>

Mark ==
  /\ phase = "added"
  /\ phase' = "marked" /\ marked' = TRUE /\ UNCHANGED <<found, forced>>

\* The make ends, and wherever it is interrupted no mark is left.
Leave ==
  /\ phase # "idle"
  /\ phase' = "idle" /\ forced' = FALSE
  /\ marked' \in {marked, FALSE} /\ UNCHANGED found

\* The work directory is removed, by hand or for another stage.
Clean == phase = "idle" /\ marked' = FALSE /\ UNCHANGED <<found, phase, forced>>

\* pkgrm by hand waits for a pkgadd.
PkgRm ==
  /\ found /\ phase # "adding"
  /\ found' = FALSE /\ UNCHANGED <<marked, phase, forced>>

Next == Enter \/ Claim \/ Add \/ Added \/ Mark \/ Leave \/ Clean \/ PkgRm

Spec == Init /\ [][Next]_vars
=============================================================================
