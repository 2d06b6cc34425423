---------------------------- MODULE MCDistfiles ----------------------------
(* Two instances of Distfiles for TLC: graphics/xv by itself, and the same   *)
(* beside a port it shares a file with, as print/cjk-ghostscript shares one  *)
(* with graphics/jpeg.                                                      *)
EXTENDS Distfiles

CONSTANTS xv, cjkgs, xv310, jpegpatch, jpegsrc

\* graphics/xv has PATCHFILES.
PatchPorts == {xv}
PatchFiles == {xv310, jpegpatch}
PatchDistfiles == [p \in PatchPorts |-> <<xv310>>]
PatchPatches == [p \in PatchPorts |-> <<jpegpatch>>]

\* One file is shared, two are not.
SharedPorts == {xv, cjkgs}
SharedFiles == {xv310, jpegpatch, jpegsrc}
SharedDistfiles ==
  [p \in SharedPorts |-> IF p = xv THEN <<xv310, jpegsrc>> ELSE <<jpegsrc>>]
SharedPatches == [p \in SharedPorts |-> IF p = xv THEN <<jpegpatch>> ELSE <<>>]

ListsGood == [p \in Ports |-> [f \in Files |-> {"good"}]]
AnyData == {"good", "other", "torn"}
LessData == {"good", "torn"}
AnyJob == AllJobs
BuildJobs == {"patch", "fetch", "clean", "distclean"}
=============================================================================
