---------------------------- MODULE MCBMakeJobs ----------------------------
(***************************************************************************)
(* Small graphs for BMakeJobs: a program of three objects that share a       *)
(* header, behind a target without commands.                                 *)
(***************************************************************************)
EXTENDS BMakeJobs

CONSTANTS all, prog, x, y, z, h   \* x, y, z are the objects, h the header

ProgNodes == {all, prog, x, y, z, h}
ProgCommands == {prog, x, y, z}
ProgSources ==
  [n \in ProgNodes |-> CASE n = all -> {prog} [] n = prog -> {x, y, z}
                         [] n \in {x, y} -> {h} [] OTHER -> {}]

\* .ORDER: x y
FirstX == [n \in ProgNodes |-> IF n = y THEN {x} ELSE {}]

\* The program alone, nothing ordered: room for more times of the files.
BareNodes == ProgNodes \ {all}
BareSources == [n \in BareNodes |-> ProgSources[n]]
Unordered == [n \in BareNodes |-> {}]
=============================================================================
