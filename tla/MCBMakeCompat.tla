--------------------------- MODULE MCBMakeCompat ---------------------------
(***************************************************************************)
(* A small graph for BMakeCompat: a program of two objects, one of which     *)
(* needs a header and the other a source that is generated from it; the     *)
(* generated source is wanted by itself too.  And the same with a cycle.     *)
(***************************************************************************)
EXTENDS BMakeCompat

CONSTANTS all, prog, x, y, gen, h

ProgNodes == {all, prog, x, y, gen, h}
ProgGoals == {all, y}
ProgCommands == {prog, x, y, gen}
ProgSources ==
  [n \in ProgNodes |-> CASE n = all -> {prog, gen} [] n = prog -> {x, y}
                         [] n = x -> {gen} [] n = y -> {h} [] n = gen -> {h}
                         [] OTHER -> {}]

\* y is made from prog
RoundSources == [ProgSources EXCEPT ![y] = {h, prog}]

\* One object, which needs both: room for more times of the files.
BareNodes == ProgNodes \ {y}
BareGoals == {all, x}
BareCommands == ProgCommands \ {y}
BareSources ==
  [n \in BareNodes |-> CASE n = prog -> {x} [] n = x -> {gen, h} [] OTHER -> ProgSources[n]]
=============================================================================
