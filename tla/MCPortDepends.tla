---------------------------- MODULE MCPortDepends ----------------------------
(* Two excerpts of the tree as instances of PortDepends for TLC: the ports,  *)
(* the entries of their Makefiles, and ranks that show there is no cycle.    *)
EXTENDS PortDepends

CONSTANTS
  a2pspl, perl5, gcc, jless, binutils,  \* ports whose entries are well named
  gd, pnmtopng, emacs, png, xpm, netpbm \* and ports with entries that are not
CONSTANTS
  OPUCa2psp, OPUCperl, OPUCgcc, OPUCjless, OPUCbinut,
  OPUCgd, OPENpngcv, OPUCemacs, OPUCpng, OPUCxpm, OPENxpm, OPUCntpbm, OPENntpbm,
  OPUCxaw3d

E(pkg, dir) == [pkg |-> pkg, dir |-> dir]
Names(ports, f) == {f[p] : p \in ports}
\* textproc/a2ps.pl and what it needs
PerlPorts == {a2pspl, perl5, gcc, jless, binutils}
PerlPkgOf ==
  [p \in PerlPorts |->
     CASE p = a2pspl -> OPUCa2psp [] p = perl5 -> OPUCperl [] p = gcc -> OPUCgcc
       [] p = jless -> OPUCjless [] p = binutils -> OPUCbinut]
PerlPkgs == Names(PerlPorts, PerlPkgOf)
PerlBuildDeps ==
  [p \in PerlPorts |->
     CASE p = a2pspl -> <<E(OPUCperl, perl5)>>
       [] p = perl5 -> <<E(OPUCgcc, gcc), E(OPUCjless, jless)>>
       [] p = gcc -> <<E(OPUCbinut, binutils)>>
       [] OTHER -> <<>>]
PerlLibDeps == [p \in PerlPorts |-> <<>>]
PerlRunDeps ==
  [p \in PerlPorts |->
     CASE p = a2pspl -> <<E(OPUCperl, perl5)>>
       [] p = perl5 -> <<E(OPUCjless, jless)>>
       [] p = gcc -> <<E(OPUCbinut, binutils)>>
       [] OTHER -> <<>>]
PerlRank ==
  [p \in PerlPorts |->
     CASE p = a2pspl -> 3 [] p = perl5 -> 2 [] p = gcc -> 1 [] OTHER -> 0]
PerlGoals == {a2pspl}
PerlTouchable == {perl5, jless}
PerlIgnored == {}

\* graphics/gd, graphics/pnmtopng and editors/emacs with USE_XAW3D.  netpbm is
\* interactive and thus ignored under BATCH; editors/emacs names a directory
\* that does not exist; OPENxpm and OPENntpbm are no package of any port.
GraphPorts == {gd, pnmtopng, emacs, png, xpm, netpbm}
GraphPkgOf ==
  [p \in GraphPorts |->
     CASE p = gd -> OPUCgd [] p = pnmtopng -> OPENpngcv [] p = emacs -> OPUCemacs
       [] p = png -> OPUCpng [] p = xpm -> OPUCxpm [] p = netpbm -> OPUCntpbm]
GraphPkgs == Names(GraphPorts, GraphPkgOf) \cup {OPENxpm, OPENntpbm, OPUCxaw3d}
GraphBuildDeps ==
  [p \in GraphPorts |->
     IF p = pnmtopng THEN <<E(OPENntpbm, netpbm)>> ELSE <<>>]
GraphLibDeps ==
  [p \in GraphPorts |->
     CASE p = gd -> <<E(OPUCpng, png), E(OPENxpm, xpm)>>
       [] p = pnmtopng -> <<E(OPUCpng, png)>>
       [] p = emacs -> <<E(OPUCpng, png), E(OPUCxpm, xpm), E(OPUCxaw3d, NoDir)>>
       [] OTHER -> <<>>]
GraphRunDeps == [p \in GraphPorts |-> <<>>]
GraphRank == [p \in GraphPorts |-> IF p \in {gd, pnmtopng, emacs} THEN 1 ELSE 0]
GraphIgnored == {netpbm}
GraphGoals == {gd, pnmtopng, emacs}
GraphTouchable == {gd, xpm}
=============================================================================
