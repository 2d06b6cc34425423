\* textproc/a2ps.pl and the ports below it, all named by what they make
CONSTANTS
  a2pspl = a2pspl
  perl5 = perl5
  gcc = gcc
  jless = jless
  binutils = binutils
  gd = gd
  pnmtopng = pnmtopng
  emacs = emacs
  png = png
  xpm = xpm
  netpbm = netpbm
  OPUCa2psp = OPUCa2psp
  OPUCperl = OPUCperl
  OPUCgcc = OPUCgcc
  OPUCjless = OPUCjless
  OPUCbinut = OPUCbinut
  OPUCgd = OPUCgd
  OPENpngcv = OPENpngcv
  OPUCemacs = OPUCemacs
  OPUCpng = OPUCpng
  OPUCxpm = OPUCxpm
  OPENxpm = OPENxpm
  OPUCntpbm = OPUCntpbm
  OPENntpbm = OPENntpbm
  OPUCxaw3d = OPUCxaw3d
  NoDir = NoDir
  Ports <- PerlPorts
  Pkgs <- PerlPkgs
  PkgOf <- PerlPkgOf
  BuildDeps <- PerlBuildDeps
  LibDeps <- PerlLibDeps
  RunDeps <- PerlRunDeps
  Ignored <- PerlIgnored
  Rank <- PerlRank
  Goals <- PerlGoals
  Touchable <- PerlTouchable
SPECIFICATION Spec
INVARIANTS NoReentry DependsInstalled DependencyNotBlocked ForcedNestAddsNothing
PROPERTIES SlotsKept SessionsEnd
