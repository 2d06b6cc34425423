\* Ports whose entries are ignored, misnamed or without a directory
CONSTANTS
  a2pspl = a2pspl
  perl5 = perl5
  gcc = gcc
  jless = jless
  binutils = binutils
  gd = gd
  pnmtopng = pnmtopng
  emacs = emacs
  png = png
  xpm = xpm
  netpbm = netpbm
  OPUCa2psp = OPUCa2psp
  OPUCperl = OPUCperl
  OPUCgcc = OPUCgcc
  OPUCjless = OPUCjless
  OPUCbinut = OPUCbinut
  OPUCgd = OPUCgd
  OPENpngcv = OPENpngcv
  OPUCemacs = OPUCemacs
  OPUCpng = OPUCpng
  OPUCxpm = OPUCxpm
  OPENxpm = OPENxpm
  OPUCntpbm = OPUCntpbm
  OPENntpbm = OPENntpbm
  OPUCxaw3d = OPUCxaw3d
  NoDir = NoDir
  Ports <- GraphPorts
  Pkgs <- GraphPkgs
  PkgOf <- GraphPkgOf
  BuildDeps <- GraphBuildDeps
  LibDeps <- GraphLibDeps
  RunDeps <- GraphRunDeps
  Ignored <- GraphIgnored
  Rank <- GraphRank
  Goals <- GraphGoals
  Touchable <- GraphTouchable
SPECIFICATION Spec
INVARIANTS TypeOK DependsInstalled
PROPERTIES SuccessKeeps
