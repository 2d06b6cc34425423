\* Two ports that share a distfile, in two terminals
CONSTANTS
  xv = xv
  cjkgs = cjkgs
  xv310 = xv310
  jpegpatch = jpegpatch
  jpegsrc = jpegsrc
  NSites = 1
  Shipped <- ListsGood
  Data <- LessData
  Ports <- SharedPorts
  Files <- SharedFiles
  Distfiles <- SharedDistfiles
  Patches <- SharedPatches
  Listed <- SharedPorts
  Jobs <- BuildJobs
  Alone = FALSE
SPECIFICATION Spec
INVARIANTS UnpacksWhatIsListed
PROPERTIES DistfileStays
