\* graphics/xv alone, with makesum
CONSTANTS
  xv = xv
  cjkgs = cjkgs
  xv310 = xv310
  jpegpatch = jpegpatch
  jpegsrc = jpegsrc
  NSites = 1
  Shipped <- ListsGood
  Data <- AnyData
  Ports <- PatchPorts
  Files <- PatchFiles
  Distfiles <- PatchDistfiles
  Patches <- PatchPatches
  Listed <- PatchPorts
  Jobs <- AnyJob
  Alone = TRUE
SPECIFICATION Spec
PROPERTIES MakesumMatches SessionsEnd
