CONSTANTS
  r1 = r1
  r2 = r2
  shared = shared
  old = old
  new = new
  stray = stray
  Outside = Outside
  Releases = {r1, r2}
  Lists <- MCLists
  Strays = {stray}
  Links = {stray}
SPECIFICATION Spec
PROPERTIES
  DeletesOnlyManifestPaths
CHECK_DEADLOCK FALSE
