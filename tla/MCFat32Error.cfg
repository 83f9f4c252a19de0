SPECIFICATION Spec
CONSTANTS
  Name = {f, g}
  Sub = "sub"
  Text <- Two
  Free = "-"
  N = 4
  U = 2
  P = 3
  FatSectors = 3
  Dirs = {"root"}
  Junk <- RootJunk
  Faults = {"error"}
INVARIANT ChainsSound
