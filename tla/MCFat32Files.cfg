SPECIFICATION Spec
CONSTANTS
  Name = {f, g, h}
  Sub = "sub"
  Text <- Long
  Free = "-"
  N = 3
  U = 2
  P = 1
  FatSectors = 6
  Dirs = {"root", "sub"}
  Junk = {2}
  Faults = {"crash"}
SYMMETRY Symmetry
INVARIANT TypeOK
INVARIANT ChainsSound
INVARIANT NoLeak
INVARIANT FatsAgree
 
