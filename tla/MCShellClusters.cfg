SPECIFICATION Spec
CONSTANTS
  dosi = dosi
  sub = sub
  txt1 = txt1
  txt2 = txt2
  byte1 = byte1
  DirNames = {dosi, sub}
  FileNames = {txt1}
  Misread = {}
  Bytes = {byte1}
  CLUSTER_SIZE = 2
  ROOT_ENTRIES = 2
  Clusters = {1, 2, 3}
  EOC = EOC
  NoFile = NoFile
  Zero = Zero
  Junk = Junk
  ROOT = dosi
  Contents <- SmallContents
  MaxDepth = 3
  OtherPaths <- NoPaths
INVARIANTS
  ClustersHoldFile
CHECK_DEADLOCK FALSE
