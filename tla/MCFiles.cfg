SPECIFICATION Spec
CONSTANTS
  dosi = dosi
  txt1 = txt1
  txt2 = txt2
  byte1 = byte1
  DirNames = {dosi}
  FileNames = {txt1, txt2}
  Misread = {}
  Bytes = {byte1}
  CLUSTER_SIZE = 3
  ROOT_ENTRIES = 3
  Clusters = {1, 2, 3, 4}
  EOC = EOC
  EOC_ENTRY = 3
  Covers <- Longer
  NoFile = NoFile
  Zero = Zero
  Junk = Junk
  ROOT = dosi
  Contents <- SmallContents
  MaxDepth = 3
INVARIANTS
  TypeOK
  AsCalled
  OwnCluster
CHECK_DEADLOCK FALSE
