SPECIFICATION Spec
CONSTANTS
  dosi = dosi
  sub = sub
  txt1 = txt1
  txt2 = txt2
  byte1 = byte1
  DirNames = {dosi, sub}
  FileNames = {txt1, txt2}
  Misread = {txt2}
  Bytes = {byte1}
  CLUSTER_SIZE = 2
  ROOT_ENTRIES = 2
  Clusters = {1, 2, 3}
  EOC = EOC
  NoFile = NoFile
  Zero = Zero
  Junk = Junk
  ROOT = dosi
  Contents <- FewContents
  MaxDepth = 3
  OtherPaths <- TwoPaths
INVARIANTS
  TypeOK
  OneOwner
CHECK_DEADLOCK FALSE
