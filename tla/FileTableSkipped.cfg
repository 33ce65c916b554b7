\* Does a file get its own bytes when a folder before it is passed over?
SPECIFICATION Spec
CONSTANTS
  MaxFiles = 2
  MaxFolders = 2
  MaxSubStreams = 2
  Sizes = {0, 1, 2}
  Crcs = {FALSE}
  SizeMod = 8
  MaskBits = 8
INVARIANT SlicesAreSubStreams
