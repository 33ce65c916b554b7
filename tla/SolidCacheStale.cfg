SPECIFICATION Spec
CONSTANTS
  f1 = f1 f2 = f2 f3 = f3 f4 = f4 f5 = f5 f6 = f6
  d1 = d1 d2 = d2 d3 = d3 d4 = d4
  b1 = b1 b2 = b2
  NULL = NULL
  NoFolder = NoFolder
  Files = {f1, f2, f3, f4, f5, f6}
  Folders = {d1, d2, d3, d4}
  Blocks = {b1, b2}
  FileToFolder <- MCFileToFolder
  FileOffset <- MCFileOffset
  FileSize <- MCFileSize
  FolderSize <- MCFolderSize
  HasCrc = {f2}
  FolderHasCrc = {}
  TooBig = {d3}
  Damaged = {d2}
INVARIANT OkMeansDecoded
