SPECIFICATION Spec
CONSTANTS
  Root = root
  Subfolders = {d1}
  Files = {1, 2, 3}
  Names <- MCNames
  MaxName = 255
  RootDirs <- MCRootDirs
  PageSize = 2
  MaxChanges = 2
INVARIANTS PagesAscend StableFilesOnce EmptyFoldersExact ReadInv
CHECK_DEADLOCK FALSE
