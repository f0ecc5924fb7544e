SPECIFICATION Spec
CONSTANTS
  MaxSize = 6
  MaxAmount = 3
  FetchSize = 2
  Limits = {0, 3, 6}
  ChunkSizes = {3}
  szMmap = 6
  BlockSize = 2
  PageSize = 2
  winIoerrRetry = 1
  Builds <- MCBuilds
  DirHandle = {h1, h2}
  Inode = {i1, i2, i3, i4}
  Directories <- MCDirectories
  cwd <- MCcwd
  Locations <- MCLocations
  Targets <- MCTargets
  PathNames <- MCPathNames
  SQLITE_MAX_SYMLINKS = 3
  p1 = p1
  p2 = p2
  h1 = h1
  h2 = h2
  h3 = h3
  h4 = h4
  Process = {p1, p2}
  Handle = {h1, h2, h3, h4}
  NoHandle = NoHandle
  ProcOf <- TwoProcs
  Styles = {"dotfile", "flock", "none"}
  ProbeAt <- NotAtShared
  Faults = {"mkdir", "rmdir", "flock", "unflock"}
  Host = {p1, p2}
  FileHandle = {h1, h2, h3}
  HostOf <- MCHostOf
  Descriptor = {1, 2, 3}
  NoFd = NoFd
  Node = {i1, i2, i3, i4, i5, i6, i7}
  TempNames = {"t1"}
  Systems = {"unix", "windows", "wince"}
INVARIANTS HintReaches MappingValid JournalKept PathResolved DescriptorsAccounted TempFilesPrivate JournalMode SoleUser LevelsBacked
PROPERTIES ImplementsFileApi ImplementsFileLevels
