CONSTANTS
  Thread = {t1, t2}
  NoThread = NoThread
  Mutexes = {main, rec}
  NoMutex = NoMutex
  Recursive = {rec}
  Homegrown = TRUE
  MaxEntered = 2
  unix = unix  excl = excl  app = app
  n1 = n1  n2 = n2
  Vfs = {unix, excl, app}
  Null = Null
  NameOf <- TheNames
  BuiltIn <- TheBuiltIn
  Main = main
  InitMutex = rec
SYMMETRY ThreadSymmetry
SPECIFICATION VfsSpec
INVARIANTS MutualExclusion TableComplete FindCorrect
PROPERTY ImplementsVfsOrder
