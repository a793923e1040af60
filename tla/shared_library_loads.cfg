CONSTANTS
  a = a
  liba = liba
  Exe = Exe
  Gone = Gone
  Paths = {a, liba, Exe, Gone}
  Mutable = {a, liba, Exe}
  EmptyPath = EmptyPath
  Images = {f, g}
  ExeFile = ExeFile
  NoFile = NoFile
  Handles = {h1, h2}
  Main = Main
  NULL = NULL
  NoCall = NoCall
  Threads = {t1}
  Insts = {i1, i2}
  Decorate <- MCDecorate
  Program = {"load", "load_decorated", "unload", "assign", "move_construct", "move_assign", "swap"}
  Requested = {a, liba, Exe, Gone, EmptyPath}
SPECIFICATION FairSpec
INVARIANT LoadResult
PROPERTIES AssignAllOrNothing ReleasedEventually
