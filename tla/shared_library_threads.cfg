CONSTANTS
  a = a
  liba = liba
  Exe = Exe
  Gone = Gone
  Paths = {a, liba, Exe, Gone}
  Mutable = {a}
  EmptyPath = EmptyPath
  Images = {f, g}
  ExeFile = ExeFile
  NoFile = NoFile
  Handles = {h1, h2}
  Main = Main
  NULL = NULL
  NoCall = NoCall
  Threads = {t1, t2}
  Insts = {i1, i2, i3}
  Decorate <- MCDecorate
  Program = {"load", "unload", "assign"}
  Requested = {a, liba, Exe}
SPECIFICATION Spec
SYMMETRY Symmetry
INVARIANTS TypeOK RefsExact AssignShares LoadResult IInv
PROPERTIES ImplementsRefs MappingStays
