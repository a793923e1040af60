CONSTANTS
  a = a
  liba = liba
  Exe = Exe
  Gone = Gone
  Paths = {a, liba, Exe, Gone}
  Mutable = {a}
  EmptyPath = EmptyPath
  Images = {f, g}
  ExeFile = ExeFile
  NoFile = NoFile
  Handles = {h1, h2}
  Main = Main
  NULL = NULL
  NoCall = NoCall
  Threads = {t1}
  Insts = {i1, i2}
  Decorate <- MCDecorate
  Program = {"load", "move_assign"}
  Requested = {a, Exe}
SPECIFICATION Spec
INVARIANT MovedFromIsEmpty
