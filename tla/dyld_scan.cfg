CONSTANTS
  Libs = {l1, l2, l3}
  Targets = {l1, Program}
  Program = Program
  NULL = NULL
  Cells = {m1, m2, m3}
  Garbage = Garbage
  MaxRefs = 2
SPECIFICATION Spec
INVARIANTS DIInv RefsExact FoundUndisturbed PathIsTarget
PROPERTY ScanEnds
