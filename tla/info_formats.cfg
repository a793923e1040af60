CONSTANTS
  Inputs <- PeOnLinux
  SectionNames <- Names
  Garbage = Garbage
  Asserts = FALSE
SPECIFICATION Spec
INVARIANTS FormatsUnderstood
