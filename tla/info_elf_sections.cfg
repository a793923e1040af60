CONSTANTS
  Inputs <- MergedOnLinux
  SectionNames <- Names
  Garbage = Garbage
  Asserts = FALSE
SPECIFICATION Spec
INVARIANTS SectionsListed
