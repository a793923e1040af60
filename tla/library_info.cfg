CONSTANTS
  Inputs <- MCInputs
  SectionNames <- Names
  Garbage = Garbage
  Asserts = FALSE
SPECIFICATION Spec
INVARIANTS LIInv FormatIsFile NonNativeRefused FormatsUnderstood OnlyEndsMissed SymbolsListed SectionSymbolsListed
