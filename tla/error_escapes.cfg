CONSTANTS
  NoOp = NoOp
  Systems = {"Linux"}
  Ops = {"load_decorated"}
SPECIFICATION Spec
INVARIANT OnlyErrorCode
