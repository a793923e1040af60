CONSTANTS
  NoOp = NoOp
  Systems = {"Linux", "Android", "FreeBSD", "QNX", "macOS"}
  Ops = {"load", "load_decorated", "assign", "get", "has", "location", "symbol_location_ptr", "symbol_location", "this_line_location", "program_location"}
SPECIFICATION Spec
INVARIANTS EIInv ErrorCodeIsResult LoaderTextIsOwn LoadLeavesNoMessage
