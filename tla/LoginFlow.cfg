SPECIFICATION Spec
CONSTANTS
  Browsers = {b1, b2}
  Requests = {r1, r2}
  Flows = {f1, f2, f3}
  None = None
SYMMETRY Symmetry
INVARIANTS TypeOK SignedInByOwnState OnlyNewestFlowSignsIn
CHECK_DEADLOCK FALSE
