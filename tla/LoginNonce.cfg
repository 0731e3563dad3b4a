SPECIFICATION Spec
CONSTANTS
  Browsers = {b1, b2}
  Requests = {r1}
  Flows = {f1, f2}
  None = None
SYMMETRY Symmetry
INVARIANTS SignedInWithNonce
CHECK_DEADLOCK FALSE
