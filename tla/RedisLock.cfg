SPECIFICATION FairSpec
CONSTANTS
  Objects = {o1, o2}
  Tokens = {k1, k2}
  MaxLease = 2
  MaxLate = 2
  None = None
INVARIANTS TypeOK PromiseBacked
PROPERTIES PromisesLease OrphanExpires
