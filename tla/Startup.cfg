SPECIFICATION Spec
CONSTANTS
  Segment = {"a", "b"}
  NoPath = NoPath
  Width <- MCWidth
  Unknown = Unknown
  Group = {"g"}
  Configurations <- MCConfigurations
  Requests <- MCRequests
  Nothing = Nothing
INVARIANTS TypeOK ServedByClosest HeadersOwn MinimalLosesNothing TrustedIffListed RedirectLegal RestrictionKept
CHECK_DEADLOCK FALSE
