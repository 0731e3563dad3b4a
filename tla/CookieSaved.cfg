SPECIFICATION JarSpec
CONSTANTS
  Requests = {r1}
  Sessions = {s1, s2, s3}
  Lengths = {3, 4, 5, 6}
  MaxParts = 4
  Room <- MCRoom
  NameFits = TRUE
  Nil = Nil
  Keep = Keep
  Expire = Expire
SYMMETRY Symmetry
PROPERTIES SavedSessionLoads
