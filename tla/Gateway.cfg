SPECIFICATION Spec
CONSTANTS
  Requests = {r1}
  Users = {u1, u2}
  Groups = {g}
  Configs <- MCConfigs
  Inputs <- MCInputs
  Names <- MCNames
  None = None
  Keep = Keep
INVARIANTS TypeOK NothingUnauthorized IdentityNotForged CredentialsWin AllowlistedServed
