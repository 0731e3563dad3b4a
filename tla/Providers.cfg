SPECIFICATION Spec
CONSTANTS
  Users = {a}
  Groups = {g}
  Settings = {"oidc", "adfs", "google", "gitlab", "azure", "github", "keycloak", "login.gov", "bitbucket", "linkedin", "facebook", "digitalocean", "nextcloud"}
  Configs <- MCConfigs
  MaxToken = 2
  NoGroups = NoGroups
  None = None
INVARIANTS TypeOK NewestTokenStored MembershipCurrent SoundRefreshKept 
PROPERTIES IdentityKept
