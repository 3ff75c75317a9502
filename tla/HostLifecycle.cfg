CONSTANTS
  NInstances = 2
  NVersions = 2
  Choice = {{"cloudflare_access"}}
SPECIFICATION Spec
INVARIANTS VersionIsEarned OneHost
PROPERTIES BootSettles
CHECK_DEADLOCK FALSE
