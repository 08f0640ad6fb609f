SPECIFICATION FairSpec
CONSTANTS
  Uris <- MCUris
  HttpUris <- MCHttpUris
  InstanceIds <- MCInstanceIds
  Envs <- MCEnvs
  MaxRetries = 3
INVARIANTS TypeOK ConfiguredLrs GivesUpOnlyAfterRetries
PROPERTIES ReadinessRecovers
