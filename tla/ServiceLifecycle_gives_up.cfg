SPECIFICATION FairSpec
CONSTANTS
  Uris <- MCUris
  HttpUris <- MCHttpUris
  InstanceIds <- MCInstanceIds
  Envs <- MCEnvs
  MaxRetries = 3
PROPERTIES CacheReconnects
