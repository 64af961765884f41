SPECIFICATION Spec
CONSTANTS
  ProcessEnv <- MCProcessEnv
  FileEnv <- MCFileEnv
  Build <- MCBuild
  ModeName <- MCModeName
INVARIANTS OwnIdentity RoleNotShadowed RoutesHaveClients StartsAsDocumented
CHECK_DEADLOCK FALSE
