SPECIFICATION Spec
CONSTANTS
  Names = {"default", "aux"}
  DefaultName = "default"
  Envs <- MCEnvs
  Profiles <- MCProfiles
  PatchFields <- MCPatchFields
  Trusted = {"ssh", "docker"}
  MaxPatches = 2
INVARIANTS
  TypeOK
  PermissionCoversRoute
  ConnectionFollowsSettings
