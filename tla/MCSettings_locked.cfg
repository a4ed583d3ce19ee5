SPECIFICATION Spec
CONSTANTS
  Names = {"default", "aux"}
  DefaultName = "default"
  Envs <- MCEnvs
  Profiles <- MCNamedProfiles
  PatchFields <- MCPatchFields
  Trusted = {"ssh", "docker"}
  MaxPatches = 2
INVARIANT LockedProfileIsTheConnection
