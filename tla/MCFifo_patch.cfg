SPECIFICATION Spec
CONSTANTS
  Sessions = {s1, s2}
  Endpoints = {e1, e2}
  QueueCap = 3
  Kinds = {"query", "finish"}
  NoConn = NoConn
SYMMETRY Symmetry
INVARIANTS
  TypeOK
  RunsWhereAccepted
  StaleConnectionIsDoomed
PROPERTY
  PatchIsAtomic
