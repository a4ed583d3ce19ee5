SPECIFICATION Spec
CONSTANTS
  Sessions = {s1}
  Endpoints = {e1, e2}
  QueueCap = 3
  Kinds = {"begin", "info"}
  NoConn = NoConn
SYMMETRY Symmetry
INVARIANT RunsWhereAccepted
