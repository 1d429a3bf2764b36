SPECIFICATION Spec
CONSTANTS
  a1 = a1  a2 = a2  b1 = b1  b2 = b2  h1 = h1  h2 = h2
  Requests = {a1, a2, b1, b2, h1, h2}
  Kind <- MCKind
CHECK_DEADLOCK FALSE
INVARIANTS HealthMeansWired ExitCutsOnlyTheLate PoolDecides
PROPERTY ShutdownTerminates
