SPECIFICATION AgentSpec
CONSTANTS
  Items = {i1, i2}
  Threads = {t1, t2}
  Procs = {p1}
  Nobody = Nobody
  Outside = Outside
  MaxEvents = 3
  MaxCrashes = 0
  MaxResumes = 1
SYMMETRY AgentSymmetry
INVARIANTS OnlyReadyExecuted
CHECK_DEADLOCK FALSE
