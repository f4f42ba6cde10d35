SPECIFICATION AgentSpec
CONSTANTS
  Items = {i1}
  Threads = {t1, t2}
  Procs = {p1}
  Nobody = Nobody
  Outside = Outside
  MaxEvents = 2
  MaxCrashes = 1
  MaxResumes = 1
INVARIANTS ContinuationProceeds
CHECK_DEADLOCK FALSE
