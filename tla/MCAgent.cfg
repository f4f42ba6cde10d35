SPECIFICATION FairAgentSpec
CONSTANTS
  Items = {i1}
  Threads = {t1, t2}
  Procs = {p1}
  Nobody = Nobody
  Outside = Outside
  MaxEvents = 2
  MaxCrashes = 1
  MaxResumes = 1
INVARIANTS AgentTypeOK LeaseCovers SuiteIsVerified RunMatchesSteps
PROPERTIES ImplementsPromise LateCancelSettles
CHECK_DEADLOCK FALSE
