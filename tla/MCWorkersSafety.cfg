SPECIFICATION WorkersSpec
CONSTANTS
  R = r1
  Runs = {r1}
  Modules = {m1}
  Requests = {}
  Tokens = {k1, k2, k3}
  Items = {i1}
  Docs <- Documents
  MaxActions = 1
  Threads = {t1, t2, t3}
  MaxRev = 2
  MaxFaults = 1
  Lapses = FALSE
  Free = Free
  External = External
  NoToken = NoToken
  NoDoc = NoDoc
  NoRun = NoRun
  NoItem = NoItem
  NoModule = NoModule
  NoRequest = NoRequest
SYMMETRY ThreadSymmetry
INVARIANTS WorkersTypeOK ReadyMeansExecuted TerminalIsClosed
PROPERTIES CompletionScanned DocumentFenced
CHECK_DEADLOCK FALSE
