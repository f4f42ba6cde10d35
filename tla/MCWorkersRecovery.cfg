SPECIFICATION FairWorkersSpec
CONSTANTS
  R = r1
  Runs = {r1}
  Modules = {m1}
  Requests = {}
  Tokens = {k1, k2, k3}
  Items = {i1}
  Docs <- Documents
  MaxActions = 1
  Threads = {t1, t2}
  MaxRev = 1
  MaxFaults = 1
  Lapses = TRUE
  Free = Free
  External = External
  NoToken = NoToken
  NoDoc = NoDoc
  NoRun = NoRun
  NoItem = NoItem
  NoModule = NoModule
  NoRequest = NoRequest
PROPERTIES CancelSettles RunSettles ImplementsStore
CHECK_DEADLOCK FALSE
