\* Two runs of one module, two workers, a queue of up to two actions.
SPECIFICATION StoreSpec
CONSTANTS
  Runs = {r1, r2}
  Modules = {m1}
  Requests = {q1}
  Tokens = {t1, t2}
  Items = {i1}
  Docs = {d1}
  MaxActions = 2
  NoToken = NoToken
  NoDoc = NoDoc
  NoRun = NoRun
  NoItem = NoItem
  NoModule = NoModule
  NoRequest = NoRequest
SYMMETRY StoreSymmetry
INVARIANTS
  StoreTypeOK
  OneRunPerModule
  ScopeMatchesStatus
  FinishedIffTerminal
  CancelWins
  CancelledQueueEmpty
PROPERTIES
  TerminalSettled
  NeverReplayed
  TakeoverFenced
