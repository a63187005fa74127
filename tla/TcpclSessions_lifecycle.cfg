\* Two connections with a node at a time, one of each direction or both incoming,
\* and a third task that is still ending.
CONSTANTS
  Eids = {e}
  Addrs = {addr}
  NoEid = NoEid
  NoAddr = NoAddr
  Connections = {c1, c2, c3}
  Nobody = Nobody
  MaxCalls = 3
  MaxAccepts = 2
  MaxLosses = 2
SPECIFICATION FairSpec
CHECK_DEADLOCK FALSE
INVARIANTS NoUseAfterFree PlannedIsListed
PROPERTIES Progress
