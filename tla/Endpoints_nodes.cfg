\* Every method, aggregates and broken frames, a request that is cut; crashes, disk errors and
\* lost connections between any two steps; and a client with a transport that pauses.
CONSTANTS
  Names = {"x"}
  Values = {"u", ""}
  Root = Root
  Databases <- MCDatabases
  NodeA = a
  NodeB = b
  NodeD = d
  dst_eid = d
  Commands <- MCCommands
  Tokens = {"t"}
  MaxId = 3
  BufferLimit = 2
  HighWater = 2
  ResponseCap = 10
  MaxCommands = 5
  Junk = Junk
  Marked = {2}
  MarkedTexts = {}
  Pieces = {""}
  NoPayload = ""
  Faults = {"crash", "disk", "send"}
  Requests <- AllRequests
  MaxRequests = 3
  MaxCrashes = 1
SPECIFICATION MCSpec
CHECK_DEADLOCK FALSE
INVARIANTS ConfirmedSurvives ServerInv ClientInv AapInv
PROPERTIES NodesProgress
