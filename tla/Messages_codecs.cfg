\* Two commands with one client token, on an empty or a prepared server, with a marked ID that
\* D may give out second, texts cut by their length and empty ones; aggregates of up to three
\* requests; two transfers in blocks; and streams of three messages.
CONSTANTS
  Commands <- Session
  Names = {"x", Part}
  Values = {u, Part, Empty}
  u = u
  Get = Get
  Delete = Delete
  Root = Root
  Databases <- MCDatabases
  ClientTokens = {ct}
  Tokens = {t1, t2}
  Marked = {6}
  MarkedTexts = {Delete}
  Pieces = {Part, Empty}
  NoPayload = Empty
  MaxId = 7
  StartMids = {4, 5}
  BufferLimit = 2
  HighWater = 9
  ResponseCap = 9
  NodeA = a
  NodeB = b
  NodeD = d
  NoToken = NoToken
  NoEid = NoEid
  Junk = Junk
  MaxCommands = 2
  Connections = {"k1", "k2"}
  Requests = {"r1", "r2"}
  Scenarios <- MCScenarios
  MAX_MESSAGE_SIZE = 3
SPECIFICATION MCSpec
CHECK_DEADLOCK FALSE
INVARIANTS SessionInv ReadYourWrites BlockInv FramingInv StreamInv
PROPERTIES EveryRequestAnswered Ends
