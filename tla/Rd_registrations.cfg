\* Registrations, lookups, observations, rules, sites and files; and the proxy D alone, with two
\* requests, repeated answers and one restart.
CONSTANTS
  ProxyDomain = TRUE
  ErrorsMax = 2
  Keys <- MCKeys
  Devices <- MCDevices
  Plans <- MCPlans
  Clients = {"c1", "c2"}
  Observations = {"o1", "o2", "o3"}
  MaxState = 2
  MaxSessions = 3
  Suffixes <- MCSuffixes
  Addresses = {"10.0.0.1"}
  Rules <- MCRules
  Asked <- MCAsked
  SendMayFail = TRUE
  Tokens = {t1, t2}
  MaxId = 2
  StartMids = {2}
  FromA = {a}
  FromB = {b}
  NodeA = a
  NodeB = b
  NodeD = d
  Foreign = x
  NoToken = NoToken
  NoEid = NoEid
  Junk = Junk
  AnyPayload = text
  Marked = {}
  MarkedTexts = {}
  Pieces = {empty}
  NoPayload = empty
  MaxRequests = 2
  MaxAnswers = 2
  MaxEras = 1
SPECIFICATION MCSpec
CHECK_DEADLOCK FALSE
INVARIANTS DirectoryInv CoapProxyInv ServedRight ResponseMatches
PROPERTIES Settles
