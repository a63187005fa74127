SPECIFICATION FairSpec
CONSTANTS
  Nodes = {"n1", "n2"}
  Addrs = {"a1", "a2", "generic"}
  NoAddr = NoAddr
  Agents = {"bdm"}
  Managers = {m1, m2}
  NoManager = NoManager
  ContactList <- OneContact
  MAX_CONCURRENT_CONTACTS = 2
  MaxTime = 1
  Generic = {"generic"}
  Served = {"a1", "a2"}
  Calls <- ClientRequests
  MaxCalls = 2
  MaxLosses = 1
  QueueLength = 8
INVARIANTS FibConsistent LinksKnown
PROPERTIES LossNoticed
