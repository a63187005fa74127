\* A contact, a bundle to send, and the loss of the connection.
CONSTANTS
  Eids = {e}
  Addrs = {addr}
  NoEid = NoEid
  NoAddr = NoAddr
  Connections = {c1}
  Nobody = Nobody
  MaxCalls = 2
  MaxAccepts = 0
  MaxLosses = 2
SPECIFICATION FairSpec
PROPERTY QueueWaitEnds
CHECK_DEADLOCK FALSE
