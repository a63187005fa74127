CONSTANTS
  WindowSize = 2
  MAX_SEQNO = 4
  ChunkStart = 1
  ChunkLimit = 2
  Peers <- MCPeers
  Requests <- MCRequests
  Plans <- MCPlans
  Links <- MCLinks
  Asks <- MCRequests
  max_sockets = 1
  Settings <- MCSettings
SPECIFICATION MCSpec
CHECK_DEADLOCK FALSE
INVARIANTS NonceOnce OscoreInv DatagramInv EdhocInv
PROPERTIES Recovers
