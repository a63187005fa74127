\* Copies of one ADU, whole and in pieces.
CONSTANTS
  Bundle = {"b1", "b2"}
  Hop = {"h1", "h2"}
  Agent = {"a1", "a2"}
  AGENT_QUEUE_LENGTH = 6
  TX_QUEUE_LENGTH = 3
  Settings <- NoBundle
  Copies <- MCCopies
  AduLength = 4
  MaxCopies = 2
  MaxClock = 2
SPECIFICATION MCSpec
\* The daemon may come to rest, or crash.
CHECK_DEADLOCK FALSE
INVARIANTS DeliveredOnce
