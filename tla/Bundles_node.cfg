\* Up to two bundles, two links, two dispatchers, and a fault or two of either; and copies
\* of one ADU that arrive up to twice.
CONSTANTS
  Bundle = {"b1", "b2"}
  Hop = {"h1", "h2"}
  Agent = {"a1", "a2"}
  AGENT_QUEUE_LENGTH = 6
  TX_QUEUE_LENGTH = 3
  Settings <- Some
  Copies <- SomeCopies
  AduLength = 4
  MaxCopies = 2
  MaxClock = 2
SPECIFICATION MCSpec
\* The daemon may come to rest, or crash.
CHECK_DEADLOCK FALSE
INVARIANTS LifeInv LocalInv
PROPERTIES BundlesSettle
