\* One bundle, given to two hops by its dispatcher, whole or in part.
CONSTANTS
  Bundle = {"b1", "b2"}
  Hop = {"h1", "h2"}
  Agent = {"a1", "a2"}
  AGENT_QUEUE_LENGTH = 6
  TX_QUEUE_LENGTH = 3
  Settings <- JustHanded
  Copies <- SomeCopies
  AduLength = 4
  MaxCopies = 2
  MaxClock = 2
SPECIFICATION MCSpec
\* The daemon may come to rest, or crash.
CHECK_DEADLOCK FALSE
INVARIANTS OwnedByAgent
