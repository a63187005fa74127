\* Two bundles, two contacts with one neighbour (the second starts before the first
\* ends), two of six configuration messages, one bundle received.
SPECIFICATION FairSpec
CONSTANTS
  Eid <- MCEids
  NodeId <- MCEids
  NoNode = NoNode
  get_node_id <- MCGetNodeId
  Bids <- MCBundles
  NoBundle = NoBundle
  Contacts <- MCContacts
  Configs <- MCConfigs
  prevent_loops = FALSE
  insecure_config = FALSE
  MaxTime = 3
  MaxConfigs = 2
  MaxReceptions = 1
\* The process may end, and the clock stops at its bound.
CHECK_DEADLOCK FALSE
INVARIANTS DispatchInv DeletedWhenSent
PROPERTIES ContactsEnd
