---------------------------- MODULE LinkControl ----------------------------
(***************************************************************************)
(* The links of a uD3TN node: the contact manager and AAP 2.0 clients send *)
(* requests, the MTCP tasks report links, and the bundle processor's task  *)
(* takes both from one queue, changes the FIB, calls the CLA and tells the *)
(* subscribed agents.                                                      *)
(***************************************************************************)
EXTENDS Fib, MtcpCla, ContactManager, Sequences

CONSTANTS
  Calls,        \* what clients may ask for: requests and registrations
  MaxCalls,     \* bound: how often they do
  MaxLosses,    \* bound: connections closed by the peer
  QueueLength   \* BUNDLE_QUEUE_LENGTH; a sender waits while the queue is full

ASSUME ContactListAssumption ==
  ContactList \subseteq [node : Nodes, addr : Addrs, from_ms : Nat, to_ms : Nat]

ASSUME BoundsAssumption ==
  MaxTime \in Nat /\ MaxCalls \in Nat /\ MaxLosses \in Nat /\ QueueLength \in Nat \ {0}

VARIABLES
  queue,        \* bundle_signaling_queue
  calls, losses

fibVars == <<fib, subs, knows>>
claVars == <<param_htab, mgr>>
contactVars == <<now, checked, current_contacts, added, removed>>
counters == <<calls, losses>>
vars == <<fibVars, claVars, contactVars, queue, counters>>

Request(type, n, a) == [type |-> type, node |-> n, addr |-> a]
LinkSignal(type, a) == [type |-> type, addr |-> a]
AgentSignal(type, g) == [type |-> type, agent |-> g]

RequestTypes == {"create", "drop", "delete"}

Signal ==
  [type : RequestTypes, node : Nodes, addr : Addrs]
    \cup [type : {"up", "down"}, addr : Addrs]
    \cup [type : {"register", "deregister"}, agent : Agents]

ASSUME CallsAssumption ==
  Calls \subseteq { s \in Signal : s.type \notin {"up", "down"} }

Init ==
  /\ FibInit /\ ClaInit /\ ContactInit
  /\ queue = <<>> /\ calls = 0 /\ losses = 0

Inform(s) == Len(queue) < QueueLength /\ queue' = Append(queue, s)

-----------------------------------------------------------------------------
(* Who informs the bundle processor. *)

\* AAP2 Link messages of a client, and agents that come and go.
ClientCalls ==
  /\ calls < MaxCalls
  /\ calls' = calls + 1
  /\ \E s \in Calls : Inform(s)
  /\ UNCHANGED <<fibVars, claVars, contactVars, losses>>

ContactCreate ==
  /\ \E c \in added : SendCreate(c) /\ Inform(Request("create", c.node, c.addr))
  /\ UNCHANGED <<fibVars, claVars, counters>>

ContactDrop ==
  /\ \E c \in removed : SendDrop(c) /\ Inform(Request("drop", c.node, c.addr))
  /\ UNCHANGED <<fibVars, claVars, counters>>

ContactCheck ==
  /\ CheckForContacts
  /\ UNCHANGED <<fibVars, claVars, queue, counters>>

TimePasses ==
  /\ Tick
  /\ UNCHANGED <<fibVars, claVars, queue, counters>>

LinkEstablished(m) ==
  /\ Reported(m) /\ Inform(LinkSignal("up", mgr[m].addr))
  /\ UNCHANGED <<fibVars, contactVars, counters>>

\* Mutant: the end of the link is not signalled.
LinkCleanupSilent(m) ==
  /\ Cleanup(m)
  /\ UNCHANGED <<fibVars, contactVars, queue, counters>>

\* cla_link_cleanup signals before it frees the link's address.
LinkCleanup(m) ==
  /\ Cleanup(m) /\ Inform(LinkSignal("down", mgr[m].addr))
  /\ UNCHANGED <<fibVars, contactVars, counters>>

LinkLost(m) ==
  /\ losses < MaxLosses /\ losses' = losses + 1
  /\ Disconnect(m)
  /\ UNCHANGED <<fibVars, contactVars, queue, calls>>

ManagerMoves(m) ==
  /\ GiveUp(m) \/ Connect(m) \/ StartCleanup(m) \/ Leave(m)
  /\ UNCHANGED <<fibVars, contactVars, queue, counters>>

-----------------------------------------------------------------------------
(* The bundle processor's task: handle_signal for the head of the queue. *)

Receive(type) == queue # <<>> /\ Head(queue).type = type /\ queue' = Tail(queue)

\* The FIB entry is made in any case; the agents hear of the link at once only if
\* it is active.
CreateLink ==
  /\ Receive("create")
  /\ LET n == Head(queue).node
         a == Head(queue).addr
         f == InsertNode(fib, n, a) IN
     IF a \in Served
     THEN /\ StartScheduledContact(a)
          /\ IF StartFindsActive(a) THEN InformLinkStatusChange(f, a, "up")
             ELSE fib' = f /\ UNCHANGED <<subs, knows>>
     ELSE fib' = f /\ UNCHANGED <<claVars, subs, knows>>
  /\ UNCHANGED <<contactVars, counters>>

\* All nodes of the link are dropped unless the address has no target.
DropLink ==
  /\ Receive("drop")
  /\ LET n == Head(queue).node
         a == Head(queue).addr IN
     /\ IF a \in Served THEN EndScheduledContact(a) ELSE UNCHANGED claVars
     /\ fib' = RemoveNode(fib, n, a \notin Generic)
  /\ UNCHANGED <<subs, knows, contactVars, counters>>

DeleteNodeAssociation ==
  /\ Receive("delete")
  /\ fib' = RemoveNode(fib, Head(queue).node, FALSE)
  /\ UNCHANGED <<subs, knows, claVars, contactVars, counters>>

LinkUp ==
  /\ Receive("up")
  /\ InformLinkStatusChange(fib, Head(queue).addr, "up")
  /\ UNCHANGED <<claVars, contactVars, counters>>

LinkDown ==
  /\ Receive("down")
  /\ InformLinkStatusChange(fib, Head(queue).addr, "down")
  /\ UNCHANGED <<claVars, contactVars, counters>>

RegisterAgent ==
  /\ Receive("register")
  /\ Register(Head(queue).agent)
  /\ UNCHANGED <<claVars, contactVars, counters>>

DeregisterAgent ==
  /\ Receive("deregister")
  /\ Deregister(Head(queue).agent)
  /\ UNCHANGED <<claVars, contactVars, counters>>

BundleProcessor ==
  \/ CreateLink \/ DropLink \/ DeleteNodeAssociation
  \/ LinkUp \/ LinkDown
  \/ RegisterAgent \/ DeregisterAgent

Manager(m) == LinkEstablished(m) \/ LinkCleanup(m) \/ ManagerMoves(m)

Done ==
  /\ queue = <<>> /\ Sent /\ now = MaxTime
  /\ \A m \in Managers : mgr[m].at \in {"free", "linked"}
  /\ UNCHANGED vars

Next ==
  \/ ClientCalls
  \/ ContactCheck \/ ContactCreate \/ ContactDrop \/ TimePasses
  \/ BundleProcessor
  \/ \E m \in Managers : Manager(m) \/ LinkLost(m)
  \/ Done

Spec == Init /\ [][Next]_vars

\* The tasks run, and an attempt to connect or to close a link comes to an end.
FairSpec ==
  /\ Spec
  /\ WF_vars(BundleProcessor)
  /\ \A m \in Managers : WF_vars(Manager(m))

-----------------------------------------------------------------------------
TypeOK ==
  /\ FibType /\ ClaType /\ ContactType
  /\ queue \in Seq(Signal)
  /\ calls \in 0..MaxCalls /\ losses \in 0..MaxLosses

\* Signals about the link with a that the bundle processor has not handled yet.
Pending(a) ==
  \E i \in 1..Len(queue) : queue[i] \in { LinkSignal("up", a), LinkSignal("down", a) }

\* Whenever no signal about a link is under way, the FIB has it as up exactly if
\* its connection exists (inform_link_status_change, cla_link_init and
\* cla_link_cleanup, with the contact functions of the CLA called in between).
LinkStatusTrue ==
  \A a \in Addrs : ~ Pending(a) /\ ~ Changing(a) => (fib.status[a] = "up" <=> Linked(a))

\* A subscriber knows of every node it could send to now: the last update it got of
\* a node mapped to a link that is up says so (agents decide by these updates when
\* bundles are handed over).
AgentsKnowUp ==
  \A g \in subs, n \in Nodes :
    LET a == fib.addr[n] IN
    a # NoAddr /\ ~ Pending(a) => (fib.status[a] = "up" => knows[g][n] = [addr |-> a, status |-> "up"])

\* A connection that ended does not stay up in the FIB.
LossNoticed ==
  \A a \in Addrs : (fib.status[a] = "up" /\ ~ Linked(a)) ~> (fib.status[a] # "up" \/ Linked(a))

\* What the FIB holds of the links is true, and what it holds of the nodes behind links that
\* are up is known to every agent.
LinksKnown == LinkStatusTrue /\ AgentsKnowUp

-----------------------------------------------------------------------------
\* The instance that the run LinkControl_session checks: what its constants are.
\* One contact with the node that is named first.
OneContact == { [node |-> "n1", addr |-> "a1", from_ms |-> 0, to_ms |-> 1] }

\* A further node on the contact's link, a node moved to another link or to the
\* generic address, drops that hit one node or all, and a BDM that comes and goes.
ClientRequests ==
  { Request("create", "n2", "a1"), Request("create", "n1", "a2"), Request("create", "n2", "generic"),
    Request("drop", "n1", "a1"), Request("drop", "n2", "generic"), Request("delete", "n1", "a1"),
    AgentSignal("register", "bdm"), AgentSignal("deregister", "bdm") }
=============================================================================
