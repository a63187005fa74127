---------------------------- MODULE TcpclSessions ----------------------------
(***************************************************************************)
(* The TCPCLv3 layer (TcpclCla) with a bundle processor that starts and    *)
(* ends contacts and sends bundles in any order, and peers that connect    *)
(* and disconnect at any time.                                             *)
(***************************************************************************)
EXTENDS TcpclCla, Naturals

CONSTANTS
  MaxCalls,     \* bound: calls of the bundle processor
  MaxAccepts,   \* bound: connections accepted
  MaxLosses     \* bound: connections lost

VARIABLES
  contacts,        \* the nodes whose contact was started last, and not ended
  calls, accepts, losses

counters == <<calls, accepts, losses>>
vars == <<claVars, contacts, counters>>

Init ==
  /\ TcpclInit
  /\ contacts = {} /\ calls = 0 /\ accepts = 0 /\ losses = 0

\* The contacts after a call that has come to its end.
After(op, e) ==
  CASE op = "start" -> contacts \cup {e}
    [] op = "end"   -> contacts \ {e}
    [] op = "send"  -> contacts

NewCall ==
  /\ calls < MaxCalls /\ calls' = calls + 1
  /\ \E op \in Ops, e \in Eids, a \in Addrs \cup {NoAddr} :
       \/ CallUnlisted(op, e, a) /\ contacts' = After(op, e)
       \/ CallListed(op, e, a) /\ UNCHANGED contacts
  /\ UNCHANGED <<accepts, losses>>

CallGoesOn ==
  /\ InCall
  /\ contacts' = IF call'.at = "idle" THEN After(call.op, call.eid) ELSE contacts
  /\ UNCHANGED counters

PeerConnects ==
  /\ accepts < MaxAccepts /\ accepts' = accepts + 1
  /\ Accept
  /\ UNCHANGED <<contacts, calls, losses>>

ConnectionLost ==
  /\ losses < MaxLosses /\ losses' = losses + 1
  /\ \E c \in Connections : Disconnect(c)
  /\ UNCHANGED <<contacts, calls, accepts>>

ManagerMoves(c) ==
  /\ Manager(c)
  /\ UNCHANGED <<contacts, counters>>

Next ==
  \/ NewCall \/ CallGoesOn
  \/ PeerConnects \/ ConnectionLost
  \/ \E c \in Connections : ManagerMoves(c)

Spec == Init /\ [][Next]_vars

\* The tasks run, and attempts to connect and handshakes come to an end.
FairSpec ==
  /\ Spec
  /\ WF_vars(CallGoesOn)
  /\ \A c \in Connections : WF_vars(ManagerMoves(c))

-----------------------------------------------------------------------------
(* Properties *)

Places == {"free", "start", "dial", "shake", "join", "meet", "linked", "ending", "ended",
           "leave"}
States == {"inactive", "connecting", "connected", "established"}

ContactParameters ==
  [at : Places, state : States, eid : Eids \cup {NoEid}, cla_addr : Addrs \cup {NoAddr},
   opportunistic : BOOLEAN]

Call ==
  [at : {"idle", "table", "queue", "push"}, op : Ops \cup {"none"}, eid : Eids \cup {NoEid},
   cla_addr : Addrs \cup {NoAddr}, param : Connections \cup {Nobody}]

\* The variables have their types, and a connection's link exists exactly in the
\* state that says so (the comment on struct tcpclv3_contact_parameters).
TypeOK ==
  /\ param_htab \in [Eids -> Connections \cup {Nobody}]
  /\ conn \in [Connections -> ContactParameters]
  /\ call \in Call
  /\ \A c \in Connections :
       conn[c].state = "established" <=> conn[c].at \in {"linked", "ending", "ended"}
  /\ contacts \subseteq Eids
  /\ calls \in Nat /\ accepts \in Nat /\ losses \in Nat

\* What the table and the bundle processor point to has not been freed and is a
\* connection with the node meant, and a queue the bundle processor pushes to is
\* one that has not been cleaned up (tcpclv3_link_management_task frees the
\* parameters, cla_link_cleanup the queue).
NoUseAfterFree ==
  /\ \A e \in Eids : param_htab[e] # Nobody =>
       conn[param_htab[e]].at # "free" /\ conn[param_htab[e]].eid = e
  /\ call.at # "idle" => call.param # Nobody /\ conn[call.param].at # "free"
  /\ call.at = "push" => conn[call.param].at \in {"linked", "ending"}

\* Also of a task that is about to leave: the one that takes over from it gets the status.
Planned(c) == ~conn[c].opportunistic

\* A planned connection is the one in the table, whichever of two simultaneous
\* connections with a node came last: the contact's bundles go over it, its end
\* reaches it, and no second one dials (handle_established_connection).
PlannedIsListed ==
  \A c \in Connections : Planned(c) => conn[c].eid \in Eids /\ param_htab[conn[c].eid] = c

\* Only during a contact is a connection planned, and so made again when it is lost.
OnlyInContact == \A c \in Connections : Planned(c) => conn[c].eid \in contacts

\* Two tasks that wait for each other's semaphores: a management task after its
\* handshake and the bundle processor, or a second management task; or the bundle
\* processor that waits for the queue of a link whose tasks have ended.
Hang ==
  \/ call.at = "table" /\ conn[call.param].at = "join"
  \/ \E c \in Connections : conn[c].at = "meet" /\ conn[Other(c)].at = "join"
  \/ call.at = "queue" /\ conn[call.param].at = "ended"

Waits(c) == conn[c].at \in {"join", "meet", "ending", "ended", "leave"}

\* Everyone who waits for a semaphore gets it, a lost link is cleaned up and an ended
\* task leaves, unless two tasks hang.
Progress ==
  /\ call.at # "idle" ~> call.at = "idle" \/ Hang
  /\ \A c \in Connections : Waits(c) ~> ~Waits(c) \/ Hang

\* cla_link_cleanup (cla.c:293): ``Invalidate queue and unblock anyone waiting to put
\* sth. in the queue''.
QueueWaitEnds == call.at = "queue" ~> call.at # "queue"
=============================================================================
