------------------------------ MODULE TcpclCla ------------------------------
(***************************************************************************)
(* The TCPCLv3 convergence layer of uD3TN (cla_tcpclv3.c): one management  *)
(* task per connection, outgoing (launched for a contact) or incoming (the *)
(* peer tells its node ID in the handshake), and the table in which the    *)
(* bundle processor finds the connection to use for a node.                *)
(*                                                                         *)
(* Three kinds of semaphores are taken inside each other: the table's, one *)
(* per connection (param_semphr) and one per TX queue.  A step below takes *)
(* what it needs and does what the code does until the task has to wait    *)
(* again; who holds what in between follows from where the tasks are.      *)
(* Left out: the bytes sent and parsed, and the signals about links, which *)
(* are those of LinkControl.                                               *)
(***************************************************************************)
CONSTANTS
  Eids,         \* node IDs of peers
  Addrs,        \* addresses to connect to
  NoEid, NoAddr,
  Connections,  \* contact parameters, each with its management task
  Nobody        \* no entry in the table

ASSUME TcpclAssumption == NoEid \notin Eids /\ Nobody \notin Connections

VARIABLES
  param_htab,   \* node ID -> the connection to use
  conn,         \* the connections: [at, state, eid, cla_addr, opportunistic]
  call          \* the bundle processor's call: [at, op, eid, cla_addr, param]

claVars == <<param_htab, conn, call>>

Unused == [at |-> "free", state |-> "inactive", eid |-> NoEid, cla_addr |-> NoAddr,
           opportunistic |-> TRUE]

NoCall == [at |-> "idle", op |-> "none", eid |-> NoEid, cla_addr |-> NoAddr, param |-> Nobody]

TcpclInit ==
  /\ param_htab = [e \in Eids |-> Nobody]
  /\ conn = [c \in Connections |-> Unused]
  /\ call = NoCall

-----------------------------------------------------------------------------
(* Who holds what: c is at                                                 *)
(*   "start"  launched, its semaphore not yet released,                    *)
(*   "dial"   connecting; "shake" exchanging contact headers,              *)
(*   "join"   after the handshake, with its semaphore, to take the table,  *)
(*   "meet"   with both, to take the semaphore of the table's connection,  *)
(*   "linked" RX and TX task run; "ending" they have been told to end,     *)
(*   "ended"  they have ended, the TX task with its queue's semaphore,     *)
(*   "leave"  to take the table, in order to leave it.                     *)

TableFree ==
  /\ call.at \notin {"table", "queue"}
  /\ \A c \in Connections : conn[c].at # "meet"

ParamFree(c) ==
  /\ conn[c].at \notin {"start", "join", "meet"}
  /\ ~(call.at = "queue" /\ call.param = c)

QueueFree(c) ==
  /\ conn[c].at \in {"linked", "ending"}
  /\ ~(call.at = "push" /\ call.param = c)

-----------------------------------------------------------------------------
(* The management task of connection c. *)

\* What a connection that is to be set up (again) does, with its semaphore: a planned
\* one with an address connects, any other one ends.
NextTry(k) ==
  IF ~k.opportunistic /\ k.cla_addr # NoAddr
  THEN [k EXCEPT !.at = "dial", !.state = "connecting"]
  ELSE [k EXCEPT !.at = "leave", !.state = "inactive"]

\* The task runs for the first time.
Begin(c) ==
  /\ conn[c].at = "start"
  /\ conn' = [conn EXCEPT ![c] = IF @.state = "connected" THEN [@ EXCEPT !.at = "shake"]
                                 ELSE NextTry(@)]
  /\ UNCHANGED <<param_htab, call>>

DialFails(c) ==
  /\ conn[c].at = "dial" /\ ParamFree(c)
  /\ conn' = [conn EXCEPT ![c] = NextTry(@)]
  /\ UNCHANGED <<param_htab, call>>

Dial(c) ==
  /\ conn[c].at = "dial" /\ ParamFree(c)
  /\ conn' = [conn EXCEPT ![c].at = "shake", ![c].state = "connected"]
  /\ UNCHANGED <<param_htab, call>>

HandshakeFails(c) ==
  /\ conn[c].at = "shake" /\ ParamFree(c)
  /\ conn' = [conn EXCEPT ![c] = NextTry(@)]
  /\ UNCHANGED <<param_htab, call>>

\* The node ID the peer reports is only used if none is known from a contact.
Handshake(c, reported) ==
  /\ conn[c].at = "shake" /\ ParamFree(c)
  /\ conn' = [conn EXCEPT ![c].at = "join",
                          ![c].eid = IF @ = NoEid THEN reported ELSE @]
  /\ UNCHANGED <<param_htab, call>>

Established(k) == [k EXCEPT !.at = "linked", !.state = "established"]

Other(c) == param_htab[conn[c].eid]

\* No other connection with the node: the RX and TX tasks are started at once.
Join(c) ==
  /\ conn[c].at = "join" /\ TableFree
  /\ IF Other(c) \in {c, Nobody}
     THEN /\ conn' = [conn EXCEPT ![c] = Established(@)]
          /\ param_htab' = [param_htab EXCEPT ![conn[c].eid] = c]
     ELSE /\ conn' = [conn EXCEPT ![c].at = "meet"]
          /\ UNCHANGED param_htab
  /\ UNCHANGED call

\* Mutant: the planned status stays with the connection that is replaced.
TakeOverPlain(c, other) ==
  [conn EXCEPT ![c] = Established(@)]

\* The newest connection replaces the other one and takes over its planned status,
\* with its address unless it has one.
TakeOver(c, other) ==
  LET addr == IF conn[c].cla_addr = NoAddr THEN conn[other].cla_addr ELSE conn[c].cla_addr
      rest == IF conn[c].cla_addr = NoAddr THEN NoAddr ELSE conn[other].cla_addr
  IN IF conn[other].opportunistic THEN [conn EXCEPT ![c] = Established(@)]
     ELSE [conn EXCEPT ![c] = [Established(conn[c]) EXCEPT !.opportunistic = FALSE, !.cla_addr = addr],
                       ![other] = [conn[other] EXCEPT !.opportunistic = TRUE, !.cla_addr = rest]]

Meet(c) ==
  /\ conn[c].at = "meet" /\ ParamFree(Other(c))
  /\ conn' = TakeOver(c, Other(c))
  /\ param_htab' = [param_htab EXCEPT ![conn[c].eid] = c]
  /\ UNCHANGED call

\* The peer closes the connection, or sending or receiving fails: the disconnect
\* handler tells both tasks to end.
Disconnect(c) ==
  /\ conn[c].at = "linked"
  /\ conn' = [conn EXCEPT ![c].at = "ending"]
  /\ UNCHANGED <<param_htab, call>>

\* The TX task locks its queue, empties it and ends; the RX task has ended too.
TasksEnd(c) ==
  /\ conn[c].at = "ending" /\ QueueFree(c)
  /\ conn' = [conn EXCEPT ![c].at = "ended"]
  /\ UNCHANGED <<param_htab, call>>

\* cla_link_cleanup under the table's and the connection's semaphore, and what
\* the loop does next.
CleanUp(c) ==
  /\ conn[c].at = "ended" /\ TableFree
  /\ conn' = [conn EXCEPT ![c] = NextTry(@)]
  /\ UNCHANGED <<param_htab, call>>

\* Mutant: the entry stays in the table.
LeaveListed(c) ==
  /\ conn[c].at = "leave" /\ TableFree
  /\ conn' = [conn EXCEPT ![c] = Unused]
  /\ UNCHANGED <<param_htab, call>>

\* The entry is removed if it is the connection's own, and the parameters are freed.
Leave(c) ==
  /\ conn[c].at = "leave"
  /\ conn[c].eid # NoEid => TableFree
  /\ param_htab' = [e \in Eids |-> IF e = conn[c].eid /\ param_htab[e] = c
                                   THEN Nobody ELSE param_htab[e]]
  /\ conn' = [conn EXCEPT ![c] = Unused]
  /\ UNCHANGED call

-----------------------------------------------------------------------------
(* The listener task. *)

\* A connection is accepted; its semaphore is locked until its task runs.
Accept ==
  /\ TableFree
  /\ \E c \in Connections :
       /\ conn[c].at = "free"
       /\ conn' = [conn EXCEPT ![c] = [Unused EXCEPT !.at = "start", !.state = "connected"]]
  /\ UNCHANGED <<param_htab, call>>

-----------------------------------------------------------------------------
(* The bundle processor: start_scheduled_contact ("start"), end_scheduled_contact *)
(* ("end"), and get_tx_queue with the push of a bundle ("send").                  *)

Ops == {"start", "end", "send"}

Launch(e, a) ==
  \E c \in Connections :
    /\ conn[c].at = "free"
    /\ conn' = [conn EXCEPT ![c] = [at |-> "start", state |-> "connecting", eid |-> e,
                                    cla_addr |-> a, opportunistic |-> FALSE]]
    /\ param_htab' = [param_htab EXCEPT ![e] = c]

\* The table is taken and the connection looked up; there is none.
CallUnlisted(op, e, a) ==
  /\ call.at = "idle" /\ TableFree
  /\ param_htab[e] = Nobody
  /\ IF op = "start" THEN Launch(e, a) ELSE UNCHANGED <<param_htab, conn>>
  /\ UNCHANGED call

\* There is one: its semaphore is to be taken next.
CallListed(op, e, a) ==
  /\ call.at = "idle" /\ TableFree
  /\ param_htab[e] # Nobody
  /\ call' = [at |-> "table", op |-> op, eid |-> e, cla_addr |-> a, param |-> param_htab[e]]
  /\ UNCHANGED <<param_htab, conn>>

AtParam(op) == call.at = "table" /\ call.op = op /\ ParamFree(call.param)

\* The connection is associated with the contact.  For one whose task is ending a
\* new task is to be launched, but htab_add finds the old entry, since htab_remove
\* was called with the address instead of the node ID.
StartListed ==
  /\ AtParam("start")
  /\ IF conn[call.param].state # "inactive"
     THEN conn' = [conn EXCEPT ![call.param].opportunistic = FALSE,
                               ![call.param].cla_addr = call.cla_addr]
     ELSE UNCHANGED conn
  /\ call' = NoCall
  /\ UNCHANGED param_htab

\* The connection stays open until the peer closes it.
EndListed ==
  /\ AtParam("end")
  /\ conn' = [conn EXCEPT ![call.param].opportunistic = TRUE]
  /\ call' = NoCall
  /\ UNCHANGED param_htab

\* Mutant: the semaphores are not released when the link is not up.
SendUnlinkedLocked ==
  /\ AtParam("send") /\ conn[call.param].state # "established"
  /\ UNCHANGED claVars

SendUnlinked ==
  /\ AtParam("send") /\ conn[call.param].state # "established"
  /\ call' = NoCall
  /\ UNCHANGED <<param_htab, conn>>

\* The queue's semaphore is waited for with the two others in hand.
SendLinked ==
  /\ AtParam("send") /\ conn[call.param].state = "established"
  /\ call' = [call EXCEPT !.at = "queue"]
  /\ UNCHANGED <<param_htab, conn>>

\* With the queue, the others are released.
GetQueue ==
  /\ call.at = "queue" /\ QueueFree(call.param)
  /\ call' = [call EXCEPT !.at = "push"]
  /\ UNCHANGED <<param_htab, conn>>

Push ==
  /\ call.at = "push"
  /\ call' = NoCall
  /\ UNCHANGED <<param_htab, conn>>

-----------------------------------------------------------------------------
Manager(c) ==
  \/ Begin(c)
  \/ DialFails(c) \/ Dial(c)
  \/ HandshakeFails(c) \/ \E e \in Eids : Handshake(c, e)
  \/ Join(c) \/ Meet(c)
  \/ TasksEnd(c) \/ CleanUp(c) \/ Leave(c)

InCall == StartListed \/ EndListed \/ SendUnlinked \/ SendLinked \/ GetQueue \/ Push
=============================================================================
