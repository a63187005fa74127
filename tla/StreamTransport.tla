--------------------------- MODULE StreamTransport ---------------------------
(***************************************************************************)
(* CoAP over reliable transports in aiocoap: TCP and TLS (transports/      *)
(* tcp.py, tls.py) and WebSockets (ws.py), with the signalling they share  *)
(* (rfc8323common.py).  One end is modelled, with its pool of connections  *)
(* and the requests it has sent to one host; the peer is any               *)
(* implementation and sends what it likes.                                 *)
(*                                                                         *)
(* TCP delivers units, of which a message has several; data_received is a  *)
(* callback and runs its loop to the end, the connection in `busy'.  A     *)
(* WebSocket delivers messages to a task per connection.                   *)
(***************************************************************************)
EXTENDS Integers, Sequences, FiniteSets, SequencesExt

CONSTANTS
  Connections,       \* names of the connections there may be
  Requests,          \* names of the requests sent to the host
  MAX_MESSAGE_SIZE,  \* _my_max_message_size, in units
  Scenarios          \* each has the scheme, what the peer may send, and bounds: on messages,
                     \* on connections of the peer, and on breaks and closings of connections

\* A connection has a name that is not that of no connection; a message has units.
ASSUME StreamAssumption ==
  /\ "none" \notin Connections
  /\ \A s \in Scenarios : s.scheme \in {"tcp", "ws"} /\ \A m \in s.messages : m.units \in Nat \ {0}

VARIABLES
  scenario,
  conn,      \* per connection, the state of its TcpConnection or WSRemote
  pool,      \* _pool: the accepted connections, and at most one to the host
  starting,  \* the connection of _outgoing_starting, or none
  request,   \* per request, its state and remote
  busy,      \* the connection whose data_received runs, or none
  shut,      \* shutdown has been called
  received,  \* per connection, the messages sent by the peer
  taken,     \* per connection, how many of them have been taken
  troubles

streamVars == <<scenario, conn, pool, starting, request, busy, shut, received, taken, troubles>>

scheme == scenario.scheme
Fault == troubles < scenario.faults /\ troubles' = troubles + 1
None == "none"
Unused == [phase |-> "unused", ours |-> FALSE, csm |-> FALSE, spool |-> <<>>, wire |-> <<>>,
           loop |-> FALSE, aborting |-> FALSE, deaf |-> FALSE, gone |-> FALSE, rendering |-> FALSE]
\* connection_made, or the start of _run_recv_loop: our CSM is sent.
Established == [Unused EXCEPT !.phase = "open", !.loop = (scheme = "ws")]

InitStreams ==
  /\ scenario \in Scenarios
  /\ conn = [k \in Connections |-> Unused]
  /\ pool = {} /\ starting = None
  /\ request = [r \in Requests |-> [state |-> "new", remote |-> None]]
  /\ busy = None /\ shut = FALSE
  /\ received = [k \in Connections |-> <<>>]
  /\ taken = [k \in Connections |-> 0]
  /\ troubles = 0

Ours == {k \in Connections : conn[k].ours}
Vacant == {k \in Connections : conn[k].phase = "unused"}

\* TokenManager.request: registered under the remote and written, or refused after a shutdown.
Sent(r, k) == [state |-> IF shut THEN "failed" ELSE "open", remote |-> k]

-----------------------------------------------------------------------------
\* fill_or_recognize_remote.
Usable == {k \in pool \cap Ours : scheme = "ws" => conn[k].phase = "open"}
Await(r, k) == request' = [request EXCEPT ![r] = [state |-> "waiting", remote |-> k]]
Spawn(r) ==
  \E k \in Vacant :
    /\ conn' = [conn EXCEPT ![k] = [Unused EXCEPT !.phase = "opening", !.ours = TRUE]]
    /\ starting' = IF scheme = "ws" THEN k ELSE None
    /\ Await(r, k)
Inquire(r) ==
  /\ busy = None
  /\ r \in scenario.requests /\ request[r].state = "new"
  /\ IF Usable # {}
       THEN (\E k \in Usable : request' = [request EXCEPT ![r] = Sent(r, k)]) /\ UNCHANGED <<conn, starting>>
     ELSE IF starting # None THEN Await(r, starting) /\ UNCHANGED <<conn, starting>>
     ELSE Spawn(r)
  /\ UNCHANGED <<scenario, pool, busy, shut, received, taken, troubles>>

\* _spawn_protocol and _connect_task go on: the connection takes the place of an earlier one
\* in the pool.
Waiting(k) == {r \in Requests : request[r] = [state |-> "waiting", remote |-> k]}
Connected(k) ==
  /\ busy = None
  /\ conn[k].phase = "opening"
  /\ conn' = [conn EXCEPT ![k] = [Established EXCEPT !.ours = TRUE]]
  /\ pool' = (pool \ Ours) \cup {k}
  /\ starting' = None
  /\ request' = [r \in Requests |-> IF r \in Waiting(k) THEN Sent(r, k) ELSE request[r]]
  /\ UNCHANGED <<scenario, busy, shut, received, taken, troubles>>

ConnectFails(k) ==
  /\ busy = None
  /\ conn[k].phase = "opening"
  /\ conn' = [conn EXCEPT ![k].phase = "lost"]
  /\ starting' = None
  /\ request' = [r \in Requests |-> IF r \in Waiting(k) THEN [request[r] EXCEPT !.state = "failed"]
                                    ELSE request[r]]
  /\ UNCHANGED <<scenario, pool, busy, shut, received, taken, troubles>>

\* new_connection, _new_connection.
Accepted(k) ==
  /\ busy = None /\ ~ shut
  /\ k \in Vacant
  /\ Cardinality({l \in Connections : conn[l].phase # "unused" /\ ~ conn[l].ours}) < scenario.accepts
  /\ conn' = [conn EXCEPT ![k] = Established]
  /\ pool' = pool \cup {k}
  /\ UNCHANGED <<scenario, starting, request, busy, shut, received, taken, troubles>>

-----------------------------------------------------------------------------
\* What tokenmanager.dispatch_error does to the requests of a connection; an answer being
\* rendered for it is given up.
FailedOn(k) ==
  [r \in Requests |-> IF request[r] = [state |-> "open", remote |-> k] /\ ~ shut
                        THEN [request[r] EXCEPT !.state = "failed"] ELSE request[r]]
Abandoned(c) == [c EXCEPT !.rendering = FALSE]

\* _abort_with: TCP closes at once, a WebSocket in a task of its own.
AbortTcp(c) == [c EXCEPT !.phase = "closing"]
AbortWs(c) == [c EXCEPT !.aborting = TRUE]
Aborted(c) == IF scheme = "tcp" THEN AbortTcp(c) ELSE AbortWs(c)
\* The receive loop returns after an abort, and no error is dispatched.
AbortDeaf(c) == [Aborted(c) EXCEPT !.loop = FALSE, !.deaf = TRUE]

\* _process_signaling, without the end of the connection; an abort does not end the processing.
Signalling == {"csm", "ping", "pong", "release", "abort", "unknown"}
Concluding(m) == m.what \in {"release", "abort"}
Signalled(c, m) ==
  LET d == [c EXCEPT !.csm = @ \/ m.what = "csm"]
  IN IF m.critical \/ m.what = "unknown" THEN Aborted(d) ELSE d

\* process_response and process_request; an empty message counts as a request.
Answered(k, m) ==
  IF m.what = "response" /\ request[m.to] = [state |-> "open", remote |-> k]
    THEN [request EXCEPT ![m.to].state = "answered"] ELSE request
Rendering(c, m) == IF m.what \in {"request", "empty"} THEN [c EXCEPT !.rendering = TRUE] ELSE c

-----------------------------------------------------------------------------
\* The peer and the network.
Units(m) == [i \in 1 .. (IF scheme = "tcp" THEN m.units ELSE 1) |-> <<m, i>>]
PeerSends(k, m) ==
  /\ busy = None
  /\ conn[k].phase = "open" /\ ~ conn[k].gone
  /\ SumFunction([l \in Connections |-> Len(received[l])]) < scenario.count
  /\ m.what = "response" => request[m.to] = [state |-> "open", remote |-> k]
  /\ conn' = [conn EXCEPT ![k].wire = @ \o Units(m)]
  /\ received' = [received EXCEPT ![k] = Append(@, m)]
  /\ UNCHANGED <<scenario, pool, starting, request, busy, shut, taken, troubles>>
PeerCloses(k) ==
  /\ busy = None
  /\ conn[k].phase = "open" /\ ~ conn[k].gone
  /\ Fault
  /\ conn' = [conn EXCEPT ![k].gone = TRUE]
  /\ UNCHANGED <<scenario, pool, starting, request, busy, shut, received, taken>>

-----------------------------------------------------------------------------
\* TCP.  data_received: some units are there.
\* Mutant: what was left of the last call is lost.
SpooledAlone(c, n) == SubSeq(c.wire, 1, n)
Spooled(c, n) == c.spool \o SubSeq(c.wire, 1, n)
DataReceived(k) ==
  /\ scheme = "tcp" /\ busy = None
  /\ conn[k].phase = "open"
  /\ \E n \in 1 .. Len(conn[k].wire) :
       conn' = [conn EXCEPT ![k].spool = Spooled(conn[k], n),
                            ![k].wire = SubSeq(@, n + 1, Len(@))]
  /\ busy' = k
  /\ UNCHANGED <<scenario, pool, starting, request, shut, received, taken, troubles>>

\* _extract_message_size: the length is known when the extended length is there.
LengthKnown(spool) == spool # <<>> /\ Len(spool) >= spool[1][1].head
Announced(spool) == spool[1][1].units
Parsable(m) == m.what \notin {"unparsable", "text"}

\* The loop is left: there is too little data, or the connection is aborted.
Unfinished(spool) ==
  LengthKnown(spool) => Announced(spool) <= MAX_MESSAGE_SIZE /\ Announced(spool) > Len(spool)
Leave(k) ==
  /\ busy = k
  /\ LET c == conn[k]
     IN \/ Unfinished(c.spool) /\ UNCHANGED conn
        \/ /\ ~ Unfinished(c.spool)
           /\ Announced(c.spool) > MAX_MESSAGE_SIZE \/ ~ Parsable(c.spool[1][1])
           /\ conn' = [conn EXCEPT ![k] = Aborted(c)]
  /\ busy' = None
  /\ UNCHANGED <<scenario, pool, starting, request, shut, received, taken, troubles>>

\* The next message is taken out of the spool, and processed.  Once the transport is shut down
\* there is no token manager, and the callback fails, which ends the connection.
Next1(spool) == spool[1][1]
Rest(c) == [c EXCEPT !.spool = SubSeq(@, Announced(@) + 1, Len(@))]
Ready(k) ==
  /\ busy = k
  /\ LengthKnown(conn[k].spool) /\ Announced(conn[k].spool) <= MAX_MESSAGE_SIZE
  /\ Announced(conn[k].spool) <= Len(conn[k].spool)
  /\ Parsable(Next1(conn[k].spool))
Taken(k) == taken' = [taken EXCEPT ![k] = @ + 1]

Signal(k) ==
  /\ Ready(k)
  /\ \E m \in {Next1(conn[k].spool)} :
       /\ m.what \in Signalling
       /\ IF Concluding(m)
            THEN /\ conn' = [conn EXCEPT ![k] = [Abandoned(Signalled(Rest(@), m)) EXCEPT !.phase = "closing"]]
                 /\ pool' = pool \ {k}
                 /\ request' = FailedOn(k)
            ELSE conn' = [conn EXCEPT ![k] = Signalled(Rest(@), m)] /\ UNCHANGED <<pool, request>>
  /\ Taken(k)
  /\ UNCHANGED <<scenario, starting, busy, shut, received, troubles>>
DispatchIncoming(k) ==
  /\ Ready(k)
  /\ \E m \in {Next1(conn[k].spool)} :
       /\ m.what \notin Signalling
       /\ IF ~ conn[k].csm \/ shut
            THEN conn' = [conn EXCEPT ![k] = Aborted(Rest(@))] /\ busy' = None /\ UNCHANGED request
            ELSE /\ conn' = [conn EXCEPT ![k] = Rendering(Rest(@), m)]
                 /\ request' = Answered(k, m)
                 /\ UNCHANGED busy
  /\ Taken(k)
  /\ UNCHANGED <<scenario, pool, starting, shut, received, troubles>>

\* connection_lost: the end was asked for, the peer has closed, or the network broke it.
ConnectionLost(k) ==
  /\ scheme = "tcp" /\ busy = None
  /\ \/ conn[k].phase = "closing" /\ UNCHANGED troubles
     \/ conn[k].phase = "open" /\ conn[k].gone /\ conn[k].wire = <<>> /\ UNCHANGED troubles
     \/ conn[k].phase = "open" /\ Fault
  /\ conn' = [conn EXCEPT ![k] = [Abandoned(@) EXCEPT !.phase = "lost"]]
  /\ pool' = pool \ {k}
  /\ request' = FailedOn(k)
  /\ UNCHANGED <<scenario, starting, busy, shut, received, taken>>

-----------------------------------------------------------------------------
\* WebSockets.  An iteration of _run_recv_loop; what was received before the end is read.
Consumed(c) == [c EXCEPT !.wire = Tail(@)]
\* self._pool.pop(remote._poolkey): whatever connection has the key, and there must be one.
Named(k) == IF conn[k].ours THEN pool \cap Ours ELSE pool \cap {k}
Recv(k) ==
  /\ conn[k].loop /\ conn[k].wire # <<>>
  /\ LET m == conn[k].wire[1][1]
         c == Consumed(conn[k])
     IN \/ /\ ~ Parsable(m)
           /\ conn' = [conn EXCEPT ![k] = AbortDeaf(c)]
           /\ UNCHANGED <<pool, request>>
        \/ /\ Parsable(m) /\ m.what \in Signalling
           /\ IF Concluding(m)
                THEN /\ conn' = [conn EXCEPT ![k] =
                                   IF Named(k) = {}
                                     THEN [Abandoned(Signalled(c, m)) EXCEPT !.loop = FALSE, !.deaf = TRUE]
                                     ELSE [Abandoned(Signalled(c, m)) EXCEPT !.phase = "closing"]]
                     /\ pool' = pool \ Named(k)
                     /\ request' = FailedOn(k)
                ELSE conn' = [conn EXCEPT ![k] = Signalled(c, m)] /\ UNCHANGED <<pool, request>>
        \/ /\ Parsable(m) /\ m.what \notin Signalling
           /\ conn' = [conn EXCEPT ![k] = IF ~ c.csm THEN AbortDeaf(c)
                                          ELSE IF shut THEN [c EXCEPT !.loop = FALSE, !.deaf = TRUE]
                                          ELSE Rendering(c, m)]
           /\ request' = IF c.csm /\ ~ shut THEN Answered(k, m) ELSE request
           /\ UNCHANGED pool
  /\ Taken(k)
  /\ UNCHANGED <<scenario, starting, busy, shut, received, troubles>>

\* recv raises ConnectionClosed.  The pool keeps the remote, which is no longer open.
\* Mutant: nobody is told.
ClosedQuietly(k) == request
Closed(k) == FailedOn(k)
RecvClosed(k) ==
  /\ conn[k].loop /\ conn[k].wire = <<>>
  /\ \/ (conn[k].phase # "open" \/ conn[k].gone) /\ UNCHANGED troubles
     \/ conn[k].phase = "open" /\ Fault
  /\ conn' = [conn EXCEPT ![k] = [Abandoned(@) EXCEPT !.phase = "lost", !.loop = FALSE]]
  /\ request' = Closed(k)
  /\ UNCHANGED <<scenario, pool, starting, busy, shut, received, taken>>

\* _abort_with_waiting has sent the message and closed the connection.
FinishAbort(k) ==
  /\ conn[k].aborting
  /\ conn' = [conn EXCEPT ![k].aborting = FALSE,
                          ![k].phase = IF conn[k].loop THEN "closing" ELSE "lost"]
  /\ UNCHANGED <<scenario, pool, starting, request, busy, shut, received, taken, troubles>>

-----------------------------------------------------------------------------
\* The answer to a request of the peer is written.
Respond(k) ==
  /\ busy = None
  /\ conn[k].rendering
  /\ conn' = [conn EXCEPT ![k].rendering = FALSE]
  /\ UNCHANGED <<scenario, pool, starting, request, busy, shut, received, taken, troubles>>

\* TokenManager.shutdown, then shutdown of the transport: what is open fails, and connections
\* of the pool are sent a Release.
AllFailed ==
  [r \in Requests |-> IF request[r].state = "open" THEN [request[r] EXCEPT !.state = "failed"] ELSE request[r]]
Shutdown ==
  /\ busy = None /\ ~ shut
  /\ Fault
  /\ shut' = TRUE
  /\ conn' = [k \in Connections |-> Abandoned(conn[k])]
  /\ request' = AllFailed
  /\ UNCHANGED <<scenario, pool, starting, busy, received, taken>>

NextStreams ==
  \/ \E r \in Requests : Inquire(r)
  \/ \E k \in Connections :
       \/ Connected(k) \/ ConnectFails(k) \/ Accepted(k) \/ PeerCloses(k)
       \/ \E m \in scenario.messages : PeerSends(k, m)
       \/ DataReceived(k) \/ Leave(k) \/ Signal(k) \/ DispatchIncoming(k) \/ ConnectionLost(k)
       \/ Recv(k) \/ RecvClosed(k) \/ FinishAbort(k) \/ Respond(k)
  \/ Shutdown

SpecStreams == InitStreams /\ [][NextStreams]_streamVars

\* Connecting ends one way or the other; callbacks and tasks run when they can.
StreamFairness ==
  \A k \in Connections :
    /\ WF_streamVars(Connected(k) \/ ConnectFails(k))
    /\ WF_streamVars(DataReceived(k) \/ Leave(k) \/ Signal(k) \/ DispatchIncoming(k))
    /\ WF_streamVars(ConnectionLost(k))
    /\ WF_streamVars(Recv(k) \/ RecvClosed(k)) /\ WF_streamVars(FinishAbort(k)) /\ WF_streamVars(Respond(k))

-----------------------------------------------------------------------------
\* What the peer sends is cut into messages at its boundaries, however it is chunked, and
\* nothing is passed over.
UnitsOf(messages) == FlattenSeq([i \in DOMAIN messages |-> Units(messages[i])])
Delimited ==
  \A k \in Connections :
    conn[k].phase = "open" =>
      UnitsOf(SubSeq(received[k], 1, taken[k])) \o conn[k].spool \o conn[k].wire = UnitsOf(received[k])

\* No request and no answer is left waiting for a connection that is lost, and TCP never gives
\* one out again; only a WebSocket that was aborted by this side forgets its requests.
NobodyWaits ==
  \A k \in Connections :
    conn[k].phase = "lost" =>
      /\ conn[k].deaf \/ \A r \in Requests : request[r] # [state |-> "open", remote |-> k]
      /\ conn[k].deaf \/ ~ conn[k].rendering
      /\ scheme = "tcp" => k \notin pool

StreamInv == Delimited /\ NobodyWaits

\* No wait for a connection lasts, and no request stays open on a connection that ended: it
\* gets an answer or an error, unless the connection was aborted as above.
StreamsSettle ==
  []<>(\A r \in Requests :
         /\ request[r].state # "waiting"
         /\ \A k \in Connections :
              request[r] = [state |-> "open", remote |-> k] =>
                (conn[k].phase = "open" /\ ~conn[k].gone) \/ conn[k].deaf)
==============================================================================
