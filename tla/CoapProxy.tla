----------------------------- MODULE CoapProxy -----------------------------
(***************************************************************************)
(* Node D, the CoAP-over-BP proxy (NodeDaap2.py): TokenMIDMapper and the   *)
(* loop of process_messages, on top of the bundle network.                 *)
(*                                                                         *)
(* A message is a record with its token and message ID; n tells which of   *)
(* the requests it is or answers, and era which run of the proxy forwarded *)
(* it: both are for the properties only, no action of the proxy reads      *)
(* them.  A frame the extraction loop cannot parse is Junk.  token_map and *)
(* mid_map are left out: the code writes them and never reads them.        *)
(*                                                                         *)
(* The loop finds the end of a message from its Payload-Length and from    *)
(* the first 0xFF byte; module Framing has it on bytes, and here Readings  *)
(* says what it may take a message for.  That what it cut off may read as  *)
(* a message nobody sent is left out.                                      *)
(***************************************************************************)
EXTENDS Integers, Sequences

CONSTANTS
  Tokens,     \* the tokens os.urandom(2) can return
  MaxId,      \* MAX_ID, the largest message ID
  StartMids,  \* the IDs a mapper may start from (random.randint(1, 1000))
  FromA,      \* source nodes whose EID contains 'a.dtn'
  FromB,      \* source nodes whose EID contains 'b.dtn'
  NodeA, NodeB, NodeD,
  SendMayFail,  \* whether the connection to the local uD3TN may fail
  NoToken,    \* no entry in the reverse token map
  NoEid,      \* no entry in pending_requests
  Junk,       \* a frame that raises an exception
  Marked,       \* the tokens and message IDs that have a 0xFF byte
  MarkedTexts,  \* the payloads whose length has one
  Pieces,       \* what a payload cut short may be
  NoPayload     \* the empty payload

ASSUME ProxyAssumption ==
  /\ MaxId \in Nat \ {0}
  /\ StartMids \subseteq 1 .. MaxId
  /\ SendMayFail \in BOOLEAN
  /\ NoToken \notin Tokens /\ NoPayload \in Pieces
  /\ FromA \cap FromB = {} /\ NoEid \notin FromA \cup FromB
  /\ NodeA \in FromA /\ NodeB \in FromB /\ NodeD \notin FromA \cup FromB

VARIABLES
  next_mid,            \* the ID the next forwarded request gets
  reverse_token_map,   \* proxy token -> original token
  reverse_mid_map,     \* proxy ID -> original ID (0: no entry)
  pending_requests,    \* proxy token -> source EID
  src_eid,             \* source of the ADU being processed
  recv_payload,        \* its frames not yet processed
  era,                 \* how often the proxy was restarted
  net, seqno           \* the bundle network

mapper == <<next_mid, reverse_token_map, reverse_mid_map, pending_requests>>
proxyVars == <<mapper, src_eid, recv_payload, era>>
network == <<net, seqno>>

BP == INSTANCE BundleNetwork

Mids == 1 .. MaxId

\* TokenMIDMapper.__init__, with the counter starting at `start'.
FreshMapper(start) ==
  /\ next_mid = start
  /\ reverse_token_map = [t \in Tokens |-> NoToken]
  /\ reverse_mid_map = [m \in Mids |-> 0]
  /\ pending_requests = [t \in Tokens |-> NoEid]

ProxyInit ==
  /\ \E start \in StartMids : FreshMapper(start)
  /\ src_eid = NoEid
  /\ recv_payload = <<>>
  /\ era = 0

\* generate_mid: the counter runs through 1 .. MAX_ID and wraps.
NextMid == (next_mid % MaxId) + 1

\* token in self.reverse_token_map
Known(token) == reverse_token_map[token] # NoToken

\* generate_token draws until the token is not in the map.
AnyTokens == Tokens  \* mutant: no check for uniqueness
FreshTokens == { t \in Tokens : ~Known(t) }

\* send_coap_message: an exception of send_adu is printed and swallowed.
SendCoapMessage(msg, dst) ==
  \/ BP!Submit(NodeD, dst, <<msg>>)
  \/ SendMayFail /\ UNCHANGED network

\* Where the message seems to end long before it does, and where a few bytes early.
Misread(frame) == frame.token \in Marked \/ frame.mid \in Marked
CutShort(frame, pieces) == { [frame EXCEPT !.payload = p] : p \in pieces }

\* What the loop takes a frame for.  A Payload-Length of 0 counts as missing; a 0xFF
\* byte in front of the payload marker is taken for it: behind the cut there are
\* options, so nothing can be decoded, or a part of the payload, so that is what is
\* left of it.  A 0xFF in the length itself is close to the marker.
Readings(frame) ==
  IF frame = Junk \/ frame.payload = NoPayload THEN {Junk}
  ELSE IF Misread(frame) THEN {Junk} \cup CutShort(frame, Pieces)
  ELSE IF frame.payload \in MarkedTexts THEN CutShort(frame, Pieces \ {NoPayload})
  ELSE {frame}

\* The next frame, as the loop may read it.
NextFrame == IF recv_payload = <<>> THEN {} ELSE Readings(Head(recv_payload))

\* The loop goes on behind the frame it read as msg.  In what it cut off or could not
\* read it looks byte by byte for the next message, and may take messages that
\* follow for part of it.
GoOn(msg) ==
  recv_payload' \in
    IF msg = Head(recv_payload) /\ msg # Junk THEN {Tail(recv_payload)}
    ELSE { SubSeq(recv_payload, k, Len(recv_payload)) : k \in 2 .. Len(recv_payload) + 1 }

\* receive_adu; the ADU is acknowledged before it is looked at, and ignored
\* when it comes from neither A nor B.
Receive(b) ==
  /\ recv_payload = <<>>
  /\ b.dst = NodeD
  /\ BP!Deliver(b)
  /\ IF b.src \in FromA \cup FromB
     THEN src_eid' = b.src /\ recv_payload' = b.adu
     ELSE UNCHANGED <<src_eid, recv_payload>>
  /\ UNCHANGED <<mapper, era>>

\* map_request, and the mapped request sent to B.
ForwardRequest ==
  /\ src_eid \in FromA
  /\ \E msg \in NextFrame \ {Junk}, proxy_token \in FreshTokens :
       /\ GoOn(msg)
       /\ reverse_token_map' = [reverse_token_map EXCEPT ![proxy_token] = msg.token]
       /\ reverse_mid_map' = [reverse_mid_map EXCEPT ![next_mid] = msg.mid]
       /\ pending_requests' = [pending_requests EXCEPT ![proxy_token] = src_eid]
       /\ SendCoapMessage([msg EXCEPT !.token = proxy_token, !.mid = next_mid,
                                      !.era = era], NodeB)
  /\ next_mid' = NextMid
  /\ UNCHANGED <<src_eid, era>>

MapResponseToken(msg) ==  \* mutant: the ID stays the proxy's
  [msg EXCEPT !.token = reverse_token_map[msg.token]]

\* map_response for a known token: the original token, the original ID if the
\* ID is known too.
MapResponse(msg) ==
  [msg EXCEPT !.token = reverse_token_map[msg.token],
              !.mid = IF msg.mid \in Mids /\ reverse_mid_map[msg.mid] # 0
                      THEN reverse_mid_map[msg.mid] ELSE msg.mid]

\* map_response, and the mapped response sent to A; nothing is removed from
\* the maps.
ForwardResponse ==
  /\ src_eid \in FromB
  /\ \E msg \in NextFrame \ {Junk} :
       /\ Known(msg.token) /\ pending_requests[msg.token] # NoEid
       /\ GoOn(msg)
       /\ SendCoapMessage(MapResponse(msg), NodeA)
  /\ UNCHANGED <<mapper, src_eid, era>>

\* Unknown token: ``Could not map response from B, discarding''.
DiscardResponse ==
  /\ src_eid \in FromB
  /\ \E msg \in NextFrame \ {Junk} :
       /\ ~Known(msg.token) \/ pending_requests[msg.token] = NoEid
       /\ GoOn(msg)
  /\ UNCHANGED <<mapper, src_eid, era, network>>

\* A frame that raises: printed, and the loop goes on behind it.
SkipJunk ==
  /\ Junk \in NextFrame
  /\ GoOn(Junk)
  /\ UNCHANGED <<mapper, src_eid, era, network>>

\* The process ends (an exception of receive_adu, or killed) and is started
\* again: every map is empty, the rest of the acknowledged ADU is lost.
Restart ==
  /\ \E start \in StartMids :
       /\ next_mid' = start
       /\ reverse_token_map' = [t \in Tokens |-> NoToken]
       /\ reverse_mid_map' = [m \in Mids |-> 0]
       /\ pending_requests' = [t \in Tokens |-> NoEid]
  /\ src_eid' = NoEid
  /\ recv_payload' = <<>>
  /\ era' = era + 1
  /\ UNCHANGED network

\* One iteration of the extraction loop.
Process == ForwardRequest \/ ForwardResponse \/ DiscardResponse \/ SkipJunk

=============================================================================
