---------------------------- MODULE ProxyService ----------------------------
(***************************************************************************)
(* The proxy (CoapProxy) between any clients and a server that answers     *)
(* what the proxy forwarded: what the proxy promises whatever A and B do.  *)
(* A's requests may repeat tokens and IDs, arrive in aggregates, with      *)
(* frames nobody can parse; B may answer late, twice, and out of order.    *)
(***************************************************************************)
EXTENDS CoapProxy

CONSTANTS
  Foreign,      \* a node that is neither A nor B
  AnyPayload,   \* the payload of every message
  MaxRequests,  \* bound: requests A sends
  MaxAnswers,   \* bound: responses B sends
  MaxEras       \* bound: restarts of the proxy

ASSUME ServiceAssumption ==
  /\ Foreign \notin FromA \cup FromB \cup {NodeD}
  /\ MaxRequests \in Nat /\ MaxAnswers \in Nat /\ MaxEras \in Nat

VARIABLES
  asked,      \* the requests A sent, in order: [token, mid]
  forwarded,  \* the requests the proxy handed to the network for B
  minted,     \* message IDs generated since the proxy was started
  relayed     \* the responses it handed to the network for A

history == <<asked, forwarded, minted, relayed>>
vars == <<proxyVars, network, history>>

Nodes == FromA \cup FromB \cup {NodeD, Foreign}

Init ==
  /\ ProxyInit
  /\ net = {} /\ seqno = [v \in Nodes |-> 0]
  /\ asked = <<>> /\ forwarded = {} /\ minted = 0 /\ relayed = {}

-----------------------------------------------------------------------------
(* The environment *)

\* A's next k requests in one ADU, with or without a broken frame in front.
Ask ==
  /\ \E k \in 1 .. 2, junk \in BOOLEAN, src \in FromA :
       \E token \in [1 .. k -> Tokens], mid \in [1 .. k -> Mids] :
         /\ Len(asked) + k <= MaxRequests
         /\ asked' = asked \o [i \in 1 .. k |-> [token |-> token[i], mid |-> mid[i]]]
         /\ BP!Submit(src, NodeD,
              (IF junk THEN <<Junk>> ELSE <<>>)
                \o [i \in 1 .. k |-> [n |-> Len(asked) + i, token |-> token[i],
                                      mid |-> mid[i], era |-> 0, payload |-> AnyPayload]])
  /\ UNCHANGED <<proxyVars, forwarded, minted, relayed>>

\* B copies token and ID of a request into its response.
Answer ==
  /\ \E q \in forwarded, src \in FromB :
       /\ seqno[src] < MaxAnswers
       /\ BP!Submit(src, NodeD, <<q>>)
  /\ UNCHANGED <<proxyVars, history>>

\* Something that is not for the proxy to handle.
Intrude ==
  /\ seqno[Foreign] < 1
  /\ BP!Submit(Foreign, NodeD, <<Junk>>)
  /\ UNCHANGED <<proxyVars, history>>

LoseBundle == BP!Lose /\ UNCHANGED <<proxyVars, history>>

-----------------------------------------------------------------------------
(* The proxy, with what it does recorded *)

\* What this step handed over for dst.
HandedOver(dst) == { b.adu[1] : b \in { c \in net' \ net : c.dst = dst } }

ReceiveADU == (\E b \in net : Receive(b)) /\ UNCHANGED history

Forward ==
  /\ ForwardRequest
  /\ forwarded' = forwarded \cup HandedOver(NodeB)
  /\ minted' = minted + 1
  /\ UNCHANGED <<asked, relayed>>

Relay ==
  /\ ForwardResponse
  /\ relayed' = relayed \cup { [msg |-> m, by |-> era, wrapped |-> minted > MaxId] :
                                 m \in HandedOver(NodeA) }
  /\ UNCHANGED <<asked, forwarded, minted>>

Discard == (DiscardResponse \/ SkipJunk) /\ UNCHANGED history

RestartProxy ==
  /\ era < MaxEras
  /\ Restart
  /\ minted' = 0
  /\ UNCHANGED <<asked, forwarded, relayed>>

ProcessNext == Forward \/ Relay \/ Discard

Next ==
  \/ Ask \/ Answer \/ Intrude \/ LoseBundle
  \/ ReceiveADU \/ ProcessNext \/ RestartProxy

Spec == Init /\ [][Next]_vars

-----------------------------------------------------------------------------
(* Properties *)

Request == [n : Nat, token : Tokens, mid : Mids, era : Nat, payload : {AnyPayload} \cup Pieces]
Frame == Request \cup {Junk}
Record == [token : Tokens, mid : Mids]

\* The variables have their types; an entry of pending_requests and one of the
\* reverse token map exist together.
TypeOK ==
  /\ next_mid \in Mids
  /\ reverse_token_map \in [Tokens -> Tokens \cup {NoToken}]
  /\ reverse_mid_map \in [Mids -> Mids \cup {0}]
  /\ pending_requests \in [Tokens -> FromA \cup {NoEid}]
  /\ \A t \in Tokens : reverse_token_map[t] = NoToken <=> pending_requests[t] = NoEid
  /\ src_eid \in FromA \cup FromB \cup {NoEid}
  /\ recv_payload \in Seq(Frame)
  /\ era \in Nat /\ minted \in Nat
  /\ seqno \in [Nodes -> Nat]
  /\ net \subseteq [src : Nodes, dst : Nodes, seq : Nat, adu : Seq(Frame)]
  /\ asked \in Seq(Record)
  /\ forwarded \subseteq Request
  /\ relayed \subseteq [msg : Request, by : Nat, wrapped : BOOLEAN]

\* README.md:3, ``hop-by-hop based Message ID and Tokens matching'': a response
\* relayed to A, by the run of the proxy that forwarded the request, carries the
\* token of the very request it answers, and its message ID too as long as the
\* 24-bit counter has not wrapped, however requests repeat tokens and IDs and
\* however responses are delayed, doubled or reordered.
ResponseMatches ==
  \A r \in relayed :
    r.msg.era = r.by =>
      /\ r.msg.token = asked[r.msg.n].token
      /\ ~r.wrapped => r.msg.mid = asked[r.msg.n].mid
=============================================================================
