----------------------------- MODULE CoapOverBp -----------------------------
(***************************************************************************)
(* The whole system: the client on A, the proxy on D and the server on B,  *)
(* each as its own module has it, over one bundle network that delays,     *)
(* reorders and may lose bundles.  Requests without payload, and tokens,   *)
(* IDs and lengths with a 0xFF byte, are among the messages.               *)
(***************************************************************************)
EXTENDS Integers, Sequences, SequencesExt, FiniteSets

CONSTANTS
  Commands, Names, Values, Root,        \* what is typed, what B holds
  Databases,                            \* what B may have stored before
  ClientTokens, Tokens,                 \* tokens drawn by A and by D
  MaxId, StartMids, BufferLimit, HighWater, ResponseCap,
  NodeA, NodeB, NodeD, NoToken, NoEid, Junk,
  Marked, MarkedTexts, Pieces, NoPayload,  \* messages whose end D and B do not find
  MaxCommands    \* bound: commands typed

VARIABLES
  current_id, coap_buffer, flusher_task, at, leaving, waiters, woken, stream, unread,
  printed,                                                           \* A
  next_mid, reverse_token_map, reverse_mid_map, pending_requests, src_eid, proxy_payload,
  era,                                                               \* D
  resources, file, recv_payload, pc, code, content,                \* B
  net, seqno,
  first,    \* the dictionary B started with
  queued,   \* the messages A queued, in order
  seen,     \* for each of them, the requests A had a success printed for before
  served    \* the requests that changed B's resources, in order

\* What the proofs and the runs take for granted: three nodes, a database of resources, counters
\* that start within range, and no more commands than there are message IDs.
SystemAssumption ==
  /\ NodeA # NodeB /\ NodeA # NodeD /\ NodeB # NodeD /\ NoEid \notin {NodeA, NodeB}
  /\ NoToken \notin Tokens \cup ClientTokens /\ NoPayload \in Pieces
  /\ MaxId \in Nat \ {0} /\ StartMids \subseteq 1 .. MaxId
  /\ MaxCommands \in Nat /\ MaxCommands <= MaxId
  /\ Root \notin Names
  /\ \A r \in Databases : DOMAIN r \subseteq Names /\ r \in [DOMAIN r -> Seq(Values)]

A == INSTANCE CoapClient WITH Tokens <- ClientTokens, dst_eid <- NodeD
D == INSTANCE CoapProxy WITH FromA <- {NodeA}, FromB <- {NodeB}, SendMayFail <- FALSE,
                          recv_payload <- proxy_payload
B == INSTANCE CoapServer WITH Faults <- {}

clientVars == <<current_id, coap_buffer, flusher_task, at, leaving, waiters, woken, stream,
                unread, printed>>
proxyVars == <<next_mid, reverse_token_map, reverse_mid_map, pending_requests, src_eid,
               proxy_payload, era>>
serverVars == <<resources, file, recv_payload, pc, code, content>>
history == <<first, queued, seen, served>>
vars == <<clientVars, proxyVars, serverVars, net, seqno, history>>

Init ==
  /\ A!ClientInit /\ D!ProxyInit /\ B!ServerInit
  /\ net = {} /\ seqno = [v \in {NodeA, NodeB, NodeD} |-> 0]
  /\ first = resources /\ queued = <<>> /\ seen = <<>> /\ served = <<>>

-----------------------------------------------------------------------------
TypeCommand ==
  /\ Len(queued) < MaxCommands
  /\ \E c \in Commands : A!Queue(c, Len(queued) + 1)
  /\ queued' = Append(queued, Last(coap_buffer'))
  /\ seen' = Append(seen, { r.n : r \in { p \in printed : p.code \in B!Success } })
  /\ UNCHANGED <<proxyVars, serverVars, first, served>>

Client ==
  /\ A!Run \/ A!Accept \/ \E b \in net : A!ChatReceive(b)
  /\ UNCHANGED <<proxyVars, serverVars, history>>

Proxy ==
  /\ D!Process \/ \E b \in net : D!Receive(b)
  /\ UNCHANGED <<clientVars, serverVars, history>>

Server ==
  /\ B!Work \/ \E b \in net : B!Receive(b)
  /\ served' = IF pc' = "saving" /\ pc # "saving"
               THEN Append(served, Head(recv_payload)) ELSE served
  /\ UNCHANGED <<clientVars, proxyVars, first, queued, seen>>

Next == TypeCommand \/ Client \/ Proxy \/ Server

\* A lost bundle is one that is never received: Spec lets any bundle wait for ever.
Spec == Init /\ [][Next]_vars

\* Three event loops that never rest while there is something to do.
Fairness == WF_vars(Client) /\ WF_vars(Proxy) /\ WF_vars(Server)

-----------------------------------------------------------------------------
(* Properties *)

\* README.md:3, ``hop-by-hop based Message ID and Tokens matching'': every response
\* A prints carries token, ID and type that belong to one of its own requests,
\* the one B answered, although D and B only saw other tokens and IDs.
EndToEndMatch ==
  \A r \in printed :
    /\ r.token = queued[r.n].token /\ r.mid = queued[r.n].mid
    /\ r.mtype = (IF queued[r.n].mtype = "CON" THEN "ACK" ELSE "NON")

\* No request takes effect twice, and a success is printed only for one that did.
AtMostOnce ==
  /\ \A i, j \in DOMAIN served : served[i].n = served[j].n => i = j
  /\ \A r \in printed : r.code \in B!Success => \E i \in DOMAIN served : served[i].n = r.n

\* A GET shows its user a state of the resource that B went through, and one that
\* has everything in it the user had been told was done before asking; unless D cut the
\* answer, at a 0xFF byte in front of its payload.
ReadYourWrites ==
  \A r \in printed : r.code = "CONTENT" /\ r.payload \notin Pieces =>
    \E k \in 0 .. Len(served) :
      LET log == SubSeq(served, 1, k)
      IN  /\ B!ValuesAfter(r.payload, first, log, queued[r.n].path)
          /\ seen[r.n] \subseteq B!Numbers(log)

\* Message n is under way where its end, or that of one in front of it, is not found: it has
\* no payload, or a token or an ID with a 0xFF byte (NodeDaap2.py:163, 168).
Unreadable(n) ==
  \E b \in net : \E i, j \in DOMAIN b.adu :
    /\ i <= j /\ b.adu[j].n = n
    /\ \/ b.adu[i].payload = NoPayload \/ D!Misread(b.adu[i])
       \/ i < j /\ b.adu[i].payload \in MarkedTexts

\* Without losses every request is answered in the end, but for those that D or B find
\* unreadable or may take for part of an unreadable one.
EveryRequestAnswered ==
  \A n \in 1 .. MaxCommands :
    <>(n <= Len(queued)) => <>((\E r \in printed : r.n = n) \/ Unreadable(n))

\* Every answer at A is that of its request, and of a request served once.
SessionInv == EndToEndMatch /\ AtMostOnce
=============================================================================
