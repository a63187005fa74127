----------------------------- MODULE ProxyProofs -----------------------------
(***************************************************************************)
(* The proxy of Node D, the resource directory and the CoAP-CoAP proxy,    *)
(* which answer for entries that others made: what the runs of             *)
(* ProxyService, RdSession and AiocoapProxy check on small instances,      *)
(* proved for every set of tokens, every MaxId and every number of         *)
(* requests; for every set of endpoints, requests of devices and faults;   *)
(* and for all clients, observations, rules and requests.                  *)
(***************************************************************************)
EXTENDS ProxyService, RdSession, AiocoapProxy, FiniteSetTheorems, SequenceTheorems, WellFoundedInduction, TLAPS

-----------------------------------------------------------------------------
(* The inductive invariant *)

\* f repeats token and ID of a request in the log.
AskedIn(f, log) ==
  f # Junk => /\ f.n \in 1 .. Len(log)
              /\ f.token = log[f.n].token /\ f.mid = log[f.n].mid

IsAsked(f) == AskedIn(f, asked)

\* What A's bundles carry, and what is left of the one being processed.
FramesOfA ==
  /\ \A b \in net : b.src \in FromA => \A i \in DOMAIN b.adu : IsAsked(b.adu[i])
  /\ src_eid \in FromA => \A i \in DOMAIN recv_payload : IsAsked(recv_payload[i])

\* B's bundles carry copies of what was forwarded.
FramesOfB ==
  /\ \A b \in net : b.src \in FromB =>
       \A i \in DOMAIN b.adu : b.adu[i] # Junk => b.adu[i] \in forwarded
  /\ src_eid \in FromB =>
       \A i \in DOMAIN recv_payload : recv_payload[i] # Junk => recv_payload[i] \in forwarded

\* The maps of this run lead back to the request that was forwarded.
MapsLeadBack ==
  \A q \in forwarded :
    /\ q.n \in 1 .. Len(asked) /\ q.era <= era
    /\ q.era = era =>
         /\ reverse_token_map[q.token] = asked[q.n].token
         /\ minted <= MaxId => reverse_mid_map[q.mid] = asked[q.n].mid

\* Before the counter has come round, the IDs this run gave out are those from
\* its first one, s, up to the next one, perhaps across the wrap.
IdsGivenOut ==
  \E s \in Mids :
    \/ /\ s + minted <= MaxId /\ next_mid = s + minted
       /\ \A q \in forwarded : q.era = era => s <= q.mid /\ q.mid < next_mid
    \/ /\ s + minted > MaxId /\ minted <= MaxId /\ next_mid = s + minted - MaxId
       /\ \A q \in forwarded : q.era = era => s <= q.mid \/ q.mid < next_mid
    \/ minted > MaxId

RelayedAsked == \A r \in relayed : r.msg.n \in 1 .. Len(asked)

IInv == /\ TypeOK /\ FramesOfA /\ FramesOfB /\ MapsLeadBack /\ IdsGivenOut
        /\ RelayedAsked /\ ResponseMatches

-----------------------------------------------------------------------------
(* Lemmas about the operators *)

\* The counter of generate_mid stays within 1 .. MAX_ID and counts up by one
\* except at the wrap.
LEMMA NextMidValue ==
  ASSUME next_mid \in Mids
  PROVE  NextMid = IF next_mid = MaxId THEN 1 ELSE next_mid + 1
<1> USE ProxyAssumption DEF Mids, NextMid
<1>1. CASE next_mid = MaxId
  BY <1>1
<1>2. CASE next_mid < MaxId
  BY <1>2
<1> QED BY <1>1, <1>2

\* A bundle handed over by the proxy is the only one the network gains.
LEMMA SubmittedBundle ==
  ASSUME NEW msg, NEW dst, SendCoapMessage(msg, dst)
  PROVE  /\ net' \subseteq net \cup {[src |-> NodeD, dst |-> dst, seq |-> seqno[NodeD],
                                       adu |-> <<msg>>]}
         /\ net \subseteq net'
         /\ \/ seqno' = [seqno EXCEPT ![NodeD] = @ + 1]
            \/ seqno' = seqno
BY DEF SendCoapMessage, BP!Submit, BP!Bundle, network

\* What a step handed over is the message it sent, or nothing.
LEMMA HandedOverMessage ==
  ASSUME NEW msg, NEW dst, SendCoapMessage(msg, dst), NEW to
  PROVE  HandedOver(to) \subseteq {msg}
<1>1. \A b \in net' \ net : b.adu = <<msg>>
  BY SubmittedBundle
<1>2. <<msg>>[1] = msg
  OBVIOUS
<1> QED BY <1>1, <1>2 DEF HandedOver

\* Taking the head off a sequence leaves elements of it.
LEMMA TailElements ==
  ASSUME NEW S, NEW s \in Seq(S), s # <<>>
  PROVE  /\ Head(s) \in S /\ Head(s) = s[1] /\ 1 \in DOMAIN s
         /\ Tail(s) \in Seq(S)
         /\ \A i \in DOMAIN Tail(s) : i + 1 \in DOMAIN s /\ Tail(s)[i] = s[i + 1]
OBVIOUS

\* What the loop goes on with are frames it had.
LEMMA RestElements ==
  ASSUME NEW S, recv_payload \in Seq(S), recv_payload # <<>>, NEW msg, GoOn(msg)
  PROVE  /\ recv_payload' \in Seq(S)
         /\ \A i \in DOMAIN recv_payload' :
              \E j \in DOMAIN recv_payload : recv_payload'[i] = recv_payload[j]
<1>1. Len(recv_payload) \in Nat /\ Len(recv_payload) >= 1
  OBVIOUS
<1>2. PICK k \in 2 .. Len(recv_payload) + 1 : recv_payload' = SubSeq(recv_payload, k, Len(recv_payload))
  <2>1. CASE recv_payload' = Tail(recv_payload)
    <3>1. /\ recv_payload' = SubSeq(recv_payload, 2, Len(recv_payload))
          /\ 2 \in 2 .. Len(recv_payload) + 1
      BY <1>1, <2>1
    <3> QED BY <3>1
  <2> QED BY <2>1 DEF GoOn
<1> DEFINE s == recv_payload
           n == Len(s)
<1>3. s \in Seq(S) /\ n \in Nat /\ k \in 2 .. n + 1 /\ recv_payload' = SubSeq(s, k, n)
  BY <1>1, <1>2
<1> HIDE DEF s
<1>4. /\ SubSeq(s, k, n) \in Seq(S)
      /\ \A i \in DOMAIN SubSeq(s, k, n) :
           i + k - 1 \in DOMAIN s /\ SubSeq(s, k, n)[i] = s[i + k - 1]
  BY <1>3
<1> QED BY <1>3, <1>4 DEF s

\* What the loop takes a message for keeps its token, its ID and its history.
LEMMA ReadRequest ==
  ASSUME TypeOK, NEW msg \in NextFrame, msg # Junk
  PROVE  /\ recv_payload # <<>> /\ Head(recv_payload) # Junk /\ Head(recv_payload) \in Request
         /\ 1 \in DOMAIN recv_payload /\ Head(recv_payload) = recv_payload[1]
         /\ msg \in Request
         /\ msg.n = Head(recv_payload).n /\ msg.token = Head(recv_payload).token
         /\ msg.mid = Head(recv_payload).mid /\ msg.era = Head(recv_payload).era
<1> DEFINE f == Head(recv_payload)
<1>1. recv_payload # <<>> /\ msg \in Readings(f)
  BY DEF NextFrame
<1>2. f \in Frame /\ f # Junk /\ 1 \in DOMAIN recv_payload /\ f = recv_payload[1]
  BY <1>1, TailElements DEF TypeOK, Readings
<1> HIDE DEF f
<1>3. f \in Request
  BY <1>2 DEF Frame
<1>4. msg = f \/ msg \in CutShort(f, Pieces)
  BY <1>1 DEF Readings, CutShort
<1>5. CASE msg \in CutShort(f, Pieces)
  <2>1. PICK p \in Pieces : msg = [f EXCEPT !.payload = p]
    BY <1>5 DEF CutShort
  <2> QED BY <1>1, <1>2, <1>3, <2>1 DEF Request, f
<1> QED BY <1>1, <1>2, <1>3, <1>4, <1>5 DEF f

\* Joining two sequences: what comes out is from either.
LEMMA ConcatElements ==
  ASSUME NEW S, NEW s \in Seq(S), NEW t \in Seq(S)
  PROVE  /\ s \o t \in Seq(S)
         /\ Len(s \o t) = Len(s) + Len(t)
         /\ \A i \in 1 .. Len(s) : (s \o t)[i] = s[i]
         /\ \A i \in 1 .. Len(t) : (s \o t)[Len(s) + i] = t[i]
         /\ \A i \in DOMAIN (s \o t) :
              \/ i \in DOMAIN s /\ (s \o t)[i] = s[i]
              \/ i - Len(s) \in DOMAIN t /\ (s \o t)[i] = t[i - Len(s)]
OBVIOUS

\* Submitting a well-typed ADU keeps the network well typed.
LEMMA SubmitTypes ==
  ASSUME TypeOK, NEW src \in Nodes, NEW dst \in Nodes, NEW adu \in Seq(Frame),
         BP!Submit(src, dst, adu)
  PROVE  /\ net' \subseteq [src : Nodes, dst : Nodes, seq : Nat, adu : Seq(Frame)]
         /\ seqno' \in [Nodes -> Nat]
BY DEF TypeOK, BP!Submit, BP!Bundle

LEMMA NodeTypes ==
  /\ NodeA \in Nodes /\ NodeB \in Nodes /\ NodeD \in Nodes /\ Foreign \in Nodes
  /\ FromA \subseteq Nodes /\ FromB \subseteq Nodes
BY ProxyAssumption DEF Nodes

LEMMA SendTypes ==
  ASSUME TypeOK, NEW msg \in Request, NEW dst \in Nodes, SendCoapMessage(msg, dst), NEW to
  PROVE  /\ net' \subseteq [src : Nodes, dst : Nodes, seq : Nat, adu : Seq(Frame)]
         /\ seqno' \in [Nodes -> Nat]
         /\ HandedOver(to) \subseteq Request
<1>1. <<msg>> \in Seq(Frame)
  BY DEF Frame
<1>2. HandedOver(to) \subseteq Request
  BY HandedOverMessage
<1>3. CASE BP!Submit(NodeD, dst, <<msg>>)
  BY <1>1, <1>2, <1>3, SubmitTypes, NodeTypes
<1>4. CASE UNCHANGED network
  BY <1>2, <1>4 DEF network, TypeOK
<1> QED BY <1>3, <1>4 DEF SendCoapMessage

\* A forwarded request and a relayed response are again messages.
LEMMA MapRequestType ==
  ASSUME NEW msg \in Request, NEW t \in Tokens, next_mid \in Mids, era \in Nat
  PROVE  [msg EXCEPT !.token = t, !.mid = next_mid, !.era = era] \in Request
BY DEF Request

LEMMA MapResponseType ==
  ASSUME TypeOK, NEW msg \in Request, Known(msg.token)
  PROVE  /\ MapResponse(msg) \in Request
         /\ MapResponse(msg).n = msg.n /\ MapResponse(msg).era = msg.era
BY DEF TypeOK, Request, MapResponse, Known, Mids

\* What A's step does: it submits an ADU of well-typed frames that repeat the
\* requests it records.
LEMMA AskStep ==
  ASSUME TypeOK, Ask
  PROVE  /\ asked' \in Seq(Record)
         /\ Len(asked) <= Len(asked')
         /\ \A i \in 1 .. Len(asked) : asked'[i] = asked[i]
         /\ \E src \in FromA, adu \in Seq(Frame) :
              /\ BP!Submit(src, NodeD, adu)
              /\ \A i \in DOMAIN adu : AskedIn(adu[i], asked')
<1> PICK k \in 1 .. 2, junk \in BOOLEAN, src \in FromA :
      \E token \in [1 .. k -> Tokens], mid \in [1 .. k -> Mids] :
        /\ asked' = asked \o [i \in 1 .. k |-> [token |-> token[i], mid |-> mid[i]]]
        /\ BP!Submit(src, NodeD,
             (IF junk THEN <<Junk>> ELSE <<>>)
               \o [i \in 1 .. k |-> [n |-> Len(asked) + i, token |-> token[i],
                                     mid |-> mid[i], era |-> 0, payload |-> AnyPayload]])
  BY DEF Ask
<1> PICK token \in [1 .. k -> Tokens], mid \in [1 .. k -> Mids] :
      /\ asked' = asked \o [i \in 1 .. k |-> [token |-> token[i], mid |-> mid[i]]]
      /\ BP!Submit(src, NodeD,
           (IF junk THEN <<Junk>> ELSE <<>>)
             \o [i \in 1 .. k |-> [n |-> Len(asked) + i, token |-> token[i],
                                   mid |-> mid[i], era |-> 0, payload |-> AnyPayload]])
  OBVIOUS
<1> DEFINE records == [i \in 1 .. k |-> [token |-> token[i], mid |-> mid[i]]]
           front == IF junk THEN <<Junk>> ELSE <<>>
           frames == [i \in 1 .. k |-> [n |-> Len(asked) + i, token |-> token[i],
                                        mid |-> mid[i], era |-> 0, payload |-> AnyPayload]]
<1>1. asked \in Seq(Record) /\ Len(asked) \in Nat
  BY DEF TypeOK
<1>2. records \in Seq(Record) /\ Len(records) = k
  BY DEF Record
<1>3. \A i \in 1 .. k : /\ frames[i] \in Frame
                        /\ frames[i].n = Len(asked) + i
                        /\ frames[i].token = records[i].token
                        /\ frames[i].mid = records[i].mid
  BY <1>1 DEF Frame, Request
<1>4. frames \in Seq(Frame) /\ DOMAIN frames = 1 .. k
  <2>1. frames \in [1 .. k -> Frame]
    BY <1>3
  <2>2. k \in Nat
    OBVIOUS
  <2> HIDE DEF frames
  <2>3. frames \in Seq(Frame)
    BY ONLY <2>1, <2>2
  <2> QED BY <2>1, <2>3
<1>5. front \in Seq(Frame) /\ \A i \in DOMAIN front : front[i] = Junk
  <2>1. <<>> \in Seq(Frame) /\ <<Junk>> \in Seq(Frame)
    BY DEF Frame
  <2> QED BY <2>1
<1>6. asked' = asked \o records
  OBVIOUS
<1>7. BP!Submit(src, NodeD, front \o frames)
  OBVIOUS
<1> HIDE DEF frames, front, records
<1>8. /\ asked' \in Seq(Record) /\ Len(asked') = Len(asked) + k
      /\ \A i \in 1 .. Len(asked) : asked'[i] = asked[i]
      /\ \A i \in 1 .. k : asked'[Len(asked) + i] = records[i]
  BY ONLY <1>1, <1>2, <1>6, ConcatElements
<1>9. front \o frames \in Seq(Frame)
  BY <1>4, <1>5, ConcatElements
<1>10. \A i \in DOMAIN (front \o frames) :
         \/ (front \o frames)[i] = Junk
         \/ \E j \in 1 .. k : (front \o frames)[i] = frames[j]
  BY <1>4, <1>5, ConcatElements
<1>11. \A j \in 1 .. k : AskedIn(frames[j], asked')
  <2> SUFFICES ASSUME NEW j \in 1 .. k PROVE AskedIn(frames[j], asked')
    OBVIOUS
  <2>1. frames[j].n \in 1 .. Len(asked')
    BY <1>1, <1>3, <1>8
  <2>2. asked'[frames[j].n] = records[j]
    BY <1>3, <1>8
  <2> QED BY <1>3, <2>1, <2>2 DEF AskedIn
<1>12. \A i \in DOMAIN (front \o frames) : AskedIn((front \o frames)[i], asked')
  <2> SUFFICES ASSUME NEW i \in DOMAIN (front \o frames)
               PROVE  AskedIn((front \o frames)[i], asked')
    OBVIOUS
  <2>1. CASE (front \o frames)[i] = Junk
    BY ONLY <2>1 DEF AskedIn
  <2>2. ASSUME NEW j \in 1 .. k, (front \o frames)[i] = frames[j]
        PROVE  AskedIn((front \o frames)[i], asked')
    BY ONLY <1>11, <2>2
  <2> QED BY <1>10, <2>1, <2>2
<1>13. \E adu \in Seq(Frame) :
         BP!Submit(src, NodeD, adu) /\ \A i \in DOMAIN adu : AskedIn(adu[i], asked')
  BY <1>7, <1>9, <1>12
<1> QED BY <1>1, <1>8, <1>13

-----------------------------------------------------------------------------
(* Type correctness *)

LEMMA InitTypes == Init => TypeOK
<1> SUFFICES ASSUME Init PROVE TypeOK
  OBVIOUS
<1> QED
  BY ProxyAssumption
  DEF Init, ProxyInit, FreshMapper, TypeOK, Mids, Nodes, Frame, Record, Request

LEMMA NextTypes == TypeOK /\ [Next]_vars => TypeOK'
<1> SUFFICES ASSUME TypeOK, [Next]_vars PROVE TypeOK'
  OBVIOUS
<1>1. CASE Ask
  <2> PICK src \in FromA, adu \in Seq(Frame) : BP!Submit(src, NodeD, adu)
    BY <1>1, AskStep
  <2>1. asked' \in Seq(Record)
    BY <1>1, AskStep
  <2>2. /\ net' \subseteq [src : Nodes, dst : Nodes, seq : Nat, adu : Seq(Frame)]
        /\ seqno' \in [Nodes -> Nat]
    BY SubmitTypes, NodeTypes
  <2> QED BY <1>1, <2>1, <2>2 DEF Ask, TypeOK, proxyVars, mapper
<1>2. CASE Answer
  <2> PICK q \in forwarded, src \in FromB : BP!Submit(src, NodeD, <<q>>)
    BY <1>2 DEF Answer
  <2>1. <<q>> \in Seq(Frame)
    BY DEF TypeOK, Frame
  <2>2. /\ net' \subseteq [src : Nodes, dst : Nodes, seq : Nat, adu : Seq(Frame)]
        /\ seqno' \in [Nodes -> Nat]
    BY <2>1, SubmitTypes, NodeTypes
  <2> QED BY <1>2, <2>2 DEF Answer, TypeOK, proxyVars, mapper, history
<1>3. CASE Intrude
  <2>1. <<Junk>> \in Seq(Frame)
    BY DEF Frame
  <2>2. /\ net' \subseteq [src : Nodes, dst : Nodes, seq : Nat, adu : Seq(Frame)]
        /\ seqno' \in [Nodes -> Nat]
    BY <1>3, <2>1, SubmitTypes, NodeTypes DEF Intrude
  <2> QED BY <1>3, <2>2 DEF Intrude, TypeOK, proxyVars, mapper, history
<1>4. CASE LoseBundle
  BY <1>4 DEF LoseBundle, BP!Lose, TypeOK, proxyVars, mapper, history
<1>5. CASE ReceiveADU
  BY <1>5 DEF ReceiveADU, Receive, BP!Deliver, TypeOK, mapper, history
<1>6. CASE Forward
  <2> PICK msg \in NextFrame \ {Junk} : \E t \in FreshTokens :
        /\ GoOn(msg)
        /\ reverse_token_map' = [reverse_token_map EXCEPT ![t] = msg.token]
        /\ reverse_mid_map' = [reverse_mid_map EXCEPT ![next_mid] = msg.mid]
        /\ pending_requests' = [pending_requests EXCEPT ![t] = src_eid]
        /\ SendCoapMessage([msg EXCEPT !.token = t, !.mid = next_mid, !.era = era], NodeB)
    BY <1>6 DEF Forward, ForwardRequest
  <2> PICK t \in FreshTokens :
        /\ GoOn(msg)
        /\ reverse_token_map' = [reverse_token_map EXCEPT ![t] = msg.token]
        /\ reverse_mid_map' = [reverse_mid_map EXCEPT ![next_mid] = msg.mid]
        /\ pending_requests' = [pending_requests EXCEPT ![t] = src_eid]
        /\ SendCoapMessage([msg EXCEPT !.token = t, !.mid = next_mid, !.era = era], NodeB)
    OBVIOUS
  <2>1. src_eid \in FromA
    BY <1>6 DEF Forward, ForwardRequest
  <2>2. recv_payload # <<>> /\ msg \in Request
    BY ReadRequest
  <2>10. recv_payload' \in Seq(Frame)
    BY <2>2, RestElements DEF TypeOK
  <2>3. t \in Tokens
    BY DEF FreshTokens
  <2>4. [msg EXCEPT !.token = t, !.mid = next_mid, !.era = era] \in Request
    BY <2>2, <2>3, MapRequestType DEF TypeOK
  <2>5. /\ net' \subseteq [src : Nodes, dst : Nodes, seq : Nat, adu : Seq(Frame)]
        /\ seqno' \in [Nodes -> Nat]
        /\ HandedOver(NodeB) \subseteq Request
    BY <2>4, SendTypes, NodeTypes
  <2>6. next_mid' \in Mids
    BY <1>6, NextMidValue, ProxyAssumption DEF Forward, ForwardRequest, TypeOK, Mids
  <2>7. msg.token \in Tokens /\ msg.mid \in Mids
    BY <2>2 DEF Request
  <2>8. /\ reverse_token_map' \in [Tokens -> Tokens \cup {NoToken}]
        /\ reverse_mid_map' \in [Mids -> Mids \cup {0}]
        /\ pending_requests' \in [Tokens -> FromA \cup {NoEid}]
    BY <2>1, <2>3, <2>7 DEF TypeOK
  <2>9. \A u \in Tokens : reverse_token_map'[u] = NoToken <=> pending_requests'[u] = NoEid
    BY <2>1, <2>3, <2>7, ProxyAssumption DEF TypeOK
  <2> QED BY <1>6, <2>5, <2>6, <2>8, <2>9, <2>10 DEF Forward, ForwardRequest, TypeOK
<1>7. CASE Relay
  <2>1. PICK msg \in NextFrame \ {Junk} :
          Known(msg.token) /\ GoOn(msg) /\ SendCoapMessage(MapResponse(msg), NodeA)
    BY <1>7 DEF Relay, ForwardResponse
  <2>2. msg \in Request /\ recv_payload' \in Seq(Frame)
    BY <2>1, ReadRequest, RestElements DEF TypeOK
  <2>3. MapResponse(msg) \in Request
    BY <2>1, <2>2, MapResponseType
  <2>4. /\ net' \subseteq [src : Nodes, dst : Nodes, seq : Nat, adu : Seq(Frame)]
        /\ seqno' \in [Nodes -> Nat]
        /\ HandedOver(NodeA) \subseteq Request
    BY <2>1, <2>3, SendTypes, NodeTypes
  <2>5. relayed' \subseteq [msg : Request, by : Nat, wrapped : BOOLEAN]
    <3>1. relayed' = relayed \cup { [msg |-> m, by |-> era, wrapped |-> minted > MaxId] :
                                      m \in HandedOver(NodeA) }
      BY <1>7 DEF Relay
    <3>2. (minted > MaxId) \in BOOLEAN
      OBVIOUS
    <3> DEFINE wrapped == minted > MaxId
    <3> HIDE DEF wrapped
    <3>3. \A m \in HandedOver(NodeA) :
            [msg |-> m, by |-> era, wrapped |-> wrapped]
              \in [msg : Request, by : Nat, wrapped : BOOLEAN]
      BY <2>4, <3>2 DEF TypeOK, wrapped
    <3> QED BY <3>1, <3>3 DEF TypeOK, wrapped
  <2>6. UNCHANGED <<mapper, src_eid, era, asked, forwarded, minted>>
    BY <1>7 DEF Relay, ForwardResponse
  <2> QED BY <2>2, <2>4, <2>5, <2>6 DEF TypeOK, mapper
<1>8. CASE Discard
  <2>1. \E msg : recv_payload # <<>> /\ GoOn(msg)
    BY <1>8 DEF Discard, DiscardResponse, SkipJunk, NextFrame
  <2>2. recv_payload' \in Seq(Frame)
    BY <2>1, RestElements DEF TypeOK
  <2> QED BY <1>8, <2>2
          DEF Discard, DiscardResponse, SkipJunk, TypeOK, mapper, network, history
<1>9. CASE RestartProxy
  BY <1>9, ProxyAssumption DEF RestartProxy, Restart, TypeOK, Mids, network, Frame
<1>10. CASE UNCHANGED vars
  BY <1>10 DEF vars, proxyVars, mapper, network, history, TypeOK
<1> QED
  BY <1>1, <1>2, <1>3, <1>4, <1>5, <1>6, <1>7, <1>8, <1>9, <1>10 DEF Next, ProcessNext

\* Every variable keeps its type, and the two maps keyed by proxy token have
\* the same keys, in every execution.
THEOREM TypeCorrect == Spec => []TypeOK
<1>1. Init => TypeOK
  BY InitTypes
<1>2. TypeOK /\ [Next]_vars => TypeOK'
  BY NextTypes
<1> QED BY <1>1, <1>2, PTL DEF Spec

-----------------------------------------------------------------------------
(* The invariant is inductive *)

LEMMA InitInvariant == Init => IInv
<1> SUFFICES ASSUME Init PROVE IInv
  OBVIOUS
<1>1. TypeOK
  BY InitTypes
<1>2. /\ net = {} /\ recv_payload = <<>> /\ forwarded = {} /\ relayed = {} /\ minted = 0
  BY DEF Init, ProxyInit
<1>3. next_mid \in Mids /\ next_mid \in Nat /\ next_mid <= MaxId
  BY <1>1, ProxyAssumption DEF TypeOK, Mids
<1>4. IdsGivenOut
  BY <1>2, <1>3 DEF IdsGivenOut
<1> QED
  BY <1>1, <1>2, <1>4
  DEF IInv, FramesOfA, FramesOfB, MapsLeadBack, RelayedAsked, ResponseMatches

\* A step that leaves the maps and the history alone, brings bundles of A and B
\* in order and processes no frame keeps the invariant.
LEMMA QuietStep ==
  ASSUME IInv, TypeOK',
         UNCHANGED <<mapper, era, forwarded, minted, relayed>>,
         Len(asked) <= Len(asked'),
         \A i \in 1 .. Len(asked) : asked'[i] = asked[i],
         FramesOfA', FramesOfB'
  PROVE  IInv'
<1>1. /\ Len(asked) \in Nat /\ Len(asked') \in Nat
      /\ forwarded' = forwarded /\ relayed' = relayed /\ era' = era /\ minted' = minted
      /\ next_mid' = next_mid /\ reverse_token_map' = reverse_token_map
      /\ reverse_mid_map' = reverse_mid_map
  BY DEF IInv, TypeOK, mapper
<1>2. MapsLeadBack'
  BY <1>1 DEF IInv, MapsLeadBack
<1>3. IdsGivenOut'
  BY <1>1 DEF IInv, IdsGivenOut
<1>4. RelayedAsked' /\ ResponseMatches'
  BY <1>1 DEF IInv, RelayedAsked, ResponseMatches
<1> QED BY <1>2, <1>3, <1>4 DEF IInv

\* The same for a step in which A sends nothing.
LEMMA QuieterStep ==
  ASSUME IInv, TypeOK', UNCHANGED <<mapper, era, history>>, FramesOfA', FramesOfB'
  PROVE  IInv'
<1>1. asked' = asked /\ Len(asked) \in Nat
  BY DEF history, IInv, TypeOK
<1>2. UNCHANGED <<mapper, era, forwarded, minted, relayed>>
  BY DEF history
<1> QED BY <1>1, <1>2, QuietStep

\* The log of requests only grows.
LEMMA LogGrows ==
  ASSUME TypeOK, NEW f, AskedIn(f, asked), asked' \in Seq(Record),
         Len(asked) <= Len(asked'), \A i \in 1 .. Len(asked) : asked'[i] = asked[i]
  PROVE  AskedIn(f, asked')
BY DEF TypeOK, AskedIn

LEMMA AskKeeps == IInv /\ TypeOK' /\ Ask => IInv'
<1> SUFFICES ASSUME IInv, TypeOK', Ask PROVE IInv'
  OBVIOUS
<1>1. TypeOK
  BY DEF IInv
<1>2. /\ asked' \in Seq(Record) /\ Len(asked) <= Len(asked')
      /\ \A i \in 1 .. Len(asked) : asked'[i] = asked[i]
  BY <1>1, AskStep
<1> PICK src \in FromA, adu \in Seq(Frame) :
      BP!Submit(src, NodeD, adu) /\ \A i \in DOMAIN adu : AskedIn(adu[i], asked')
  BY <1>1, AskStep
<1>3. \A b \in net' : b \in net \/ (b.src = src /\ b.adu = adu)
  BY DEF BP!Submit, BP!Bundle
<1>4. FramesOfA'
  <2>1. ASSUME NEW b \in net', b.src \in FromA, NEW i \in DOMAIN b.adu
        PROVE  AskedIn(b.adu[i], asked')
    <3>1. CASE b \in net
      BY <1>1, <1>2, <2>1, <3>1, LogGrows DEF IInv, FramesOfA, IsAsked
    <3>2. CASE b.adu = adu
      BY <2>1, <3>2
    <3> QED BY <1>3, <3>1, <3>2
  <2>2. ASSUME src_eid \in FromA, NEW i \in DOMAIN recv_payload
        PROVE  AskedIn(recv_payload[i], asked')
    BY <1>1, <1>2, <2>2, LogGrows DEF IInv, FramesOfA, IsAsked
  <2> QED BY <2>1, <2>2 DEF FramesOfA, IsAsked, Ask, proxyVars
<1>5. FramesOfB'
  <2>1. \A b \in net' : b.src \in FromB => b \in net
    BY <1>3, ProxyAssumption
  <2> QED BY <2>1 DEF IInv, FramesOfB, Ask, proxyVars
<1> QED BY <1>2, <1>4, <1>5, QuietStep DEF Ask, proxyVars

LEMMA EnvironmentKeeps ==
  IInv /\ TypeOK' /\ (Answer \/ Intrude \/ LoseBundle \/ ReceiveADU) => IInv'
<1> SUFFICES ASSUME IInv, TypeOK', Answer \/ Intrude \/ LoseBundle \/ ReceiveADU
             PROVE  IInv'
  OBVIOUS
<1>1. UNCHANGED <<mapper, era, history>>
  BY DEF Answer, Intrude, LoseBundle, ReceiveADU, Receive, proxyVars
<1>2. CASE Answer
  <2> PICK q \in forwarded, src \in FromB : BP!Submit(src, NodeD, <<q>>)
    BY <1>2 DEF Answer
  <2>1. \A b \in net' : b \in net \/ (b.src = src /\ b.adu = <<q>>)
    BY DEF BP!Submit, BP!Bundle
  <2>2. \A i \in DOMAIN <<q>> : <<q>>[i] \in forwarded
    OBVIOUS
  <2>3. FramesOfA'
    <3>1. \A b \in net' : b.src \in FromA => b \in net
      BY <2>1, ProxyAssumption
    <3> QED BY <1>1, <1>2, <3>1 DEF IInv, FramesOfA, IsAsked, Answer, proxyVars, history
  <2>4. FramesOfB'
    BY <1>1, <1>2, <2>1, <2>2 DEF IInv, FramesOfB, Answer, proxyVars, history
  <2> QED BY <1>1, <2>3, <2>4, QuieterStep
<1>3. CASE Intrude
  <2>1. \A b \in net' : b \in net \/ b.src = Foreign
    BY <1>3 DEF Intrude, BP!Submit, BP!Bundle
  <2>2. \A b \in net' : b.src \in FromA \cup FromB => b \in net
    BY <2>1, ServiceAssumption
  <2>3. FramesOfA' /\ FramesOfB'
    BY <1>1, <1>3, <2>2
    DEF IInv, FramesOfA, FramesOfB, IsAsked, Intrude, proxyVars, history
  <2> QED BY <1>1, <2>3, QuieterStep
<1>4. CASE LoseBundle
  <2>1. FramesOfA' /\ FramesOfB'
    BY <1>1, <1>4
    DEF IInv, FramesOfA, FramesOfB, IsAsked, LoseBundle, BP!Lose, proxyVars, history
  <2> QED BY <1>1, <2>1, QuieterStep
<1>5. CASE ReceiveADU
  <2> PICK b \in net : Receive(b)
    BY <1>5 DEF ReceiveADU
  <2>1. net' \subseteq net /\ b \in net
    BY DEF Receive, BP!Deliver
  <2>2. \/ src_eid' = b.src /\ recv_payload' = b.adu
        \/ src_eid' = src_eid /\ recv_payload' = recv_payload
    BY DEF Receive
  <2>3. FramesOfA'
    BY <1>1, <2>1, <2>2 DEF IInv, FramesOfA, IsAsked, history
  <2>4. FramesOfB'
    BY <1>1, <2>1, <2>2 DEF IInv, FramesOfB, history
  <2> QED BY <1>1, <2>3, <2>4, QuieterStep
<1> QED BY <1>2, <1>3, <1>4, <1>5

\* Bundles of the proxy are neither from A nor from B, and GoOn leaves frames
\* that were there: sending and moving on keeps what A's and B's frames say.
LEMMA SendKeepsFrames ==
  ASSUME IInv, NEW msg, NEW dst, SendCoapMessage(msg, dst) \/ UNCHANGED network,
         recv_payload # <<>>, NEW read, GoOn(read), src_eid' = src_eid, asked' = asked,
         forwarded \subseteq forwarded'
  PROVE  FramesOfA' /\ FramesOfB'
<1>1. \A b \in net' : b \in net \/ b.src = NodeD
  BY SubmittedBundle DEF network
<1>2. \A b \in net' : b.src \in FromA \cup FromB => b \in net
  BY <1>1, ProxyAssumption
<1>3. \A i \in DOMAIN recv_payload' :
        \E j \in DOMAIN recv_payload : recv_payload'[i] = recv_payload[j]
  BY RestElements DEF IInv, TypeOK
<1>4. FramesOfA'
  BY <1>2, <1>3 DEF IInv, FramesOfA, IsAsked
<1>5. FramesOfB'
  BY <1>2, <1>3 DEF IInv, FramesOfB
<1> QED BY <1>4, <1>5

LEMMA ForwardKeeps == IInv /\ TypeOK' /\ Forward => IInv'
<1> SUFFICES ASSUME IInv, TypeOK', Forward PROVE IInv'
  OBVIOUS
<1>1. /\ src_eid \in FromA /\ src_eid' = src_eid /\ era' = era
      /\ asked' = asked /\ relayed' = relayed /\ minted' = minted + 1
      /\ next_mid' = NextMid
      /\ forwarded' = forwarded \cup HandedOver(NodeB)
  BY DEF Forward, ForwardRequest
<1> PICK msg \in NextFrame \ {Junk} : \E t \in FreshTokens :
      /\ GoOn(msg)
      /\ reverse_token_map' = [reverse_token_map EXCEPT ![t] = msg.token]
      /\ reverse_mid_map' = [reverse_mid_map EXCEPT ![next_mid] = msg.mid]
      /\ SendCoapMessage([msg EXCEPT !.token = t, !.mid = next_mid, !.era = era], NodeB)
  BY DEF Forward, ForwardRequest
<1> PICK t \in FreshTokens :
      /\ GoOn(msg)
      /\ reverse_token_map' = [reverse_token_map EXCEPT ![t] = msg.token]
      /\ reverse_mid_map' = [reverse_mid_map EXCEPT ![next_mid] = msg.mid]
      /\ SendCoapMessage([msg EXCEPT !.token = t, !.mid = next_mid, !.era = era], NodeB)
  OBVIOUS
<1> DEFINE q == [msg EXCEPT !.token = t, !.mid = next_mid, !.era = era]
<1>2. recv_payload # <<>> /\ msg \in Request /\ AskedIn(msg, asked)
  <2>1. 1 \in DOMAIN recv_payload => IsAsked(recv_payload[1])
    BY <1>1 DEF IInv, FramesOfA
  <2>2. TypeOK
    BY DEF IInv
  <2> QED BY <2>1, <2>2, ReadRequest DEF IsAsked, AskedIn
<1>3. q.n = msg.n /\ q.token = t /\ q.mid = next_mid /\ q.era = era
  BY <1>2 DEF Request
<1>4. forwarded' \subseteq forwarded \cup {q}
  BY <1>1, HandedOverMessage
<1>5. /\ t \in Tokens /\ reverse_token_map[t] = NoToken
      /\ next_mid \in Mids /\ minted \in Nat /\ era \in Nat
      /\ forwarded \subseteq Request /\ Len(asked) \in Nat
      /\ asked \in Seq(Record)
      /\ reverse_token_map \in [Tokens -> Tokens \cup {NoToken}]
      /\ reverse_mid_map \in [Mids -> Mids \cup {0}]
  BY DEF FreshTokens, Known, IInv, TypeOK
<1>6. FramesOfA' /\ FramesOfB'
  BY <1>1, <1>2, SendKeepsFrames
<1> HIDE DEF q
<1>7. ASSUME NEW p \in forwarded, p.era = era
      PROVE  /\ p.token # t
             /\ minted' <= MaxId => p.mid # next_mid
  <2>1. asked[p.n] \in Record /\ reverse_token_map[p.token] = asked[p.n].token
    BY <1>5, <1>7 DEF IInv, MapsLeadBack
  <2>2. p.token # t
    BY <1>5, <2>1, ProxyAssumption DEF Record
  <2>3. ASSUME minted' <= MaxId PROVE p.mid # next_mid
    <3>1. minted + 1 <= MaxId /\ MaxId \in Nat /\ p.mid \in Nat
      BY <1>1, <1>5, <2>3, ProxyAssumption DEF Request, Mids
    <3> PICK s \in Mids :
          \/ /\ s + minted <= MaxId /\ next_mid = s + minted
             /\ \A r \in forwarded : r.era = era => s <= r.mid /\ r.mid < next_mid
          \/ /\ s + minted > MaxId /\ minted <= MaxId /\ next_mid = s + minted - MaxId
             /\ \A r \in forwarded : r.era = era => s <= r.mid \/ r.mid < next_mid
          \/ minted > MaxId
      BY DEF IInv, IdsGivenOut
    <3>2. p \in Request /\ p.era = era /\ s \in Mids /\ next_mid \in Mids
      BY <1>5, <1>7
    <3>3. p.mid \in Mids
      BY <3>2 DEF Request
    <3>4. minted \in Nat
      BY <1>5
    <3> QED BY <3>1, <3>2, <3>3, <3>4 DEF Mids
  <2> QED BY <2>2, <2>3
<1>8. MapsLeadBack'
  <2>1. ASSUME NEW p \in forwarded
        PROVE  /\ p.n \in 1 .. Len(asked) /\ p.era <= era
               /\ p.era = era =>
                    /\ reverse_token_map'[p.token] = asked[p.n].token
                    /\ minted' <= MaxId => reverse_mid_map'[p.mid] = asked[p.n].mid
    <3>1. p.token \in Tokens /\ p.mid \in Mids
      BY <1>5 DEF Request
    <3>2. /\ p.n \in 1 .. Len(asked) /\ p.era <= era
          /\ p.era = era =>
               /\ reverse_token_map[p.token] = asked[p.n].token
               /\ minted <= MaxId => reverse_mid_map[p.mid] = asked[p.n].mid
      BY DEF IInv, MapsLeadBack
    <3>3. minted' <= MaxId => minted <= MaxId
      BY <1>1, <1>5, ProxyAssumption
    <3>4. p.era = era => reverse_token_map'[p.token] = reverse_token_map[p.token]
      BY <1>5, <1>7, <3>1
    <3>5. p.era = era /\ minted' <= MaxId => reverse_mid_map'[p.mid] = reverse_mid_map[p.mid]
      BY <1>5, <1>7, <3>1
    <3> QED BY <3>2, <3>3, <3>4, <3>5
  <2>2. /\ q.n \in 1 .. Len(asked) /\ q.era = era
        /\ reverse_token_map'[q.token] = asked[q.n].token
        /\ reverse_mid_map'[q.mid] = asked[q.n].mid
    BY <1>1, <1>2, <1>3, <1>5 DEF AskedIn
  <2> QED BY <1>1, <1>4, <1>5, <2>1, <2>2 DEF MapsLeadBack
<1>9. IdsGivenOut'
  <2> PICK s \in Mids :
        \/ /\ s + minted <= MaxId /\ next_mid = s + minted
           /\ \A r \in forwarded : r.era = era => s <= r.mid /\ r.mid < next_mid
        \/ /\ s + minted > MaxId /\ minted <= MaxId /\ next_mid = s + minted - MaxId
           /\ \A r \in forwarded : r.era = era => s <= r.mid \/ r.mid < next_mid
        \/ minted > MaxId
    BY DEF IInv, IdsGivenOut
  <2>1. /\ MaxId \in Nat /\ s \in Nat /\ 1 <= s /\ s <= MaxId
        /\ next_mid \in Nat /\ next_mid <= MaxId
        /\ \A r \in forwarded : r.mid \in Nat
        /\ next_mid' = IF next_mid = MaxId THEN 1 ELSE next_mid + 1
        /\ minted' = minted + 1 /\ era' = era
    <3>1. \A r \in forwarded : r.mid \in Nat
      BY <1>5 DEF Request, Mids
    <3>2. next_mid' = IF next_mid = MaxId THEN 1 ELSE next_mid + 1
      BY <1>1, <1>5, NextMidValue
    <3> QED BY <1>1, <1>5, <3>1, <3>2, ProxyAssumption DEF Mids
  <2>2. CASE minted + 1 > MaxId
    BY <2>1, <2>2 DEF IdsGivenOut
  <2>3. CASE minted + 1 <= MaxId /\ s + minted + 1 <= MaxId
    <3>1. next_mid' = s + minted'
      BY <1>5, <2>1, <2>3
    <3>2. \A r \in forwarded' : r.era = era => s <= r.mid /\ r.mid < next_mid'
      BY <1>3, <1>4, <1>5, <2>1, <2>3
    <3> QED BY <2>1, <2>3, <3>1, <3>2 DEF IdsGivenOut
  <2>4. CASE minted + 1 <= MaxId /\ s + minted + 1 > MaxId
    <3>1. next_mid' = s + minted' - MaxId
      BY <1>5, <2>1, <2>4
    <3>2. \A r \in forwarded' : r.era = era => s <= r.mid \/ r.mid < next_mid'
      BY <1>3, <1>4, <1>5, <2>1, <2>4
    <3>3. s + minted' > MaxId /\ minted' <= MaxId
      BY <1>5, <2>1, <2>4
    <3> QED BY <2>1, <3>1, <3>2, <3>3 DEF IdsGivenOut
  <2> QED BY <1>5, <2>1, <2>2, <2>3, <2>4
<1>10. RelayedAsked' /\ ResponseMatches'
  BY <1>1 DEF IInv, RelayedAsked, ResponseMatches
<1> QED BY <1>6, <1>8, <1>9, <1>10 DEF IInv

LEMMA RelayKeeps == IInv /\ TypeOK' /\ Relay => IInv'
<1> SUFFICES ASSUME IInv, TypeOK', Relay PROVE IInv'
  OBVIOUS
<1> DEFINE f == Head(recv_payload)
<1> PICK msg \in NextFrame \ {Junk} :
      Known(msg.token) /\ GoOn(msg) /\ SendCoapMessage(MapResponse(msg), NodeA)
  BY DEF Relay, ForwardResponse
<1>1. /\ src_eid \in FromB /\ src_eid' = src_eid
      /\ UNCHANGED <<mapper, era, asked, forwarded, minted>>
      /\ relayed' = relayed \cup { [msg |-> m, by |-> era, wrapped |-> minted > MaxId] :
                                     m \in HandedOver(NodeA) }
  BY DEF Relay, ForwardResponse
<1>2. TypeOK
  BY DEF IInv
<1>3. /\ recv_payload # <<>> /\ msg \in Request /\ f \in forwarded
      /\ msg.n = f.n /\ msg.token = f.token /\ msg.mid = f.mid /\ msg.era = f.era
  BY <1>1, <1>2, ReadRequest DEF IInv, FramesOfB
<1>4. FramesOfA' /\ FramesOfB'
  BY <1>1, <1>3, SendKeepsFrames
<1>5. MapsLeadBack' /\ IdsGivenOut'
  BY <1>1 DEF IInv, MapsLeadBack, IdsGivenOut, mapper
<1>6. HandedOver(NodeA) \subseteq {MapResponse(msg)}
  BY <1>1, HandedOverMessage
<1>7. MapResponse(msg).n = msg.n /\ MapResponse(msg).era = msg.era
  BY <1>1, <1>2, <1>3, MapResponseType
<1>8. msg.n \in 1 .. Len(asked)
  BY <1>3 DEF IInv, MapsLeadBack
<1>9. ASSUME msg.era = era
      PROVE  /\ MapResponse(msg).token = asked[msg.n].token
             /\ minted <= MaxId => MapResponse(msg).mid = asked[msg.n].mid
  <2>1. /\ reverse_token_map[msg.token] = asked[msg.n].token
        /\ minted <= MaxId => reverse_mid_map[msg.mid] = asked[msg.n].mid
    BY <1>3, <1>9 DEF IInv, MapsLeadBack
  <2>2. asked[msg.n].mid \in Mids /\ msg.mid \in Mids /\ 0 \notin Mids
    <3>1. asked[msg.n] \in Record
      BY <1>2, <1>8 DEF TypeOK
    <3> QED BY <1>3, <3>1 DEF Record, Request, Mids
  <2>3. MapResponse(msg).token = reverse_token_map[msg.token]
    BY <1>3 DEF MapResponse, Request
  <2>4. reverse_mid_map[msg.mid] # 0 => MapResponse(msg).mid = reverse_mid_map[msg.mid]
    BY <1>3, <2>2 DEF MapResponse, Request
  <2> QED BY <2>1, <2>2, <2>3, <2>4
<1>10. RelayedAsked'
  BY <1>1, <1>6, <1>7, <1>8 DEF IInv, RelayedAsked
<1>11. ResponseMatches'
  <2> SUFFICES ASSUME NEW r \in relayed', r.msg.era = r.by
               PROVE  /\ r.msg.token = asked[r.msg.n].token
                      /\ ~r.wrapped => r.msg.mid = asked[r.msg.n].mid
    BY <1>1 DEF ResponseMatches
  <2>1. CASE r \in relayed
    BY <2>1 DEF IInv, ResponseMatches
  <2>2. CASE r = [msg |-> MapResponse(msg), by |-> era, wrapped |-> minted > MaxId]
    <3>1. r.msg = MapResponse(msg) /\ r.by = era
      BY <2>2
    <3>2. ~r.wrapped => ~(minted > MaxId)
      BY <2>2
    <3>3. ~(minted > MaxId) => minted <= MaxId
      BY <1>2, ProxyAssumption DEF TypeOK
    <3> QED BY <1>7, <1>9, <3>1, <3>2, <3>3
  <2> QED BY <1>1, <1>6, <2>1, <2>2
<1> QED BY <1>4, <1>5, <1>10, <1>11 DEF IInv

LEMMA DiscardKeeps == IInv /\ TypeOK' /\ Discard => IInv'
<1> SUFFICES ASSUME IInv, TypeOK', Discard PROVE IInv'
  OBVIOUS
<1> PICK msg : GoOn(msg) /\ recv_payload # <<>>
  BY DEF Discard, DiscardResponse, SkipJunk, NextFrame
<1>1. UNCHANGED <<mapper, src_eid, era, network, history>>
  BY DEF Discard, DiscardResponse, SkipJunk
<1>2. SendCoapMessage(Junk, NodeA) \/ UNCHANGED network
  BY <1>1
<1>3. FramesOfA' /\ FramesOfB'
  BY <1>1, <1>2, SendKeepsFrames DEF history
<1> QED BY <1>1, <1>3, QuieterStep

LEMMA RestartKeeps == IInv /\ TypeOK' /\ RestartProxy => IInv'
<1> SUFFICES ASSUME IInv, TypeOK', RestartProxy PROVE IInv'
  OBVIOUS
<1>1. /\ recv_payload' = <<>> /\ era' = era + 1 /\ minted' = 0
      /\ UNCHANGED <<net, asked, forwarded, relayed>>
      /\ next_mid' \in StartMids
  BY DEF RestartProxy, Restart, network
<1>2. /\ era \in Nat /\ forwarded \subseteq Request /\ MaxId \in Nat
      /\ next_mid' \in Mids /\ next_mid' \in Nat /\ next_mid' <= MaxId
  BY <1>1, ProxyAssumption DEF IInv, TypeOK, Mids
<1>3. \A q \in forwarded : q.era \in Nat /\ q.era <= era /\ q.era # era'
  BY <1>1, <1>2 DEF IInv, MapsLeadBack, Request
<1>4. FramesOfA' /\ FramesOfB'
  BY <1>1 DEF IInv, FramesOfA, FramesOfB, IsAsked
<1>5. MapsLeadBack'
  BY <1>1, <1>2, <1>3 DEF IInv, MapsLeadBack
<1>6. IdsGivenOut'
  BY <1>1, <1>2, <1>3 DEF IdsGivenOut
<1>7. RelayedAsked' /\ ResponseMatches'
  BY <1>1 DEF IInv, RelayedAsked, ResponseMatches
<1> QED BY <1>4, <1>5, <1>6, <1>7 DEF IInv

LEMMA NextKeeps == IInv /\ [Next]_vars => IInv'
<1> SUFFICES ASSUME IInv, [Next]_vars PROVE IInv'
  OBVIOUS
<1>1. TypeOK'
  BY NextTypes DEF IInv
<1>2. CASE UNCHANGED vars
  <2>1. UNCHANGED <<mapper, era, history>> /\ UNCHANGED <<src_eid, recv_payload, net>>
    BY <1>2 DEF vars, proxyVars, network
  <2>2. FramesOfA' /\ FramesOfB'
    BY <2>1 DEF IInv, FramesOfA, FramesOfB, IsAsked, history
  <2> QED BY <1>1, <2>1, <2>2, QuieterStep
<1> QED
  BY <1>1, <1>2, AskKeeps, EnvironmentKeeps, ForwardKeeps, RelayKeeps, DiscardKeeps,
     RestartKeeps
  DEF Next, ProcessNext

-----------------------------------------------------------------------------
(* The theorems *)

\* The invariant that ties frames, maps and IDs together holds throughout.
THEOREM Invariant == Spec => []IInv
<1>1. Init => IInv
  BY InitInvariant
<1>2. IInv /\ [Next]_vars => IInv'
  BY NextKeeps
<1> QED BY <1>1, <1>2, PTL DEF Spec

\* Whatever A sends and whenever B answers, a response relayed by the run of
\* the proxy that forwarded its request carries that request's token, and its
\* message ID unless the ID counter has wrapped.
THEOREM ResponsesMatch == Spec => []ResponseMatches
<1>1. IInv => ResponseMatches
  BY DEF IInv
<1> QED BY <1>1, Invariant, PTL

-----------------------------------------------------------------------------
(* The resource directory, by itself. *)

LEMMA LeastNat ==
  ASSUME NEW T \in SUBSET Nat, T # {}
  PROVE  \E x \in T : \A y \in T : x <= y
<1> DEFINE R == {ss \in Nat \X Nat : ss[1] < ss[2]}
<1>1. IsWellFoundedOn(R, Nat)
  BY NatLessThanWellFounded DEF OpToRel
<1>2. \E x \in T : \A y \in T : ~ (<<y, x>> \in R)
  <2> HIDE DEF R
  <2> QED BY <1>1, WFMin
<1>3. \A x, y \in Nat : ~ (<<y, x>> \in R) => x <= y
  OBVIOUS
<1> HIDE DEF R
<1> QED BY <1>2, <1>3

IsReg(reg) ==
  /\ reg = [key |-> reg.key, links |-> reg.links, lt |-> reg.lt, base |-> reg.base,
            base_is_explicit |-> reg.base_is_explicit, other |-> reg.other, proxy_host |-> reg.proxy_host]
  /\ reg.proxy_host \in BOOLEAN

\* by_key and by_path are each other's inverse.
DirectoryRight(d) ==
  /\ d = [by_key |-> d.by_key, by_path |-> d.by_path, proxy_active |-> d.proxy_active]
  /\ DOMAIN d.by_key \subseteq Keys /\ DOMAIN d.by_path \subseteq 1 .. Cardinality(Keys)
  /\ \A k \in DOMAIN d.by_key : d.by_key[k] \in DOMAIN d.by_path /\ d.by_path[d.by_key[k]].key = k
  /\ \A p \in DOMAIN d.by_path : /\ d.by_path[p].key \in DOMAIN d.by_key
                                 /\ d.by_key[d.by_path[p].key] = p /\ IsReg(d.by_path[p])
  /\ DOMAIN d.proxy_active = {k \in DOMAIN d.by_key : d.by_path[d.by_key[k]].proxy_host}

\* _new_pathtail: with one registration per key there is a free path.
LEMMA NewPathRight ==
  ASSUME NEW d, DirectoryRight(d), NEW key \in Keys \ DOMAIN d.by_key
  PROVE  NewPath(d) \in (1 .. Cardinality(Keys)) \ DOMAIN d.by_path
<1> DEFINE used == DOMAIN d.by_path
           n == Cardinality(used)
           free == {i \in 1 .. n + 1 : i \notin used}
<1>1. IsFiniteSet(used) /\ n \in Nat /\ n + 1 <= Cardinality(Keys) /\ Cardinality(Keys) \in Nat
  <2> DEFINE others == Keys \ {key}
             owner == [p \in used |-> d.by_path[p].key]
  <2>1. IsFiniteSet(others) /\ Cardinality(others) = Cardinality(Keys) - 1 /\ Cardinality(Keys) \in Nat
    BY RdAssumption, FS_RemoveElement, FS_CardinalityType
  <2>2. owner \in Injection(used, others)
    <3>1. \A p \in used : d.by_path[p].key \in others /\ d.by_key[d.by_path[p].key] = p
      BY DEF DirectoryRight
    <3> QED BY <3>1 DEF Injection, IsInjective
  <2>3. IsFiniteSet(used) /\ Cardinality(used) <= Cardinality(others)
    <3> HIDE DEF used, others, owner
    <3> QED BY <2>1, <2>2, FS_Injection
  <2> QED BY <2>1, <2>3, FS_CardinalityType
<1>2. free # {}
  <2> SUFFICES ASSUME 1 .. n + 1 \subseteq used PROVE FALSE
    OBVIOUS
  <2>1. Cardinality(1 .. n + 1) <= n
    BY <1>1, FS_Subset
  <2>2. Cardinality(1 .. n + 1) = n + 1
    BY <1>1, FS_Interval
  <2> QED BY <1>1, <2>1, <2>2
<1>3. PICK i \in free : \A j \in free : i <= j
  <2>1. free \subseteq Nat
    BY <1>1
  <2> HIDE DEF free
  <2> QED BY <1>2, <2>1, LeastNat
<1>4. i \in 1 .. n + 1 /\ i \notin used /\ \A j \in 1 .. i - 1 : j \in used
  BY <1>1, <1>3
<1>5. NewPath(d) \in 1 .. n + 1 /\ NewPath(d) \notin used
  BY <1>4 DEF NewPath
<1> QED BY <1>1, <1>5

\* A deletion takes one registration out and leaves the others.
LEMMA DeletionRight ==
  ASSUME NEW d, DirectoryRight(d), NEW path \in DOMAIN d.by_path
  PROVE  /\ DirectoryRight(Deleted(d, path))
         /\ DOMAIN Deleted(d, path).by_key = DOMAIN d.by_key \ {d.by_path[path].key}
         /\ DOMAIN Deleted(d, path).by_path = DOMAIN d.by_path \ {path}
         /\ \A k \in DOMAIN Deleted(d, path).by_key : Deleted(d, path).by_key[k] = d.by_key[k]
<1> DEFINE new == Deleted(d, path)
           key == d.by_path[path].key
<1>1. /\ new.by_path = Without(d.by_path, path) /\ new.by_key = Without(d.by_key, key)
      /\ new.proxy_active = IF d.by_path[path].proxy_host THEN Without(d.proxy_active, key) ELSE d.proxy_active
      /\ new = [by_key |-> new.by_key, by_path |-> new.by_path, proxy_active |-> new.proxy_active]
  BY DEF Deleted
<1> HIDE DEF new
<1>2. key \in DOMAIN d.by_key /\ d.by_key[key] = path
  BY DEF DirectoryRight
<1>3. /\ DOMAIN new.by_path = DOMAIN d.by_path \ {path} /\ DOMAIN new.by_key = DOMAIN d.by_key \ {key}
      /\ \A p \in DOMAIN new.by_path : new.by_path[p] = d.by_path[p]
      /\ \A k \in DOMAIN new.by_key : new.by_key[k] = d.by_key[k]
  BY <1>1 DEF Without
<1>4. \A k \in DOMAIN new.by_key : new.by_key[k] \in DOMAIN new.by_path /\ new.by_path[new.by_key[k]].key = k
  BY <1>2, <1>3 DEF DirectoryRight
<1>5. \A p \in DOMAIN new.by_path : /\ new.by_path[p].key \in DOMAIN new.by_key
                                   /\ new.by_key[new.by_path[p].key] = p /\ IsReg(new.by_path[p])
  BY <1>2, <1>3 DEF DirectoryRight
<1>6. DOMAIN new.proxy_active = {k \in DOMAIN new.by_key : new.by_path[new.by_key[k]].proxy_host}
  <2>1. DOMAIN d.proxy_active = {k \in DOMAIN d.by_key : d.by_path[d.by_key[k]].proxy_host}
    BY DEF DirectoryRight
  <2>2. DOMAIN new.proxy_active = DOMAIN d.proxy_active \ {key}
    <3>1. CASE d.by_path[path].proxy_host
      BY <1>1, <3>1 DEF Without
    <3>2. CASE ~ d.by_path[path].proxy_host
      <4>1. key \notin DOMAIN d.proxy_active
        BY <1>2, <2>1, <3>2
      <4> QED BY <1>1, <3>2, <4>1
    <3> QED BY <3>1, <3>2
  <2> QED BY <1>3, <1>4, <2>1, <2>2
<1>7. DOMAIN new.by_key \subseteq Keys /\ DOMAIN new.by_path \subseteq 1 .. Cardinality(Keys)
  BY <1>3 DEF DirectoryRight
<1>8. DirectoryRight(new)
  BY <1>1, <1>4, <1>5, <1>6, <1>7 DEF DirectoryRight
<1> QED BY <1>3, <1>8 DEF new

\* A registration is entered under its key and its path, or takes the place of an earlier one.
LEMMA StoredRight ==
  ASSUME NEW d, DirectoryRight(d), NEW path \in 1 .. Cardinality(Keys), NEW reg, NEW address,
         IsReg(reg), reg.key \in Keys,
         path \in DOMAIN d.by_path => /\ d.by_path[path].key = reg.key
                                     /\ d.by_path[path].proxy_host = reg.proxy_host,
         reg.key \in DOMAIN d.by_key => d.by_key[reg.key] = path
  PROVE  /\ DirectoryRight(Stored(d, path, reg, address))
         /\ DOMAIN Stored(d, path, reg, address).by_key = DOMAIN d.by_key \cup {reg.key}
         /\ Stored(d, path, reg, address).by_key[reg.key] = path
         /\ \A k \in DOMAIN d.by_key : Stored(d, path, reg, address).by_key[k] = d.by_key[k]
         /\ DOMAIN Stored(d, path, reg, address).by_path = DOMAIN d.by_path \cup {path}
         /\ \A p \in DOMAIN Stored(d, path, reg, address).by_path :
              Stored(d, path, reg, address).by_path[p] = IF p = path THEN reg ELSE d.by_path[p]
<1> DEFINE new == Stored(d, path, reg, address)
           key == reg.key
<1>1. /\ new.by_path = Entry(d.by_path, path, reg) /\ new.by_key = Entry(d.by_key, key, path)
      /\ new.proxy_active = IF reg.proxy_host THEN Entry(d.proxy_active, key, address) ELSE d.proxy_active
      /\ new = [by_key |-> new.by_key, by_path |-> new.by_path, proxy_active |-> new.proxy_active]
  BY DEF Stored
<1> HIDE DEF new
<1>2. /\ DOMAIN new.by_path = DOMAIN d.by_path \cup {path} /\ DOMAIN new.by_key = DOMAIN d.by_key \cup {key}
      /\ new.by_path[path] = reg /\ new.by_key[key] = path
      /\ \A p \in DOMAIN new.by_path : p # path => new.by_path[p] = d.by_path[p]
      /\ \A k \in DOMAIN new.by_key : k # key => new.by_key[k] = d.by_key[k]
  BY <1>1 DEF Entry
<1>3. \A k \in DOMAIN d.by_key : new.by_key[k] = d.by_key[k]
  BY <1>2
<1>4. \A k \in DOMAIN d.by_key : k # key => d.by_key[k] # path
  BY DEF DirectoryRight
<1>5. \A p \in DOMAIN d.by_path : p # path => d.by_path[p].key # key
  BY DEF DirectoryRight
<1>6. \A k \in DOMAIN new.by_key : new.by_key[k] \in DOMAIN new.by_path /\ new.by_path[new.by_key[k]].key = k
  BY <1>2, <1>3, <1>4 DEF DirectoryRight
<1>7. \A p \in DOMAIN new.by_path : /\ new.by_path[p].key \in DOMAIN new.by_key
                                   /\ new.by_key[new.by_path[p].key] = p /\ IsReg(new.by_path[p])
  BY <1>2, <1>3, <1>5 DEF DirectoryRight
<1>8. DOMAIN new.proxy_active = {k \in DOMAIN new.by_key : new.by_path[new.by_key[k]].proxy_host}
  <2>1. DOMAIN d.proxy_active = {k \in DOMAIN d.by_key : d.by_path[d.by_key[k]].proxy_host}
    BY DEF DirectoryRight
  <2>2. \A k \in DOMAIN new.by_key : k # key =>
          (new.by_path[new.by_key[k]].proxy_host <=> d.by_path[d.by_key[k]].proxy_host)
    BY <1>2, <1>3, <1>4 DEF DirectoryRight
  <2>3. CASE reg.proxy_host
    <3>1. DOMAIN new.proxy_active = DOMAIN d.proxy_active \cup {key}
      BY <1>1, <2>3 DEF Entry
    <3> QED BY <1>2, <2>1, <2>2, <2>3, <3>1
  <2>4. CASE ~ reg.proxy_host
    <3>1. key \notin DOMAIN d.proxy_active
      BY <2>1, <2>4 DEF DirectoryRight
    <3>2. DOMAIN new.proxy_active = DOMAIN d.proxy_active
      BY <1>1, <2>4
    <3> QED BY <1>2, <2>1, <2>2, <2>4, <3>1, <3>2
  <2> QED BY <2>3, <2>4
<1>9. DOMAIN new.by_key \subseteq Keys /\ DOMAIN new.by_path \subseteq 1 .. Cardinality(Keys)
  BY <1>2 DEF DirectoryRight
<1>10. DirectoryRight(new)
  BY <1>1, <1>6, <1>7, <1>8, <1>9 DEF DirectoryRight
<1> QED BY <1>2, <1>3, <1>10 DEF new

\* What an operation on directory d may do: it keeps the registrations of all keys but those
\* of K where they are, and tells the observers unless the lookups show the same; a PUT may
\* have changed the links alone.
Result(d, r, K, put) ==
  /\ DirectoryRight(r.dir) /\ r.told \in BOOLEAN
  /\ \A k \in DOMAIN d.by_key \ K : k \in DOMAIN r.dir.by_key /\ r.dir.by_key[k] = d.by_key[k]
  /\ ~ r.told => /\ EndpointLookup(r.dir) = EndpointLookup(d)
                 /\ ResourceLookup(r.dir) = ResourceLookup(d) \/ (put /\ r.code = "2.04")

IsDone(r) == r = [dir |-> r.dir, code |-> r.code, told |-> r.told, location |-> r.location]

LEMMA NothingDone ==
  ASSUME NEW d, DirectoryRight(d), NEW code, NEW K, NEW put
  PROVE  Result(d, Done(d, code, FALSE), K, put) /\ IsDone(Done(d, code, FALSE))
BY DEF Result, Done, IsDone

\* What a request updates of a registration.
LEMMA UpdatedIs ==
  ASSUME NEW reg, IsReg(reg), NEW address, NEW p, NEW initial \in BOOLEAN
  PROVE  LET u == Updated(reg, address, p, initial)
         IN IsReg(u) /\ u.key = reg.key /\ u.links = reg.links /\ u.proxy_host = reg.proxy_host
<1> DEFINE u == Updated(reg, address, p, initial)
           explicit == reg.base_is_explicit \/ (p.base # "none" /\ (initial \/ p.base # reg.base))
           base == IF p.base # "none" THEN p.base ELSE IF explicit THEN reg.base ELSE NetworkBase(reg, address)
           lt == NewLt(reg, p)
           other == IF p.other # "none" THEN p.other ELSE reg.other
<1>1. u = [reg EXCEPT !.lt = lt, !.base = base, !.base_is_explicit = explicit, !.other = other]
  BY Zenon DEF Updated
<1> HIDE DEF u, explicit, base, lt, other
<1>2. /\ reg = [key |-> reg.key, links |-> reg.links, lt |-> reg.lt, base |-> reg.base,
                base_is_explicit |-> reg.base_is_explicit, other |-> reg.other, proxy_host |-> reg.proxy_host]
      /\ reg.proxy_host \in BOOLEAN
  BY DEF IsReg
<1>3. u = [key |-> reg.key, links |-> reg.links, lt |-> lt, base |-> base,
           base_is_explicit |-> explicit, other |-> other, proxy_host |-> reg.proxy_host]
  BY <1>1, <1>2
<1>4. IsReg(u) /\ u.key = reg.key /\ u.links = reg.links /\ u.proxy_host = reg.proxy_host
  BY <1>2, <1>3 DEF IsReg
<1> QED BY <1>4 DEF u

\* The lookups show the same when nothing they show has changed.
LEMMA SameLookups ==
  ASSUME NEW d, NEW e, DOMAIN e.by_path = DOMAIN d.by_path,
         \A p \in DOMAIN d.by_path : /\ e.by_path[p].key = d.by_path[p].key
                                     /\ e.by_path[p].base = d.by_path[p].base
                                     /\ e.by_path[p].other = d.by_path[p].other
  PROVE  /\ EndpointLookup(e) = EndpointLookup(d)
         /\ (\A p \in DOMAIN d.by_path : e.by_path[p].links = d.by_path[p].links) =>
              ResourceLookup(e) = ResourceLookup(d)
BY DEF EndpointLookup, ResourceLookup

\* initialize_endpoint
Registering(d, key, address, p, r) ==
  /\ Result(d, r, {key}, FALSE)
  /\ p = NoParams /\ address # Anonymous =>
       /\ Result(d, r, {}, FALSE) /\ r.code = "2.01"
       /\ key \in DOMAIN r.dir.by_key /\ r.dir.by_key[key] = r.location

LEMMA RegisteringRight ==
  ASSUME NEW d, DirectoryRight(d), NEW key \in Keys, NEW address, NEW p, NEW list
  PROVE  Registering(d, key, address, p, InitializeEndpoint(d, key, address, p, list))
<1> DEFINE r == InitializeEndpoint(d, key, address, p, list)
           known == key \in DOMAIN d.by_key
           path == IF known THEN d.by_key[key] ELSE NewPath(d)
           cleared == IF known THEN Deleted(d, path) ELSE d
           reg == [key |-> key, links |-> list, lt |-> "90000", base |-> "none",
                   base_is_explicit |-> FALSE, other |-> "none", proxy_host |-> p.proxy = "on"]
           refused == p.proxy = "off" \/ (p.proxy = "on" /\ ~ ProxyDomain)
           new == Updated(reg, address, p, TRUE)
           stored == Stored(cleared, path, new, address)
<1> SUFFICES Registering(d, key, address, p, r)
  OBVIOUS
<1>1. r = IF refused THEN Done(d, "4.00", FALSE)
          ELSE IF Unacceptable(reg, address, p, TRUE) THEN Done(cleared, "4.00", known)
          ELSE [Done(stored, "2.01", TRUE) EXCEPT !.location = path]
  BY DEF InitializeEndpoint, Registered
<1>2. path \in 1 .. Cardinality(Keys)
  BY NewPathRight DEF DirectoryRight
<1>3. /\ DirectoryRight(cleared) /\ key \notin DOMAIN cleared.by_key /\ path \notin DOMAIN cleared.by_path
      /\ DOMAIN cleared.by_key = DOMAIN d.by_key \ {key}
      /\ \A k \in DOMAIN cleared.by_key : cleared.by_key[k] = d.by_key[k]
  <2>1. CASE known
    <3>1. path \in DOMAIN d.by_path /\ d.by_path[path].key = key
      BY <2>1 DEF DirectoryRight
    <3> HIDE DEF path
    <3> QED BY <2>1, <3>1, DeletionRight
  <2>2. CASE ~ known
    BY <2>2, NewPathRight
  <2> QED BY <2>1, <2>2
<1>4. IsReg(reg) /\ reg.key = key
  BY DEF IsReg
<1> HIDE DEF r, path, cleared, reg, refused
<1>5. IsReg(new) /\ new.key = key
  BY <1>4, UpdatedIs
<1> HIDE DEF new
<1>6. /\ DirectoryRight(stored) /\ DOMAIN stored.by_key = DOMAIN d.by_key \cup {key} /\ stored.by_key[key] = path
      /\ \A k \in DOMAIN d.by_key \ {key} : stored.by_key[k] = d.by_key[k]
  <2>1. /\ DirectoryRight(stored) /\ DOMAIN stored.by_key = DOMAIN cleared.by_key \cup {key}
        /\ stored.by_key[key] = path
        /\ \A k \in DOMAIN cleared.by_key : stored.by_key[k] = cleared.by_key[k]
    BY <1>2, <1>3, <1>5, StoredRight
  <2> QED BY <1>3, <2>1
<1> HIDE DEF stored
<1>7. LET s == [Done(stored, "2.01", TRUE) EXCEPT !.location = path]
      IN s.dir = stored /\ s.code = "2.01" /\ s.told = TRUE /\ s.location = path
  BY DEF Done
<1>8. CASE refused
  <2>1. ~ (p = NoParams)
    BY <1>8 DEF refused, NoParams
  <2> QED BY <1>1, <1>8, <2>1, NothingDone DEF Registering
<1>9. CASE ~ refused /\ Unacceptable(reg, address, p, TRUE)
  <2>1. r = Done(cleared, "4.00", known)
    BY <1>1, <1>9
  <2>2. ~ (p = NoParams /\ address # Anonymous)
    BY <1>9 DEF Unacceptable, NeedsNetworkBase, NoParams, ReservedNames
  <2>3. ~ known => cleared = d
    BY DEF cleared
  <2>4. r.dir = cleared /\ r.told \in BOOLEAN /\ (r.told <=> known)
    <3>1. known \in BOOLEAN
      OBVIOUS
    <3> HIDE DEF known
    <3> QED BY <2>1, <3>1 DEF Done
  <2>5. Result(d, r, {key}, FALSE)
    BY <1>3, <2>3, <2>4 DEF Result
  <2> QED BY <2>2, <2>5 DEF Registering
<1>10. CASE ~ refused /\ ~ Unacceptable(reg, address, p, TRUE)
  <2>1. r.dir = stored /\ r.code = "2.01" /\ r.told = TRUE /\ r.location = path
    BY <1>1, <1>7, <1>10
  <2>2. known => path = d.by_key[key]
    BY DEF path
  <2>3. Result(d, r, {}, FALSE) /\ Result(d, r, {key}, FALSE)
    BY <1>6, <2>1, <2>2 DEF Result
  <2>4. key \in DOMAIN r.dir.by_key /\ r.dir.by_key[key] = r.location
    BY <1>6, <2>1
  <2> QED BY <2>1, <2>3, <2>4 DEF Registering
<1> QED BY <1>8, <1>9, <1>10

\* Registration.update_params
Updating(d, path, list, r) ==
  /\ Result(d, r, {}, TRUE) /\ IsDone(r)
  /\ list = d.by_path[path].links => Result(d, r, {}, FALSE)

LEMMA UpdatingRight ==
  ASSUME NEW d, DirectoryRight(d), NEW path \in DOMAIN d.by_path, NEW address, NEW p, NEW list
  PROVE  Updating(d, path, list, UpdateParams(d, path, address, p, list))
<1> DEFINE r == UpdateParams(d, path, address, p, list)
           reg == d.by_path[path]
           updated == Updated(reg, address, p, FALSE)
           new == [updated EXCEPT !.links = list]
           stored == Stored(d, path, new, address)
           later == [d EXCEPT !.by_path[path].lt = NewLt(reg, p)]
<1> SUFFICES Updating(d, path, list, r)
  OBVIOUS
<1>1. r = IF Unacceptable(reg, address, p, FALSE) THEN Done(d, "4.00", FALSE)
          ELSE IF BaseUnset(reg, p) THEN Done(later, "5.00", FALSE)
          ELSE Done(stored, "2.04", updated # reg)
  BY DEF UpdateParams
<1>2. IsReg(reg) /\ reg.key \in DOMAIN d.by_key /\ d.by_key[reg.key] = path /\ reg.key \in Keys
  BY DEF DirectoryRight
<1>3. IsReg(updated) /\ updated.key = reg.key /\ updated.proxy_host = reg.proxy_host /\ updated.links = reg.links
  <2>1. IsReg(reg) /\ FALSE \in BOOLEAN
    BY <1>2
  <2> HIDE DEF r, new, stored, later, reg
  <2> QED BY <2>1, UpdatedIs
<1> HIDE DEF r, updated
<1>4. /\ IsReg(new) /\ new.key = reg.key /\ new.proxy_host = reg.proxy_host /\ new.links = list
      /\ new.base = updated.base /\ new.other = updated.other
  <2>1. /\ updated = [key |-> updated.key, links |-> updated.links, lt |-> updated.lt, base |-> updated.base,
                      base_is_explicit |-> updated.base_is_explicit, other |-> updated.other,
                      proxy_host |-> updated.proxy_host]
        /\ updated.proxy_host \in BOOLEAN
    BY <1>3 DEF IsReg
  <2>2. new = [key |-> updated.key, links |-> list, lt |-> updated.lt, base |-> updated.base,
               base_is_explicit |-> updated.base_is_explicit, other |-> updated.other,
               proxy_host |-> updated.proxy_host]
    BY <2>1
  <2> HIDE DEF new
  <2> QED BY <1>3, <2>1, <2>2 DEF IsReg
<1>5. CASE Unacceptable(reg, address, p, FALSE)
  BY <1>1, <1>5, NothingDone DEF Updating
<1>6. CASE ~ Unacceptable(reg, address, p, FALSE) /\ BaseUnset(reg, p)
  <2> DEFINE kept == [reg EXCEPT !.lt = NewLt(reg, p)]
  <2>1. /\ d = [by_key |-> d.by_key, by_path |-> d.by_path, proxy_active |-> d.proxy_active]
        /\ IsReg(reg)
    BY <1>2 DEF DirectoryRight
  <2>2. /\ IsReg(kept) /\ kept.key = reg.key /\ kept.links = reg.links /\ kept.base = reg.base
        /\ kept.other = reg.other /\ kept.proxy_host = reg.proxy_host
    <3> DEFINE lt == NewLt(reg, p)
    <3> HIDE DEF lt
    <3>1. /\ reg = [key |-> reg.key, links |-> reg.links, lt |-> reg.lt, base |-> reg.base,
                    base_is_explicit |-> reg.base_is_explicit, other |-> reg.other, proxy_host |-> reg.proxy_host]
          /\ reg.proxy_host \in BOOLEAN
      BY <2>1 DEF IsReg
    <3>2. kept = [key |-> reg.key, links |-> reg.links, lt |-> lt, base |-> reg.base,
                  base_is_explicit |-> reg.base_is_explicit, other |-> reg.other, proxy_host |-> reg.proxy_host]
      BY <3>1 DEF lt
    <3> HIDE DEF kept
    <3> QED BY <3>1, <3>2 DEF IsReg
  <2>3. later = [by_key |-> d.by_key, by_path |-> [d.by_path EXCEPT ![path] = kept], proxy_active |-> d.proxy_active]
    <3>1. later = [d EXCEPT !.by_path = [d.by_path EXCEPT ![path] = kept]]
      BY <2>1
    <3> HIDE DEF kept, later
    <3> QED BY <2>1, <3>1
  <2> HIDE DEF kept, later
  <2>4. /\ later.by_key = d.by_key /\ later.proxy_active = d.proxy_active
        /\ DOMAIN later.by_path = DOMAIN d.by_path /\ later.by_path[path] = kept
        /\ \A x \in DOMAIN d.by_path : x # path => later.by_path[x] = d.by_path[x]
        /\ later = [by_key |-> later.by_key, by_path |-> later.by_path, proxy_active |-> later.proxy_active]
    BY <2>3
  <2>5. \A x \in DOMAIN d.by_path : /\ IsReg(later.by_path[x]) /\ later.by_path[x].key = d.by_path[x].key
                                    /\ later.by_path[x].links = d.by_path[x].links
                                    /\ later.by_path[x].base = d.by_path[x].base
                                    /\ later.by_path[x].other = d.by_path[x].other
                                    /\ later.by_path[x].proxy_host = d.by_path[x].proxy_host
    BY <2>2, <2>4 DEF DirectoryRight
  <2>6. DirectoryRight(later)
    BY <2>4, <2>5 DEF DirectoryRight
  <2>7. EndpointLookup(later) = EndpointLookup(d) /\ ResourceLookup(later) = ResourceLookup(d)
    BY <2>4, <2>5, SameLookups
  <2>8. IsDone(r) /\ r.dir = later /\ r.told = FALSE
    BY <1>1, <1>6 DEF Done, IsDone
  <2> QED BY <2>4, <2>6, <2>7, <2>8 DEF Result, Updating
<1>7. CASE ~ Unacceptable(reg, address, p, FALSE) /\ ~ BaseUnset(reg, p)
  <2>1. r = Done(stored, "2.04", updated # reg)
    BY <1>1, <1>7
  <2>2. /\ r.dir = stored /\ r.code = "2.04" /\ r.told \in BOOLEAN /\ (r.told <=> updated # reg)
        /\ IsDone(r)
    BY <2>1 DEF Done, IsDone
  <2> HIDE DEF new
  <2>3. path \in 1 .. Cardinality(Keys)
    BY DEF DirectoryRight
  <2>4. /\ DirectoryRight(stored) /\ DOMAIN stored.by_key = DOMAIN d.by_key \cup {reg.key}
        /\ \A k \in DOMAIN d.by_key : stored.by_key[k] = d.by_key[k]
        /\ DOMAIN stored.by_path = DOMAIN d.by_path \cup {path}
        /\ \A x \in DOMAIN stored.by_path : stored.by_path[x] = IF x = path THEN new ELSE d.by_path[x]
    <3> HIDE DEF stored
    <3> QED BY <1>2, <1>4, <2>3, StoredRight DEF stored
  <2> HIDE DEF stored
  <2>5. ASSUME updated = reg
        PROVE  /\ EndpointLookup(stored) = EndpointLookup(d)
               /\ list = reg.links => ResourceLookup(stored) = ResourceLookup(d)
    <3>1. DOMAIN stored.by_path = DOMAIN d.by_path
      BY <2>4
    <3>2. \A x \in DOMAIN d.by_path : /\ stored.by_path[x].key = d.by_path[x].key
                                      /\ stored.by_path[x].base = d.by_path[x].base
                                      /\ stored.by_path[x].other = d.by_path[x].other
                                      /\ list = reg.links => stored.by_path[x].links = d.by_path[x].links
      BY <1>4, <2>4, <2>5
    <3> QED BY <3>1, <3>2, SameLookups
  <2> QED BY <1>2, <2>2, <2>4, <2>5 DEF Result, Updating
<1> QED BY <1>5, <1>6, <1>7

\* What an operation on the directory gives for request q.
HandlingRight(d, q, r) ==
  /\ q.op = "register" => Registering(d, q.key, q.remote, q.params, r)
  /\ q.op = "post" => Result(d, r, {}, FALSE)
  /\ q.op = "put" => Result(d, r, {}, TRUE)
  /\ q.op = "delete" => Result(d, r, {d.by_path[q.path].key}, FALSE)

LEMMA PostRight ==
  ASSUME NEW d, DirectoryRight(d), NEW path \in DOMAIN d.by_path, NEW address, NEW p, NEW body
  PROVE  Result(d, RenderPost(d, path, address, p, body), {}, FALSE)
<1> DEFINE r == UpdateParams(d, path, address, p, d.by_path[path].links)
           refused == [r EXCEPT !.code = "4.00"]
<1>1. Result(d, r, {}, FALSE) /\ IsDone(r)
  BY UpdatingRight DEF Updating
<1>2. RenderPost(d, path, address, p, body) = IF body THEN refused ELSE r
  BY DEF RenderPost
<1> HIDE DEF r
<1>3. Result(d, refused, {}, FALSE)
  <2>1. r = [dir |-> r.dir, code |-> r.code, told |-> r.told, location |-> r.location]
    BY <1>1 DEF IsDone
  <2>2. refused = [dir |-> r.dir, code |-> "4.00", told |-> r.told, location |-> r.location]
    BY <2>1
  <2>3. refused.dir = r.dir /\ refused.told = r.told
    BY <2>2
  <2> HIDE DEF refused
  <2> QED BY <1>1, <2>3 DEF Result
<1> QED BY <1>1, <1>2, <1>3

LEMMA DeleteRight ==
  ASSUME NEW d, DirectoryRight(d), NEW path \in DOMAIN d.by_path
  PROVE  Result(d, RenderDelete(d, path), {d.by_path[path].key}, FALSE)
<1> DEFINE e == Deleted(d, path)
           r == RenderDelete(d, path)
<1>1. /\ DirectoryRight(e) /\ DOMAIN e.by_key = DOMAIN d.by_key \ {d.by_path[path].key}
      /\ \A k \in DOMAIN e.by_key : e.by_key[k] = d.by_key[k]
  BY DeletionRight
<1>2. r.dir = e /\ r.told = TRUE
  BY DEF RenderDelete, Done
<1> HIDE DEF e, r
<1>3. Result(d, r, {d.by_path[path].key}, FALSE)
  BY <1>1, <1>2 DEF Result
<1> QED BY <1>3 DEF r

LEMMA HandledRight ==
  ASSUME DirectoryRight(dir), NEW q, q.key \in Keys, q.op \in {"register", "post", "put", "delete"}
  PROVE  HandlingRight(dir, q, Handle(q))
<1>1. CASE q.op = "register"
  BY <1>1, RegisteringRight DEF Handle, HandlingRight
<1>2. CASE q.op # "register" /\ q.path \notin DOMAIN dir.by_path
  <2>1. Handle(q) = Done(dir, "4.04", FALSE)
    BY <1>2 DEF Handle, Dispatch
  <2> QED BY <1>2, <2>1, NothingDone DEF HandlingRight
<1>3. CASE q.op = "post" /\ q.path \in DOMAIN dir.by_path
  <2>1. Handle(q) = RenderPost(dir, q.path, q.remote, q.params, q.body)
    BY <1>3 DEF Handle, Dispatch
  <2> QED BY <1>3, <2>1, PostRight DEF HandlingRight
<1>4. CASE q.op = "put" /\ q.path \in DOMAIN dir.by_path
  <2>1. Handle(q) = RenderPut(dir, q.path, q.remote, q.params, q.links)
    BY <1>4 DEF Handle, Dispatch
  <2>2. Result(dir, RenderPut(dir, q.path, q.remote, q.params, q.links), {}, TRUE)
    <3>1. CASE q.links = "unparsable"
      BY <3>1, NothingDone DEF RenderPut
    <3>2. CASE q.links # "unparsable"
      BY <1>4, <3>2, UpdatingRight DEF RenderPut, Updating
    <3> QED BY <3>1, <3>2
  <2> QED BY <1>4, <2>1, <2>2 DEF HandlingRight
<1>5. CASE q.op = "delete" /\ q.path \in DOMAIN dir.by_path
  <2>1. Handle(q) = RenderDelete(dir, q.path)
    BY <1>5 DEF Handle, Dispatch
  <2> QED BY <1>5, <2>1, DeleteRight DEF HandlingRight
<1> QED BY <1>1, <1>2, <1>3, <1>4, <1>5

-----------------------------------------------------------------------------
(* The resource directory, and those who register with it. *)

\* A Registerer, its request, requests that may still arrive, links that are fetched.
RegistererRight(k) ==
  LET g == registerer[k]
  IN /\ DOMAIN g = {"state", "directory", "location", "errors", "failed"}
     /\ g.errors \in 0 .. ErrorsMax /\ (g.state # "ended" => g.errors < ErrorsMax)
     /\ Role(k) # "registerer" => g.state = "cancelled" /\ g.location = NoLocation

Proper(q) ==
  /\ q.op \in {"register", "post", "delete"} /\ q.key \in Keys /\ q.remote # Anonymous /\ q.params = NoParams

CallRight(k) ==
  LET c == call[k]
  IN \/ c = NoCall
     \/ /\ c.at \in {"asked", "answered"}
        /\ c.op \in {"register", "post", "delete"}
        /\ c.op = "register" => registerer[k].state = "registering"
        /\ c.op = "post" => registerer[k].state = "renewing"
        /\ c.op = "delete" => registerer[k].state = "cancelled" /\ registerer[k].location # NoLocation
        /\ c.at = "asked" => Proper(c) /\ c.key = k /\ (c.op = "delete" => c.path = registerer[k].location)
        /\ c.at = "answered" /\ c.op = "register" =>
             /\ c.code # "2.04"
             /\ ~ forgotten /\ c.code = "2.01" => k \in DOMAIN dir.by_key /\ dir.by_key[k] = c.location

\* As long as nothing was forgotten, the directory has what a Registerer knows to be its
\* registration, until it is asked to delete it.
Held(k) ==
  LET c == call[k]
  IN /\ ~ forgotten /\ registerer[k].location # NoLocation
     /\ registerer[k].state # "cancelled" \/ (c.at = "asked" /\ c.op = "delete")
     => k \in DOMAIN dir.by_key /\ dir.by_key[k] = registerer[k].location

RegisterersRight ==
  /\ DOMAIN registerer = Keys /\ DOMAIN call = Keys
  /\ \A k \in Keys : RegistererRight(k) /\ CallRight(k) /\ Held(k)
RequestsRight ==
  /\ remote \in [Keys -> {"a1", "a2"}]
  /\ \A q \in late : Proper(q) /\ q.op # "delete"
  /\ \A f \in fetches : /\ f = [key |-> f.key, remote |-> f.remote, links |-> f.links, n |-> f.n]
                        /\ f.key \in Keys /\ f.remote # Anonymous
RdInvariant ==
  /\ plan \in Plans /\ told \in BOOLEAN /\ quiet \in BOOLEAN /\ forgotten \in BOOLEAN
  /\ DirectoryRight(dir) /\ Observed
  /\ RegisterersRight /\ RequestsRight

LEMMA RdInvariantStarts == InitRd => RdInvariant
<1> SUFFICES ASSUME InitRd PROVE RdInvariant
  OBVIOUS
<1> USE DEF InitRd
<1>1. /\ dir.by_key = <<>> /\ dir.by_path = <<>> /\ dir.proxy_active = <<>>
      /\ dir = [by_key |-> dir.by_key, by_path |-> dir.by_path, proxy_active |-> dir.proxy_active]
  BY DEF EmptyDirectory
<1>2. DirectoryRight(dir)
  BY <1>1 DEF DirectoryRight
<1>3. Observed
  BY DEF Observed, Views
<1>4. RegisterersRight
  <2>1. ASSUME NEW k \in Keys PROVE RegistererRight(k) /\ CallRight(k) /\ Held(k)
    <3>1. /\ DOMAIN registerer[k] = {"state", "directory", "location", "errors", "failed"}
          /\ registerer[k].errors = 0 /\ registerer[k].location = NoLocation
          /\ registerer[k].state = IF Role(k) = "registerer" THEN "discovering" ELSE "cancelled"
      BY DEF NewRegisterer
    <3>2. RegistererRight(k)
      BY <3>1, RdAssumption DEF RegistererRight
    <3> QED BY <3>1, <3>2 DEF CallRight, Held
  <2> QED BY <2>1 DEF RegisterersRight
<1>5. RequestsRight
  BY DEF RequestsRight
<1> QED BY <1>2, <1>3, <1>4, <1>5 DEF RdInvariant

\* The directory has carried out a request.
Kept(K) ==
  \A k \in DOMAIN dir.by_key \ K : k \in DOMAIN dir'.by_key /\ dir'.by_key[k] = dir.by_key[k]

LEMMA CarriedRight ==
  ASSUME RdInvariant, NEW r, NEW K, NEW put \in BOOLEAN, Result(dir, r, K, put), Carried(r, put),
         UNCHANGED seen
  PROVE  DirectoryRight(dir') /\ told' \in BOOLEAN /\ quiet' \in BOOLEAN /\ Observed' /\ Kept(K)
<1>1. DirectoryRight(dir') /\ Kept(K)
  BY DEF Result, Carried, Kept
<1>2. told' \in BOOLEAN /\ quiet' \in BOOLEAN
  BY DEF Carried
<1>3. Observed'
  <2> SUFFICES ASSUME ~ told'
               PROVE  seen.ep = EndpointLookup(r.dir) /\ (quiet' \/ seen.res = ResourceLookup(r.dir))
    BY DEF Carried, Observed, EndpointLookup, ResourceLookup
  <2>1. ~ told /\ ~ r.told
    BY DEF Carried
  <2>2. EndpointLookup(r.dir) = EndpointLookup(dir)
        /\ (ResourceLookup(r.dir) = ResourceLookup(dir) \/ (put /\ r.code = "2.04"))
    BY <2>1 DEF Result
  <2>3. seen.ep = EndpointLookup(dir) /\ (quiet \/ seen.res = ResourceLookup(dir))
    BY <2>1 DEF RdInvariant, Observed
  <2>4. quiet \/ (put /\ r.code = "2.04") => quiet'
    BY <2>1 DEF Carried
  <2> QED BY <2>2, <2>3, <2>4
<1> QED BY <1>1, <1>2, <1>3

\* The registerers stay right when the directory alone does something, to keys of its own.
LEMMA OthersRight ==
  ASSUME RdInvariant, NEW K, forgotten' \in BOOLEAN, UNCHANGED <<plan, registerer, call>>,
         forgotten' \/ (~ forgotten /\ Kept(K) /\ \A k \in K \cap Keys : Role(k) # "registerer")
  PROVE  RegisterersRight'
<1>1. DOMAIN registerer' = Keys /\ DOMAIN call' = Keys
  BY DEF RdInvariant, RegisterersRight
<1>2. ASSUME NEW k \in Keys PROVE RegistererRight(k)' /\ CallRight(k)' /\ Held(k)'
  <2>1. RegistererRight(k) /\ CallRight(k) /\ Held(k)
    BY DEF RdInvariant, RegisterersRight
  <2>2. RegistererRight(k)'
    BY <2>1 DEF RegistererRight, Role
  <2>3. CASE forgotten'
    BY <2>1, <2>2, <2>3 DEF CallRight, Held
  <2>4. CASE ~ forgotten' /\ k \in K
    <3>1. registerer[k].state = "cancelled" /\ registerer[k].location = NoLocation
      BY <2>1, <2>4 DEF RegistererRight
    <3> QED BY <2>1, <2>2, <2>4, <3>1 DEF CallRight, Held
  <2>5. CASE ~ forgotten' /\ k \notin K
    <3>1. ~ forgotten /\ (k \in DOMAIN dir.by_key => k \in DOMAIN dir'.by_key /\ dir'.by_key[k] = dir.by_key[k])
      BY <2>5 DEF Kept
    <3>2. CallRight(k)'
      BY <2>1, <3>1 DEF CallRight
    <3>3. Held(k)'
      BY <2>1, <3>1 DEF Held
    <3> QED BY <2>2, <3>2, <3>3
  <2> QED BY <2>3, <2>4, <2>5
<1> QED BY <1>1, <1>2 DEF RegisterersRight

\* A step of one registerer.
LEMMA OwnStep ==
  ASSUME RdInvariant, NEW k \in Keys, UNCHANGED <<plan, dir, told, quiet, seen, forgotten>>,
         RequestsRight', DOMAIN registerer' = Keys, DOMAIN call' = Keys,
         \A j \in Keys \ {k} : registerer'[j] = registerer[j] /\ call'[j] = call[j],
         RegistererRight(k)', CallRight(k)', Held(k)'
  PROVE  RdInvariant'
<1>1. RegisterersRight'
  <2>1. ASSUME NEW j \in Keys \ {k} PROVE RegistererRight(j)' /\ CallRight(j)' /\ Held(j)'
    <3>1. RegistererRight(j) /\ CallRight(j) /\ Held(j)
      BY DEF RdInvariant, RegisterersRight
    <3>2. RegistererRight(j)'
      BY <3>1 DEF RegistererRight, Role
    <3>3. CallRight(j)'
      BY <3>1 DEF CallRight
    <3>4. Held(j)'
      BY <3>1 DEF Held
    <3> QED BY <3>2, <3>3, <3>4
  <2> QED BY <2>1 DEF RegisterersRight
<1>2. Observed'
  BY DEF RdInvariant, Observed, EndpointLookup, ResourceLookup
<1>3. plan' \in Plans /\ told' \in BOOLEAN /\ quiet' \in BOOLEAN /\ forgotten' \in BOOLEAN /\ DirectoryRight(dir')
  BY DEF RdInvariant
<1> QED BY <1>1, <1>2, <1>3 DEF RdInvariant

LEMMA SetIs ==
  ASSUME RdInvariant, NEW k \in Keys, NEW fields, Set(k, fields)
  PROVE  /\ DOMAIN registerer' = Keys
         /\ \A j \in Keys \ {k} : registerer'[j] = registerer[j]
         /\ DOMAIN registerer'[k] = {"state", "directory", "location", "errors", "failed"}
         /\ \A f \in {"state", "directory", "location", "errors", "failed"} :
              registerer'[k][f] = IF f \in DOMAIN fields THEN fields[f] ELSE registerer[k][f]
<1>1. /\ DOMAIN registerer = Keys
      /\ DOMAIN registerer[k] = {"state", "directory", "location", "errors", "failed"}
  BY DEF RdInvariant, RegisterersRight, RegistererRight
<1>2. registerer'[k] = [f \in DOMAIN registerer[k] |-> IF f \in DOMAIN fields THEN fields[f] ELSE registerer[k][f]]
  BY <1>1 DEF Set
<1>3. DOMAIN registerer' = Keys /\ \A j \in Keys \ {k} : registerer'[j] = registerer[j]
  BY <1>1 DEF Set
<1> QED BY <1>1, <1>2, <1>3

LEMMA AskIs ==
  ASSUME RdInvariant, NEW k \in Keys, NEW op \in {"register", "post", "delete"}, AskDirectory(k, op)
  PROVE  /\ DOMAIN call' = Keys
         /\ \A j \in Keys \ {k} : call'[j] = call[j]
         /\ call'[k].at = "asked" /\ call'[k].op = op /\ call'[k].key = k
         /\ call'[k].path = registerer[k].location /\ Proper(call'[k])
<1>1. DOMAIN call = Keys /\ remote[k] \in {"a1", "a2"}
  BY DEF RdInvariant, RegisterersRight, RequestsRight
<1>2. call'[k] = [at |-> "asked", op |-> op, key |-> k, remote |-> remote[k], params |-> NoParams,
                  links |-> "known", body |-> FALSE, path |-> registerer[k].location]
  BY <1>1 DEF AskDirectory
<1>3. DOMAIN call' = Keys /\ \A j \in Keys \ {k} : call'[j] = call[j]
  BY <1>1 DEF AskDirectory
<1> QED BY <1>1, <1>2, <1>3 DEF Proper, Anonymous

LEMMA RequestsSame ==
  RdInvariant /\ UNCHANGED <<late, fetches, remote>> => RequestsRight'
BY DEF RdInvariant, RequestsRight, Proper

LEMMA DiscoverRight ==
  ASSUME RdInvariant, NEW k \in Keys, Discover(k)
  PROVE  RdInvariant'
<1> DEFINE g == registerer[k]
           new == registerer'[k]
<1>1. RegistererRight(k) /\ CallRight(k) /\ Held(k) /\ DOMAIN call = Keys /\ g.state = "discovering"
  BY DEF RdInvariant, RegisterersRight, Discover
<1>2. call[k] = NoCall
  BY <1>1 DEF CallRight
<1>3. /\ DOMAIN registerer' = Keys /\ \A j \in Keys \ {k} : registerer'[j] = registerer[j]
      /\ DOMAIN new = {"state", "directory", "location", "errors", "failed"}
      /\ new.state \in {"registering", "failed"} /\ new.location = g.location /\ new.errors = g.errors
  <2> DEFINE usable == Directories \ g.failed
             found == IF g.directory # NoDirectory THEN g.directory
                      ELSE CHOOSE i \in usable : \A j \in usable : i <= j
  <2>1. Set(k, [state |-> "registering", directory |-> found]) \/ Set(k, [state |-> "failed"])
    BY DEF Discover
  <2> HIDE DEF found
  <2>2. CASE Set(k, [state |-> "registering", directory |-> found])
    BY <2>2, SetIs
  <2>3. CASE Set(k, [state |-> "failed"])
    BY <2>3, SetIs
  <2> QED BY <2>1, <2>2, <2>3
<1>4. RegistererRight(k)' /\ CallRight(k)' /\ Held(k)'
  BY <1>1, <1>2, <1>3 DEF Discover, outside, RegistererRight, CallRight, Held, Role
<1>5. RequestsRight'
  BY RequestsSame DEF Discover, outside
<1> QED BY <1>1, <1>3, <1>4, <1>5, OwnStep DEF Discover, outside

LEMMA RegisterRight ==
  ASSUME RdInvariant, NEW k \in Keys, Register(k)
  PROVE  RdInvariant'
<1>1. RegistererRight(k) /\ CallRight(k) /\ Held(k) /\ DOMAIN registerer = Keys
  BY DEF RdInvariant, RegisterersRight
<1>2. /\ DOMAIN call' = Keys /\ \A j \in Keys \ {k} : call'[j] = call[j]
      /\ call'[k].at = "asked" /\ call'[k].op = "register" /\ call'[k].key = k /\ Proper(call'[k])
  BY AskIs DEF Register
<1>3. call[k].at = "none"
  BY DEF Register, NoCall
<1>4. RegistererRight(k)' /\ CallRight(k)' /\ Held(k)'
  BY <1>1, <1>2, <1>3 DEF Register, outside, RegistererRight, CallRight, Held, Role, Proper
<1>5. RequestsRight'
  BY RequestsSame DEF Register, outside
<1> QED BY <1>1, <1>2, <1>4, <1>5, OwnStep DEF Register, outside

LEMMA RenewRight ==
  ASSUME RdInvariant, NEW k \in Keys, Renew(k)
  PROVE  RdInvariant'
<1>1. RegistererRight(k) /\ CallRight(k) /\ Held(k)
  BY DEF RdInvariant, RegisterersRight
<1>2. /\ DOMAIN call' = Keys /\ \A j \in Keys \ {k} : call'[j] = call[j]
      /\ call'[k].at = "asked" /\ call'[k].op = "post" /\ call'[k].key = k /\ Proper(call'[k])
  BY AskIs DEF Renew
<1>3. /\ DOMAIN registerer' = Keys /\ \A j \in Keys \ {k} : registerer'[j] = registerer[j]
      /\ DOMAIN registerer'[k] = {"state", "directory", "location", "errors", "failed"}
      /\ registerer'[k].state = "renewing" /\ registerer'[k].location = registerer[k].location
      /\ registerer'[k].errors = registerer[k].errors
  <2>1. Set(k, [state |-> "renewing"])
    BY DEF Renew
  <2> QED BY <2>1, SetIs
<1>4. RegistererRight(k)' /\ CallRight(k)' /\ Held(k)'
  BY <1>1, <1>2, <1>3 DEF Renew, outside, RegistererRight, CallRight, Held, Role, Proper
<1>5. RequestsRight'
  BY RequestsSame DEF Renew, outside
<1> QED BY <1>2, <1>3, <1>4, <1>5, OwnStep DEF Renew, outside

LEMMA TakeRight ==
  ASSUME RdInvariant, NEW k \in Keys, Take(k)
  PROVE  RdInvariant'
<1> DEFINE g == registerer[k]
           new == registerer'[k]
           c == call[k]
<1>1. RegistererRight(k) /\ CallRight(k) /\ Held(k) /\ DOMAIN registerer = Keys /\ DOMAIN call = Keys
  BY DEF RdInvariant, RegisterersRight
<1>2. /\ c.at = "answered" /\ g.state \in {"registering", "renewing"} /\ c # NoCall
      /\ UNCHANGED <<plan, dir, told, quiet, seen, forgotten, late, fetches, remote>>
  BY DEF Take, outside, NoCall
<1>3. RequestsRight'
  BY <1>2, RequestsSame
<1>4. ErrorsMax \in Nat \ {0} /\ g.errors \in 0 .. ErrorsMax /\ g.errors < ErrorsMax
  BY <1>1, <1>2, RdAssumption DEF RegistererRight
<1>5. CASE c.code = "later"
  <2>1. c.op \in {"register", "post"} /\ AskDirectory(k, c.op) /\ UNCHANGED registerer
    BY <1>1, <1>2, <1>5 DEF CallRight, Take
  <2>2. /\ DOMAIN call' = Keys /\ \A j \in Keys \ {k} : call'[j] = call[j]
        /\ call'[k].at = "asked" /\ call'[k].op = c.op /\ call'[k].key = k /\ Proper(call'[k])
    BY <2>1, AskIs
  <2>3. RegistererRight(k)'
    BY <1>1, <1>2, <2>1 DEF RegistererRight, Role
  <2>4. CallRight(k)'
    BY <1>1, <1>2, <2>1, <2>2 DEF CallRight, Proper
  <2>5. Held(k)'
    BY <1>1, <1>2, <2>1, <2>2 DEF Held
  <2> QED BY <1>1, <1>2, <1>3, <2>1, <2>2, <2>3, <2>4, <2>5, OwnStep
<1>6. CASE c.code # "later"
  <2>1. /\ DOMAIN call' = Keys /\ (\A j \in Keys \ {k} : call'[j] = call[j]) /\ call'[k] = NoCall
    BY <1>1, <1>6 DEF Take
  <2>2. CallRight(k)'
    BY <2>1 DEF CallRight
  <2>3. ASSUME /\ DOMAIN registerer' = Keys /\ \A j \in Keys \ {k} : registerer'[j] = registerer[j]
               /\ DOMAIN new = {"state", "directory", "location", "errors", "failed"}
               /\ new.location = g.location /\ new.state # "cancelled"
               /\ new.errors \in 0 .. ErrorsMax /\ (new.state # "ended" => new.errors < ErrorsMax)
        PROVE  RdInvariant'
    <3>1. RegistererRight(k)'
      BY <1>1, <1>2, <2>3 DEF RegistererRight, Role
    <3>2. Held(k)'
      BY <1>1, <1>2, <2>3 DEF Held
    <3> QED BY <1>2, <1>3, <2>1, <2>2, <2>3, <3>1, <3>2, OwnStep
  <2>4. CASE /\ g.state = "registering" /\ c.code \in {"2.01", "2.04"}
             /\ Set(k, [state |-> "registered", location |-> c.location, errors |-> 0, failed |-> {}])
    <3>1. /\ DOMAIN registerer' = Keys /\ \A j \in Keys \ {k} : registerer'[j] = registerer[j]
          /\ DOMAIN new = {"state", "directory", "location", "errors", "failed"}
          /\ new.state = "registered" /\ new.location = c.location /\ new.errors = 0
      BY <2>4, SetIs
    <3>2. RegistererRight(k)'
      BY <1>1, <1>2, <1>4, <3>1 DEF RegistererRight, Role
    <3>3. c.op = "register" /\ c.code = "2.01"
      BY <1>1, <1>2, <2>4 DEF CallRight
    <3>4. Held(k)'
      BY <1>1, <1>2, <3>1, <3>3 DEF Held, CallRight
    <3> QED BY <1>2, <1>3, <2>1, <2>2, <3>1, <3>2, <3>4, OwnStep
  <2>5. CASE g.state = "renewing" /\ Set(k, [state |-> "registered"])
    <3>1. /\ DOMAIN registerer' = Keys /\ \A j \in Keys \ {k} : registerer'[j] = registerer[j]
          /\ DOMAIN new = {"state", "directory", "location", "errors", "failed"}
          /\ new.state = "registered" /\ new.location = g.location /\ new.errors = g.errors
      BY <2>5, SetIs
    <3> QED BY <1>4, <2>3, <3>1
  <2>6. CASE RegisterFailed(k)
    <3> DEFINE again == [state |-> "discovering", errors |-> g.errors + 1, directory |-> NoDirectory,
                         failed |-> g.failed \cup {g.directory}]
               ended == [state |-> "ended", errors |-> g.errors + 1]
    <3>1. Set(k, IF g.errors + 1 < ErrorsMax THEN again ELSE ended)
      BY <2>6, Zenon DEF RegisterFailed
    <3>2. CASE g.errors + 1 < ErrorsMax
      <4>1. Set(k, again)
        BY <3>1, <3>2
      <4>2. /\ DOMAIN registerer' = Keys /\ \A j \in Keys \ {k} : registerer'[j] = registerer[j]
            /\ DOMAIN new = {"state", "directory", "location", "errors", "failed"}
            /\ new.state = "discovering" /\ new.location = g.location /\ new.errors = g.errors + 1
        BY <4>1, SetIs
      <4> QED BY <1>4, <2>3, <3>2, <4>2
    <3>3. CASE ~ (g.errors + 1 < ErrorsMax)
      <4>1. Set(k, ended)
        BY <3>1, <3>3
      <4>2. /\ DOMAIN registerer' = Keys /\ \A j \in Keys \ {k} : registerer'[j] = registerer[j]
            /\ DOMAIN new = {"state", "directory", "location", "errors", "failed"}
            /\ new.state = "ended" /\ new.location = g.location /\ new.errors = g.errors + 1
        BY <4>1, SetIs
      <4> QED BY <1>4, <2>3, <3>3, <4>2
    <3> QED BY <3>2, <3>3
  <2>7. CASE RenewFailed(k)
    <3>1. /\ DOMAIN registerer' = Keys /\ \A j \in Keys \ {k} : registerer'[j] = registerer[j]
          /\ DOMAIN new = {"state", "directory", "location", "errors", "failed"}
          /\ new.state = "registering" /\ new.location = g.location /\ new.errors = g.errors
      <4>1. Set(k, [state |-> "registering"])
        BY <2>7 DEF RenewFailed
      <4> QED BY <4>1, SetIs
    <3> QED BY <1>4, <2>3, <3>1
  <2> QED BY <1>6, <2>4, <2>5, <2>6, <2>7 DEF Take
<1> QED BY <1>5, <1>6

LEMMA ShutdownRight ==
  ASSUME RdInvariant, NEW k \in Keys, Shutdown(k)
  PROVE  RdInvariant'
<1> DEFINE g == registerer[k]
           new == registerer'[k]
           c == call[k]
<1>1. RegistererRight(k) /\ CallRight(k) /\ Held(k) /\ DOMAIN registerer = Keys /\ DOMAIN call = Keys
  BY DEF RdInvariant, RegisterersRight
<1>2. /\ g.state \notin {"cancelled", "failed", "ended"} /\ (c.op # "delete" \/ c = NoCall)
      /\ UNCHANGED <<plan, dir, told, quiet, seen, forgotten, fetches, remote>>
  BY <1>1 DEF Shutdown, outside, CallRight
<1>3. RequestsRight'
  <2>1. \A q \in late' : Proper(q) /\ q.op # "delete"
    <3>1. c.at = "asked" => Proper(c) /\ c.op # "delete"
      BY <1>1, <1>2 DEF CallRight, NoCall
    <3>2. \A q \in late : Proper(q) /\ q.op # "delete"
      BY DEF RdInvariant, RequestsRight
    <3> QED BY <3>1, <3>2 DEF Shutdown
  <2> QED BY <1>2, <2>1 DEF RdInvariant, RequestsRight, Proper
<1>4. /\ DOMAIN registerer' = Keys /\ \A j \in Keys \ {k} : registerer'[j] = registerer[j]
      /\ DOMAIN new = {"state", "directory", "location", "errors", "failed"}
      /\ new.state = "cancelled" /\ new.location = g.location /\ new.errors = g.errors
  <2>1. Set(k, [state |-> "cancelled"])
    BY DEF Shutdown
  <2> QED BY <2>1, SetIs
<1>5. RegistererRight(k)'
  BY <1>1, <1>2, <1>4 DEF RegistererRight, Role
<1>6. CASE g.location = NoLocation
  <2>1. /\ DOMAIN call' = Keys /\ (\A j \in Keys \ {k} : call'[j] = call[j]) /\ call'[k] = NoCall
    BY <1>1, <1>6 DEF Shutdown
  <2>2. CallRight(k)' /\ Held(k)'
    BY <1>4, <1>6, <2>1 DEF CallRight, Held
  <2> QED BY <1>2, <1>3, <1>4, <1>5, <2>1, <2>2, OwnStep
<1>7. CASE g.location # NoLocation
  <2>1. /\ DOMAIN call' = Keys /\ \A j \in Keys \ {k} : call'[j] = call[j]
        /\ call'[k].at = "asked" /\ call'[k].op = "delete" /\ call'[k].key = k
        /\ call'[k].path = g.location /\ Proper(call'[k])
    BY <1>7, AskIs DEF Shutdown
  <2>2. CallRight(k)'
    BY <1>4, <1>7, <2>1 DEF CallRight, Proper
  <2>3. Held(k)'
    BY <1>1, <1>2, <1>4, <1>7, <2>1 DEF Held
  <2> QED BY <1>2, <1>3, <1>4, <1>5, <2>1, <2>2, <2>3, OwnStep
<1> QED BY <1>6, <1>7

LEMMA LoseRight ==
  ASSUME RdInvariant, NEW k \in Keys, Lose(k)
  PROVE  RdInvariant'
<1> DEFINE g == registerer[k]
           c == call[k]
<1>1. RegistererRight(k) /\ CallRight(k) /\ Held(k) /\ DOMAIN registerer = Keys /\ DOMAIN call = Keys
  BY DEF RdInvariant, RegisterersRight
<1>2. /\ g.state \in {"registering", "renewing"} /\ c.at \in {"asked", "answered"} /\ c # NoCall
      /\ UNCHANGED <<plan, dir, told, quiet, seen, forgotten, fetches, remote, registerer>>
  BY DEF Lose, outside, NoCall
<1>3. c.op \in {"register", "post"}
  BY <1>1, <1>2 DEF CallRight
<1>4. RequestsRight'
  <2>1. \A q \in late' : Proper(q) /\ q.op # "delete"
    <3>1. c.at = "asked" => Proper(c) /\ c.op # "delete"
      BY <1>1, <1>2, <1>3 DEF CallRight
    <3>2. \A q \in late : Proper(q) /\ q.op # "delete"
      BY DEF RdInvariant, RequestsRight
    <3> QED BY <3>1, <3>2 DEF Lose
  <2> QED BY <1>2, <2>1 DEF RdInvariant, RequestsRight, Proper
<1>5. /\ DOMAIN call' = Keys /\ \A j \in Keys \ {k} : call'[j] = call[j]
      /\ call'[k].at = "answered" /\ call'[k].op = c.op /\ call'[k].code = "5.00"
  <2>1. call' = [call EXCEPT ![k] = [at |-> "answered", op |-> c.op, code |-> "5.00", location |-> 0]]
    BY DEF Lose
  <2> QED BY <1>1, <2>1
<1>6. RegistererRight(k)'
  BY <1>1, <1>2 DEF RegistererRight, Role
<1>7. CallRight(k)'
  BY <1>1, <1>2, <1>3, <1>5 DEF CallRight
<1>8. Held(k)'
  BY <1>1, <1>2, <1>5 DEF Held
<1> QED BY <1>1, <1>2, <1>4, <1>5, <1>6, <1>7, <1>8, OwnStep

LEMMA ServeRight ==
  ASSUME RdInvariant, NEW k \in Keys, Serve(k)
  PROVE  RdInvariant'
<1> DEFINE g == registerer[k]
           c == call[k]
           r == Handle(c)
<1>1. RegistererRight(k) /\ CallRight(k) /\ Held(k) /\ DOMAIN registerer = Keys /\ DOMAIN call = Keys
  BY DEF RdInvariant, RegisterersRight
<1>2. /\ c.at = "asked" /\ c # NoCall /\ Proper(c) /\ c.key = k /\ (c.op = "delete" => c.path = g.location)
      /\ UNCHANGED <<plan, seen, forgotten, late, fetches, remote, registerer>>
  BY <1>1 DEF Serve, outside, NoCall, CallRight
<1>3. RequestsRight'
  BY <1>2, RequestsSame
<1>4. RegistererRight(k)'
  BY <1>1, <1>2 DEF RegistererRight, Role
<1>5. CASE /\ Carried(r, FALSE)
           /\ call' = [call EXCEPT ![k] = [at |-> "answered", op |-> c.op, code |-> r.code, location |-> r.location]]
  <2>1. /\ DOMAIN call' = Keys /\ \A j \in Keys \ {k} : call'[j] = call[j]
        /\ call'[k].at = "answered" /\ call'[k].op = c.op /\ call'[k].code = r.code
        /\ call'[k].location = r.location
    <3> HIDE DEF r
    <3> QED BY <1>1, <1>5
  <2>2. HandlingRight(dir, c, r)
    BY <1>2, HandledRight DEF RdInvariant, Proper
  <2> HIDE DEF r
  <2>3. /\ DirectoryRight(dir') /\ told' \in BOOLEAN /\ quiet' \in BOOLEAN /\ Observed'
        /\ (c.op = "delete" => Kept({dir.by_path[c.path].key})) /\ (c.op # "delete" => Kept({}))
    <3>1. CASE c.op = "delete"
      <4>1. Result(dir, r, {dir.by_path[c.path].key}, FALSE)
        BY <2>2, <3>1 DEF HandlingRight
      <4> QED BY <1>2, <1>5, <3>1, <4>1, CarriedRight
    <3>2. CASE c.op \in {"register", "post"}
      <4>1. Result(dir, r, {}, FALSE)
        BY <1>2, <2>2, <3>2 DEF HandlingRight, Registering, Proper
      <4> QED BY <1>2, <1>5, <3>2, <4>1, CarriedRight
    <3> QED BY <1>2, <3>1, <3>2 DEF Proper
  <2>4. ~ forgotten => \A j \in DOMAIN dir.by_key : j # k \/ c.op # "delete" =>
          j \in DOMAIN dir'.by_key /\ dir'.by_key[j] = dir.by_key[j]
    <3>1. ~ forgotten /\ c.op = "delete" => dir.by_path[c.path].key = k
      <4>1. ~ forgotten /\ c.op = "delete" => k \in DOMAIN dir.by_key /\ dir.by_key[k] = c.path
        BY <1>1, <1>2 DEF Held, CallRight
      <4> QED BY <4>1 DEF RdInvariant, DirectoryRight
    <3> QED BY <2>3, <3>1 DEF Kept
  <2>5. CallRight(k)'
    <3>1. c.op = "register" => r.code = "2.01" /\ k \in DOMAIN dir'.by_key /\ dir'.by_key[k] = r.location
      BY <1>2, <1>5, <2>2 DEF HandlingRight, Registering, Proper, Carried
    <3> QED BY <1>1, <1>2, <2>1, <3>1 DEF CallRight
  <2>6. Held(k)'
    <3>1. c.op = "delete" => g.state = "cancelled"
      BY <1>1, <1>2 DEF CallRight
    <3> QED BY <1>1, <1>2, <2>1, <2>4, <3>1 DEF Held
  <2>7. ASSUME NEW j \in Keys \ {k} PROVE RegistererRight(j)' /\ CallRight(j)' /\ Held(j)'
    <3>1. RegistererRight(j) /\ CallRight(j) /\ Held(j)
      BY DEF RdInvariant, RegisterersRight
    <3>2. RegistererRight(j)'
      BY <1>2, <3>1 DEF RegistererRight, Role
    <3>3. CallRight(j)'
      BY <1>2, <2>1, <2>4, <3>1 DEF CallRight
    <3>4. Held(j)'
      BY <1>2, <2>1, <2>4, <3>1 DEF Held
    <3> QED BY <3>2, <3>3, <3>4
  <2>8. RegisterersRight'
    BY <1>1, <1>2, <1>4, <2>1, <2>5, <2>6, <2>7 DEF RegisterersRight
  <2> QED BY <1>2, <1>3, <2>3, <2>8 DEF RdInvariant
<1>6. CASE /\ UNCHANGED <<dir, told, quiet>>
           /\ \E code \in {"later", "5.03"} :
                call' = [call EXCEPT ![k] = [at |-> "answered", op |-> c.op, code |-> code, location |-> 0]]
  <2>1. /\ DOMAIN call' = Keys /\ \A j \in Keys \ {k} : call'[j] = call[j]
        /\ call'[k].at = "answered" /\ call'[k].op = c.op /\ call'[k].code \in {"later", "5.03"}
    BY <1>1, <1>6
  <2>2. CallRight(k)'
    BY <1>1, <1>2, <1>6, <2>1 DEF CallRight
  <2>3. Held(k)'
    BY <1>1, <1>2, <1>6, <2>1 DEF Held, CallRight
  <2> QED BY <1>1, <1>2, <1>3, <1>4, <1>6, <2>1, <2>2, <2>3, OwnStep
<1> QED BY <1>5, <1>6 DEF Serve

LEMMA ServeLateRight == RdInvariant /\ ServeLate => RdInvariant'
<1> SUFFICES ASSUME RdInvariant, ServeLate PROVE RdInvariant'
  OBVIOUS
<1>1. PICK q \in late : Carried(Handle(q), FALSE) /\ late' = late \ {q}
  BY DEF ServeLate
<1>2. UNCHANGED <<plan, registerer, call, fetches, seen, forgotten, remote>>
  BY DEF ServeLate, outside
<1>3. Proper(q) /\ q.op # "delete"
  BY DEF RdInvariant, RequestsRight
<1>4. HandlingRight(dir, q, Handle(q))
  BY <1>3, HandledRight DEF RdInvariant, Proper
<1>5. Result(dir, Handle(q), {}, FALSE)
  BY <1>3, <1>4 DEF HandlingRight, Registering, Proper
<1>6. DirectoryRight(dir') /\ told' \in BOOLEAN /\ quiet' \in BOOLEAN /\ Observed' /\ Kept({})
  BY <1>1, <1>2, <1>5, CarriedRight
<1>7. RegisterersRight'
  BY <1>2, <1>6, OthersRight DEF RdInvariant
<1>8. RequestsRight'
  BY <1>1, <1>2 DEF RdInvariant, RequestsRight, Proper
<1> QED BY <1>2, <1>6, <1>7, <1>8 DEF RdInvariant

LEMMA ServeDeviceRight == RdInvariant /\ ServeDevice => RdInvariant'
<1> SUFFICES ASSUME RdInvariant, ServeDevice PROVE RdInvariant'
  OBVIOUS
<1>1. PICK q \in Devices :
        /\ Role(q.key) = "device" /\ (q.path \in DOMAIN dir.by_path => dir.by_path[q.path].key = q.key)
        /\ dir' = Handle(q).dir /\ told' = (told \/ Handle(q).told)
        /\ quiet' = (quiet \/ (q.op = "put" /\ Handle(q).code = "2.04" /\ ~ Handle(q).told))
  BY DEF ServeDevice, Carried
<1>2. UNCHANGED <<plan, registerer, call, late, fetches, seen, forgotten, remote>>
  BY DEF ServeDevice, outside
<1>3. q.key \in Keys /\ q.op \in {"register", "post", "put", "delete"}
  BY RdAssumption
<1>4. HandlingRight(dir, q, Handle(q))
  BY <1>3, HandledRight DEF RdInvariant
<1>5. DirectoryRight(dir') /\ told' \in BOOLEAN /\ quiet' \in BOOLEAN /\ Observed' /\ Kept({q.key})
  <2>1. CASE q.op = "put"
    <3>1. Carried(Handle(q), TRUE)
      BY <1>1, <2>1 DEF Carried
    <3>2. Result(dir, Handle(q), {q.key}, TRUE)
      BY <1>4, <2>1 DEF HandlingRight, Result
    <3> QED BY <1>2, <3>1, <3>2, CarriedRight
  <2>2. CASE q.op # "put"
    <3>1. Carried(Handle(q), FALSE)
      BY <1>1, <2>2 DEF Carried
    <3>2. CASE q.op = "delete" /\ q.path \notin DOMAIN dir.by_path
      <4>1. Handle(q) = Done(dir, "4.04", FALSE)
        BY <3>2 DEF Handle, Dispatch
      <4>2. Result(dir, Handle(q), {q.key}, FALSE)
        BY <4>1, NothingDone DEF RdInvariant
      <4> QED BY <1>2, <3>1, <4>2, CarriedRight
    <3>3. CASE ~ (q.op = "delete" /\ q.path \notin DOMAIN dir.by_path)
      <4>1. Result(dir, Handle(q), {q.key}, FALSE)
        <5>1. CASE q.op = "register"
          BY <1>4, <5>1 DEF HandlingRight, Registering
        <5>2. CASE q.op = "post"
          BY <1>4, <5>2 DEF HandlingRight, Result
        <5>3. CASE q.op = "delete"
          BY <1>1, <1>4, <3>3, <5>3 DEF HandlingRight
        <5> QED BY <1>3, <2>2, <5>1, <5>2, <5>3
      <4> QED BY <1>2, <3>1, <4>1, CarriedRight
    <3> QED BY <3>2, <3>3
  <2> QED BY <2>1, <2>2
<1>6. RegisterersRight'
  <2>1. \A k \in {q.key} \cap Keys : Role(k) # "registerer"
    BY <1>1
  <2> QED BY <1>2, <1>5, <2>1, OthersRight DEF RdInvariant
<1>7. RequestsRight'
  BY <1>2, RequestsSame
<1> QED BY <1>2, <1>5, <1>6, <1>7 DEF RdInvariant

LEMMA ProcessFetchedRight == RdInvariant /\ ProcessFetched => RdInvariant'
<1> SUFFICES ASSUME RdInvariant, ProcessFetched PROVE RdInvariant'
  OBVIOUS
<1>1. PICK f \in fetches : /\ fetches' = fetches \ {f}
                           /\ Carried(InitializeEndpoint(dir, f.key, f.remote, NoParams, f.links), FALSE)
  BY DEF ProcessFetched
<1>2. UNCHANGED <<plan, registerer, call, late, seen, forgotten, remote>>
  BY DEF ProcessFetched, outside
<1>3. f.key \in Keys /\ f.remote # Anonymous
  BY DEF RdInvariant, RequestsRight
<1> DEFINE r == InitializeEndpoint(dir, f.key, f.remote, NoParams, f.links)
<1>4. Result(dir, r, {}, FALSE)
  BY <1>3, RegisteringRight DEF RdInvariant, Registering
<1> HIDE DEF r
<1>5. DirectoryRight(dir') /\ told' \in BOOLEAN /\ quiet' \in BOOLEAN /\ Observed' /\ Kept({})
  BY <1>1, <1>2, <1>4, CarriedRight DEF r
<1>6. RegisterersRight'
  BY <1>2, <1>5, OthersRight DEF RdInvariant
<1>7. RequestsRight'
  BY <1>1, <1>2 DEF RdInvariant, RequestsRight, Proper
<1> QED BY <1>2, <1>5, <1>6, <1>7 DEF RdInvariant

LEMMA RunOutRight ==
  ASSUME RdInvariant, NEW path, RunOut(path)
  PROVE  RdInvariant'
<1> DEFINE key == dir.by_path[path].key
<1>1. /\ path \in DOMAIN dir.by_path /\ forgotten' = TRUE /\ Carried(RenderDelete(dir, path), FALSE)
      /\ UNCHANGED <<plan, registerer, call, late, fetches, seen, remote>>
  BY DEF RunOut, outside
<1>2. Result(dir, RenderDelete(dir, path), {key}, FALSE)
  BY <1>1, DeleteRight DEF RdInvariant
<1>3. DirectoryRight(dir') /\ told' \in BOOLEAN /\ quiet' \in BOOLEAN /\ Observed'
  BY <1>1, <1>2, CarriedRight
<1>4. RegisterersRight'
  BY <1>1, OthersRight
<1>5. RequestsRight'
  BY <1>1, RequestsSame
<1> QED BY <1>1, <1>3, <1>4, <1>5 DEF RdInvariant

LEMMA RestartRight == RdInvariant /\ RestartDirectory => RdInvariant'
<1> SUFFICES ASSUME RdInvariant, RestartDirectory PROVE RdInvariant'
  OBVIOUS
<1>1. /\ dir' = EmptyDirectory /\ seen' = Views(EmptyDirectory) /\ forgotten' = TRUE /\ fetches' = {}
      /\ told' = FALSE /\ quiet' = FALSE /\ UNCHANGED <<plan, registerer, call, late, remote>>
  BY DEF RestartDirectory, outside
<1>2. DirectoryRight(dir')
  <2>1. /\ dir'.by_key = <<>> /\ dir'.by_path = <<>> /\ dir'.proxy_active = <<>>
        /\ dir' = [by_key |-> dir'.by_key, by_path |-> dir'.by_path, proxy_active |-> dir'.proxy_active]
    BY <1>1 DEF EmptyDirectory
  <2> QED BY <2>1 DEF DirectoryRight
<1>3. Observed'
  BY <1>1 DEF Observed, Views, EndpointLookup, ResourceLookup
<1>4. RegisterersRight'
  BY <1>1, OthersRight
<1>5. RequestsRight'
  BY <1>1 DEF RdInvariant, RequestsRight, Proper
<1> QED BY <1>1, <1>2, <1>3, <1>4, <1>5 DEF RdInvariant

LEMMA NotifyRight == RdInvariant /\ Notify => RdInvariant'
<1> SUFFICES ASSUME RdInvariant, Notify PROVE RdInvariant'
  OBVIOUS
<1>1. /\ told' = FALSE /\ quiet' = FALSE /\ seen' = Views(dir)
      /\ UNCHANGED <<plan, dir, registerer, call, late, fetches, forgotten, remote>>
  BY DEF Notify, outside
<1>2. Observed'
  BY <1>1 DEF Observed, Views, EndpointLookup, ResourceLookup
<1>3. RegisterersRight'
  <2>1. forgotten' \in BOOLEAN /\ (forgotten' \/ (~ forgotten /\ Kept({})))
    BY <1>1 DEF RdInvariant, Kept
  <2> QED BY <1>1, <2>1, OthersRight
<1>4. RequestsRight'
  BY <1>1, RequestsSame
<1> QED BY <1>1, <1>2, <1>3, <1>4 DEF RdInvariant

\* Requests for links and what is outside of the directory and its registerers.
LEMMA OutsideRight ==
  ASSUME RdInvariant, UNCHANGED <<plan, dir, registerer, call, late, told, quiet, seen, forgotten>>, RequestsRight'
  PROVE  RdInvariant'
<1>1. Observed'
  BY DEF RdInvariant, Observed, EndpointLookup, ResourceLookup
<1>2. RegisterersRight'
  <2>1. forgotten' \in BOOLEAN /\ (forgotten' \/ (~ forgotten /\ Kept({})))
    BY DEF RdInvariant, Kept
  <2> QED BY <2>1, OthersRight
<1> QED BY <1>1, <1>2 DEF RdInvariant

LEMMA AskSimpleRight ==
  ASSUME RdInvariant, NEW k \in Keys, AskSimple(k)
  PROVE  RdInvariant'
<1> DEFINE f == [key |-> k, remote |-> remote[k], links |-> "none", n |-> spent.devices]
<1>1. /\ fetches' = fetches \cup {f}
      /\ UNCHANGED <<plan, dir, registerer, call, late, told, quiet, seen, forgotten, remote>>
  BY DEF AskSimple, outside
<1>2. /\ f = [key |-> f.key, remote |-> f.remote, links |-> f.links, n |-> f.n]
      /\ f.key \in Keys /\ f.remote # Anonymous
  BY DEF RdInvariant, RequestsRight, Anonymous
<1> HIDE DEF f
<1>3. RequestsRight'
  BY <1>1, <1>2 DEF RdInvariant, RequestsRight, Proper
<1> QED BY <1>1, <1>3, OutsideRight

LEMMA FetchRight == RdInvariant /\ Fetch => RdInvariant'
<1> SUFFICES ASSUME RdInvariant, Fetch PROVE RdInvariant'
  OBVIOUS
<1>1. PICK f \in fetches : fetches' = (fetches \ {f}) \cup {[f EXCEPT !.links = ToString(links[f.key])]}
  BY DEF Fetch
<1>2. UNCHANGED <<plan, dir, registerer, call, late, told, quiet, seen, forgotten, remote>>
  BY DEF Fetch, outside
<1> DEFINE list == ToString(links[f.key])
           new == [f EXCEPT !.links = list]
<1>3. fetches' = (fetches \ {f}) \cup {new}
  BY <1>1
<1> HIDE DEF list
<1>4. /\ f = [key |-> f.key, remote |-> f.remote, links |-> f.links, n |-> f.n]
      /\ f.key \in Keys /\ f.remote # Anonymous
  BY DEF RdInvariant, RequestsRight
<1>5. new = [key |-> f.key, remote |-> f.remote, links |-> list, n |-> f.n]
  BY <1>4
<1> HIDE DEF new
<1>6. /\ new = [key |-> new.key, remote |-> new.remote, links |-> new.links, n |-> new.n]
      /\ new.key \in Keys /\ new.remote # Anonymous
  BY <1>4, <1>5
<1>7. RequestsRight'
  BY <1>2, <1>3, <1>6 DEF RdInvariant, RequestsRight, Proper
<1> QED BY <1>2, <1>7, OutsideRight

LEMMA ChangeRight ==
  ASSUME RdInvariant, NEW k \in Keys, Change(k)
  PROVE  RdInvariant'
<1>1. UNCHANGED <<plan, dir, registerer, call, late, fetches, told, quiet, seen, forgotten>>
  BY DEF Change
<1>2. remote' \in [Keys -> {"a1", "a2"}]
  BY DEF Change, RdInvariant, RequestsRight
<1>3. RequestsRight'
  BY <1>1, <1>2 DEF RdInvariant, RequestsRight, Proper
<1> QED BY <1>1, <1>3, OutsideRight

\* Every step keeps the invariant.
LEMMA RdInvariantKept == RdInvariant /\ [NextRd]_rdVars => RdInvariant'
<1> SUFFICES ASSUME RdInvariant, [NextRd]_rdVars PROVE RdInvariant'
  OBVIOUS
<1>1. ASSUME NEW k \in Keys,
             \/ Discover(k) \/ Register(k) \/ Renew(k) \/ Take(k) \/ Shutdown(k)
             \/ Serve(k) \/ Lose(k) \/ AskSimple(k) \/ Change(k)
      PROVE  RdInvariant'
  BY <1>1, DiscoverRight, RegisterRight, RenewRight, TakeRight, ShutdownRight, ServeRight, LoseRight,
     AskSimpleRight, ChangeRight
<1>2. ASSUME NEW p \in 1 .. Cardinality(Keys), RunOut(p) PROVE RdInvariant'
  BY <1>2, RunOutRight
<1>3. CASE ServeLate \/ ServeDevice \/ Fetch \/ ProcessFetched \/ RestartDirectory \/ Notify
  BY <1>3, ServeLateRight, ServeDeviceRight, FetchRight, ProcessFetchedRight, RestartRight, NotifyRight
<1>4. CASE UNCHANGED rdVars
  <2>1. UNCHANGED <<plan, dir, registerer, call, late, fetches, told, quiet, seen, forgotten, remote>>
    BY <1>4 DEF rdVars
  <2> QED BY <2>1, RequestsSame, OutsideRight
<1> QED BY <1>1, <1>2, <1>3, <1>4 DEF NextRd

\* What the run checks follows.
LEMMA RdInvariantImplies == RdInvariant => DirectoryInv
<1> SUFFICES ASSUME RdInvariant PROVE DirectoryInv
  OBVIOUS
<1>1. RdTypeOK
  <2>1. \A k \in Keys : registerer[k].errors \in 0 .. ErrorsMax
    BY DEF RdInvariant, RegisterersRight, RegistererRight
  <2> QED BY <2>1 DEF RdInvariant, DirectoryRight, RdTypeOK
<1>2. OwnLocation
  <2> SUFFICES ASSUME NEW k \in Keys, NEW l \in Locations(k), l \in DOMAIN dir.by_path, ~ forgotten
               PROVE  dir.by_path[l].key = k
    BY DEF OwnLocation
  <2>1. RegistererRight(k) /\ CallRight(k) /\ Held(k) /\ DirectoryRight(dir)
    BY DEF RdInvariant, RegisterersRight
  <2>2. l # NoLocation
    <3>1. Cardinality(Keys) \in Nat
      BY RdAssumption, FS_CardinalityType
    <3>2. l \in 1 .. Cardinality(Keys)
      BY <2>1 DEF DirectoryRight
    <3> QED BY <3>1, <3>2 DEF NoLocation
  <2>3. /\ l = registerer[k].location
        /\ registerer[k].state # "cancelled" \/ (call[k].at = "asked" /\ call[k].op = "delete")
    <3>1. CASE l = registerer[k].location /\ registerer[k].state \in {"registered", "renewing"}
      BY <3>1
    <3>2. CASE call[k].at = "asked" /\ call[k].op = "delete" /\ l = call[k].path
      BY <2>1, <3>2 DEF CallRight, NoCall
    <3> QED BY <3>1, <3>2 DEF Locations
  <2>4. k \in DOMAIN dir.by_key /\ dir.by_key[k] = l
    BY <2>1, <2>2, <2>3 DEF Held
  <2> QED BY <2>1, <2>4 DEF DirectoryRight
<1> QED BY <1>1, <1>2 DEF RdInvariant, DirectoryInv

\* The inductive invariant of the directory and its registerers holds throughout.
THEOREM RdInvariantHolds == SpecRd => []RdInvariant
BY RdInvariantStarts, RdInvariantKept, PTL DEF SpecRd

\* Whatever registers, renews, is lost, arrives late or runs out: by_key and by_path list the
\* same registrations, the observers of the lookups see them or are about to be told, and a
\* registerer's location is its own until the directory forgets a registration.
THEOREM DirectoryAlwaysRight == SpecRd => []DirectoryInv
BY RdInvariantHolds, RdInvariantImplies, PTL

-----------------------------------------------------------------------------
(* The CoAP-CoAP proxy of aiocoap: the observations it pools. *)

Phases == {"new", "asked", "live", "over", "failed"}
Pooled == [phase : Phases, latest : Int, users : SUBSET Clients, cancelled : BOOLEAN]
Observers == [phase : {"away", "rendering", "observing"}, obs : Observations \cup {NoObs},
              got : Int, trigger : Int]
PoolTypes ==
  /\ resource \in Nat /\ resource <= MaxState
  /\ pool \in Observations \cup {NoObs}
  /\ obs \in [Observations -> Pooled]
  /\ client \in [Clients -> Observers]
  /\ dropping \in Seq(Observations)

\* A client and what it observes: it is among the users of that, and it is triggered with an
\* error, or with what that got last.
ClientRight(c) ==
  /\ client[c].phase = "away" <=> client[c].obs = NoObs
  /\ client[c].obs # NoObs => obs[client[c].obs].phase # "new"
  /\ client[c].trigger \notin {Nothing, Error} =>
       /\ client[c].obs # NoObs /\ obs[client[c].obs].phase \in {"live", "over"}
       /\ client[c].trigger = obs[client[c].obs].latest

\* While no callback has crossed, clients observe only what is in the pool, what was started and
\* is not cancelled is there, and where nobody uses it, a callback is due.
PoolAlone ==
  /\ \A c \in Clients : client[c].obs \in {NoObs, pool}
  /\ \A c \in Clients : client[c].phase = "observing" =>
       /\ obs[pool].phase \in {"live", "over"}
       /\ client[c].got = obs[pool].latest \/ client[c].trigger # Nothing
  /\ \A o \in Observations : obs[o].phase # "new" /\ ~ obs[o].cancelled =>
       /\ o = pool
       /\ obs[o].users = {} => \E i \in DOMAIN dropping : dropping[i] = o

\* The inductive invariant of the pool.
PoolRight ==
  /\ PoolTypes
  /\ \A o \in Observations : obs[o].users = {c \in Clients : client[c].obs = o}
  /\ \A c \in Clients : ClientRight(c)
  /\ pool # NoObs => obs[pool].phase # "new"
  /\ ~ crossed => PoolAlone

LEMMA Triggers ==
  /\ Nothing \in Int /\ Error \in Int /\ Nothing # Error
  /\ \A n \in Nat : n \notin {Nothing, Error}
BY DEF Nothing, Error

LEMMA Newcomers ==
  /\ Away \in Observers /\ Unstarted \in Pooled
  /\ \A o \in Observations : Asking(o) \in Observers
BY Triggers DEF Away, Unstarted, Asking, Observers, Pooled, Phases

LEMMA PoolStarts == InitPool => PoolRight
<1> SUFFICES ASSUME InitPool PROVE PoolRight
  OBVIOUS
<1> USE DEF InitPool
<1>1. PoolTypes
  <2>1. resource \in Nat /\ resource <= MaxState /\ pool = NoObs
    BY PoolAssumption
  <2>3. obs \in [Observations -> Pooled]
    BY Newcomers
  <2>4. client \in [Clients -> Observers]
    BY Newcomers
  <2>2. dropping \in Seq(Observations)
    OBVIOUS
  <2> QED BY <2>1, <2>2, <2>3, <2>4 DEF PoolTypes
<1>2. \A o \in Observations : obs[o].users = {c \in Clients : client[c].obs = o}
  BY PoolAssumption DEF Unstarted, Away
<1>3. \A c \in Clients : ClientRight(c)
  BY DEF ClientRight, Away
<1>4. PoolAlone
  BY DEF PoolAlone, Away, Unstarted
<1> QED BY <1>1, <1>2, <1>3, <1>4 DEF PoolRight

LEMMA ObserveRight ==
  ASSUME PoolRight, NEW c \in Clients, Observe(c)
  PROVE  PoolRight'
<1>0. PoolTypes /\ (\A o \in Observations : obs[o].users = {d \in Clients : client[d].obs = o})
  BY DEF PoolRight
<1>1. PICK o \in Observations :
        /\ pool' = o /\ (pool = o \/ (pool = NoObs /\ obs[o].phase = "new"))
        /\ obs' = Joined(o, c, IF pool = NoObs THEN "asked" ELSE obs[o].phase)
        /\ client' = [client EXCEPT ![c] = Asking(o)]
  BY <1>0, PoolAssumption, Newcomers DEF Observe, PoolTypes
<1>2. client[c].phase = "away" /\ UNCHANGED <<resource, dropping, crossed>>
  BY DEF Observe
<1>3. PoolTypes'
  <2>1. obs' \in [Observations -> Pooled]
    <3>1. obs[o] \in Pooled
      BY <1>0 DEF PoolTypes
    <3>2. [obs[o] EXCEPT !.phase = IF pool = NoObs THEN "asked" ELSE obs[o].phase, !.users = @ \cup {c}] \in Pooled
      BY <3>1 DEF Pooled, Phases
    <3> QED BY <3>2, <1>0, <1>1 DEF PoolTypes, Joined
  <2>2. client' \in [Clients -> Observers]
    BY <1>0, <1>1, Newcomers DEF PoolTypes
  <2> QED BY <2>1, <2>2, <1>0, <1>1, <1>2 DEF PoolTypes
<1>4. client'[c] = Asking(o) /\ \A d \in Clients \ {c} : client'[d] = client[d]
  BY <1>0, <1>1 DEF PoolTypes
<1>5. /\ obs'[o].users = obs[o].users \cup {c} /\ obs'[o].latest = obs[o].latest
      /\ obs'[o].cancelled = obs[o].cancelled
      /\ obs'[o].phase = IF pool = NoObs THEN "asked" ELSE obs[o].phase
      /\ \A x \in Observations \ {o} : obs'[x] = obs[x]
  BY <1>0, <1>1 DEF PoolTypes, Pooled, Joined
<1>6. \A x \in Observations : obs'[x].users = {d \in Clients : client'[d].obs = x}
  <2> TAKE x \in Observations
  <2>1. client[c].obs # x
    BY <1>2, PoolAssumption DEF PoolRight, ClientRight
  <2> QED BY <2>1, <1>0, <1>4, <1>5 DEF Asking
<1>7. obs'[o].phase # "new" /\ o # NoObs
  BY <1>1, <1>5, PoolAssumption DEF PoolRight
<1>8. \A d \in Clients : ClientRight(d)'
  <2> TAKE d \in Clients
  <2>1. CASE d = c
    BY <2>1, <1>7, <1>4 DEF ClientRight, Asking
  <2>2. CASE d # c
    <3>1. client'[d] = client[d] /\ ClientRight(d) /\ client[d].obs \in Observations \cup {NoObs}
      BY <1>0, <1>4, <2>2 DEF PoolTypes, Observers, PoolRight
    <3> QED BY <3>1, <1>1, <1>5 DEF ClientRight
  <2> QED BY <2>1, <2>2
<1>9. ASSUME ~ crossed PROVE PoolAlone'
  <2>1. PoolAlone
    BY <1>9 DEF PoolRight
  <2>2. \A d \in Clients : client'[d].obs \in {NoObs, o}
    BY <2>1, <1>1, <1>4 DEF PoolAlone, Asking
  <2>3. \A d \in Clients : client'[d].phase = "observing" =>
          /\ obs'[o].phase \in {"live", "over"}
          /\ client'[d].got = obs'[o].latest \/ client'[d].trigger # Nothing
    <3> SUFFICES ASSUME NEW d \in Clients, client'[d].phase = "observing"
                 PROVE  /\ obs'[o].phase \in {"live", "over"}
                        /\ client'[d].got = obs'[o].latest \/ client'[d].trigger # Nothing
      OBVIOUS
    <3>1. d # c /\ client'[d] = client[d] /\ ClientRight(d)
      BY <1>4 DEF Asking, PoolRight
    <3>2. client[d].obs = pool /\ pool # NoObs
      BY <3>1, <2>1 DEF PoolAlone, ClientRight
    <3> QED BY <3>1, <3>2, <2>1, <1>1, <1>5 DEF PoolAlone
  <2>4. ASSUME NEW x \in Observations, obs'[x].phase # "new", ~ obs'[x].cancelled
        PROVE  x = o /\ obs'[x].users # {}
    BY <2>1, <2>4, <1>1, <1>5, PoolAssumption DEF PoolAlone
  <2> QED BY <1>1, <2>2, <2>3, <2>4 DEF PoolAlone
<1> QED BY <1>1, <1>2, <1>3, <1>6, <1>7, <1>8, <1>9 DEF PoolRight

\* A response changes what is observed, and triggers those who use it, or was the first.
LEMMA ResponseRight ==
  ASSUME PoolRight, NEW o \in Observations,
         obs' \in [Observations -> Pooled], client' \in [Clients -> Observers],
         UNCHANGED <<resource, pool, dropping, crossed>>,
         obs[o].phase \in {"asked", "live"}, obs'[o].phase \in {"live", "over", "failed"},
         obs'[o].users = obs[o].users, obs[o].cancelled => obs'[o].cancelled,
         obs[o].phase = "live" => obs'[o].phase \in {"live", "over"},
         \A x \in Observations \ {o} : obs'[x] = obs[x],
         \A d \in Clients : client[d].obs # o => client'[d] = client[d],
         \A d \in Clients : client[d].obs = o =>
           /\ client'[d].phase = client[d].phase
           /\ client'[d].obs = o
           /\ client'[d].got = client[d].got
           /\ \/ client'[d].trigger = Error
              \/ client'[d].trigger = obs'[o].latest /\ client'[d].trigger \in Nat /\ obs'[o].phase = "live"
              \/ client'[d].trigger = client[d].trigger /\ obs[o].phase = "asked"
  PROVE  PoolRight'
<1>1. PoolTypes' /\ o # NoObs
  BY PoolAssumption DEF PoolRight, PoolTypes
<1>2. \A x \in Observations : obs'[x].users = {d \in Clients : client'[d].obs = x}
  <2>1. \A d \in Clients : client'[d].obs = client[d].obs
    OBVIOUS
  <2>2. \A x \in Observations : obs'[x].users = obs[x].users
    OBVIOUS
  <2>3. \A x \in Observations : obs[x].users = {d \in Clients : client[d].obs = x}
    BY DEF PoolRight
  <2> QED BY <2>1, <2>2, <2>3
<1>3. ASSUME NEW d \in Clients PROVE ClientRight(d)'
  <2>1. ClientRight(d) /\ client[d].obs \in Observations \cup {NoObs}
    BY DEF PoolRight, PoolTypes, Observers
  <2>2. CASE client[d].obs = o
    BY <2>1, <2>2, <1>1 DEF ClientRight
  <2>3. CASE client[d].obs # o
    BY <2>1, <2>3 DEF ClientRight
  <2> QED BY <2>2, <2>3
<1>4. pool # NoObs => obs'[pool].phase # "new"
  BY DEF PoolRight, PoolTypes
<1>5. ASSUME ~ crossed PROVE PoolAlone'
  <2>1. PoolAlone
    BY <1>5 DEF PoolRight
  <2>2. \A d \in Clients : client'[d].obs \in {NoObs, pool}
    BY <2>1 DEF PoolAlone
  <2>3. ASSUME NEW d \in Clients, client'[d].phase = "observing"
        PROVE  /\ obs'[pool].phase \in {"live", "over"}
               /\ client'[d].got = obs'[pool].latest \/ client'[d].trigger # Nothing
    <3>1. client[d].phase = "observing"
      BY <2>3
    <3>2. /\ client[d].obs = pool /\ pool \in Observations
          /\ obs[pool].phase \in {"live", "over"}
          /\ client[d].got = obs[pool].latest \/ client[d].trigger # Nothing
      BY <2>1, <3>1 DEF PoolAlone, PoolRight, ClientRight, PoolTypes
    <3>3. CASE o = pool
      BY <3>2, <3>3, Triggers
    <3>4. CASE o # pool
      BY <3>2, <3>4
    <3> QED BY <3>3, <3>4
  <2>4. ASSUME NEW x \in Observations, obs'[x].phase # "new", ~ obs'[x].cancelled
        PROVE  x = pool /\ (obs'[x].users = {} => \E i \in DOMAIN dropping : dropping[i] = x)
    <3>1. obs[x].phase # "new" /\ ~ obs[x].cancelled /\ obs'[x].users = obs[x].users
      BY <2>4
    <3> QED BY <3>1, <2>1 DEF PoolAlone
  <2> QED BY <2>2, <2>3, <2>4 DEF PoolAlone
<1> QED BY <1>1, <1>2, <1>3, <1>4, <1>5 DEF PoolRight

\* Where a trigger goes.
LEMMA TriggeredRight ==
  ASSUME PoolRight, NEW o \in Observations, NEW v \in Int, client' = Triggered(o, v)
  PROVE  /\ client' \in [Clients -> Observers]
         /\ \A d \in Clients : client[d].obs # o => client'[d] = client[d]
         /\ \A d \in Clients : client[d].obs = o =>
              /\ client'[d].phase = client[d].phase
              /\ client'[d].obs = o
              /\ client'[d].got = client[d].got
              /\ client'[d].trigger = v
<1>1. /\ client \in [Clients -> Observers]
      /\ \A d \in Clients : d \in obs[o].users <=> client[d].obs = o
  BY DEF PoolRight, PoolTypes
<1>2. \A d \in Clients : client'[d] = IF client[d].obs = o THEN [client[d] EXCEPT !.trigger = v] ELSE client[d]
  BY <1>1 DEF Triggered
<1>3. \A d \in Clients : client[d] \in Observers /\ [client[d] EXCEPT !.trigger = v] \in Observers
  BY <1>1 DEF Observers
<1>4. client' \in [Clients -> Observers]
  BY <1>1, <1>3 DEF Triggered
<1>5. ASSUME NEW d \in Clients, client[d].obs = o
      PROVE  /\ client'[d].phase = client[d].phase
             /\ client'[d].obs = o
             /\ client'[d].got = client[d].got
             /\ client'[d].trigger = v
  BY <1>2, <1>3, <1>5 DEF Observers
<1> QED BY <1>2, <1>4, <1>5

LEMMA StartRight ==
  ASSUME PoolRight, NEW o \in Observations, Start(o)
  PROVE  PoolRight'
<1>1. obs \in [Observations -> Pooled] /\ client \in [Clients -> Observers] /\ resource \in Int
  BY DEF PoolRight, PoolTypes
<1>2. obs[o].phase = "asked" /\ UNCHANGED <<resource, pool, dropping, crossed>>
  BY DEF Start
<1>3. CASE obs' = [obs EXCEPT ![o].phase = "live", ![o].latest = resource] /\ UNCHANGED client
  <2>1. obs' \in [Observations -> Pooled]
    BY <1>1, <1>3 DEF Pooled, Phases
  <2>2. /\ obs'[o].phase = "live" /\ obs'[o].users = obs[o].users /\ obs'[o].cancelled = obs[o].cancelled
        /\ \A x \in Observations \ {o} : obs'[x] = obs[x]
    BY <1>1, <1>3 DEF Pooled
  <2> QED BY <2>1, <2>2, <1>1, <1>2, <1>3, ResponseRight
<1>4. ASSUME \/ obs' = [obs EXCEPT ![o].phase = "over", ![o].latest = resource, ![o].cancelled = TRUE]
             \/ obs' = [obs EXCEPT ![o].phase = "failed", ![o].cancelled = TRUE],
             client' = Triggered(o, Error)
      PROVE  PoolRight'
  <2>1. obs' \in [Observations -> Pooled]
    BY <1>1, <1>4 DEF Pooled, Phases
  <2>2. /\ obs'[o].phase \in {"over", "failed"} /\ obs'[o].users = obs[o].users /\ obs'[o].cancelled
        /\ \A x \in Observations \ {o} : obs'[x] = obs[x]
    BY <1>1, <1>4 DEF Pooled
  <2> QED BY <2>1, <2>2, <1>2, <1>4, Triggers, TriggeredRight, ResponseRight
<1> QED BY <1>3, <1>4 DEF Start

LEMMA RenotifyRight ==
  ASSUME PoolRight, NEW o \in Observations, Renotify(o)
  PROVE  PoolRight'
<1>1. obs \in [Observations -> Pooled] /\ resource \in Nat
  BY DEF PoolRight, PoolTypes
<1>2. /\ obs[o].phase = "live" /\ UNCHANGED <<resource, pool, dropping, crossed>>
      /\ obs' = [obs EXCEPT ![o].latest = resource] /\ client' = Triggered(o, resource)
  BY DEF Renotify, Live, Relayed
<1>3. obs' \in [Observations -> Pooled]
  BY <1>1, <1>2 DEF Pooled
<1>4. /\ obs'[o].phase = "live" /\ obs'[o].users = obs[o].users /\ obs'[o].cancelled = obs[o].cancelled
      /\ obs'[o].latest = resource
      /\ \A x \in Observations \ {o} : obs'[x] = obs[x]
  BY <1>1, <1>2 DEF Pooled
<1> QED BY <1>1, <1>2, <1>3, <1>4, TriggeredRight, ResponseRight

LEMMA EndRight ==
  ASSUME PoolRight, NEW o \in Observations, End(o)
  PROVE  PoolRight'
<1>1. obs \in [Observations -> Pooled]
  BY DEF PoolRight, PoolTypes
<1>2. /\ obs[o].phase = "live" /\ UNCHANGED <<resource, pool, dropping, crossed>>
      /\ obs' = [obs EXCEPT ![o].phase = "over", ![o].cancelled = TRUE] /\ client' = Triggered(o, Error)
  BY DEF End, Live
<1>3. obs' \in [Observations -> Pooled]
  BY <1>1, <1>2 DEF Pooled, Phases
<1>4. /\ obs'[o].phase = "over" /\ obs'[o].users = obs[o].users /\ obs'[o].cancelled
      /\ \A x \in Observations \ {o} : obs'[x] = obs[x]
  BY <1>1, <1>2 DEF Pooled
<1> QED BY <1>2, <1>3, <1>4, Triggers, TriggeredRight, ResponseRight

\* Who goes leaves a callback behind, and may fail the first response for the others.
LEMMA GoneRight ==
  ASSUME PoolRight, NEW c \in Clients, client[c].phase # "away", client' = [client EXCEPT ![c] = Away],
         obs' \in [Observations -> Pooled],
         obs'[client[c].obs].users = obs[client[c].obs].users \ {c},
         \A x \in Observations \ {client[c].obs} : obs'[x] = obs[x],
         \A x \in Observations :
           /\ obs'[x].latest = obs[x].latest /\ obs'[x].cancelled = obs[x].cancelled
           /\ obs'[x].phase = obs[x].phase \/ (obs'[x].phase = "failed" /\ obs[x].phase = "asked"),
         dropping' = Append(dropping, client[c].obs),
         UNCHANGED <<resource, pool, crossed>>
  PROVE  PoolRight'
<1> DEFINE o == client[c].obs
<1>1. /\ PoolTypes /\ o \in Observations
      /\ \A x \in Observations : obs[x].users = {d \in Clients : client[d].obs = x}
  BY DEF PoolRight, PoolTypes, ClientRight, Observers
<1>2. obs' \in [Observations -> Pooled] /\ dropping' = Append(dropping, o)
  OBVIOUS
<1>5. /\ obs'[o].users = obs[o].users \ {c}
      /\ \A x \in Observations \ {o} : obs'[x] = obs[x]
      /\ \A x \in Observations :
           /\ obs'[x].latest = obs[x].latest /\ obs'[x].cancelled = obs[x].cancelled
           /\ obs'[x].phase = obs[x].phase \/ (obs'[x].phase = "failed" /\ obs[x].phase = "asked")
  OBVIOUS
<1> HIDE DEF o
<1>3. PoolTypes'
  <2>2. client' \in [Clients -> Observers]
    BY <1>1, Newcomers DEF PoolTypes
  <2>3. dropping' \in Seq(Observations)
    BY <1>1, <1>2 DEF PoolTypes
  <2> QED BY <2>2, <2>3, <1>1, <1>2 DEF PoolTypes
<1>4. client'[c] = Away /\ \A d \in Clients \ {c} : client'[d] = client[d]
  BY <1>1 DEF PoolTypes
<1>6. /\ \A i \in DOMAIN dropping : i \in DOMAIN dropping' /\ dropping'[i] = dropping[i]
      /\ \E i \in DOMAIN dropping' : dropping'[i] = o
  <2>1. dropping \in Seq(Observations)
    BY <1>1 DEF PoolTypes
  <2>2. /\ Len(dropping) \in Nat /\ DOMAIN dropping = 1 .. Len(dropping)
        /\ DOMAIN dropping' = 1 .. Len(dropping) + 1
        /\ \A i \in 1 .. Len(dropping) : dropping'[i] = dropping[i]
        /\ dropping'[Len(dropping) + 1] = o
    BY <2>1, <1>1, <1>2, AppendProperties, LenProperties
  <2> QED BY <2>2
<1>7. Away.phase = "away" /\ Away.obs = NoObs /\ Away.trigger = Nothing
  BY DEF Away
<1>8. \A x \in Observations : obs'[x].users = {d \in Clients : client'[d].obs = x}
  <2> TAKE x \in Observations
  <2>1. x # NoObs
    BY PoolAssumption
  <2>2. CASE x = o
    BY <2>1, <2>2, <1>1, <1>4, <1>5, <1>7
  <2>3. CASE x # o
    BY <2>1, <2>3, <1>1, <1>4, <1>5, <1>7 DEF o
  <2> QED BY <2>2, <2>3
<1>9. ASSUME NEW d \in Clients PROVE ClientRight(d)'
  <2>1. CASE d = c
    BY <2>1, <1>4, <1>7 DEF ClientRight
  <2>2. CASE d # c
    <3>1. client'[d] = client[d] /\ ClientRight(d) /\ client[d].obs \in Observations \cup {NoObs}
      BY <2>2, <1>1, <1>4 DEF PoolRight, PoolTypes, Observers
    <3> QED BY <3>1, <1>5 DEF ClientRight
  <2> QED BY <2>1, <2>2
<1>10. pool # NoObs => obs'[pool].phase # "new"
  BY <1>1, <1>5 DEF PoolRight, PoolTypes
<1>11. ASSUME ~ crossed PROVE PoolAlone'
  <2>1. PoolAlone
    BY <1>11 DEF PoolRight
  <2>2. \A d \in Clients : client'[d].obs \in {NoObs, pool}
    BY <2>1, <1>4, <1>7 DEF PoolAlone
  <2>3. ASSUME NEW d \in Clients, client'[d].phase = "observing"
        PROVE  /\ obs'[pool].phase \in {"live", "over"}
               /\ client'[d].got = obs'[pool].latest \/ client'[d].trigger # Nothing
    <3>1. client'[d] = client[d]
      BY <2>3, <1>4, <1>7
    <3>2. /\ client[d].obs = pool /\ pool \in Observations
          /\ obs[pool].phase \in {"live", "over"}
          /\ client[d].got = obs[pool].latest \/ client[d].trigger # Nothing
      BY <2>1, <2>3, <3>1 DEF PoolAlone, PoolRight, ClientRight, PoolTypes
    <3> QED BY <3>1, <3>2, <1>5
  <2>4. ASSUME NEW x \in Observations, obs'[x].phase # "new", ~ obs'[x].cancelled
        PROVE  x = pool /\ (obs'[x].users = {} => \E i \in DOMAIN dropping' : dropping'[i] = x)
    <3>1. x = pool /\ (obs[x].users = {} => \E i \in DOMAIN dropping : dropping[i] = x)
      BY <2>4, <2>1, <1>5 DEF PoolAlone
    <3>2. CASE x = o
      BY <3>1, <3>2, <1>6
    <3>3. CASE x # o
      BY <3>1, <3>3, <1>5, <1>6
    <3> QED BY <3>2, <3>3
  <2> QED BY <2>2, <2>3, <2>4 DEF PoolAlone
<1> QED BY <1>3, <1>8, <1>9, <1>10, <1>11 DEF PoolRight

LEMMA LeftRight ==
  ASSUME PoolRight, NEW c \in Clients, client[c].phase # "away", client' = [client EXCEPT ![c] = Away], Left(c),
         UNCHANGED <<resource, pool, crossed>>
  PROVE  PoolRight'
<1> DEFINE o == client[c].obs
<1>1. o \in Observations /\ obs \in [Observations -> Pooled] /\ obs[o] \in Pooled
  BY DEF PoolRight, PoolTypes, ClientRight, Observers
<1>2. obs' = [obs EXCEPT ![o].users = @ \ {c}] /\ dropping' = Append(dropping, o)
  BY DEF Left
<1> HIDE DEF o
<1>3. obs' \in [Observations -> Pooled]
  BY <1>1, <1>2 DEF Pooled
<1>4. /\ obs'[o].users = obs[o].users \ {c}
      /\ \A x \in Observations \ {o} : obs'[x] = obs[x]
      /\ \A x \in Observations :
           obs'[x].phase = obs[x].phase /\ obs'[x].latest = obs[x].latest /\ obs'[x].cancelled = obs[x].cancelled
  BY <1>1, <1>2 DEF Pooled
<1> QED BY <1>2, <1>3, <1>4, GoneRight DEF o

\* What a client is told is what its observation got last, unless more is on its way.
LEMMA ToldRight ==
  ASSUME PoolRight, NEW c \in Clients, client[c].phase # "away", client' \in [Clients -> Observers],
         UNCHANGED <<resource, pool, obs, dropping, crossed>>,
         \A d \in Clients \ {c} : client'[d] = client[d],
         client'[c].phase = "observing", client'[c].obs = client[c].obs,
         client'[c].trigger \in {Nothing, client[c].trigger},
         ~ crossed => obs[pool].phase \in {"live", "over"} /\ client'[c].got = obs[pool].latest
  PROVE  PoolRight'
<1>1. PoolTypes'
  BY DEF PoolRight, PoolTypes
<1>2. \A x \in Observations : obs'[x].users = {d \in Clients : client'[d].obs = x}
  <2>1. \A d \in Clients : client'[d].obs = client[d].obs
    OBVIOUS
  <2>2. \A x \in Observations : obs[x].users = {d \in Clients : client[d].obs = x}
    BY DEF PoolRight
  <2> QED BY <2>1, <2>2
<1>3. ASSUME NEW d \in Clients PROVE ClientRight(d)'
  <2>1. ClientRight(d)
    BY DEF PoolRight
  <2> QED BY <2>1 DEF ClientRight
<1>4. ASSUME ~ crossed PROVE PoolAlone'
  <2>1. PoolAlone
    BY <1>4 DEF PoolRight
  <2> QED BY <2>1, <1>4 DEF PoolAlone
<1> QED BY <1>1, <1>2, <1>3, <1>4 DEF PoolRight

LEMMA RenderRight ==
  ASSUME PoolRight, NEW c \in Clients, Render(c)
  PROVE  PoolRight'
<1>1. client[c].phase = "rendering" /\ UNCHANGED <<resource, pool, crossed>>
  BY DEF Render
<1>2. ASSUME obs[client[c].obs].phase \in {"live", "over"},
             client' = [client EXCEPT ![c].phase = "observing", ![c].got = obs[client[c].obs].latest],
             UNCHANGED <<obs, dropping>>
      PROVE  PoolRight'
  <2> DEFINE o == client[c].obs
  <2>1. /\ client \in [Clients -> Observers] /\ o \in Observations /\ obs[o].latest \in Int
        /\ ~ crossed => o = pool
    BY <1>1 DEF PoolRight, PoolTypes, Pooled, ClientRight, Observers, PoolAlone
  <2>2. client' = [client EXCEPT ![c].phase = "observing", ![c].got = obs[o].latest]
    BY <1>2
  <2>5. o = client[c].obs /\ obs[o].phase \in {"live", "over"}
    BY <1>2
  <2> HIDE DEF o
  <2>3. client' \in [Clients -> Observers]
    BY <2>1, <2>2 DEF Observers
  <2>4. /\ client'[c].phase = "observing" /\ client'[c].obs = client[c].obs
        /\ client'[c].got = obs[o].latest /\ client'[c].trigger = client[c].trigger
        /\ \A d \in Clients \ {c} : client'[d] = client[d]
    BY <2>1, <2>2 DEF Observers
  <2> QED BY <2>1, <2>3, <2>4, <2>5, <1>1, <1>2, ToldRight
<1>3. ASSUME client' = [client EXCEPT ![c] = Away], Left(c) PROVE PoolRight'
  BY <1>1, <1>3, LeftRight
<1> QED BY <1>2, <1>3 DEF Render

LEMMA DeliverRight ==
  ASSUME PoolRight, NEW c \in Clients, Deliver(c)
  PROVE  PoolRight'
<1>1. client[c].phase = "observing" /\ client[c].trigger # Nothing /\ UNCHANGED <<resource, pool, crossed>>
  BY DEF Deliver
<1>2. CASE client[c].trigger = Error
  BY <1>1, <1>2, LeftRight DEF Deliver
<1>3. CASE client[c].trigger # Error
  <2>1. /\ client' = [client EXCEPT ![c].got = client[c].trigger, ![c].trigger = Nothing]
        /\ UNCHANGED <<obs, dropping>>
    BY <1>3 DEF Deliver
  <2>2. client \in [Clients -> Observers] /\ ClientRight(c)
    BY DEF PoolRight, PoolTypes
  <2>3. client' \in [Clients -> Observers]
    BY <2>1, <2>2, Triggers DEF Observers
  <2>4. /\ client'[c].phase = "observing" /\ client'[c].obs = client[c].obs
        /\ client'[c].got = client[c].trigger /\ client'[c].trigger = Nothing
        /\ \A d \in Clients \ {c} : client'[d] = client[d]
    BY <2>1, <2>2, <1>1 DEF Observers
  <2>5. ~ crossed => obs[pool].phase \in {"live", "over"} /\ client[c].trigger = obs[pool].latest
    BY <2>2, <1>1, <1>3 DEF PoolRight, PoolAlone, ClientRight
  <2> QED BY <2>1, <2>3, <2>4, <2>5, <1>1, ToldRight
<1> QED BY <1>2, <1>3

LEMMA LeaveRight ==
  ASSUME PoolRight, NEW c \in Clients, Leave(c)
  PROVE  PoolRight'
<1> DEFINE o == client[c].obs
           phase == IF client[c].phase = "rendering" /\ obs[o].phase = "asked" THEN "failed" ELSE obs[o].phase
<1>1. o \in Observations /\ obs \in [Observations -> Pooled] /\ obs[o] \in Pooled
  BY DEF Leave, PoolRight, PoolTypes, ClientRight, Observers
<1>2. phase \in Phases /\ (phase = obs[o].phase \/ (phase = "failed" /\ obs[o].phase = "asked"))
  BY <1>1 DEF Pooled, Phases
<1>3. obs' = [obs EXCEPT ![o] = [obs[o] EXCEPT !.users = @ \ {c}, !.phase = phase]]
  <2>1. Broken(c) = [obs EXCEPT ![o].users = @ \ {c},
                       ![o].phase = IF client[c].phase = "rendering" /\ @ = "asked" THEN "failed" ELSE @]
    BY DEF Broken
  <2> HIDE DEF o
  <2>2. [[obs[o] EXCEPT !.users = @ \ {c}]
           EXCEPT !.phase = IF client[c].phase = "rendering" /\ @ = "asked" THEN "failed" ELSE @]
          = [obs[o] EXCEPT !.users = @ \ {c}, !.phase = phase]
    BY <1>1 DEF Pooled
  <2> QED BY <1>1, <2>1, <2>2 DEF Leave
<1>4. /\ dropping' = Append(dropping, o) /\ client[c].phase # "away" /\ client' = [client EXCEPT ![c] = Away]
      /\ UNCHANGED <<resource, pool, crossed>>
  BY DEF Leave
<1> HIDE DEF phase, o
<1>5. [obs[o] EXCEPT !.users = @ \ {c}, !.phase = phase] \in Pooled
  BY <1>1, <1>2 DEF Pooled
<1>6. obs' \in [Observations -> Pooled]
  BY <1>1, <1>3, <1>5
<1>7. /\ obs'[o].users = obs[o].users \ {c}
      /\ \A x \in Observations \ {o} : obs'[x] = obs[x]
      /\ obs'[o].phase = phase /\ obs'[o].latest = obs[o].latest /\ obs'[o].cancelled = obs[o].cancelled
  BY <1>1, <1>3 DEF Pooled
<1>8. \A x \in Observations :
        /\ obs'[x].latest = obs[x].latest /\ obs'[x].cancelled = obs[x].cancelled
        /\ obs'[x].phase = obs[x].phase \/ (obs'[x].phase = "failed" /\ obs[x].phase = "asked")
  BY <1>2, <1>7
<1> QED BY <1>4, <1>6, <1>7, <1>8, GoneRight DEF o

LEMMA ConsiderRight ==
  ASSUME PoolRight, ConsiderDropping
  PROVE  PoolRight'
<1> DEFINE o == Head(dropping)
<1>1. /\ PoolTypes /\ dropping \in Seq(Observations) /\ dropping # <<>>
      /\ dropping' = Tail(dropping) /\ UNCHANGED <<resource, client>>
  BY DEF PoolRight, PoolTypes, ConsiderDropping
<1>2. /\ o \in Observations /\ dropping' \in Seq(Observations)
      /\ \A i \in DOMAIN dropping : dropping[i] = o \/ \E j \in DOMAIN dropping' : dropping'[j] = dropping[i]
  <2>1. /\ o \in Observations /\ dropping' \in Seq(Observations)
        /\ Len(dropping) \in Nat /\ DOMAIN dropping = 1 .. Len(dropping)
        /\ DOMAIN dropping' = 1 .. Len(dropping) - 1 /\ o = dropping[1]
        /\ \A j \in 1 .. Len(dropping) - 1 : dropping'[j] = dropping[j + 1]
    BY <1>1, HeadTailProperties, LenProperties
  <2> HIDE DEF o
  <2>2. ASSUME NEW i \in DOMAIN dropping, dropping[i] # o
        PROVE  \E j \in DOMAIN dropping' : dropping'[j] = dropping[i]
    <3>1. i - 1 \in 1 .. Len(dropping) - 1 /\ i = (i - 1) + 1
      BY <2>1, <2>2
    <3> QED BY <2>1, <3>1
  <2> QED BY <2>1, <2>2
<1>3. /\ \A x \in Observations : obs[x].users = {d \in Clients : client[d].obs = x}
      /\ \A d \in Clients : ClientRight(d)
  BY DEF PoolRight
<1>4. ASSUME obs[o].users # {} PROVE PoolRight'
  <2>1. UNCHANGED <<pool, obs, crossed>>
    BY <1>4 DEF ConsiderDropping
  <2> HIDE DEF o
  <2>2. PoolTypes'
    BY <1>1, <1>2, <2>1 DEF PoolTypes
  <2>3. \A d \in Clients : ClientRight(d)'
    BY <1>1, <1>3, <2>1 DEF ClientRight
  <2>4. ASSUME ~ crossed PROVE PoolAlone'
    <3>1. PoolAlone
      BY <2>4 DEF PoolRight
    <3>2. \A x \in Observations : obs[x].users = {} /\ (\E i \in DOMAIN dropping : dropping[i] = x)
            => \E j \in DOMAIN dropping' : dropping'[j] = x
      BY <1>2, <1>4
    <3> QED BY <3>1, <3>2, <1>1, <2>1 DEF PoolAlone
  <2> QED BY <1>1, <1>3, <2>1, <2>2, <2>3, <2>4 DEF PoolRight
<1>5. ASSUME obs[o].users = {} PROVE PoolRight'
  <2>1. /\ pool' = NoObs /\ crossed' = (crossed \/ pool \notin {o, NoObs})
        /\ obs' = IF pool = NoObs THEN obs ELSE [obs EXCEPT ![o].cancelled = TRUE]
    BY <1>5 DEF ConsiderDropping
  <2> HIDE DEF o
  <2>2. PoolTypes'
    <3>1. obs' \in [Observations -> Pooled]
      BY <1>1, <1>2, <2>1 DEF PoolTypes, Pooled
    <3> QED BY <3>1, <1>1, <1>2, <2>1 DEF PoolTypes
  <2>3. /\ \A x \in Observations :
             obs'[x].phase = obs[x].phase /\ obs'[x].latest = obs[x].latest /\ obs'[x].users = obs[x].users
        /\ \A x \in Observations : ~ obs'[x].cancelled => ~ obs[x].cancelled /\ (x # o \/ pool = NoObs)
    BY <1>1, <1>2, <2>1 DEF PoolTypes, Pooled
  <2>4. \A d \in Clients : ClientRight(d)'
    <3> TAKE d \in Clients
    <3>1. ClientRight(d) /\ client[d].obs \in Observations \cup {NoObs}
      BY <1>1, <1>3 DEF PoolTypes, Observers
    <3> QED BY <3>1, <1>1, <2>3 DEF ClientRight
  <2>5. ASSUME ~ crossed' PROVE PoolAlone'
    <3>1. PoolAlone /\ pool \in {o, NoObs}
      BY <2>1, <2>5 DEF PoolRight
    <3>2. \A d \in Clients : client[d].obs = NoObs
      BY <3>1, <1>2, <1>3, <1>5 DEF PoolAlone
    <3>3. \A d \in Clients : client'[d].phase # "observing" /\ client'[d].obs = NoObs
      BY <3>2, <1>1, <1>3 DEF ClientRight
    <3>4. ASSUME NEW x \in Observations, obs'[x].phase # "new", ~ obs'[x].cancelled PROVE FALSE
      BY <3>1, <3>4, <2>3, PoolAssumption DEF PoolAlone
    <3> QED BY <3>3, <3>4, <2>1 DEF PoolAlone
  <2>6. \A x \in Observations : obs'[x].users = {d \in Clients : client'[d].obs = x}
    BY <1>1, <1>3, <2>3
  <2> QED BY <2>1, <2>2, <2>4, <2>5, <2>6 DEF PoolRight
<1> QED BY <1>4, <1>5

LEMMA PoolKept == PoolRight /\ [NextPool]_poolVars => PoolRight'
<1> SUFFICES ASSUME PoolRight, [NextPool]_poolVars PROVE PoolRight'
  OBVIOUS
<1>1. ASSUME UNCHANGED <<pool, obs, client, dropping, crossed>>, resource' \in Nat, resource' <= MaxState
      PROVE  PoolRight'
  <2>1. PoolTypes'
    BY <1>1 DEF PoolRight, PoolTypes
  <2>2. \A d \in Clients : ClientRight(d)'
    BY <1>1 DEF PoolRight, ClientRight
  <2>3. ~ crossed' => PoolAlone'
    BY <1>1 DEF PoolRight, PoolAlone
  <2> QED BY <1>1, <2>1, <2>2, <2>3 DEF PoolRight
<1>2. resource \in Nat /\ resource <= MaxState
  BY DEF PoolRight, PoolTypes
<1>3. ASSUME NEW c \in Clients, Observe(c) \/ Render(c) \/ Deliver(c) \/ Leave(c) PROVE PoolRight'
  BY <1>3, ObserveRight, RenderRight, DeliverRight, LeaveRight
<1>4. ASSUME NEW o \in Observations, Start(o) \/ Renotify(o) \/ End(o) PROVE PoolRight'
  BY <1>4, StartRight, RenotifyRight, EndRight
<1>5. CASE ChangeState
  BY <1>1, <1>2, <1>5, PoolAssumption DEF ChangeState
<1>6. CASE UNCHANGED poolVars
  BY <1>1, <1>2, <1>6 DEF poolVars
<1> QED BY <1>3, <1>4, <1>5, <1>6, ConsiderRight DEF NextPool

\* What the run checks follows.
LEMMA PoolImplies == PoolRight => PoolInv
<1> SUFFICES ASSUME PoolRight PROVE PoolInv
  OBVIOUS
<1>1. PoolTyped
  <2>1. \A i \in DOMAIN dropping : dropping[i] \in Observations
    BY DEF PoolRight, PoolTypes
  <2> QED BY <2>1, PoolAssumption DEF PoolRight, PoolTypes, PoolTyped
<1>2. UpToDate
  BY DEF UpToDate, PoolRight, PoolAlone, ClientRight
<1>3. NothingLeaks
  BY DEF NothingLeaks, Live, PoolRight, PoolAlone
<1>4. OneUpstream
  <2> DEFINE L == {o \in Observations : Live(o)}
  <2> SUFFICES ASSUME ~ crossed PROVE Cardinality(L) <= 1
    BY DEF OneUpstream
  <2>1. \A o \in L : o = pool
    BY DEF Live, PoolRight, PoolAlone
  <2>2. CASE L = {}
    BY <2>2, FS_EmptySet
  <2>3. CASE L # {}
    <3>1. L = {pool}
      BY <2>1, <2>3
    <3> QED BY <3>1, FS_Singleton
  <2> QED BY <2>2, <2>3
<1> QED BY <1>1, <1>2, <1>3, <1>4 DEF PoolInv

-----------------------------------------------------------------------------
(* The CoAP-CoAP proxy of aiocoap: where it sends requests. *)

\* A request on its way through the rules.
Message(r) == DOMAIN r = DOMAIN Plain /\ r.unsafe \in BOOLEAN

\* It can be sent, by a rule of these: it has its destination and nothing unsafe, and a
\* Proxy-Scheme only where that destination is to be used as a proxy.
Sendable(r, rules) ==
  /\ r.to \notin Refusals \cup {NoMatch.to, Undecided}
  /\ ~ r.unsafe /\ r.proxyUri = NoOption
  /\ r.scheme # NoOption => \E i \in DOMAIN rules : rules[i].useAsProxy /\ rules[i].target = r.to

LEMMA RewrittenRight ==
  ASSUME NEW rules \in Rules, NEW i \in DOMAIN rules, NEW r, Message(r),
         ~ r.unsafe, r.proxyUri = NoOption, r.scheme = NoOption
  PROVE  Sendable(Rewritten(rules[i], r), rules)
<1> DEFINE rule == rules[i]
           proxied == IF rule.useAsProxy THEN [r EXCEPT !.scheme = "coap"] ELSE r
           renamed == IF rule.rewrite THEN [proxied EXCEPT !.host = rule.target] ELSE proxied
           path == IF rule.kind = "path" THEN SubSeq(renamed.path, Len(rule.prefix) + 1, Len(renamed.path))
                   ELSE renamed.path
           sent == [renamed EXCEPT !.to = rule.target, !.path = path]
<1>1. Rewritten(rule, r) = sent
  BY DEF Rewritten
<1>2. rule.useAsProxy \in BOOLEAN /\ rule.target \notin Refusals \cup {NoMatch.to, Undecided}
  BY RedirectionAssumption
<1>3. DOMAIN r = {"proxyUri", "scheme", "host", "path", "unsafe", "to"}
  BY DEF Message, Plain
<1>4. /\ DOMAIN proxied = DOMAIN r /\ proxied.unsafe = r.unsafe /\ proxied.proxyUri = r.proxyUri
      /\ proxied.scheme # NoOption => rule.useAsProxy
  BY <1>3
<1> HIDE DEF rule, proxied
<1>5. /\ DOMAIN renamed = DOMAIN r /\ renamed.unsafe = r.unsafe /\ renamed.proxyUri = r.proxyUri
      /\ renamed.scheme # NoOption => rule.useAsProxy
  BY <1>3, <1>4
<1> HIDE DEF renamed, path
<1>6. /\ sent.unsafe = r.unsafe /\ sent.proxyUri = r.proxyUri /\ sent.to = rule.target
      /\ sent.scheme # NoOption => rule.useAsProxy
  BY <1>3, <1>5
<1> HIDE DEF sent
<1>7. Sendable(sent, rules)
  BY <1>2, <1>6 DEF Sendable, rule
<1> QED BY <1>1, <1>7 DEF rule

\* One rule, and the rules in their order.
LEMMA RuleRight ==
  ASSUME NEW rules \in Rules, NEW i \in DOMAIN rules, NEW r, Message(r)
  PROVE  \/ ApplyRule(rules[i], r) \in {Refused("unsafe"), Refused("error"), NoMatch}
         \/ r.scheme = NoOption /\ Sendable(ApplyRule(rules[i], r), rules)
<1>1. CASE Safe(r, {})
  <2>1. ~ r.unsafe /\ r.proxyUri = NoOption /\ r.scheme = NoOption
    BY <1>1 DEF Safe
  <2> QED BY <1>1, <2>1, RewrittenRight DEF ApplyRule
<1>2. CASE ~ Safe(r, {})
  BY <1>2 DEF ApplyRule
<1> QED BY <1>1, <1>2

LEMMA RulesRight ==
  ASSUME NEW rules \in Rules, NEW r, Message(r)
  PROVE  \/ ApplyRules(rules, r) \in {Refused("unsafe"), Refused("error"), NoMatch}
         \/ r.scheme = NoOption /\ Sendable(ApplyRules(rules, r), rules)
<1> DEFINE results == [i \in DOMAIN rules |-> ApplyRule(rules[i], r)]
           hits == {i \in DOMAIN rules : results[i] # NoMatch}
           first == CHOOSE i \in hits : \A j \in hits : i <= j
<1>1. ApplyRules(rules, r) = IF hits = {} THEN NoMatch ELSE results[first]
  BY DEF ApplyRules
<1>2. CASE hits = {}
  BY <1>1, <1>2
<1>3. CASE hits # {}
  <2>1. hits \in SUBSET Nat
    <3>1. rules \in Seq({rules[i] : i \in DOMAIN rules})
      BY RedirectionAssumption
    <3>2. DOMAIN rules \in SUBSET Nat
      BY <3>1
    <3> QED BY <3>2
  <2>2. \E i \in hits : \A j \in hits : i <= j
    <3> HIDE DEF hits
    <3> QED BY <1>3, <2>1, LeastNat
  <2>3. first \in DOMAIN rules
    <3>1. first \in hits
      <4> HIDE DEF hits
      <4> QED BY <2>2
    <3> QED BY <3>1
  <2> HIDE DEF first, hits
  <2>4. ApplyRules(rules, r) = ApplyRule(rules[first], r)
    BY <1>1, <1>3, <2>3
  <2> QED BY <2>3, <2>4, RuleRight
<1> QED BY <1>2, <1>3

\* A request, with or without the forward proxy in front of the rules.
LEMMA RedirectRight ==
  ASSUME NEW forward \in BOOLEAN, NEW rules \in Rules, NEW r \in Asked
  PROVE  LET sent == Redirect(forward, rules, r)
         IN IsRefused(sent) \/ (Sendable(sent, rules) /\ (r.scheme # NoOption => forward))
<1> DEFINE onward == [r EXCEPT !.to = r.host, !.scheme = NoOption,
                               !.host = IF @ \in Addresses THEN NoOption ELSE @]
<1>1. /\ Message(r) /\ r.host \notin Refusals \cup {NoMatch.to, Undecided}
      /\ DOMAIN r = {"proxyUri", "scheme", "host", "path", "unsafe", "to"}
  BY RedirectionAssumption DEF Message, Plain
<1>2. /\ Message(onward) /\ onward.unsafe = r.unsafe /\ onward.proxyUri = r.proxyUri
      /\ onward.scheme = NoOption /\ onward.to = r.host
  BY <1>1 DEF Message
<1> HIDE DEF onward
<1>3. \A why \in Refusals : IsRefused(Refused(why)) /\ Refused(why) # NoMatch
  BY DEF IsRefused, Refused, Refusals, NoMatch
<1>4. \A x : Sendable(x, rules) => x # NoMatch
  BY DEF Sendable, NoMatch
<1>5. ApplyRules(rules, r) \in {Refused("unsafe"), Refused("error"), NoMatch}
        \/ (r.scheme = NoOption /\ Sendable(ApplyRules(rules, r), rules))
  BY <1>1, RulesRight
<1>6. ForwardProxy(rules, r) = NoMatch \/ IsRefused(ForwardProxy(rules, r)) \/ Sendable(ForwardProxy(rules, r), rules)
  <2>1. CASE r.proxyUri # NoOption
    BY <2>1, <1>3 DEF ForwardProxy, Refusals
  <2>2. CASE r.proxyUri = NoOption /\ r.scheme = NoOption
    BY <2>2, <1>3, <1>5 DEF ForwardProxy, Refusals
  <2>3. CASE r.proxyUri = NoOption /\ r.scheme # NoOption /\ r.host = NoOption
    BY <2>3, <1>3 DEF ForwardProxy, Refusals
  <2>4. CASE r.proxyUri = NoOption /\ r.scheme # NoOption /\ r.host # NoOption /\ ~ Safe(r, {"scheme"})
    BY <2>4, <1>3 DEF ForwardProxy, Refusals
  <2>5. CASE r.proxyUri = NoOption /\ r.scheme # NoOption /\ r.host # NoOption /\ Safe(r, {"scheme"})
    <3>1. ForwardProxy(rules, r) = IF ApplyRules(rules, onward) # NoMatch THEN ApplyRules(rules, onward) ELSE onward
      BY <2>5 DEF ForwardProxy, onward
    <3>2. Sendable(onward, rules)
      BY <2>5, <1>1, <1>2 DEF Sendable, Safe
    <3>3. ApplyRules(rules, onward) \in {Refused("unsafe"), Refused("error"), NoMatch} \/ Sendable(ApplyRules(rules, onward), rules)
      BY <1>2, RulesRight
    <3> QED BY <3>1, <3>2, <3>3, <1>3 DEF Refusals
  <2> QED BY <2>1, <2>2, <2>3, <2>4, <2>5
<1>7. CASE forward
  <2>1. Redirect(forward, rules, r) = IF ForwardProxy(rules, r) = NoMatch THEN Refused("norule") ELSE ForwardProxy(rules, r)
    BY <1>7 DEF Redirect
  <2> QED BY <1>3, <1>6, <1>7, <2>1 DEF Refusals
<1>8. CASE ~ forward
  <2>1. Redirect(forward, rules, r) = IF ApplyRules(rules, r) = NoMatch THEN Refused("norule") ELSE ApplyRules(rules, r)
    BY <1>8 DEF Redirect
  <2> QED BY <1>3, <1>5, <2>1 DEF Refusals
<1> QED BY <1>7, <1>8

\* The request at the proxy, and what was sent for it.
HopRight ==
  /\ DOMAIN hop = {"forward", "rules", "request", "sent", "answer"}
  /\ hop.forward \in BOOLEAN /\ hop.rules \in Rules /\ hop.request \in Asked
  /\ hop.sent # NoMatch /\ ~ IsRefused(hop.sent) =>
       Sendable(hop.sent, hop.rules) /\ (hop.request.scheme # NoOption => hop.forward)

LEMMA HopStarts == InitRedirection => HopRight
BY DEF InitRedirection, HopRight

LEMMA HopKept == HopRight /\ [NextRedirection]_hop => HopRight'
<1> SUFFICES ASSUME HopRight, [NextRedirection]_hop PROVE HopRight'
  OBVIOUS
<1>1. CASE Send
  <2> DEFINE sent == Redirect(hop.forward, hop.rules, hop.request)
  <2>1. hop' = [hop EXCEPT !.sent = sent]
    BY <1>1 DEF Send
  <2>2. IsRefused(sent) \/ (Sendable(sent, hop.rules) /\ (hop.request.scheme # NoOption => hop.forward))
    BY RedirectRight DEF HopRight
  <2> HIDE DEF sent
  <2>3. /\ DOMAIN hop' = DOMAIN hop /\ hop'.sent = sent
        /\ hop'.forward = hop.forward /\ hop'.rules = hop.rules /\ hop'.request = hop.request
    BY <2>1 DEF HopRight
  <2> QED BY <2>2, <2>3 DEF HopRight
<1>2. ASSUME NEW unsafe \in BOOLEAN, ReplyToClient(unsafe) PROVE HopRight'
  <2> DEFINE answer == IF IsRefused(hop.sent) THEN hop.sent ELSE IF unsafe THEN Refused("unsafe") ELSE [to |-> "client"]
  <2>1. hop' = [hop EXCEPT !.answer = answer]
    BY <1>2 DEF ReplyToClient
  <2> HIDE DEF answer
  <2>2. /\ DOMAIN hop' = DOMAIN hop /\ hop'.sent = hop.sent
        /\ hop'.forward = hop.forward /\ hop'.rules = hop.rules /\ hop'.request = hop.request
    BY <2>1 DEF HopRight
  <2> QED BY <2>2 DEF HopRight
<1>3. CASE UNCHANGED hop
  BY <1>3 DEF HopRight
<1> QED BY <1>1, <1>2, <1>3 DEF NextRedirection

LEMMA HopImplies == HopRight => SendsSafely
BY DEF HopRight, Sendable, SendsSafely

\* Both parts of the proxy.
LEMMA CoapProxyStep ==
  ASSUME PoolRight, HopRight,
         [(NextPool /\ UNCHANGED hop) \/ (NextRedirection /\ UNCHANGED poolVars)]_<<poolVars, hop>>
  PROVE  PoolRight' /\ HopRight'
BY PoolKept, HopKept

\* For any clients that come and go, and any number of observations: while no callback has removed
\* another's entry, every client has what its observation got last or it is on its way, at most
\* one observation of the resource is held at the server, and one nobody uses is about to be
\* dropped (ProxyWithPooledObservations).  And what is sent on, by any rules, has a destination
\* and nothing unsafe, and a Proxy-Scheme only for a proxy that a rule names (apply_redirection).
THEOREM CoapProxyCorrect == SpecCoapProxy => []CoapProxyInv
<1>1. InitPool /\ InitRedirection => PoolRight /\ HopRight
  BY PoolStarts, HopStarts
<1>2. PoolRight /\ HopRight /\ [(NextPool /\ UNCHANGED hop) \/ (NextRedirection /\ UNCHANGED poolVars)]_<<poolVars, hop>>
        => PoolRight' /\ HopRight'
  BY CoapProxyStep
<1>3. PoolRight /\ HopRight => CoapProxyInv
  BY PoolImplies, HopImplies DEF CoapProxyInv
<1> QED BY <1>1, <1>2, <1>3, PTL DEF SpecCoapProxy
=============================================================================
