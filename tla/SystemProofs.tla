----------------------------- MODULE SystemProofs -----------------------------
(***************************************************************************)
(* What the run of CoapOverBp checks for two commands, proved for any      *)
(* number of them: responses match, effects happen once, and a GET sees    *)
(* what its user knows was done.                                           *)
(***************************************************************************)
EXTENDS CoapOverBp, SequenceTheorems, FiniteSetTheorems, TLAPS

\* The lemmas on what requests make of a dictionary.
L == INSTANCE ServerProofs WITH
       Faults <- {}, Requests <- Commands, MaxRequests <- 0, MaxCrashes <- 0,
       made <- 0, held <- <<>>, saved <- <<>>, answers <- {}, crashes <- 0

-----------------------------------------------------------------------------
(* The inductive invariant *)

Asked == 1 .. Len(queued)
Mids == 1 .. MaxId
Message ==
  [n : Nat, token : ClientTokens \cup Tokens, mid : Mids, era : Nat, mtype : {"CON", "NON"},
   code : { c.code : c \in Commands }, path : { c.path : c \in Commands },
   payload : { c.payload : c \in Commands } \cup Pieces]

\* Frames as A sends them, in the order in which they were typed.
Ascending(frames) == \A i, j \in DOMAIN frames : i < j => frames[i].n < frames[j].n
FromUser(frames) ==
  /\ frames \in Seq(Message) /\ Ascending(frames)
  /\ \A i \in DOMAIN frames : frames[i].n \in Asked /\ frames[i] = queued[frames[i].n]

\* A frame between D and B: the maps of D lead back from its token and ID.
Mapped(f) ==
  /\ f.n \in Asked /\ f.token \in Tokens /\ f.mid \in Mids
  /\ reverse_token_map[f.token] = queued[f.n].token /\ reverse_mid_map[f.mid] = queued[f.n].mid
Forwarded(f) ==
  /\ f \in Message /\ Mapped(f)
  /\ f.mtype = queued[f.n].mtype /\ f.path = queued[f.n].path

\* A frame from D to A.
Matched(r) == r.n \in Asked /\ r.token = queued[r.n].token /\ r.mid = queued[r.n].mid

\* What a response of code c with the values v says about request n is so, unless it was cut.
Done(n, c, v) ==
  /\ c \in B!Success => n \in B!Numbers(served)
  /\ c = "CONTENT" /\ v \notin Pieces =>
       \E k \in 0 .. Len(served) :
         /\ B!ValuesAfter(v, first, SubSeq(served, 1, k), queued[n].path)
         /\ seen[n] \subseteq B!Numbers(SubSeq(served, 1, k))
Reply(r) ==
  /\ r = [n |-> r.n, token |-> r.token, mid |-> r.mid, code |-> r.code, mtype |-> r.mtype,
          payload |-> r.payload]
  /\ r.n \in Asked /\ r.mtype = (IF queued[r.n].mtype = "CON" THEN "ACK" ELSE "NON")
  /\ Done(r.n, r.code, r.payload)

\* The buffer of A holds the last commands, the stream those before, in order; one task at a
\* time is about to write or has just written.
Finishing == \E t \in DOMAIN at : at[t] = "finish"
Written == IF Finishing THEN Len(queued) ELSE Len(queued) - Len(coap_buffer)
Typed ==
  /\ queued \in Seq(Message) /\ Len(queued) <= MaxCommands /\ Len(seen) = Len(queued)
  /\ \A n \in Asked : queued[n].n = n /\ queued[n].token \in ClientTokens
  /\ \A n \in Asked : seen[n] \subseteq B!Numbers(served)
  /\ seen \in Seq(SUBSET Nat)
  /\ current_id \in Mids
TasksRight ==
  \A t, u \in DOMAIN at :
    at[t] \in {"write", "finish"} /\ at[u] \in {"write", "finish"} => t = u
BufferRight ==
  /\ FromUser(coap_buffer)
  /\ ~Finishing => /\ Len(coap_buffer) <= Len(queued)
                   /\ \A i \in DOMAIN coap_buffer :
                        coap_buffer[i].n = Len(queued) - Len(coap_buffer) + i
StreamRight ==
  /\ stream \in Seq(Seq(Message))
  /\ \A i \in DOMAIN stream : FromUser(stream[i]) /\ B!Numbers(stream[i]) \subseteq 1 .. Written
  /\ \A i, j \in DOMAIN stream : i < j =>
       \A x \in B!Numbers(stream[i]), y \in B!Numbers(stream[j]) : x < y
ClientRight == TasksRight /\ BufferRight /\ StreamRight

\* The requests that have left A.
Gone ==
  { n \in 1 .. Written : \A i \in DOMAIN stream : \A y \in B!Numbers(stream[i]) : n < y }

BundleRight(b) ==
  /\ b.dst = NodeD /\ b.src = NodeA => FromUser(b.adu)
  /\ b.dst = NodeD /\ b.src # NodeA => b.adu = <<b.adu[1]>> /\ Mapped(b.adu[1]) /\ Reply(b.adu[1])
  /\ b.dst = NodeB => b.adu = <<b.adu[1]>> /\ Forwarded(b.adu[1])
  /\ b.dst = NodeA => b.adu = <<b.adu[1]>> /\ Matched(b.adu[1]) /\ Reply(b.adu[1])
NetRight == \A b \in net : BundleRight(b)

ProxyRight ==
  /\ next_mid \in Mids /\ era \in Nat
  /\ reverse_token_map \in [Tokens -> ClientTokens \cup {NoToken}]
  /\ reverse_mid_map \in [Mids -> Mids \cup {0}]
  /\ src_eid = NodeA => FromUser(proxy_payload)
  /\ src_eid = NodeB =>
       \/ proxy_payload = <<>>
       \/ /\ proxy_payload = <<Head(proxy_payload)>>
          /\ Mapped(Head(proxy_payload)) /\ Reply(Head(proxy_payload))

ServerRight ==
  /\ B!IsDictionary(first) /\ B!IsDictionary(resources) /\ served \in Seq(Message)
  /\ B!Agrees(resources, first, served)
  /\ recv_payload = <<>> \/ (recv_payload = <<B!Request>> /\ Forwarded(B!Request))
  /\ pc \in {"idle", "loop", "saving", "respond"}
  /\ pc \in {"saving", "respond"} => recv_payload # <<>>
  /\ pc = "saving" => code \in B!Success /\ B!Request.n \in B!Numbers(served)
  /\ pc = "respond" => Done(B!Request.n, code, content)

\* A request is in one place: with A, under way, at D or B and not yet served, or served.
RequestBundles == { b \in net : b.dst = NodeB \/ (b.dst = NodeD /\ b.src = NodeA) }
AtD == IF src_eid = NodeA THEN B!Numbers(proxy_payload) ELSE {}
AtB == IF pc = "loop" THEN B!Numbers(recv_payload) ELSE {}
OnePlace ==
  /\ \A b \in RequestBundles :
       /\ B!Numbers(b.adu) \subseteq Gone
       /\ B!Numbers(b.adu) \cap (AtD \cup AtB \cup B!Numbers(served)) = {}
       /\ \A c \in RequestBundles : b # c => B!Numbers(b.adu) \cap B!Numbers(c.adu) = {}
  /\ AtD \cup AtB \cup B!Numbers(served) \subseteq Gone
  /\ AtD \cap (AtB \cup B!Numbers(served)) = {} /\ AtB \cap B!Numbers(served) = {}
  /\ \A i, j \in DOMAIN served : served[i].n = served[j].n => i = j

\* The IDs D gave out, one for each request of a set G, form an interval that ends at its
\* counter, so that an ID is free as long as there are fewer requests than IDs.
GivenOut == { m \in Mids : reverse_mid_map[m] # 0 }
Interval(start, k) ==
  \/ /\ start <= next_mid /\ k = next_mid - start
     /\ GivenOut = start .. (next_mid - 1)
  \/ /\ next_mid <= start /\ k = MaxId - start + next_mid
     /\ GivenOut = (start .. MaxId) \cup (1 .. (next_mid - 1))
ToForward(n) ==
  n \in AtD \/ \E b \in net : b.dst = NodeD /\ b.src = NodeA /\ n \in B!Numbers(b.adu)
IdsGivenOut ==
  \E start \in Mids, G \in SUBSET Gone :
    (\A n \in G : ~ToForward(n)) /\ Interval(start, Cardinality(G))

PrintedRight == \A r \in printed : Matched(r) /\ Reply(r)

IInv ==
  /\ Typed /\ ClientRight /\ NetRight /\ ProxyRight /\ ServerRight /\ OnePlace /\ IdsGivenOut
  /\ PrintedRight

-----------------------------------------------------------------------------
(* Frames *)

LEMMA OneFrame ==
  ASSUME NEW f
  PROVE  /\ Head(<<f>>) = f /\ Tail(<<f>>) = <<>> /\ B!Numbers(<<f>>) = {f.n} /\ <<f>> # <<>>
         /\ B!Numbers(<<>>) = {} /\ <<f>>[1] = f
BY DEF B!Numbers

\* The first frame of the user, and those left behind it.
LEMMA FirstFrame ==
  ASSUME NEW s, FromUser(s), s # <<>>
  PROVE  /\ Head(s) \in Message /\ Head(s).n \in Asked /\ Head(s) = queued[Head(s).n]
         /\ Head(s).n \in B!Numbers(s)
<1>1. s \in Seq(Message)
  BY DEF FromUser
<1>2. Head(s) \in Message /\ Head(s) = s[1] /\ 1 \in DOMAIN s
  BY <1>1
<1>3. Head(s).n \in B!Numbers(s)
  BY <1>2 DEF B!Numbers
<1> QED BY <1>2, <1>3 DEF FromUser

LEMMA RestOfFrames ==
  ASSUME NEW s, FromUser(s), s # <<>>,
         NEW r, r = Tail(s) \/ \E k \in 2 .. Len(s) + 1 : r = SubSeq(s, k, Len(s))
  PROVE  /\ FromUser(r) /\ B!Numbers(r) \subseteq B!Numbers(s)
         /\ Head(s).n \notin B!Numbers(r)
<1>1. s \in Seq(Message) /\ Len(s) \in Nat
  BY DEF FromUser
<1>2. PICK k \in 2 .. Len(s) + 1 : r = SubSeq(s, k, Len(s))
  <2>1. CASE r = Tail(s)
    <3>1. r = SubSeq(s, 2, Len(s)) /\ 2 \in 2 .. Len(s) + 1
      BY <1>1, <2>1
    <3> QED BY <3>1
  <2> QED BY <2>1
<1>3. /\ Head(s) = s[1] /\ 1 \in DOMAIN s /\ r \in Seq(Message)
      /\ \A i \in DOMAIN r : i + k - 1 \in DOMAIN s /\ r[i] = s[i + k - 1] /\ i \in Nat /\ i > 0
  BY <1>1, <1>2
<1>4. Ascending(r)
  <2>1. SUFFICES ASSUME NEW i \in DOMAIN r, NEW j \in DOMAIN r, i < j
                 PROVE  r[i].n < r[j].n
    BY DEF Ascending
  <2>2. i + k - 1 \in DOMAIN s /\ j + k - 1 \in DOMAIN s /\ i + k - 1 < j + k - 1
    BY <1>2, <1>3, <2>1
  <2> QED BY <2>2, <1>3 DEF FromUser, Ascending
<1>5. FromUser(r)
  BY <1>3, <1>4 DEF FromUser
<1>6. B!Numbers(r) \subseteq B!Numbers(s)
  BY <1>3 DEF B!Numbers
<1>7. ASSUME NEW i \in DOMAIN r
      PROVE  r[i].n # Head(s).n
  <2>1. i + k - 1 \in DOMAIN s /\ 1 < i + k - 1
    BY <1>2, <1>3, <1>7
  <2>2. s[1].n < s[i + k - 1].n
    BY <2>1, <1>3 DEF FromUser, Ascending
  <2>3. s[1] \in Message /\ s[i + k - 1] \in Message
    BY <2>1, <1>3, <1>1
  <2>4. s[1].n \in Nat /\ s[i + k - 1].n \in Nat
    BY ONLY <2>3 DEF Message
  <2> QED BY <2>2, <2>4, <1>3
<1>8. Head(s).n \notin B!Numbers(r)
  BY <1>7 DEF B!Numbers
<1> QED BY <1>5, <1>6, <1>8

\* A frame that D or B reads is the one that was sent, or that one with another payload.
Cut(f, g) == g = f \/ \E p \in Pieces : g = [f EXCEPT !.payload = p]

LEMMA ReadAsCut ==
  ASSUME NEW f, NEW g
  PROVE  /\ g \in D!Readings(f) \ {Junk} => Cut(f, g)
         /\ g \in B!Readings(f) \ {Junk} => Cut(f, g)
BY DEF D!Readings, D!CutShort, B!Readings, B!CutShort, Cut

\* A cut frame belongs to the same request.
LEMMA CutKeeps ==
  ASSUME NEW f, NEW g, Cut(f, g)
  PROVE  /\ f \in Message => /\ g \in Message /\ g.n = f.n /\ g.token = f.token /\ g.mid = f.mid
                            /\ g.mtype = f.mtype /\ g.path = f.path
         /\ Forwarded(f) => Forwarded(g)
         /\ Mapped(f) /\ Reply(f) => Mapped(g) /\ Reply(g)
<1>1. ASSUME f \in Message
      PROVE  /\ g \in Message /\ g.n = f.n /\ g.token = f.token /\ g.mid = f.mid
             /\ g.mtype = f.mtype /\ g.path = f.path
  BY <1>1 DEF Cut, Message
<1>2. ASSUME Forwarded(f) PROVE Forwarded(g)
  BY <1>1, <1>2 DEF Forwarded, Mapped
<1>3. ASSUME Mapped(f), Reply(f) PROVE Mapped(g) /\ Reply(g)
  <2>1. CASE g = f
    BY <1>3, <2>1
  <2>2. ASSUME NEW p \in Pieces, g = [f EXCEPT !.payload = p]
        PROVE  Mapped(g) /\ Reply(g)
    <3>1. /\ g = [n |-> f.n, token |-> f.token, mid |-> f.mid, code |-> f.code,
                  mtype |-> f.mtype, payload |-> p]
      BY <1>3, <2>2 DEF Reply
    <3>2. Done(f.n, f.code, p)
      BY <1>3 DEF Reply, Done
    <3> QED BY <1>3, <3>1, <3>2 DEF Mapped, Reply
  <2> QED BY <2>1, <2>2 DEF Cut
<1> QED BY <1>1, <1>2, <1>3

\* Prefixes of a log that has grown.
LEMMA LogGrows ==
  ASSUME NEW S, NEW log \in Seq(S), NEW q \in S, NEW k \in 0 .. Len(log)
  PROVE  /\ SubSeq(Append(log, q), 1, k) = SubSeq(log, 1, k) /\ Append(log, q) \in Seq(S)
         /\ k \in 0 .. Len(Append(log, q)) /\ B!Numbers(log) \subseteq B!Numbers(Append(log, q))
         /\ B!Numbers(Append(log, q)) = B!Numbers(log) \cup {q.n}
<1> DEFINE new == Append(log, q)
<1>1. /\ Len(log) \in Nat /\ DOMAIN log = 1 .. Len(log) /\ DOMAIN new = 1 .. (Len(log) + 1)
      /\ \A i \in DOMAIN log : new[i] = log[i]
      /\ new[Len(log) + 1] = q /\ new \in Seq(S) /\ Len(new) = Len(log) + 1
  OBVIOUS
<1>2. DOMAIN new = DOMAIN log \cup {Len(log) + 1}
  BY <1>1
<1>3. SubSeq(new, 1, k) = SubSeq(log, 1, k)
  OBVIOUS
<1> HIDE DEF new
<1>4. B!Numbers(new) = B!Numbers(log) \cup {q.n}
  BY <1>1, <1>2 DEF B!Numbers
<1> QED BY <1>1, <1>3, <1>4 DEF new

LEMMA WholeLog ==
  ASSUME NEW S, NEW log \in Seq(S)
  PROVE  SubSeq(log, 1, Len(log)) = log /\ Len(log) \in 0 .. Len(log)
OBVIOUS

-----------------------------------------------------------------------------
(* What requests make of a dictionary, from the proofs about the server *)

LEMMA Assumed ==
  ASSUME SystemAssumption
  PROVE  L!ServerAssumption /\ L!NodesAssumption /\ L!DatabasesAssumption
BY DEF SystemAssumption, L!ServerAssumption, L!NodesAssumption, L!DatabasesAssumption, L!IsDictionary

LEMMA SameAgreement ==
  ASSUME NEW r, NEW old, NEW log
  PROVE  /\ B!Agrees(r, old, log) <=> L!Agrees(r, old, log)
         /\ B!IsDictionary(r) <=> L!IsDictionary(r)
<1>1. ASSUME NEW x, NEW v
      PROVE  B!ValuesAfter(v, old, log, x) <=> L!ValuesAfter(v, old, log, x)
  BY DEF B!ValuesAfter, L!ValuesAfter, B!Left, L!Left, B!Emptied, L!Emptied, B!Puts, L!Puts,
         B!Empties, L!Empties
<1> QED BY <1>1 DEF B!Agrees, L!Agrees, B!NamesAfter, L!NamesAfter, B!IsDictionary, L!IsDictionary

LEMMA AgreesAtFirst ==
  ASSUME SystemAssumption, NEW old, B!IsDictionary(old)
  PROVE  B!Agrees(old, old, <<>>)
BY L!AgreesAtFirst, Assumed, SameAgreement

LEMMA AgreesCreated ==
  ASSUME SystemAssumption, NEW old, NEW S, NEW log \in Seq(S), NEW r, B!IsDictionary(r),
         B!Agrees(r, old, log),
         NEW q \in S, q.code = "POST", q.payload \notin DOMAIN r, q.payload \in Names
  PROVE  /\ B!Agrees(B!Created(r, q.payload), old, Append(log, q))
         /\ B!IsDictionary(B!Created(r, q.payload))
<1>1. L!IsDictionary(r) /\ L!Agrees(r, old, log)
  BY SameAgreement
<1>2. L!Agrees(L!Created(r, q.payload), old, Append(log, q)) /\ L!IsDictionary(L!Created(r, q.payload))
  BY <1>1, L!AgreesCreated, Assumed
<1>3. B!Created(r, q.payload) = L!Created(r, q.payload)
  BY DEF B!Created, L!Created
<1> QED BY <1>2, <1>3, SameAgreement

LEMMA AgreesAdded ==
  ASSUME SystemAssumption, NEW old, B!IsDictionary(old), NEW S, NEW log \in Seq(S), NEW r,
         B!IsDictionary(r), B!Agrees(r, old, log),
         NEW q \in S, q.code = "PUT", q.path \in DOMAIN r, q.payload \in Values
  PROVE  /\ B!Agrees([r EXCEPT ![q.path] = Append(@, q.payload)], old, Append(log, q))
         /\ B!IsDictionary([r EXCEPT ![q.path] = Append(@, q.payload)])
<1> DEFINE new == [r EXCEPT ![q.path] = Append(@, q.payload)]
<1>1. L!IsDictionary(r) /\ L!Agrees(r, old, log) /\ L!IsDictionary(old)
  BY SameAgreement
<1>2. L!Agrees(new, old, Append(log, q)) /\ L!IsDictionary(new)
  BY <1>1, L!AgreesAdded, Assumed
<1> HIDE DEF new
<1>3. B!Agrees(new, old, Append(log, q)) /\ B!IsDictionary(new)
  BY <1>2, SameAgreement
<1> QED BY <1>3 DEF new

LEMMA AgreesDeleted ==
  ASSUME SystemAssumption, NEW old, NEW S, NEW log \in Seq(S), NEW r, B!IsDictionary(r),
         B!Agrees(r, old, log),
         NEW q \in S, q.code = "DELETE", q.path \in DOMAIN r
  PROVE  /\ B!Agrees([r EXCEPT ![q.path] = <<>>], old, Append(log, q))
         /\ B!IsDictionary([r EXCEPT ![q.path] = <<>>])
<1> DEFINE new == [r EXCEPT ![q.path] = <<>>]
<1>1. L!IsDictionary(r) /\ L!Agrees(r, old, log)
  BY SameAgreement
<1>2. L!Agrees(new, old, Append(log, q)) /\ L!IsDictionary(new)
  BY <1>1, L!AgreesDeleted, Assumed
<1> HIDE DEF new
<1>3. B!Agrees(new, old, Append(log, q)) /\ B!IsDictionary(new)
  BY <1>2, SameAgreement
<1> QED BY <1>3 DEF new

-----------------------------------------------------------------------------
(* What a step leaves true of frames that are under way *)

\* The commands typed stay, the served requests stay, and so do the entries of D's maps.
Grown ==
  /\ \A n \in Asked : n \in Asked' /\ queued'[n] = queued[n] /\ seen'[n] = seen[n]
  /\ first' = first
  /\ served' = served \/ \E q \in Message : served' = Append(served, q)
MapsGrown ==
  /\ \A t \in Tokens : D!Known(t) => reverse_token_map'[t] = reverse_token_map[t]
  /\ \A m \in GivenOut : reverse_mid_map'[m] = reverse_mid_map[m]

LEMMA QueuedTypes ==
  ASSUME SystemAssumption, Typed, NEW n \in Asked
  PROVE  /\ n \in Nat /\ queued[n] \in Message /\ queued[n].n = n
         /\ queued[n].token \in ClientTokens /\ queued[n].token # NoToken
         /\ queued[n].mid \in Mids /\ queued[n].mid # 0
         /\ seen[n] \subseteq B!Numbers(served)
<1>1. queued[n] \in Message
  BY DEF Typed, Asked
<1>2. queued[n].mid \in Mids /\ queued[n].mid # 0
  BY <1>1 DEF Message, Mids, SystemAssumption
<1> QED BY <1>1, <1>2 DEF Typed, Asked, SystemAssumption

LEMMA DoneLater ==
  ASSUME served \in Seq(Message), Grown, NEW n \in Asked, NEW c, NEW v, Done(n, c, v)
  PROVE  Done(n, c, v)'
<1>1. CASE served' = served
  BY <1>1 DEF Done, Grown
<1>2. CASE \E q \in Message : served' = Append(served, q)
  <2>1. PICK q \in Message : served' = Append(served, q)
    BY <1>2
  <2>2. Len(served) \in 0 .. Len(served) /\ B!Numbers(served) \subseteq B!Numbers(served')
    BY <2>1, LogGrows, WholeLog
  <2>3. B!Numbers(served) \subseteq B!Numbers(served)'
    BY <2>2 DEF B!Numbers
  <2>4. ASSUME c = "CONTENT", v \notin Pieces
        PROVE  \E k \in 0 .. Len(served') :
                 /\ B!ValuesAfter(v, first', SubSeq(served', 1, k), queued'[n].path)
                 /\ seen'[n] \subseteq B!Numbers(SubSeq(served', 1, k))
    <3>1. PICK k \in 0 .. Len(served) :
                 /\ B!ValuesAfter(v, first, SubSeq(served, 1, k), queued[n].path)
                 /\ seen[n] \subseteq B!Numbers(SubSeq(served, 1, k))
      BY <2>4 DEF Done
    <3>2. k \in 0 .. Len(served') /\ SubSeq(served', 1, k) = SubSeq(served, 1, k)
      BY <2>1, LogGrows
    <3> QED BY <3>1, <3>2 DEF Grown
  <2> QED BY <2>3, <2>4 DEF Done
<1> QED BY <1>1, <1>2 DEF Grown

LEMMA Later ==
  ASSUME SystemAssumption, Typed, served \in Seq(Message), Grown, NEW f
  PROVE  /\ Matched(f) => Matched(f)'
         /\ Reply(f) => Reply(f)'
         /\ FromUser(f) => FromUser(f)'
         /\ MapsGrown => /\ Mapped(f) => Mapped(f)'
                         /\ Forwarded(f) => Forwarded(f)'
<1>1. Matched(f) => Matched(f)'
  BY DEF Matched, Grown
<1>2. Reply(f) => Reply(f)'
  <2>1. SUFFICES ASSUME Reply(f) PROVE Reply(f)'
    OBVIOUS
  <2>2. f.n \in Asked /\ Done(f.n, f.code, f.payload)
    BY <2>1 DEF Reply
  <2>3. Done(f.n, f.code, f.payload)'
    BY <2>2, DoneLater
  <2> QED BY <2>1, <2>2, <2>3 DEF Reply, Grown
<1>3. FromUser(f) => FromUser(f)'
  BY DEF FromUser, Grown
<1>4. ASSUME MapsGrown, Mapped(f)
      PROVE  Mapped(f)'
  <2>1. /\ f.n \in Asked /\ f.token \in Tokens /\ f.mid \in Mids
        /\ reverse_token_map[f.token] = queued[f.n].token
        /\ reverse_mid_map[f.mid] = queued[f.n].mid
    BY <1>4 DEF Mapped
  <2>2. D!Known(f.token) /\ f.mid \in GivenOut
    BY <2>1, QueuedTypes DEF D!Known, GivenOut
  <2> QED BY <2>1, <2>2, <1>4 DEF Mapped, MapsGrown, Grown
<1>5. ASSUME MapsGrown, Forwarded(f)
      PROVE  Forwarded(f)'
  BY <1>5, <1>4 DEF Forwarded, Grown, Mapped
<1> QED BY <1>1, <1>2, <1>3, <1>4, <1>5

-----------------------------------------------------------------------------
(* The parts of the invariant that a step leaves alone *)

LEMMA BundlesLater ==
  ASSUME SystemAssumption, IInv, Grown, MapsGrown, NEW b \in net
  PROVE  BundleRight(b)'
<1>1. BundleRight(b) /\ Typed /\ served \in Seq(Message)
  BY DEF IInv, NetRight, ServerRight
<1> HIDE DEF IInv
<1>2. /\ FromUser(b.adu) => FromUser(b.adu)'
      /\ Mapped(b.adu[1]) => Mapped(b.adu[1])'
      /\ Reply(b.adu[1]) => Reply(b.adu[1])'
      /\ Matched(b.adu[1]) => Matched(b.adu[1])'
      /\ Forwarded(b.adu[1]) => Forwarded(b.adu[1])'
  BY <1>1, Later
<1> QED BY ONLY <1>1, <1>2 DEF BundleRight

LEMMA PrintedLater ==
  ASSUME SystemAssumption, IInv, Grown, printed' = printed
  PROVE  PrintedRight'
<1>1. Typed /\ served \in Seq(Message) /\ PrintedRight
  BY DEF IInv, ServerRight
<1>2. ASSUME NEW r \in printed
      PROVE  Matched(r)' /\ Reply(r)'
  BY <1>1, <1>2, Later DEF PrintedRight
<1> QED BY <1>2 DEF PrintedRight

LEMMA ProxyLater ==
  ASSUME SystemAssumption, IInv, Grown, UNCHANGED proxyVars
  PROVE  ProxyRight' /\ MapsGrown
<1>1. Typed /\ served \in Seq(Message) /\ ProxyRight
  BY DEF IInv, ServerRight
<1>2. MapsGrown
  BY DEF MapsGrown, proxyVars
<1>3. ASSUME src_eid = NodeA PROVE FromUser(proxy_payload)'
  <2> PICK s : s = proxy_payload
    OBVIOUS
  <2>1. FromUser(s)
    BY <1>1, <1>3 DEF ProxyRight
  <2>2. FromUser(s)'
    BY <1>1, <2>1, Later
  <2>3. s = proxy_payload'
    BY DEF proxyVars
  <2> QED BY <2>2, <2>3
<1>4. ASSUME src_eid = NodeB
      PROVE  \/ proxy_payload' = <<>>
             \/ /\ proxy_payload' = <<Head(proxy_payload')>>
                /\ Mapped(Head(proxy_payload))' /\ Reply(Head(proxy_payload))'
  <2> PICK f : f = Head(proxy_payload)
    OBVIOUS
  <2>1. \/ proxy_payload = <<>>
        \/ proxy_payload = <<f>> /\ Mapped(f) /\ Reply(f)
    BY <1>1, <1>4 DEF ProxyRight
  <2>2. (Mapped(f) => Mapped(f)') /\ (Reply(f) => Reply(f)')
    BY <1>1, <1>2, Later
  <2>3. f = Head(proxy_payload') /\ proxy_payload' = proxy_payload
    BY DEF proxyVars
  <2>4. CASE proxy_payload = <<>>
    BY <2>3, <2>4
  <2>5. CASE proxy_payload = <<f>> /\ Mapped(f) /\ Reply(f)
    <3>1. Mapped(Head(proxy_payload))'
      BY <2>2, <2>3, <2>5
    <3>2. Reply(Head(proxy_payload))'
      BY <2>2, <2>3, <2>5
    <3> QED BY <3>1, <3>2, <2>3, <2>5
  <2> QED BY <2>1, <2>4, <2>5
<1> QED BY <1>1, <1>2, <1>3, <1>4 DEF ProxyRight, proxyVars

LEMMA ServerLater ==
  ASSUME SystemAssumption, IInv, Grown, MapsGrown, UNCHANGED serverVars,
         served' = served, first' = first
  PROVE  ServerRight'
<1>1. Typed /\ served \in Seq(Message) /\ ServerRight
  BY DEF IInv, ServerRight
<1> PICK f : f = B!Request
  OBVIOUS
<1>2. f = B!Request' /\ UNCHANGED <<resources, recv_payload, pc, code, content>>
  BY DEF serverVars, B!Request
<1>3. recv_payload' = <<>> \/ (recv_payload' = <<B!Request'>> /\ Forwarded(B!Request)')
  <2>1. recv_payload = <<>> \/ (recv_payload = <<f>> /\ Forwarded(f))
    BY <1>1 DEF ServerRight
  <2>2. Forwarded(f) => Forwarded(f)'
    BY <1>1, Later
  <2>3. CASE recv_payload = <<>>
    BY <2>3, <1>2
  <2>4. CASE recv_payload = <<f>> /\ Forwarded(f)
    <3>1. Forwarded(B!Request)'
      BY <2>2, <2>4, <1>2
    <3> QED BY <3>1, <2>4, <1>2
  <2> QED BY <2>1, <2>3, <2>4
<1>4. ASSUME pc = "respond" PROVE Done(B!Request.n, code, content)'
  <2> PICK c, v : c = code /\ v = content
    OBVIOUS
  <2>1. recv_payload # <<>> /\ Done(f.n, c, v)
    BY <1>1, <1>4 DEF ServerRight
  <2>2. f.n \in Asked
    BY <1>1, <2>1 DEF ServerRight, Forwarded, Mapped
  <2>3. Done(f.n, c, v)'
    BY <1>1, <2>1, <2>2, DoneLater
  <2> QED BY <2>3, <1>2
<1>5. ASSUME pc = "saving" PROVE code \in B!Success /\ B!Request.n \in B!Numbers(served)
  BY <1>1, <1>5 DEF ServerRight
<1>6. /\ B!IsDictionary(first)' /\ B!IsDictionary(resources)' /\ (served \in Seq(Message))'
      /\ B!Agrees(resources, first, served)'
  BY <1>1, <1>2 DEF ServerRight
<1>7. /\ (pc \in {"idle", "loop", "saving", "respond"})'
      /\ (pc \in {"saving", "respond"} => recv_payload # <<>>)'
  BY <1>1, <1>2 DEF ServerRight
<1>8. (pc = "saving" => code \in B!Success /\ B!Request.n \in B!Numbers(served))'
  BY <1>5, <1>2 DEF B!Success, B!Numbers
<1> QED BY <1>2, <1>3, <1>4, <1>6, <1>7, <1>8 DEF ServerRight

LEMMA OnePlaceLater ==
  ASSUME OnePlace, Gone \subseteq Gone', UNCHANGED <<src_eid, proxy_payload, recv_payload, pc, served>>,
         RequestBundles' \subseteq RequestBundles
  PROVE  OnePlace'
<1>1. AtD' = AtD /\ AtB' = AtB /\ B!Numbers(served)' = B!Numbers(served)
  BY DEF AtD, AtB, B!Numbers
<1>2. ASSUME NEW b \in RequestBundles'
      PROVE  /\ B!Numbers(b.adu) \subseteq Gone'
             /\ B!Numbers(b.adu) \cap (AtD \cup AtB \cup B!Numbers(served))' = {}
             /\ \A c \in RequestBundles' : b # c => B!Numbers(b.adu) \cap B!Numbers(c.adu) = {}
  BY <1>1, <1>2 DEF OnePlace
<1>3. \A b \in RequestBundles' :
        /\ B!Numbers(b.adu)' \subseteq Gone'
        /\ B!Numbers(b.adu)' \cap (AtD \cup AtB \cup B!Numbers(served))' = {}
        /\ \A c \in RequestBundles' : b # c => B!Numbers(b.adu)' \cap B!Numbers(c.adu)' = {}
  BY <1>2 DEF B!Numbers
<1>4. /\ (AtD \cup AtB \cup B!Numbers(served))' \subseteq Gone'
      /\ AtD' \cap (AtB \cup B!Numbers(served))' = {} /\ AtB' \cap B!Numbers(served)' = {}
      /\ \A i, j \in DOMAIN served' : served'[i].n = served'[j].n => i = j
  BY <1>1 DEF OnePlace
<1> QED BY <1>3, <1>4 DEF OnePlace

LEMMA IdsLater ==
  ASSUME IdsGivenOut, Gone \subseteq Gone', UNCHANGED proxyVars,
         \A n \in Gone : ToForward(n)' => ToForward(n)
  PROVE  IdsGivenOut'
<1> PICK start \in Mids, G \in SUBSET Gone :
      (\A n \in G : ~ToForward(n)) /\ Interval(start, Cardinality(G))
  BY DEF IdsGivenOut
<1>1. Interval(start, Cardinality(G))'
  BY DEF Interval, GivenOut, proxyVars
<1>2. G \in SUBSET Gone' /\ \A n \in G : ~ToForward(n)'
  OBVIOUS
<1> QED BY <1>1, <1>2 DEF IdsGivenOut

-----------------------------------------------------------------------------
(* The steps of A *)

\* No task waits in drain(): the transport was never paused, or has let all of them go on.
Unhindered == waiters = <<>> /\ woken = <<>>

\* What a step that only A takes part in leaves to show.
LEMMA ClientLater ==
  ASSUME SystemAssumption, IInv, UNCHANGED <<proxyVars, serverVars, history, current_id>>
  PROVE  Grown /\ MapsGrown /\ Typed' /\ ProxyRight' /\ ServerRight' /\ Asked' = Asked
<1>1. Grown /\ Asked' = Asked
  BY DEF Grown, history, Asked
<1>2. Typed'
  BY <1>1 DEF IInv, Typed, history, B!Numbers
<1>3. UNCHANGED proxyVars /\ UNCHANGED serverVars /\ served' = served /\ first' = first
  BY DEF history
<1> QED BY <1>1, <1>2, <1>3, ProxyLater, ServerLater

LEMMA ExpireRight ==
  ASSUME SystemAssumption, IInv, NEW t \in DOMAIN at, A!Expire(t),
         UNCHANGED <<proxyVars, serverVars, history>>
  PROVE  IInv'
<1>1. /\ A!LoopIdle /\ DOMAIN at' = DOMAIN at
      /\ \A u \in DOMAIN at : at'[u] # "finish" /\ (at'[u] = "write" => u = t)
      /\ UNCHANGED <<coap_buffer, stream, printed, net, current_id>>
  <2>1. /\ A!LoopIdle /\ UNCHANGED <<coap_buffer, stream, printed, net, current_id>>
        /\ at' = [at EXCEPT ![t] = IF coap_buffer = <<>> THEN "done" ELSE "write"]
    BY DEF A!Expire, A!network
  <2>2. \A u \in DOMAIN at : at[u] # "finish" /\ at[u] # "write"
    BY <2>1 DEF A!LoopIdle
  <2>3. \A u \in DOMAIN at :
          at'[u] = IF u = t THEN IF coap_buffer = <<>> THEN "done" ELSE "write" ELSE at[u]
    BY <2>1
  <2> QED BY <2>1, <2>2, <2>3
<1>2. ~Finishing /\ ~Finishing'
  BY <1>1 DEF Finishing, A!LoopIdle
<1>3. Grown /\ MapsGrown /\ Typed' /\ ProxyRight' /\ ServerRight' /\ Asked' = Asked
  BY <1>1, ClientLater
<1>4. queued' = queued /\ Written' = Written /\ Gone' = Gone
  BY <1>1, <1>2 DEF history, Written, Gone, B!Numbers
<1>5. ClientRight'
  <2>1. TasksRight'
    BY <1>1 DEF TasksRight
  <2>2. BufferRight'
    BY <1>1, <1>2, <1>3, <1>4 DEF IInv, ClientRight, BufferRight, FromUser
  <2>3. StreamRight'
    BY <1>1, <1>3, <1>4 DEF IInv, ClientRight, StreamRight, FromUser, B!Numbers
  <2> QED BY <2>1, <2>2, <2>3 DEF ClientRight
<1>6. NetRight' /\ PrintedRight'
  BY <1>1, <1>3, BundlesLater, PrintedLater DEF NetRight
<1>7. RequestBundles' = RequestBundles /\ \A n : ToForward(n)' => ToForward(n)
  BY <1>1 DEF RequestBundles, ToForward, AtD, proxyVars, B!Numbers
<1>8. OnePlace' /\ IdsGivenOut'
  <2>1. UNCHANGED <<src_eid, proxy_payload, recv_payload, pc, served>> /\ UNCHANGED proxyVars
    BY DEF proxyVars, serverVars, history
  <2> QED BY <2>1, <1>4, <1>7, OnePlaceLater, IdsLater DEF IInv
<1> QED BY <1>3, <1>5, <1>6, <1>8 DEF IInv

LEMMA SendAduRight ==
  ASSUME SystemAssumption, IInv, Unhindered, Unhindered', NEW t \in DOMAIN at, A!SendAdu(t),
         UNCHANGED <<proxyVars, serverVars, history>>
  PROVE  IInv'
<1>1. /\ at[t] = "write" /\ stream' = Append(stream, coap_buffer)
      /\ at' = [at EXCEPT ![t] = "finish"]
      /\ UNCHANGED <<coap_buffer, printed, net, current_id>>
  <2>1. ~(waiters' = Append(waiters, t))
    BY DEF Unhindered
  <2> QED BY <2>1 DEF A!SendAdu, A!network
<1>2. ~Finishing /\ Finishing' /\ queued' = queued
  <2>1. Finishing'
    BY <1>1 DEF Finishing
  <2>2. \A u \in DOMAIN at : u = t \/ at[u] # "finish"
    BY <1>1 DEF IInv, ClientRight, TasksRight
  <2> QED BY <1>1, <2>1, <2>2 DEF Finishing, history
<1>3. Grown /\ MapsGrown /\ Typed' /\ ProxyRight' /\ ServerRight' /\ Asked' = Asked
  BY <1>1, ClientLater
<1>4. /\ Written = Len(queued) - Len(coap_buffer) /\ Written' = Len(queued)
      /\ Len(coap_buffer) <= Len(queued) /\ Len(queued) \in Nat /\ Len(coap_buffer) \in Nat
      /\ \A y \in B!Numbers(coap_buffer) : Written < y /\ y <= Len(queued) /\ y \in Nat
  <2>1. Len(queued) \in Nat /\ coap_buffer \in Seq(Message) /\ Len(coap_buffer) <= Len(queued)
    BY <1>2 DEF IInv, Typed, ClientRight, BufferRight, FromUser
  <2>2. \A i \in DOMAIN coap_buffer :
          coap_buffer[i].n = Len(queued) - Len(coap_buffer) + i
    BY <1>2 DEF IInv, ClientRight, BufferRight
  <2>3. ASSUME NEW i \in DOMAIN coap_buffer
        PROVE  /\ Len(queued) - Len(coap_buffer) < coap_buffer[i].n
               /\ coap_buffer[i].n <= Len(queued) /\ coap_buffer[i].n \in Nat
    BY <2>1, <2>2, <2>3
  <2>4. Written = Len(queued) - Len(coap_buffer)
    BY <1>2 DEF Written
  <2>5. Written' = Len(queued)
    BY <1>2 DEF Written
  <2>6. Len(coap_buffer) \in Nat
    BY <2>1
  <2>7. \A y \in B!Numbers(coap_buffer) :
          Len(queued) - Len(coap_buffer) < y /\ y <= Len(queued) /\ y \in Nat
    BY <2>3, Zenon DEF B!Numbers
  <2> QED BY ONLY <2>1, <2>4, <2>5, <2>6, <2>7
<1>5. /\ stream' \in Seq(Seq(Message))
      /\ DOMAIN stream' = DOMAIN stream \cup {Len(stream) + 1}
      /\ stream'[Len(stream) + 1] = coap_buffer
      /\ \A i \in DOMAIN stream : stream'[i] = stream[i] /\ i < Len(stream) + 1 /\ i \in Nat
      /\ Len(stream) + 1 \notin DOMAIN stream /\ Len(stream) \in Nat
  <2>1. stream \in Seq(Seq(Message)) /\ coap_buffer \in Seq(Message)
    BY DEF IInv, ClientRight, StreamRight, BufferRight, FromUser
  <2> HIDE DEF Message
  <2> QED BY <1>1, <2>1
<1>6. \A i \in DOMAIN stream : \A y \in B!Numbers(stream[i]) : y \in Nat /\ y <= Written /\ y >= 1
  <2>1. Written \in Nat
    BY <1>4
  <2> QED BY <2>1 DEF IInv, ClientRight, StreamRight
<1>7. Gone \subseteq Gone'
  <2>1. SUFFICES ASSUME NEW n \in Gone PROVE n \in Gone'
    OBVIOUS
  <2>2. /\ n \in 1 .. Written
        /\ \A i \in DOMAIN stream : \A y \in B!Numbers(stream[i]) : n < y
    BY <2>1 DEF Gone
  <2>3. n \in 1 .. Written'
    BY <2>2, <1>4
  <2>4. ASSUME NEW i \in DOMAIN stream', NEW y \in B!Numbers(stream'[i])
        PROVE  n < y
    <3>1. CASE i \in DOMAIN stream
      BY <3>1, <2>2, <2>4, <1>5
    <3>2. CASE i = Len(stream) + 1
      BY <3>2, <2>2, <2>4, <1>4, <1>5
    <3> QED BY <3>1, <3>2, <1>5
  <2>5. \A i \in DOMAIN stream' : \A y \in B!Numbers(stream[i])' : n < y
    BY <2>4 DEF B!Numbers
  <2> QED BY <2>3, <2>5 DEF Gone
<1>8. ClientRight'
  <2>1. TasksRight'
    <3>1. \A u \in DOMAIN at : at'[u] = IF u = t THEN "finish" ELSE at[u]
      BY <1>1
    <3>2. \A u \in DOMAIN at : at[u] \in {"write", "finish"} => u = t
      BY <1>1 DEF IInv, ClientRight, TasksRight
    <3> QED BY <1>1, <3>1, <3>2 DEF TasksRight
  <2>2. FromUser(coap_buffer)'
    BY <1>1, <1>2, <1>3 DEF IInv, ClientRight, BufferRight, FromUser
  <2>3. BufferRight'
    BY <1>2, <2>2 DEF BufferRight
  <2>4. StreamRight'
    <3>1. ASSUME NEW i \in DOMAIN stream'
          PROVE  FromUser(stream[i])' /\ B!Numbers(stream[i])' \subseteq 1 .. Written'
      <4>1. CASE i \in DOMAIN stream
        <5>1. FromUser(stream[i]) /\ stream'[i] = stream[i]
          BY <4>1, <1>5 DEF IInv, ClientRight, StreamRight
        <5>2. B!Numbers(stream[i]) \subseteq 1 .. Written'
          BY <4>1, <1>4, <1>6
        <5> QED BY <5>1, <5>2, <1>2, <1>3 DEF FromUser, B!Numbers
      <4>2. CASE i = Len(stream) + 1
        <5>1. FromUser(coap_buffer) /\ stream'[i] = coap_buffer
          BY <4>2, <1>5 DEF IInv, ClientRight, BufferRight
        <5>2. B!Numbers(coap_buffer) \subseteq 1 .. Written'
          BY <1>4
        <5> QED BY <5>1, <5>2, <1>2, <1>3 DEF FromUser, B!Numbers
      <4> QED BY <4>1, <4>2, <1>5
    <3>2. ASSUME NEW i \in DOMAIN stream', NEW j \in DOMAIN stream', i < j,
                 NEW x \in B!Numbers(stream'[i]), NEW y \in B!Numbers(stream'[j])
          PROVE  x < y
      <4>1. CASE j \in DOMAIN stream
        <5>1. i \in DOMAIN stream
          BY <4>1, <3>2, <1>5
        <5> QED BY <4>1, <5>1, <3>2, <1>5 DEF IInv, ClientRight, StreamRight
      <4>2. CASE j = Len(stream) + 1
        <5>1. i \in DOMAIN stream
          BY <4>2, <3>2, <1>5
        <5>2. x \in B!Numbers(stream[i]) /\ y \in B!Numbers(coap_buffer)
          BY <4>2, <5>1, <3>2, <1>5
        <5> QED BY <5>1, <5>2, <1>4, <1>6
      <4> QED BY <4>1, <4>2, <1>5
    <3>3. \A i, j \in DOMAIN stream' : i < j =>
            \A x \in B!Numbers(stream[i])', y \in B!Numbers(stream[j])' : x < y
      BY <3>2 DEF B!Numbers
    <3> QED BY <1>5, <3>1, <3>3 DEF StreamRight
  <2> QED BY <2>1, <2>3, <2>4 DEF ClientRight
<1>9. NetRight' /\ PrintedRight'
  BY <1>1, <1>3, BundlesLater, PrintedLater DEF NetRight
<1>10. RequestBundles' = RequestBundles /\ \A n : ToForward(n)' => ToForward(n)
  BY <1>1 DEF RequestBundles, ToForward, AtD, proxyVars, B!Numbers
<1>11. OnePlace' /\ IdsGivenOut'
  <2>1. UNCHANGED <<src_eid, proxy_payload, recv_payload, pc, served>> /\ UNCHANGED proxyVars
    BY DEF proxyVars, serverVars, history
  <2> QED BY <2>1, <1>7, <1>10, OnePlaceLater, IdsLater DEF IInv
<1> QED BY <1>3, <1>8, <1>9, <1>11 DEF IInv

LEMMA FinishFlushRight ==
  ASSUME SystemAssumption, IInv, NEW t \in DOMAIN at, A!FinishFlush(t),
         UNCHANGED <<proxyVars, serverVars, history>>
  PROVE  IInv'
<1>1. /\ at[t] = "finish" /\ coap_buffer' = <<>> /\ at' = A!Finished(t)
      /\ UNCHANGED <<stream, printed, net, current_id>>
  BY DEF A!FinishFlush, A!network
<1>2. /\ DOMAIN at' = DOMAIN at
      /\ \A u \in DOMAIN at : at'[u] \notin {"write", "finish"}
  <2>1. ASSUME NEW u \in DOMAIN at
        PROVE  at'[u] \in {"input", "done", at[u]} /\ (u = t => at'[u] \in {"input", "done"})
    BY <1>1, <2>1 DEF A!Finished
  <2>2. \A u \in DOMAIN at : at[u] \in {"write", "finish"} => u = t
    BY <1>1 DEF IInv, ClientRight, TasksRight
  <2>3. DOMAIN at' = DOMAIN at
    BY <1>1 DEF A!Finished
  <2> QED BY <2>1, <2>2, <2>3
<1>3. Finishing /\ ~Finishing'
  BY <1>1, <1>2 DEF Finishing
<1>4. Grown /\ MapsGrown /\ Typed' /\ ProxyRight' /\ ServerRight' /\ Asked' = Asked
  BY <1>1, ClientLater
<1>5. queued' = queued /\ Written' = Written /\ Gone' = Gone /\ Len(queued) \in Nat
  <2>1. Len(coap_buffer') = 0 /\ Len(queued) \in Nat /\ queued' = queued
    BY <1>1 DEF IInv, Typed, history
  <2>2. Written' = Written
    <3>1. Written = Len(queued)
      BY <1>3 DEF Written
    <3>2. Written' = Len(queued) - 0
      BY <1>3, <2>1, Zenon DEF Written
    <3> QED BY ONLY <2>1, <3>1, <3>2
  <2> QED BY <1>1, <2>1, <2>2 DEF Gone, B!Numbers
<1>6. ClientRight'
  <2>1. TasksRight'
    BY <1>2 DEF TasksRight
  <2>2. BufferRight'
    BY <1>1, <1>5 DEF BufferRight, FromUser, Ascending
  <2>3. StreamRight'
    BY <1>1, <1>4, <1>5 DEF IInv, ClientRight, StreamRight, FromUser, B!Numbers
  <2> QED BY <2>1, <2>2, <2>3 DEF ClientRight
<1>7. NetRight' /\ PrintedRight'
  BY <1>1, <1>4, BundlesLater, PrintedLater DEF NetRight
<1>8. RequestBundles' = RequestBundles /\ \A n : ToForward(n)' => ToForward(n)
  BY <1>1 DEF RequestBundles, ToForward, AtD, proxyVars, B!Numbers
<1>9. OnePlace' /\ IdsGivenOut'
  <2>1. UNCHANGED <<src_eid, proxy_payload, recv_payload, pc, served>> /\ UNCHANGED proxyVars
    BY DEF proxyVars, serverVars, history
  <2> QED BY <2>1, <1>5, <1>8, OnePlaceLater, IdsLater DEF IInv
<1> QED BY <1>4, <1>6, <1>7, <1>9 DEF IInv

LEMMA ChatReceiveRight ==
  ASSUME SystemAssumption, IInv, NEW b \in net, A!ChatReceive(b),
         UNCHANGED <<proxyVars, serverVars, history>>
  PROVE  IInv'
<1>1. /\ b.dst = NodeA /\ net' = net \ {b} /\ printed' = printed \cup {b.adu[1]}
      /\ UNCHANGED <<coap_buffer, stream, at, current_id>>
  BY DEF A!ChatReceive, A!Deliver, A!tasks
<1>2. Grown /\ MapsGrown /\ Typed' /\ ProxyRight' /\ ServerRight' /\ Asked' = Asked
  BY <1>1, ClientLater
<1>3. queued' = queued /\ Written' = Written /\ Gone' = Gone
  BY <1>1 DEF history, Written, Finishing, Gone, B!Numbers
<1>4. ClientRight'
  <2>1. TasksRight'
    BY <1>1 DEF IInv, ClientRight, TasksRight
  <2>2. BufferRight'
    BY <1>1, <1>2, <1>3 DEF IInv, ClientRight, BufferRight, FromUser, Finishing
  <2>3. StreamRight'
    BY <1>1, <1>2, <1>3 DEF IInv, ClientRight, StreamRight, FromUser, B!Numbers
  <2> QED BY <2>1, <2>2, <2>3 DEF ClientRight
<1>5. NetRight'
  BY <1>1, <1>2, BundlesLater DEF NetRight
<1>6. PrintedRight'
  <2>1. ASSUME NEW r \in printed'
        PROVE  Matched(r)' /\ Reply(r)'
    <3>1. Matched(r) /\ Reply(r)
      BY <1>1, <2>1 DEF IInv, PrintedRight, NetRight, BundleRight
    <3> QED BY <3>1, <1>2, Later DEF IInv, ServerRight
  <2> QED BY <2>1 DEF PrintedRight
<1>7. RequestBundles' \subseteq RequestBundles /\ \A n : ToForward(n)' => ToForward(n)
  BY <1>1 DEF RequestBundles, ToForward, AtD, proxyVars, B!Numbers
<1>8. OnePlace' /\ IdsGivenOut'
  <2>1. UNCHANGED <<src_eid, proxy_payload, recv_payload, pc, served>> /\ UNCHANGED proxyVars
    BY DEF proxyVars, serverVars, history
  <2> QED BY <2>1, <1>3, <1>7, OnePlaceLater, IdsLater DEF IInv
<1> QED BY <1>2, <1>4, <1>5, <1>6, <1>8 DEF IInv

\* The first ADU of the stream becomes a bundle.
LEMMA AcceptRight ==
  ASSUME SystemAssumption, IInv, A!Accept, UNCHANGED <<proxyVars, serverVars, history>>
  PROVE  IInv'
<1> PICK s : s = Head(stream)
  OBVIOUS
<1> PICK new : new = [src |-> NodeA, dst |-> NodeD, seq |-> seqno[NodeA], adu |-> s]
  OBVIOUS
<1>1. /\ stream # <<>> /\ stream' = Tail(stream) /\ net' = net \cup {new}
      /\ UNCHANGED <<coap_buffer, at, current_id, printed>>
  BY DEF A!Accept, A!Submit, A!Bundle, A!tasks
<1>2. Grown /\ MapsGrown /\ Typed' /\ ProxyRight' /\ ServerRight' /\ Asked' = Asked
  BY <1>1, ClientLater
<1>3. queued' = queued /\ Written' = Written
  BY <1>1 DEF history, Written, Finishing
<1>4. /\ 1 \in DOMAIN stream /\ s = stream[1] /\ stream' \in Seq(Seq(Message))
      /\ \A i \in DOMAIN stream' : i + 1 \in DOMAIN stream /\ stream'[i] = stream[i + 1] /\ 1 < i + 1
                                   /\ i \in Nat
  <2>1. stream \in Seq(Seq(Message))
    BY DEF IInv, ClientRight, StreamRight
  <2> HIDE DEF Message
  <2> QED BY <1>1, <2>1
<1>5. /\ FromUser(s) /\ B!Numbers(s) \subseteq 1 .. Written
      /\ B!Numbers(s) \cap Gone = {}
  <2>1. FromUser(s) /\ B!Numbers(s) \subseteq 1 .. Written
    BY <1>4 DEF IInv, ClientRight, StreamRight
  <2>2. ASSUME NEW n \in Gone, n \in B!Numbers(s)
        PROVE  FALSE
    <3>1. n < n /\ n \in Int
      BY <1>4, <2>2 DEF Gone
    <3> QED BY <3>1
  <2> QED BY <2>1, <2>2
<1>6. Gone \cup B!Numbers(s) \subseteq Gone'
  <2>1. ASSUME NEW n \in Gone \cup B!Numbers(s), NEW i \in DOMAIN stream', NEW y \in B!Numbers(stream'[i])
        PROVE  n < y
    <3>1. y \in B!Numbers(stream[i + 1]) /\ i + 1 \in DOMAIN stream /\ 1 < i + 1
      BY <2>1, <1>4
    <3>2. CASE n \in Gone
      BY <3>1, <3>2 DEF Gone
    <3>3. CASE n \in B!Numbers(s)
      BY <3>1, <3>3, <1>4 DEF IInv, ClientRight, StreamRight
    <3> QED BY <2>1, <3>2, <3>3
  <2>2. \A n \in Gone \cup B!Numbers(s) : n \in 1 .. Written'
    BY <1>3, <1>5 DEF Gone
  <2>3. \A n \in Gone \cup B!Numbers(s) : \A i \in DOMAIN stream' : \A y \in B!Numbers(stream[i])' : n < y
    BY <2>1 DEF B!Numbers
  <2> QED BY <2>2, <2>3 DEF Gone
<1>7. ClientRight'
  <2>1. TasksRight'
    BY <1>1 DEF IInv, ClientRight, TasksRight
  <2>2. BufferRight'
    BY <1>1, <1>2, <1>3 DEF IInv, ClientRight, BufferRight, FromUser, Finishing
  <2>3. StreamRight'
    <3>1. ASSUME NEW i \in DOMAIN stream'
          PROVE  FromUser(stream[i])' /\ B!Numbers(stream[i])' \subseteq 1 .. Written'
      <4>1. FromUser(stream'[i]) /\ B!Numbers(stream'[i]) \subseteq 1 .. Written
        BY <3>1, <1>4 DEF IInv, ClientRight, StreamRight
      <4> QED BY <4>1, <1>2, <1>3 DEF FromUser, B!Numbers
    <3>2. ASSUME NEW i \in DOMAIN stream', NEW j \in DOMAIN stream', i < j,
                 NEW x \in B!Numbers(stream'[i]), NEW y \in B!Numbers(stream'[j])
          PROVE  x < y
      <4>1. i + 1 < j + 1
        BY <1>4, <3>2
      <4> QED BY <4>1, <3>2, <1>4 DEF IInv, ClientRight, StreamRight
    <3>3. \A i, j \in DOMAIN stream' : i < j =>
            \A x \in B!Numbers(stream[i])', y \in B!Numbers(stream[j])' : x < y
      BY <3>2 DEF B!Numbers
    <3> QED BY <1>4, <3>1, <3>3 DEF StreamRight
  <2> QED BY <2>1, <2>2, <2>3 DEF ClientRight
<1>8. /\ new.dst = NodeD /\ new.src = NodeA /\ new.adu = s
      /\ NodeD # NodeB /\ NodeD # NodeA
  BY DEF SystemAssumption
<1>9. NetRight' /\ PrintedRight'
  <2>1. FromUser(s)'
    BY <1>2, <1>5, Later DEF IInv, ServerRight
  <2>2. BundleRight(new)'
    BY <2>1, <1>8 DEF BundleRight
  <2>3. \A b \in net : BundleRight(b)'
    BY <1>2, BundlesLater
  <2>4. NetRight'
    BY <1>1, <2>2, <2>3 DEF NetRight
  <2> QED BY <1>1, <1>2, <2>4, PrintedLater
<1>10. RequestBundles' = RequestBundles \cup {new}
  BY <1>1, <1>8 DEF RequestBundles
<1>11. AtD' = AtD /\ AtB' = AtB /\ B!Numbers(served)' = B!Numbers(served) /\ served' = served
  BY DEF AtD, AtB, B!Numbers, proxyVars, serverVars, history
<1>12. OnePlace'
  <2>1. ASSUME NEW b \in RequestBundles'
        PROVE  /\ B!Numbers(b.adu) \subseteq Gone'
               /\ B!Numbers(b.adu) \cap (AtD \cup AtB \cup B!Numbers(served)) = {}
               /\ \A c \in RequestBundles' : b # c => B!Numbers(b.adu) \cap B!Numbers(c.adu) = {}
    <3>1. \A c \in RequestBundles : B!Numbers(c.adu) \subseteq Gone
      BY DEF IInv, OnePlace
    <3>2. AtD \cup AtB \cup B!Numbers(served) \subseteq Gone
      BY DEF IInv, OnePlace
    <3>3. CASE b \in RequestBundles
      <4>1. \A c \in RequestBundles : b # c => B!Numbers(b.adu) \cap B!Numbers(c.adu) = {}
        BY <3>3 DEF IInv, OnePlace
      <4>2. B!Numbers(b.adu) \cap (AtD \cup AtB \cup B!Numbers(served)) = {}
        BY <3>3 DEF IInv, OnePlace
      <4> QED BY <4>1, <4>2, <3>1, <3>3, <1>5, <1>6, <1>8, <1>10
    <3>4. CASE b = new
      BY <3>1, <3>2, <3>4, <1>5, <1>6, <1>8, <1>10
    <3> QED BY <2>1, <3>3, <3>4, <1>10
  <2>2. \A b \in RequestBundles' :
          /\ B!Numbers(b.adu)' \subseteq Gone'
          /\ B!Numbers(b.adu)' \cap (AtD \cup AtB \cup B!Numbers(served))' = {}
          /\ \A c \in RequestBundles' : b # c => B!Numbers(b.adu)' \cap B!Numbers(c.adu)' = {}
    BY <2>1, <1>11 DEF B!Numbers
  <2>3. /\ (AtD \cup AtB \cup B!Numbers(served))' \subseteq Gone'
        /\ AtD' \cap (AtB \cup B!Numbers(served))' = {} /\ AtB' \cap B!Numbers(served)' = {}
        /\ \A i, j \in DOMAIN served' : served'[i].n = served'[j].n => i = j
    BY <1>6, <1>11 DEF IInv, OnePlace
  <2> QED BY <2>2, <2>3 DEF OnePlace
<1>13. IdsGivenOut'
  <2>1. \A n \in Gone : ToForward(n)' => ToForward(n)
    BY <1>1, <1>5, <1>8, <1>11 DEF ToForward, B!Numbers
  <2>2. UNCHANGED proxyVars
    OBVIOUS
  <2> QED BY <2>1, <2>2, <1>6, IdsLater DEF IInv
<1> QED BY <1>2, <1>7, <1>9, <1>12, <1>13 DEF IInv

LEMMA NextIds ==
  ASSUME SystemAssumption
  PROVE  /\ current_id \in Mids => A!NextMid \in Mids
         /\ next_mid \in Mids => D!NextMid = IF next_mid = MaxId THEN 1 ELSE next_mid + 1
<1> USE DEF SystemAssumption, Mids
<1>1. current_id \in Mids => A!NextMid \in Mids
  BY DEF A!NextMid
<1>2. CASE next_mid = MaxId
  BY <1>1, <1>2 DEF D!NextMid
<1>3. CASE next_mid # MaxId
  BY <1>1, <1>3 DEF D!NextMid
<1> QED BY <1>2, <1>3

\* A command is typed: a request more, the last of the buffer.
LEMMA TypeCommandRight ==
  ASSUME SystemAssumption, IInv, TypeCommand
  PROVE  IInv'
<1> PICK c \in Commands : A!Queue(c, Len(queued) + 1)
  BY DEF TypeCommand
<1> PICK token \in ClientTokens :
      coap_buffer' = Append(coap_buffer, A!Message(c, Len(queued) + 1, token))
  BY DEF A!Queue
<1> PICK m : m = A!Message(c, Len(queued) + 1, token)
  OBVIOUS
<1>1. /\ A!LoopIdle /\ current_id' = A!NextMid
      /\ UNCHANGED <<stream, printed, net>>
      /\ Len(queued) < MaxCommands /\ queued' = Append(queued, Last(coap_buffer'))
      /\ seen' = Append(seen, { r.n : r \in { p \in printed : p.code \in B!Success } })
      /\ UNCHANGED <<proxyVars, serverVars, first, served>>
  BY DEF A!Queue, A!network, TypeCommand
<1>2. /\ \A u, v \in DOMAIN at' :
           at'[u] \in {"write", "finish"} /\ at'[v] \in {"write", "finish"} => u = v
      /\ \A u \in DOMAIN at' : at'[u] # "finish"
  <2> DEFINE flusher == A!Cardinality(DOMAIN at)
             started == [t \in DOMAIN at \cup {flusher} |-> IF t = flusher THEN "sleep" ELSE at[t]]
             known == IF flusher_task = A!NoTask THEN started ELSE at
  <2>1. at' = IF Len(coap_buffer') >= BufferLimit THEN [known EXCEPT ![A!Main] = "write"] ELSE known
    BY DEF A!Queue
  <2>2. \A u \in DOMAIN at : at[u] \notin {"write", "finish"}
    BY <1>1 DEF A!LoopIdle
  <2>3. \A u \in DOMAIN known : known[u] \notin {"write", "finish"}
    BY <2>2
  <2> HIDE DEF known
  <2>4. DOMAIN at' = DOMAIN known
    BY <2>1
  <2>5. \A u \in DOMAIN known : at'[u] = known[u] \/ (u = A!Main /\ at'[u] = "write")
    BY <2>1
  <2> QED BY <2>3, <2>4, <2>5
<1>3. ~Finishing /\ ~Finishing'
  BY <1>1, <1>2 DEF Finishing, A!LoopIdle
<1>4. /\ queued \in Seq(Message) /\ Len(queued) \in Nat /\ current_id \in Mids
      /\ Len(seen) = Len(queued) /\ seen \in Seq(SUBSET Nat) /\ served \in Seq(Message)
      /\ coap_buffer \in Seq(Message)
  BY DEF IInv, Typed, ServerRight, ClientRight, BufferRight, FromUser
<1>5. /\ m \in Message /\ m.n = Len(queued) + 1 /\ m.token \in ClientTokens
  BY <1>4 DEF A!Message, Message
<1>6. /\ queued' = Append(queued, m) /\ coap_buffer' \in Seq(Message)
      /\ Len(coap_buffer') = Len(coap_buffer) + 1 /\ Len(coap_buffer) \in Nat
      /\ DOMAIN coap_buffer' = DOMAIN coap_buffer \cup {Len(coap_buffer) + 1}
      /\ \A i \in DOMAIN coap_buffer : coap_buffer'[i] = coap_buffer[i] /\ i \in Nat
      /\ coap_buffer'[Len(coap_buffer) + 1] = m
  <2> HIDE DEF Message
  <2>1. coap_buffer' = Append(coap_buffer, m) /\ coap_buffer \in Seq(Message) /\ m \in Message
    BY <1>4, <1>5
  <2>2. Last(coap_buffer') = m
    BY <2>1 DEF Last
  <2> QED BY <2>1, <2>2, <1>1
<1>7. /\ queued' \in Seq(Message) /\ Len(queued') = Len(queued) + 1
      /\ \A n \in Asked : queued'[n] = queued[n]
      /\ queued'[Len(queued) + 1] = m /\ Asked' = Asked \cup {Len(queued) + 1}
  <2> HIDE DEF Message
  <2> QED BY <1>4, <1>5, <1>6 DEF Asked
<1> DEFINE known == { r.n : r \in { p \in printed : p.code \in B!Success } }
<1>8. known \subseteq B!Numbers(served) /\ B!Numbers(served) \subseteq Nat
  <2>1. \A r \in printed : r.code \in B!Success => r.n \in B!Numbers(served)
    BY DEF IInv, PrintedRight, Reply, Done
  <2>2. \A i \in DOMAIN served : served[i] \in Message
    BY <1>4
  <2>3. B!Numbers(served) \subseteq Nat
    BY <2>2 DEF B!Numbers, Message
  <2> QED BY <2>1, <2>3
<1>9. /\ seen' \in Seq(SUBSET Nat) /\ Len(seen') = Len(queued')
      /\ \A n \in Asked : seen'[n] = seen[n]
      /\ seen'[Len(queued) + 1] = known
  <2>1. seen' = Append(seen, known) /\ known \in SUBSET Nat
    BY <1>1, <1>8
  <2> HIDE DEF known
  <2> QED BY <2>1, <1>4, <1>7 DEF Asked
<1> HIDE DEF known
<1>10. Grown
  BY <1>1, <1>7, <1>9 DEF Grown
<1>11. Typed'
  <2>1. \A n \in Asked' : queued'[n].n = n /\ queued'[n].token \in ClientTokens
    BY <1>5, <1>7, QueuedTypes DEF IInv
  <2>2. \A n \in Asked' : seen'[n] \subseteq B!Numbers(served)
    BY <1>7, <1>8, <1>9, QueuedTypes DEF IInv
  <2>3. B!Numbers(served)' = B!Numbers(served)
    BY <1>1 DEF B!Numbers
  <2>4. Len(queued') <= MaxCommands /\ current_id' \in Mids
    BY <1>1, <1>4, <1>7, NextIds DEF SystemAssumption
  <2> QED BY <1>7, <1>9, <2>1, <2>2, <2>3, <2>4 DEF Typed
<1>12. ProxyRight' /\ MapsGrown
  BY <1>1, <1>10, ProxyLater
<1>13. ServerRight'
  BY <1>1, <1>10, <1>12, ServerLater
<1>14. /\ Len(coap_buffer) <= Len(queued) /\ FromUser(coap_buffer)
       /\ \A i \in DOMAIN coap_buffer : coap_buffer[i].n = Len(queued) - Len(coap_buffer) + i
  BY <1>3 DEF IInv, ClientRight, BufferRight
<1>15. BufferRight'
  <2>1. \A i \in DOMAIN coap_buffer' : coap_buffer'[i].n = Len(queued') - Len(coap_buffer') + i
    <3>1. ASSUME NEW i \in DOMAIN coap_buffer
          PROVE  coap_buffer'[i].n = Len(queued') - Len(coap_buffer') + i
      BY <3>1, <1>4, <1>6, <1>7, <1>14
    <3>2. m.n = Len(queued') - Len(coap_buffer') + (Len(coap_buffer) + 1)
      BY <1>4, <1>5, <1>6, <1>7
    <3> QED BY <3>1, <3>2, <1>6
  <2>2. Ascending(coap_buffer')
    <3>1. \A i \in DOMAIN coap_buffer' : i \in Nat
      BY <1>6
    <3>2. Len(queued') \in Nat /\ Len(coap_buffer') \in Nat
      BY <1>4, <1>6, <1>7
    <3> QED BY <2>1, <3>1, <3>2 DEF Ascending
  <2>3. \A i \in DOMAIN coap_buffer' :
          coap_buffer'[i].n \in Asked' /\ coap_buffer'[i] = queued'[coap_buffer'[i].n]
    BY <1>5, <1>6, <1>7, <1>14 DEF FromUser
  <2>4. FromUser(coap_buffer)'
    BY <1>6, <2>2, <2>3 DEF FromUser, Ascending
  <2>5. Len(coap_buffer') <= Len(queued')
    BY <1>4, <1>6, <1>7, <1>14
  <2> QED BY <2>1, <2>4, <2>5 DEF BufferRight
<1>16. Written' = Written /\ Gone' = Gone
  <2>1. Written' = Written
    BY <1>3, <1>4, <1>6, <1>7 DEF Written
  <2> QED BY <1>1, <2>1 DEF Gone, B!Numbers
<1>17. ClientRight'
  <2>1. TasksRight'
    BY <1>2 DEF TasksRight
  <2>2. ASSUME NEW i \in DOMAIN stream PROVE FromUser(stream[i])'
    <3> PICK s : s = stream[i]
      OBVIOUS
    <3>1. FromUser(s)
      BY <2>2 DEF IInv, ClientRight, StreamRight
    <3>2. FromUser(s)'
      BY <3>1, <1>4, <1>10, Later DEF IInv
    <3> QED BY <3>2, <1>1
  <2>3. StreamRight'
    BY <1>1, <1>16, <2>2 DEF IInv, ClientRight, StreamRight, B!Numbers
  <2> QED BY <2>1, <2>3, <1>15 DEF ClientRight
<1>18. NetRight' /\ PrintedRight'
  BY <1>1, <1>10, <1>12, BundlesLater, PrintedLater DEF NetRight
<1>19. RequestBundles' = RequestBundles /\ \A n : ToForward(n)' => ToForward(n)
  BY <1>1 DEF RequestBundles, ToForward, AtD, proxyVars, B!Numbers
<1>20. OnePlace' /\ IdsGivenOut'
  <2>1. UNCHANGED <<src_eid, proxy_payload, recv_payload, pc, served>> /\ UNCHANGED proxyVars
    BY <1>1 DEF proxyVars, serverVars
  <2> QED BY <2>1, <1>16, <1>19, OnePlaceLater, IdsLater DEF IInv
<1> QED BY <1>11, <1>12, <1>13, <1>17, <1>18, <1>20 DEF IInv

-----------------------------------------------------------------------------
(* The steps of D *)

\* What a step that A takes no part in leaves of A.
LEMMA ClientKept ==
  ASSUME SystemAssumption, IInv, UNCHANGED <<clientVars, first, queued, seen>>,
         served' = served \/ \E q \in Message : served' = Append(served, q)
  PROVE  /\ Grown /\ Typed' /\ ClientRight' /\ PrintedRight' /\ Gone' = Gone /\ Asked' = Asked
<1>1. Grown /\ Asked' = Asked
  BY DEF Grown, Asked
<1>2. UNCHANGED <<current_id, coap_buffer, at, stream, printed>>
  BY DEF clientVars
<1>3. served \in Seq(Message)
  BY DEF IInv, ServerRight
<1>4. B!Numbers(served) \subseteq B!Numbers(served)'
  <2>1. CASE served' = served
    BY <2>1 DEF B!Numbers
  <2>2. CASE \E q \in Message : served' = Append(served, q)
    <3>1. PICK q \in Message : served' = Append(served, q)
      BY <2>2
    <3>2. Len(served) \in 0 .. Len(served)
      BY <1>3
    <3>3. B!Numbers(served) \subseteq B!Numbers(served')
      BY <1>3, <3>1, <3>2, LogGrows
    <3> QED BY <3>3 DEF B!Numbers
  <2> QED BY <2>1, <2>2
<1>5. Typed'
  BY <1>1, <1>2, <1>4 DEF IInv, Typed
<1>6. Written' = Written /\ Gone' = Gone /\ (Finishing' <=> Finishing)
  BY <1>2 DEF Written, Finishing, Gone, B!Numbers
<1>7. ClientRight'
  <2>1. TasksRight'
    BY <1>2 DEF IInv, ClientRight, TasksRight
  <2>2. BufferRight'
    BY <1>1, <1>2, <1>6 DEF IInv, ClientRight, BufferRight, FromUser
  <2>3. StreamRight'
    BY <1>1, <1>2, <1>6 DEF IInv, ClientRight, StreamRight, FromUser, B!Numbers
  <2> QED BY <2>1, <2>2, <2>3 DEF ClientRight
<1>8. PrintedRight'
  BY <1>1, <1>2, PrintedLater
<1> QED BY <1>1, <1>5, <1>6, <1>7, <1>8

LEMMA ClientAndServerKept ==
  ASSUME SystemAssumption, IInv, UNCHANGED <<clientVars, serverVars, history>>
  PROVE  /\ Grown /\ Typed' /\ ClientRight' /\ PrintedRight' /\ Gone' = Gone /\ Asked' = Asked
         /\ AtB' = AtB /\ B!Numbers(served)' = B!Numbers(served) /\ served' = served
         /\ MapsGrown => ServerRight'
<1>1. UNCHANGED <<clientVars, first, queued, seen>> /\ served' = served
  BY DEF history
<1>2. AtB' = AtB /\ B!Numbers(served)' = B!Numbers(served)
  BY DEF AtB, B!Numbers, serverVars, history
<1>3. Grown /\ Typed' /\ ClientRight' /\ PrintedRight' /\ Gone' = Gone /\ Asked' = Asked
  BY <1>1, ClientKept
<1>4. MapsGrown => ServerRight'
  BY <1>1, <1>3, ServerLater
<1> QED BY <1>1, <1>2, <1>3, <1>4

\* What D has in hand once it has read the first frame as msg.
LEMMA RestAtD ==
  ASSUME SystemAssumption, IInv, proxy_payload # <<>>, src_eid \in {NodeA, NodeB},
         UNCHANGED src_eid, NEW msg, D!GoOn(msg), Grown
  PROVE  /\ AtD' \subseteq AtD
         /\ src_eid = NodeA => FromUser(proxy_payload)' /\ Head(proxy_payload).n \notin AtD'
         /\ src_eid = NodeB => proxy_payload' = <<>>
<1>1. CASE src_eid = NodeA
  <2> PICK s : s = proxy_payload'
    OBVIOUS
  <2>1. FromUser(proxy_payload)
    BY <1>1 DEF IInv, ProxyRight
  <2>2. \/ s = Tail(proxy_payload)
        \/ \E k \in 2 .. Len(proxy_payload) + 1 : s = SubSeq(proxy_payload, k, Len(proxy_payload))
    BY DEF D!GoOn
  <2>3. /\ FromUser(s) /\ B!Numbers(s) \subseteq B!Numbers(proxy_payload)
        /\ Head(proxy_payload).n \notin B!Numbers(s)
    BY <2>1, <2>2, RestOfFrames
  <2>4. FromUser(s)'
    BY <2>3, Later DEF IInv, ServerRight
  <2>5. FromUser(proxy_payload)'
    BY <2>4
  <2>6. AtD = B!Numbers(proxy_payload) /\ AtD' = B!Numbers(s)
    BY <1>1 DEF AtD, B!Numbers
  <2>7. NodeA # NodeB
    BY DEF SystemAssumption
  <2> QED BY <1>1, <2>3, <2>5, <2>6, <2>7
<1>2. CASE src_eid = NodeB
  <2>1. NodeA # NodeB
    BY DEF SystemAssumption
  <2>2. proxy_payload = <<Head(proxy_payload)>>
    BY <1>2 DEF IInv, ProxyRight
  <2>3. ASSUME NEW f
        PROVE  Tail(<<f>>) = <<>> /\ \A k \in 2 .. Len(<<f>>) + 1 : SubSeq(<<f>>, k, Len(<<f>>)) = <<>>
    OBVIOUS
  <2>4. proxy_payload' = <<>>
    BY <2>2, <2>3 DEF D!GoOn
  <2> QED BY <1>2, <2>1, <2>4 DEF AtD
<1> QED BY <1>1, <1>2

\* A frame that is dropped: junk, or a response nobody asked for.
LEMMA DropRight ==
  ASSUME SystemAssumption, IInv, UNCHANGED <<clientVars, serverVars, history>>,
         proxy_payload # <<>>, NEW msg, D!GoOn(msg), UNCHANGED src_eid,
         UNCHANGED <<next_mid, reverse_token_map, reverse_mid_map, era, net>>
  PROVE  IInv'
<1>1. /\ Grown /\ Typed' /\ ClientRight' /\ PrintedRight' /\ Gone' = Gone /\ Asked' = Asked
      /\ AtB' = AtB /\ B!Numbers(served)' = B!Numbers(served) /\ served' = served
      /\ MapsGrown => ServerRight'
  BY ClientAndServerKept
<1>2. MapsGrown
  BY DEF MapsGrown
<1>3. /\ AtD' \subseteq AtD
      /\ src_eid = NodeA => FromUser(proxy_payload)'
      /\ src_eid = NodeB => proxy_payload' = <<>>
  <2>1. CASE src_eid \in {NodeA, NodeB}
    BY <1>1, <2>1, RestAtD
  <2>2. CASE src_eid \notin {NodeA, NodeB}
    BY <2>2 DEF AtD
  <2> QED BY <2>1, <2>2
<1>4. ProxyRight'
  BY <1>3 DEF IInv, ProxyRight
<1>5. NetRight'
  BY <1>1, <1>2, BundlesLater DEF NetRight
<1>6. OnePlace'
  <2>1. RequestBundles' = RequestBundles
    BY DEF RequestBundles
  <2>2. ASSUME NEW b \in RequestBundles
        PROVE  /\ B!Numbers(b.adu) \subseteq Gone
               /\ B!Numbers(b.adu) \cap (AtD' \cup AtB \cup B!Numbers(served)) = {}
               /\ \A c \in RequestBundles : b # c => B!Numbers(b.adu) \cap B!Numbers(c.adu) = {}
    BY <2>2, <1>3 DEF IInv, OnePlace
  <2>3. \A b \in RequestBundles :
          /\ B!Numbers(b.adu)' \subseteq Gone
          /\ B!Numbers(b.adu)' \cap (AtD' \cup AtB \cup B!Numbers(served)) = {}
          /\ \A c \in RequestBundles : b # c => B!Numbers(b.adu)' \cap B!Numbers(c.adu)' = {}
    BY <2>2 DEF B!Numbers
  <2>4. /\ AtD' \cup AtB \cup B!Numbers(served) \subseteq Gone
        /\ AtD' \cap (AtB \cup B!Numbers(served)) = {} /\ AtB \cap B!Numbers(served) = {}
        /\ \A i, j \in DOMAIN served : served[i].n = served[j].n => i = j
    BY <1>3 DEF IInv, OnePlace
  <2> QED BY <1>1, <2>1, <2>3, <2>4 DEF OnePlace
<1>7. IdsGivenOut'
  <2> PICK start \in Mids, G \in SUBSET Gone :
        (\A n \in G : ~ToForward(n)) /\ Interval(start, Cardinality(G))
    BY DEF IInv, IdsGivenOut
  <2>1. Interval(start, Cardinality(G))'
    BY DEF Interval, GivenOut
  <2>2. \A n \in G : ~ToForward(n)'
    BY <1>3 DEF ToForward, B!Numbers
  <2> QED BY <1>1, <2>1, <2>2 DEF IdsGivenOut
<1> QED BY <1>1, <1>2, <1>4, <1>5, <1>6, <1>7 DEF IInv

LEMMA ReceiveAtDRight ==
  ASSUME SystemAssumption, IInv, NEW b \in net, D!Receive(b),
         UNCHANGED <<clientVars, serverVars, history>>
  PROVE  IInv'
<1>1. /\ proxy_payload = <<>> /\ b.dst = NodeD /\ net' = net \ {b}
      /\ UNCHANGED <<next_mid, reverse_token_map, reverse_mid_map, era>>
      /\ \/ b.src \in {NodeA, NodeB} /\ src_eid' = b.src /\ proxy_payload' = b.adu
         \/ b.src \notin {NodeA, NodeB} /\ UNCHANGED <<src_eid, proxy_payload>>
  BY DEF D!Receive, D!BP!Deliver, D!mapper
<1>2. /\ Grown /\ Typed' /\ ClientRight' /\ PrintedRight' /\ Gone' = Gone /\ Asked' = Asked
      /\ AtB' = AtB /\ B!Numbers(served)' = B!Numbers(served) /\ served' = served
      /\ MapsGrown => ServerRight'
  BY ClientAndServerKept
<1>3. MapsGrown
  BY <1>1 DEF MapsGrown
<1>4. NodeA # NodeB /\ NodeA # NodeD /\ NodeB # NodeD
  BY DEF SystemAssumption
<1>5. BundleRight(b)'
  BY <1>2, <1>3, BundlesLater
<1>6. AtD = {} /\ AtD' = (IF b.src = NodeA THEN B!Numbers(b.adu) ELSE {})
  <2>1. B!Numbers(<<>>) = {}
    BY DEF B!Numbers
  <2>2. B!Numbers(proxy_payload) = {}
    BY <2>1, <1>1
  <2>3. CASE b.src = NodeA
    BY <2>2, <2>3, <1>1 DEF AtD, B!Numbers
  <2>4. CASE b.src = NodeB
    BY <2>2, <2>4, <1>1, <1>4 DEF AtD
  <2>5. CASE b.src \notin {NodeA, NodeB}
    BY <2>2, <2>5, <1>1 DEF AtD, B!Numbers
  <2> QED BY <2>3, <2>4, <2>5
<1>7. ProxyRight'
  <2>1. (next_mid \in Mids /\ era \in Nat)' /\ (reverse_token_map \in [Tokens -> ClientTokens \cup {NoToken}])'
        /\ (reverse_mid_map \in [Mids -> Mids \cup {0}])'
    BY <1>1 DEF IInv, ProxyRight
  <2>2. CASE b.src = NodeA
    <3>1. FromUser(b.adu)'
      BY <1>1, <1>5, <2>2 DEF BundleRight
    <3>2. src_eid' = NodeA /\ proxy_payload' = b.adu
      BY <1>1, <2>2
    <3>3. FromUser(proxy_payload)'
      BY <3>1, <3>2
    <3> QED BY <2>1, <3>2, <3>3, <1>4 DEF ProxyRight
  <2>3. CASE b.src = NodeB
    <3> PICK f : f = b.adu[1]
      OBVIOUS
    <3>1. b.adu = <<f>> /\ Mapped(f)' /\ Reply(f)'
      BY <1>1, <1>4, <1>5, <2>3 DEF BundleRight
    <3>2. src_eid' = NodeB /\ proxy_payload' = <<f>> /\ Head(proxy_payload') = f
      BY <1>1, <2>3, <3>1, OneFrame
    <3>3. Mapped(Head(proxy_payload))' /\ Reply(Head(proxy_payload))'
      BY <3>1, <3>2
    <3> QED BY <2>1, <3>2, <3>3, <1>4 DEF ProxyRight
  <2>4. CASE b.src \notin {NodeA, NodeB}
    <3>1. UNCHANGED <<src_eid, proxy_payload>> /\ proxy_payload' = <<>>
      BY <1>1, <2>4
    <3>2. FromUser(<<>>)
      BY DEF FromUser, Ascending
    <3>3. FromUser(<<>>)'
      BY <1>2, <3>2, Later DEF IInv, ServerRight
    <3>4. FromUser(proxy_payload)'
      BY <3>1, <3>3
    <3> QED BY <2>1, <3>1, <3>4 DEF ProxyRight
  <2> QED BY <2>2, <2>3, <2>4
<1>8. NetRight'
  BY <1>1, <1>2, <1>3, BundlesLater DEF NetRight
<1>9. /\ RequestBundles' \subseteq RequestBundles
      /\ b.src = NodeA => b \in RequestBundles /\ b \notin RequestBundles'
  BY <1>1 DEF RequestBundles
<1>10. OnePlace'
  <2>1. ASSUME NEW c \in RequestBundles'
        PROVE  /\ B!Numbers(c.adu) \subseteq Gone
               /\ B!Numbers(c.adu) \cap (AtD' \cup AtB \cup B!Numbers(served)) = {}
               /\ \A d \in RequestBundles' : c # d => B!Numbers(c.adu) \cap B!Numbers(d.adu) = {}
    <3>1. b.src = NodeA => c # b /\ B!Numbers(c.adu) \cap B!Numbers(b.adu) = {}
      BY <1>9, <2>1 DEF IInv, OnePlace
    <3> QED BY <3>1, <2>1, <1>6, <1>9 DEF IInv, OnePlace
  <2>2. \A c \in RequestBundles' :
          /\ B!Numbers(c.adu)' \subseteq Gone
          /\ B!Numbers(c.adu)' \cap (AtD' \cup AtB \cup B!Numbers(served)) = {}
          /\ \A d \in RequestBundles' : c # d => B!Numbers(c.adu)' \cap B!Numbers(d.adu)' = {}
    BY <2>1 DEF B!Numbers
  <2>3. /\ AtD' \cup AtB \cup B!Numbers(served) \subseteq Gone
        /\ AtD' \cap (AtB \cup B!Numbers(served)) = {} /\ AtB \cap B!Numbers(served) = {}
        /\ \A i, j \in DOMAIN served : served[i].n = served[j].n => i = j
    <3>1. b.src = NodeA => /\ B!Numbers(b.adu) \subseteq Gone
                           /\ B!Numbers(b.adu) \cap (AtB \cup B!Numbers(served)) = {}
      BY <1>9 DEF IInv, OnePlace
    <3> QED BY <3>1, <1>6 DEF IInv, OnePlace
  <2> QED BY <1>2, <2>2, <2>3 DEF OnePlace
<1>11. IdsGivenOut'
  <2> PICK start \in Mids, G \in SUBSET Gone :
        (\A n \in G : ~ToForward(n)) /\ Interval(start, Cardinality(G))
    BY DEF IInv, IdsGivenOut
  <2>1. Interval(start, Cardinality(G))'
    BY <1>1 DEF Interval, GivenOut
  <2>2. \A n \in G : ~ToForward(n)'
    BY <1>1, <1>6 DEF ToForward, B!Numbers
  <2> QED BY <1>2, <2>1, <2>2 DEF IdsGivenOut
<1> QED BY <1>2, <1>3, <1>7, <1>8, <1>10, <1>11 DEF IInv

\* As long as there are no more requests than IDs, the next ID is free, and giving it out for
\* one more request keeps the count.
LEMMA NextIdFree ==
  ASSUME SystemAssumption, next_mid \in Mids, NEW start \in Mids, NEW k \in Nat,
         k + 1 <= MaxId, Interval(start, k)
  PROVE  /\ next_mid \notin GivenOut
         /\ next_mid' = D!NextMid /\ GivenOut' = GivenOut \cup {next_mid}
              => Interval(start, k + 1)'
<1> USE DEF Mids
<1>1. MaxId \in Nat \ {0} /\ next_mid \in 1 .. MaxId
  BY DEF SystemAssumption
<1>2. next_mid \notin GivenOut
  BY <1>1 DEF Interval
<1>3. ASSUME next_mid' = D!NextMid, GivenOut' = GivenOut \cup {next_mid}
      PROVE  Interval(start, k + 1)'
  <2>1. next_mid' = IF next_mid = MaxId THEN 1 ELSE next_mid + 1
    BY <1>1, <1>3, NextIds
  <2>2. CASE start <= next_mid /\ k = next_mid - start /\ GivenOut = start .. (next_mid - 1)
    <3>1. GivenOut' = start .. next_mid
      BY <1>1, <1>3, <2>2
    <3>2. CASE next_mid = MaxId
      BY <1>1, <2>1, <2>2, <3>1, <3>2 DEF Interval
    <3>3. CASE next_mid # MaxId
      BY <1>1, <2>1, <2>2, <3>1, <3>3 DEF Interval
    <3> QED BY <3>2, <3>3
  <2>3. CASE /\ next_mid <= start /\ k = MaxId - start + next_mid
             /\ GivenOut = (start .. MaxId) \cup (1 .. (next_mid - 1))
    <3>1. next_mid < start /\ next_mid # MaxId
      BY <1>1, <2>3
    <3>2. GivenOut' = (start .. MaxId) \cup (1 .. next_mid)
      BY <1>1, <1>3, <2>3
    <3> QED BY <1>1, <2>1, <2>3, <3>1, <3>2 DEF Interval
  <2> QED BY <2>2, <2>3 DEF Interval
<1> QED BY <1>2, <1>3

\* Requests that have left A are among those typed, and a set of them has a size.
LEMMA CountGone ==
  ASSUME SystemAssumption, IInv, NEW G \in SUBSET Gone, NEW n \in Gone, n \notin G
  PROVE  /\ Cardinality(G) \in Nat /\ Cardinality(G \cup {n}) = Cardinality(G) + 1
         /\ Cardinality(G) + 1 <= MaxId
<1>1. Len(queued) \in Nat /\ Len(queued) <= MaxId /\ MaxId \in Nat
  BY DEF IInv, Typed, SystemAssumption
<1>2. Gone \subseteq 1 .. Len(queued)
  <2>1. Len(coap_buffer) \in Nat
    BY DEF IInv, ClientRight, BufferRight, FromUser
  <2> QED BY <1>1, <2>1 DEF Gone, Written
<1>3. IsFiniteSet(1 .. Len(queued)) /\ Cardinality(1 .. Len(queued)) = Len(queued)
  <2>1. ASSUME NEW k \in Nat
        PROVE  IsFiniteSet(1 .. k) /\ Cardinality(1 .. k) = k
    <3>1. 1 \in Int /\ k \in Int
      OBVIOUS
    <3>2. IsFiniteSet(1 .. k) /\ Cardinality(1 .. k) = IF 1 > k THEN 0 ELSE k - 1 + 1
      BY ONLY <3>1, FS_Interval
    <3> QED BY ONLY k \in Nat, <3>2
  <2> QED BY <1>1, <2>1
<1>4. IsFiniteSet(G) /\ G \cup {n} \subseteq 1 .. Len(queued)
  BY <1>2, <1>3, FS_Subset
<1>5. Cardinality(G) \in Nat /\ Cardinality(G \cup {n}) = Cardinality(G) + 1
  BY <1>4, FS_AddElement, FS_CardinalityType
<1>6. Cardinality(G \cup {n}) <= Len(queued)
  BY <1>3, <1>4, FS_Subset
<1> QED BY <1>1, <1>5, <1>6

LEMMA ForwardRequestRight ==
  ASSUME SystemAssumption, IInv, D!ForwardRequest, UNCHANGED <<clientVars, serverVars, history>>
  PROVE  IInv'
<1> PICK msg \in D!NextFrame \ {Junk}, t \in D!FreshTokens :
      /\ D!GoOn(msg)
      /\ reverse_token_map' = [reverse_token_map EXCEPT ![t] = msg.token]
      /\ reverse_mid_map' = [reverse_mid_map EXCEPT ![next_mid] = msg.mid]
      /\ D!SendCoapMessage([msg EXCEPT !.token = t, !.mid = next_mid, !.era = era], NodeB)
  BY DEF D!ForwardRequest
<1>1. /\ proxy_payload # <<>> /\ src_eid = NodeA /\ UNCHANGED <<src_eid, era>>
      /\ next_mid' = D!NextMid /\ Cut(Head(proxy_payload), msg)
  BY ReadAsCut DEF D!ForwardRequest, D!NextFrame
<1> PICK f : f = [msg EXCEPT !.token = t, !.mid = next_mid, !.era = era]
  OBVIOUS
<1> PICK new : new = [src |-> NodeD, dst |-> NodeB, seq |-> seqno[NodeD], adu |-> <<f>>]
  OBVIOUS
<1>2. net' = net \cup {new}
  BY DEF D!SendCoapMessage, D!BP!Submit, D!BP!Bundle
<1>3. NodeA # NodeB /\ NodeA # NodeD /\ NodeB # NodeD
  BY DEF SystemAssumption
<1>4. /\ Grown /\ Typed' /\ ClientRight' /\ PrintedRight' /\ Gone' = Gone /\ Asked' = Asked
      /\ AtB' = AtB /\ B!Numbers(served)' = B!Numbers(served) /\ served' = served
      /\ MapsGrown => ServerRight'
  BY ClientAndServerKept
<1>5. /\ next_mid \in Mids /\ era \in Nat /\ t \in Tokens /\ ~D!Known(t)
      /\ reverse_token_map \in [Tokens -> ClientTokens \cup {NoToken}]
      /\ reverse_mid_map \in [Mids -> Mids \cup {0}] /\ FromUser(proxy_payload)
  BY <1>1 DEF IInv, ProxyRight, D!FreshTokens
<1>6. /\ msg \in Message /\ msg.n \in Asked /\ msg.n = Head(proxy_payload).n
      /\ msg.token = queued[msg.n].token /\ msg.mid = queued[msg.n].mid
      /\ msg.mtype = queued[msg.n].mtype /\ msg.path = queued[msg.n].path
      /\ msg.n \in B!Numbers(proxy_payload)
  BY <1>1, <1>5, FirstFrame, CutKeeps
<1>7. /\ f \in Message /\ f.n = msg.n /\ f.token = t /\ f.mid = next_mid
      /\ f.mtype = msg.mtype /\ f.path = msg.path
  BY <1>5, <1>6 DEF Message
<1>8. AtD = B!Numbers(proxy_payload) /\ AtD' \subseteq AtD /\ msg.n \notin AtD'
  BY <1>1, <1>4, <1>6, RestAtD DEF AtD
<1>9. /\ msg.n \in AtD /\ msg.n \in Gone /\ msg.n \notin AtD' /\ AtD' \subseteq AtD
      /\ msg.n \notin AtB \cup B!Numbers(served)
      /\ \A b \in RequestBundles : msg.n \notin B!Numbers(b.adu)
  BY <1>6, <1>8 DEF IInv, OnePlace
<1> PICK start \in Mids, G \in SUBSET Gone :
      (\A n \in G : ~ToForward(n)) /\ Interval(start, Cardinality(G))
  BY DEF IInv, IdsGivenOut
<1>10. /\ msg.n \notin G
       /\ Cardinality(G) \in Nat /\ Cardinality(G \cup {msg.n}) = Cardinality(G) + 1
       /\ Cardinality(G) + 1 <= MaxId
  <2>1. msg.n \notin G
    BY <1>9 DEF ToForward
  <2> QED BY <2>1, <1>9, CountGone
<1>11. msg.mid \in Mids /\ msg.mid # 0 /\ msg.token \in ClientTokens /\ msg.token # NoToken
  BY <1>6, QueuedTypes DEF IInv
<1>12. GivenOut' = GivenOut \cup {next_mid}
  BY <1>5, <1>11 DEF GivenOut, Mids
<1>13. next_mid \notin GivenOut /\ Interval(start, Cardinality(G \cup {msg.n}))'
  <2> DEFINE k == Cardinality(G)
  <2>1. next_mid \notin GivenOut /\ Interval(start, k + 1)'
    <3> PICK j : j = k
      OBVIOUS
    <3>1. j \in Nat /\ j + 1 <= MaxId /\ Interval(start, j)
      BY <1>10
    <3>2. next_mid \notin GivenOut /\ Interval(start, j + 1)'
      BY <1>1, <1>5, <1>12, <3>1, NextIdFree
    <3> QED BY <3>2
  <2> QED BY <2>1, <1>10
<1>14. MapsGrown
  <2>1. \A u \in Tokens : D!Known(u) => reverse_token_map'[u] = reverse_token_map[u]
    BY <1>5
  <2>2. \A m \in GivenOut : reverse_mid_map'[m] = reverse_mid_map[m]
    BY <1>5, <1>13 DEF GivenOut
  <2> QED BY <2>1, <2>2 DEF MapsGrown
<1>15. Forwarded(f)'
  <2>1. reverse_token_map'[t] = msg.token /\ reverse_mid_map'[next_mid] = msg.mid
    BY <1>5
  <2>2. queued' = queued
    BY DEF history
  <2> QED BY <1>4, <1>5, <1>6, <1>7, <2>1, <2>2 DEF Forwarded, Mapped
<1>16. NetRight'
  <2>1. BundleRight(new)'
    BY <1>3, <1>15, OneFrame DEF BundleRight
  <2>2. \A b \in net : BundleRight(b)'
    BY <1>4, <1>14, BundlesLater
  <2> QED BY <1>2, <2>1, <2>2 DEF NetRight
<1>17. ProxyRight'
  <2>1. FromUser(proxy_payload)'
    BY <1>1, <1>4, RestAtD
  <2>2. next_mid' \in Mids
    BY <1>1, <1>5, NextIds DEF Mids, SystemAssumption
  <2>3. /\ reverse_token_map' \in [Tokens -> ClientTokens \cup {NoToken}]
        /\ reverse_mid_map' \in [Mids -> Mids \cup {0}]
    BY <1>5, <1>11
  <2> QED BY <1>1, <1>3, <1>5, <2>1, <2>2, <2>3 DEF ProxyRight
<1>18. RequestBundles' = RequestBundles \cup {new} /\ B!Numbers(new.adu) = {msg.n}
  <2>1. B!Numbers(new.adu) = {msg.n}
    BY <1>7, OneFrame
  <2> QED BY <1>2, <2>1 DEF RequestBundles
<1>19. OnePlace'
  <2>1. ASSUME NEW b \in RequestBundles'
        PROVE  /\ B!Numbers(b.adu) \subseteq Gone
               /\ B!Numbers(b.adu) \cap (AtD' \cup AtB \cup B!Numbers(served)) = {}
               /\ \A c \in RequestBundles' : b # c => B!Numbers(b.adu) \cap B!Numbers(c.adu) = {}
    <3>1. CASE b \in RequestBundles
      <4>1. /\ B!Numbers(b.adu) \subseteq Gone /\ msg.n \notin B!Numbers(b.adu)
            /\ B!Numbers(b.adu) \cap (AtD \cup AtB \cup B!Numbers(served)) = {}
            /\ \A c \in RequestBundles : b # c => B!Numbers(b.adu) \cap B!Numbers(c.adu) = {}
        BY <3>1, <1>9 DEF IInv, OnePlace
      <4> QED BY <4>1, <1>9, <1>18
    <3>2. CASE b = new
      BY <3>2, <1>9, <1>18
    <3> QED BY <2>1, <3>1, <3>2, <1>18
  <2>2. \A b \in RequestBundles' :
          /\ B!Numbers(b.adu)' \subseteq Gone
          /\ B!Numbers(b.adu)' \cap (AtD' \cup AtB \cup B!Numbers(served)) = {}
          /\ \A c \in RequestBundles' : b # c => B!Numbers(b.adu)' \cap B!Numbers(c.adu)' = {}
    BY <2>1 DEF B!Numbers
  <2>3. /\ AtD' \cup AtB \cup B!Numbers(served) \subseteq Gone
        /\ AtD' \cap (AtB \cup B!Numbers(served)) = {} /\ AtB \cap B!Numbers(served) = {}
        /\ \A i, j \in DOMAIN served : served[i].n = served[j].n => i = j
    BY <1>9 DEF IInv, OnePlace
  <2> QED BY <1>4, <2>2, <2>3 DEF OnePlace
<1>20. IdsGivenOut'
  <2>1. G \cup {msg.n} \in SUBSET Gone'
    BY <1>4, <1>9
  <2>2. ASSUME NEW n \in G \cup {msg.n} PROVE ~ToForward(n)'
    <3>1. n \notin AtD'
      BY <1>9, <2>2 DEF ToForward
    <3>2. \A b \in net : b.dst = NodeD /\ b.src = NodeA => n \notin B!Numbers(b.adu)
      BY <1>9, <2>2 DEF ToForward, RequestBundles
    <3>3. \A b \in net' : b.dst = NodeD /\ b.src = NodeA => n \notin B!Numbers(b.adu)'
      BY <1>2, <1>3, <3>2 DEF B!Numbers
    <3> QED BY <3>1, <3>3 DEF ToForward
  <2> QED BY <1>13, <2>1, <2>2 DEF IdsGivenOut
<1> QED BY <1>4, <1>14, <1>16, <1>17, <1>19, <1>20 DEF IInv

LEMMA ForwardResponseRight ==
  ASSUME SystemAssumption, IInv, D!ForwardResponse, UNCHANGED <<clientVars, serverVars, history>>
  PROVE  IInv'
<1> PICK msg \in D!NextFrame \ {Junk} :
      D!GoOn(msg) /\ D!SendCoapMessage(D!MapResponse(msg), NodeA)
  BY DEF D!ForwardResponse
<1> PICK f : f = D!MapResponse(msg)
  OBVIOUS
<1> PICK new : new = [src |-> NodeD, dst |-> NodeA, seq |-> seqno[NodeD], adu |-> <<f>>]
  OBVIOUS
<1>1. /\ proxy_payload # <<>> /\ src_eid = NodeB /\ UNCHANGED <<src_eid, era>>
      /\ Cut(Head(proxy_payload), msg) /\ net' = net \cup {new}
      /\ UNCHANGED <<next_mid, reverse_token_map, reverse_mid_map>>
  <2>1. proxy_payload # <<>> /\ Cut(Head(proxy_payload), msg)
    BY ReadAsCut DEF D!NextFrame
  <2> QED BY <2>1 DEF D!ForwardResponse, D!SendCoapMessage, D!BP!Submit, D!BP!Bundle, D!mapper
<1>2. NodeA # NodeB /\ NodeA # NodeD /\ NodeB # NodeD
  BY DEF SystemAssumption
<1>3. /\ Grown /\ Typed' /\ ClientRight' /\ PrintedRight' /\ Gone' = Gone /\ Asked' = Asked
      /\ AtB' = AtB /\ B!Numbers(served)' = B!Numbers(served) /\ served' = served
      /\ MapsGrown => ServerRight'
  BY ClientAndServerKept
<1>4. MapsGrown
  BY <1>1 DEF MapsGrown
<1>5. Mapped(msg) /\ Reply(msg)
  BY <1>1, CutKeeps DEF IInv, ProxyRight
<1>6. Matched(f) /\ Reply(f)
  <2>1. /\ msg.n \in Asked /\ msg.mid \in Mids
        /\ reverse_token_map[msg.token] = queued[msg.n].token
        /\ reverse_mid_map[msg.mid] = queued[msg.n].mid /\ queued[msg.n].mid # 0
    BY <1>5, QueuedTypes DEF Mapped, IInv
  <2>2. f = [msg EXCEPT !.token = queued[msg.n].token, !.mid = queued[msg.n].mid]
    BY <2>1 DEF D!MapResponse, D!Mids, Mids
  <2>3. /\ f = [n |-> msg.n, token |-> queued[msg.n].token, mid |-> queued[msg.n].mid,
                code |-> msg.code, mtype |-> msg.mtype, payload |-> msg.payload]
    BY <2>2, <1>5 DEF Reply
  <2> QED BY <2>1, <2>3, <1>5 DEF Matched, Reply
<1>7. NetRight'
  <2>1. Matched(f)' /\ Reply(f)'
    BY <1>3, <1>6, Later DEF IInv, ServerRight
  <2>2. BundleRight(new)'
    BY <1>2, <2>1, OneFrame DEF BundleRight
  <2>3. \A b \in net : BundleRight(b)'
    BY <1>3, <1>4, BundlesLater
  <2> QED BY <1>1, <2>2, <2>3 DEF NetRight
<1>8. AtD' = AtD /\ proxy_payload' = <<>>
  BY <1>1, <1>2, <1>3, RestAtD DEF AtD
<1>9. ProxyRight'
  BY <1>1, <1>2, <1>8 DEF IInv, ProxyRight
<1>10. RequestBundles' = RequestBundles
  BY <1>1, <1>2 DEF RequestBundles
<1>11. OnePlace'
  <2>1. \A b \in RequestBundles :
          /\ B!Numbers(b.adu)' \subseteq Gone
          /\ B!Numbers(b.adu)' \cap (AtD \cup AtB \cup B!Numbers(served)) = {}
          /\ \A c \in RequestBundles : b # c => B!Numbers(b.adu)' \cap B!Numbers(c.adu)' = {}
    BY DEF IInv, OnePlace, B!Numbers
  <2> QED BY <1>3, <1>8, <1>10, <2>1 DEF IInv, OnePlace
<1>12. IdsGivenOut'
  <2> PICK start \in Mids, G \in SUBSET Gone :
        (\A n \in G : ~ToForward(n)) /\ Interval(start, Cardinality(G))
    BY DEF IInv, IdsGivenOut
  <2>1. Interval(start, Cardinality(G))'
    BY <1>1 DEF Interval, GivenOut
  <2>2. \A n \in G : ~ToForward(n)'
    BY <1>1, <1>2, <1>8 DEF ToForward, B!Numbers
  <2> QED BY <1>3, <2>1, <2>2 DEF IdsGivenOut
<1> QED BY <1>3, <1>4, <1>7, <1>9, <1>11, <1>12 DEF IInv

-----------------------------------------------------------------------------
(* The steps of B *)

LEMMA ClientAndProxyKept ==
  ASSUME SystemAssumption, IInv, UNCHANGED <<clientVars, proxyVars, first, queued, seen>>,
         served' = served \/ \E q \in Message : served' = Append(served, q),
         \A b \in net' : b \in net \/ b.src # NodeA
  PROVE  /\ Grown /\ MapsGrown /\ Typed' /\ ClientRight' /\ PrintedRight' /\ ProxyRight'
         /\ Gone' = Gone /\ Asked' = Asked /\ AtD' = AtD /\ IdsGivenOut'
<1>1. Grown /\ Typed' /\ ClientRight' /\ PrintedRight' /\ Gone' = Gone /\ Asked' = Asked
  BY ClientKept
<1>2. ProxyRight' /\ MapsGrown
  BY <1>1, ProxyLater
<1>3. AtD' = AtD
  BY DEF AtD, B!Numbers, proxyVars
<1>4. \A n \in Gone : ToForward(n)' => ToForward(n)
  BY <1>3 DEF ToForward, B!Numbers
<1>5. IdsGivenOut'
  BY <1>1, <1>4, IdsLater DEF IInv
<1> QED BY <1>1, <1>2, <1>3, <1>5

\* What is known of the request B is at.
LEMMA AtRequest ==
  ASSUME SystemAssumption, IInv, recv_payload # <<>>
  PROVE  /\ recv_payload = <<B!Request>> /\ Tail(recv_payload) = <<>>
         /\ Forwarded(B!Request) /\ B!Request \in Message /\ B!Request.n \in Asked
         /\ B!Request.path = queued[B!Request.n].path /\ B!Request.mtype = queued[B!Request.n].mtype
         /\ B!Numbers(recv_payload) = {B!Request.n}
<1> PICK f : f = B!Request
  OBVIOUS
<1>1. recv_payload = <<f>> /\ Forwarded(f)
  BY DEF IInv, ServerRight
<1>2. Tail(recv_payload) = <<>> /\ B!Numbers(recv_payload) = {f.n}
  BY <1>1, OneFrame
<1> QED BY <1>1, <1>2 DEF Forwarded, Mapped

\* The request B has in hand is now at pc', with the requests log served: it stays where it was.
LEMMA OnePlaceAtB ==
  ASSUME IInv, Gone' = Gone, AtD' = AtD, served' = served, AtB' \subseteq AtB,
         RequestBundles' = RequestBundles
  PROVE  OnePlace'
<1>1. \A b \in RequestBundles :
        /\ B!Numbers(b.adu)' \subseteq Gone
        /\ B!Numbers(b.adu)' \cap (AtD \cup AtB' \cup B!Numbers(served)) = {}
        /\ \A c \in RequestBundles : b # c => B!Numbers(b.adu)' \cap B!Numbers(c.adu)' = {}
  <2>1. ASSUME NEW b \in RequestBundles
        PROVE  /\ B!Numbers(b.adu) \subseteq Gone
               /\ B!Numbers(b.adu) \cap (AtD \cup AtB' \cup B!Numbers(served)) = {}
               /\ \A c \in RequestBundles : b # c => B!Numbers(b.adu) \cap B!Numbers(c.adu) = {}
    BY <2>1 DEF IInv, OnePlace
  <2> QED BY <2>1 DEF B!Numbers
<1>2. B!Numbers(served)' = B!Numbers(served)
  BY DEF B!Numbers
<1>3. /\ AtD \cup AtB' \cup B!Numbers(served) \subseteq Gone
      /\ AtD \cap (AtB' \cup B!Numbers(served)) = {} /\ AtB' \cap B!Numbers(served) = {}
      /\ \A i, j \in DOMAIN served : served[i].n = served[j].n => i = j
  BY DEF IInv, OnePlace
<1> QED BY <1>1, <1>2, <1>3 DEF OnePlace

\* What B makes of an ADU with one frame.
LEMMA ExtractedOne ==
  ASSUME NEW f, NEW s \in B!Extracted(<<f>>)
  PROVE  s = <<>> \/ \E g : Cut(f, g) /\ s = <<g>>
<1>1. /\ DOMAIN <<f>> = {1} /\ <<f>>[1] = f /\ SubSeq(<<f>>, 1, 1 - 1) = <<>>
      /\ \A g : Append(<<>>, g) = <<g>>
  OBVIOUS
<1>2. CASE s = <<f>>
  BY <1>2 DEF Cut
<1>3. CASE s # <<f>>
  <2>1. \E g \in B!Readings(f) : s = IF g = Junk THEN <<>> ELSE <<g>>
    BY <1>1, <1>3 DEF B!Extracted
  <2> QED BY <2>1, ReadAsCut
<1> QED BY <1>2, <1>3

LEMMA ReceiveAtBRight ==
  ASSUME SystemAssumption, IInv, NEW b \in net, B!Receive(b),
         UNCHANGED <<clientVars, proxyVars, history>>
  PROVE  IInv'
<1> PICK f : f = b.adu[1]
  OBVIOUS
<1>1. /\ b.dst = NodeB /\ net' = net \ {b} /\ pc = "idle" /\ pc' = "loop"
      /\ recv_payload' \in B!Extracted(b.adu) /\ UNCHANGED <<resources, first, served>>
  BY DEF B!Receive, B!Deliver, history
<1>2. /\ Grown /\ MapsGrown /\ Typed' /\ ClientRight' /\ PrintedRight' /\ ProxyRight'
      /\ Gone' = Gone /\ Asked' = Asked /\ AtD' = AtD /\ IdsGivenOut'
  BY <1>1, ClientAndProxyKept DEF history
<1>3. NetRight'
  BY <1>1, <1>2, BundlesLater DEF NetRight
<1>4. b.adu = <<f>> /\ Forwarded(f)
  BY <1>1 DEF IInv, NetRight, BundleRight
<1>5. recv_payload' = <<>> \/ \E g : Forwarded(g) /\ g.n = f.n /\ recv_payload' = <<g>>
  <2>1. recv_payload' = <<>> \/ \E g : Cut(f, g) /\ recv_payload' = <<g>>
    BY <1>1, <1>4, ExtractedOne
  <2> QED BY <1>4, <2>1, CutKeeps DEF Forwarded
<1>6. ServerRight'
  <2>1. CASE recv_payload' = <<>>
    BY <1>1, <2>1 DEF IInv, ServerRight
  <2>2. ASSUME NEW g, Forwarded(g), recv_payload' = <<g>>
        PROVE  ServerRight'
    <3>1. recv_payload' = <<g>> /\ B!Request' = g
      BY <2>2, OneFrame DEF B!Request
    <3>2. Forwarded(g)'
      BY <1>2, <2>2, Later DEF IInv, ServerRight
    <3>3. Forwarded(B!Request)'
      BY <3>1, <3>2
    <3> QED BY <1>1, <3>1, <3>3 DEF IInv, ServerRight
  <2> QED BY <1>5, <2>1, <2>2
<1>7. AtB = {} /\ AtB' \subseteq B!Numbers(b.adu)
  <2>1. AtB = {} /\ AtB' = B!Numbers(recv_payload')
    BY <1>1 DEF AtB, B!Numbers
  <2> QED BY <1>4, <1>5, <2>1, OneFrame
<1>8. OnePlace'
  <2>1. b \in RequestBundles /\ RequestBundles' = RequestBundles \ {b}
    BY <1>1 DEF RequestBundles
  <2>2. ASSUME NEW c \in RequestBundles'
        PROVE  /\ B!Numbers(c.adu) \subseteq Gone
               /\ B!Numbers(c.adu) \cap (AtD \cup AtB' \cup B!Numbers(served)) = {}
               /\ \A d \in RequestBundles' : c # d => B!Numbers(c.adu) \cap B!Numbers(d.adu) = {}
    BY <2>1, <2>2, <1>7 DEF IInv, OnePlace
  <2>3. \A c \in RequestBundles' :
          /\ B!Numbers(c.adu)' \subseteq Gone
          /\ B!Numbers(c.adu)' \cap (AtD \cup AtB' \cup B!Numbers(served)) = {}
          /\ \A d \in RequestBundles' : c # d => B!Numbers(c.adu)' \cap B!Numbers(d.adu)' = {}
    BY <2>2 DEF B!Numbers
  <2>4. B!Numbers(served)' = B!Numbers(served) /\ served' = served
    BY <1>1 DEF B!Numbers
  <2>5. /\ AtD \cup AtB' \cup B!Numbers(served) \subseteq Gone
        /\ AtD \cap (AtB' \cup B!Numbers(served)) = {} /\ AtB' \cap B!Numbers(served) = {}
        /\ \A i, j \in DOMAIN served : served[i].n = served[j].n => i = j
    BY <2>1, <1>7 DEF IInv, OnePlace
  <2> QED BY <1>2, <2>3, <2>4, <2>5 DEF OnePlace
<1> QED BY <1>2, <1>3, <1>6, <1>8 DEF IInv

\* An answer that changes nothing; a GET shows the state all served requests left.
LEMMA AnswerRight ==
  ASSUME SystemAssumption, IInv, NEW c, B!Handling, B!Answer(c), c \notin B!Success,
         c = "CONTENT" => /\ B!Request.path \in DOMAIN resources
                          /\ content' = resources[B!Request.path],
         UNCHANGED <<clientVars, proxyVars, history>>
  PROVE  IInv'
<1>1. /\ recv_payload # <<>> /\ pc = "loop" /\ pc' = "respond" /\ code' = c
      /\ UNCHANGED <<resources, recv_payload, net, first, served>>
  BY DEF B!Handling, B!Answer, B!network, history
<1>2. /\ Grown /\ MapsGrown /\ Typed' /\ ClientRight' /\ PrintedRight' /\ ProxyRight'
      /\ Gone' = Gone /\ Asked' = Asked /\ AtD' = AtD /\ IdsGivenOut'
  BY <1>1, ClientAndProxyKept DEF history
<1>3. NetRight'
  BY <1>1, <1>2, BundlesLater DEF NetRight
<1> PICK f : f = B!Request
  OBVIOUS
<1>4. recv_payload = <<f>> /\ Forwarded(f) /\ f.n \in Asked /\ f.path = queued[f.n].path
  BY <1>1, AtRequest
<1>5. f = B!Request' /\ Forwarded(f)'
  BY <1>1, <1>2, <1>4, Later DEF B!Request, IInv, ServerRight
<1>6. Done(B!Request.n, code, content)'
  <2> PICK v : v = content'
    OBVIOUS
  <2>1. Done(f.n, c, v)
    <3>1. CASE c = "CONTENT"
      <4>1. v = resources[f.path] /\ f.path \in DOMAIN resources
        BY <3>1
      <4>2. B!ValuesAfter(v, first, served, queued[f.n].path)
        BY <4>1, <1>4 DEF IInv, ServerRight, B!Agrees
      <4>3. SubSeq(served, 1, Len(served)) = served /\ Len(served) \in 0 .. Len(served)
        BY WholeLog DEF IInv, ServerRight
      <4>4. seen[f.n] \subseteq B!Numbers(served)
        BY <1>4, QueuedTypes DEF IInv
      <4>5. \E k \in 0 .. Len(served) :
              /\ B!ValuesAfter(v, first, SubSeq(served, 1, k), queued[f.n].path)
              /\ seen[f.n] \subseteq B!Numbers(SubSeq(served, 1, k))
        BY <4>2, <4>3, <4>4
      <4> QED BY <4>5 DEF Done
    <3>2. CASE c # "CONTENT"
      BY <3>2 DEF Done
    <3> QED BY <3>1, <3>2
  <2>2. Done(f.n, c, v)'
    BY <2>1, <1>2, <1>4, DoneLater DEF IInv, ServerRight
  <2> QED BY <2>2, <1>1, <1>5
<1>7. ServerRight'
  <2>1. Forwarded(B!Request)'
    BY <1>5
  <2> QED BY <1>1, <1>4, <1>5, <1>6, <2>1, OneFrame DEF IInv, ServerRight
<1>8. OnePlace'
  <2>1. AtB' \subseteq AtB /\ RequestBundles' = RequestBundles
    BY <1>1 DEF AtB, RequestBundles
  <2> QED BY <2>1, <1>1, <1>2, OnePlaceAtB
<1> QED BY <1>2, <1>3, <1>7, <1>8 DEF IInv

\* A request that changes the dictionary joins those served.
LEMMA ChangeRight ==
  ASSUME SystemAssumption, IInv, NEW r, NEW c \in B!Success, B!Handling, B!Change(r, c),
         B!IsDictionary(r), B!Agrees(r, first, Append(served, B!Request)),
         served' = Append(served, B!Request), UNCHANGED <<clientVars, proxyVars, first, queued, seen>>
  PROVE  IInv'
<1>1. /\ recv_payload # <<>> /\ pc = "loop" /\ pc' = "saving" /\ code' = c /\ resources' = r
      /\ UNCHANGED <<recv_payload, net>>
  BY DEF B!Handling, B!Change, B!network
<1> PICK f : f = B!Request
  OBVIOUS
<1>2. /\ recv_payload = <<f>> /\ Forwarded(f) /\ f \in Message /\ B!Numbers(recv_payload) = {f.n}
      /\ served \in Seq(Message)
  BY <1>1, AtRequest DEF IInv, ServerRight
<1>3. /\ Grown /\ MapsGrown /\ Typed' /\ ClientRight' /\ PrintedRight' /\ ProxyRight'
      /\ Gone' = Gone /\ Asked' = Asked /\ AtD' = AtD /\ IdsGivenOut'
  BY <1>1, <1>2, ClientAndProxyKept
<1>4. NetRight'
  BY <1>1, <1>3, BundlesLater DEF NetRight
<1>5. f = B!Request' /\ Forwarded(f)'
  BY <1>1, <1>2, <1>3, Later DEF B!Request, IInv
<1>6. /\ served' \in Seq(Message) /\ B!Numbers(served') = B!Numbers(served) \cup {f.n}
      /\ B!Numbers(served)' = B!Numbers(served')
  <2>1. Len(served) \in 0 .. Len(served) /\ served' = Append(served, f)
    BY <1>2
  <2>2. /\ Append(served, f) \in Seq(Message)
        /\ B!Numbers(Append(served, f)) = B!Numbers(served) \cup {f.n}
    BY <1>2, <2>1, LogGrows
  <2>3. B!Numbers(served)' = B!Numbers(served')
    BY DEF B!Numbers
  <2> QED BY <2>1, <2>2, <2>3
<1>7. ServerRight'
  <2>1. Forwarded(B!Request)'
    BY <1>5
  <2>2. B!IsDictionary(resources)' /\ B!IsDictionary(first)'
    BY <1>1 DEF B!IsDictionary, IInv, ServerRight
  <2>5. B!Agrees(resources, first, served)'
    <3>1. B!Agrees(resources', first', served')
      BY <1>1
    <3> QED BY <3>1 DEF B!Agrees, B!NamesAfter, B!ValuesAfter, B!Left, B!Emptied, B!Puts, B!Empties
  <2>3. (code \in B!Success)'
    BY <1>1 DEF B!Success
  <2>4. B!Request.n' \in B!Numbers(served')
    BY <1>5, <1>6
  <2> QED BY <1>1, <1>2, <1>5, <1>6, <2>1, <2>2, <2>3, <2>4, <2>5, OneFrame DEF ServerRight
<1>8. OnePlace'
  <2>1. AtB = {f.n} /\ AtB' = {} /\ RequestBundles' = RequestBundles
    BY <1>1, <1>2 DEF AtB, RequestBundles
  <2>2. \A b \in RequestBundles :
          /\ B!Numbers(b.adu)' \subseteq Gone
          /\ B!Numbers(b.adu)' \cap (AtD \cup AtB' \cup B!Numbers(served)') = {}
          /\ \A d \in RequestBundles : b # d => B!Numbers(b.adu)' \cap B!Numbers(d.adu)' = {}
    <3>1. ASSUME NEW b \in RequestBundles
          PROVE  /\ B!Numbers(b.adu) \subseteq Gone
                 /\ B!Numbers(b.adu) \cap (AtD \cup AtB \cup B!Numbers(served)) = {}
                 /\ \A d \in RequestBundles : b # d => B!Numbers(b.adu) \cap B!Numbers(d.adu) = {}
      BY <3>1 DEF IInv, OnePlace
    <3>2. AtD \cup AtB' \cup B!Numbers(served)' = AtD \cup AtB \cup B!Numbers(served)
      BY <2>1, <1>6
    <3> QED BY <3>1, <3>2 DEF B!Numbers
  <2>3. /\ AtD \cup AtB' \cup B!Numbers(served)' \subseteq Gone
        /\ AtD \cap (AtB' \cup B!Numbers(served)') = {} /\ AtB' \cap B!Numbers(served)' = {}
    BY <2>1, <1>6 DEF IInv, OnePlace
  <2>4. \A i, j \in DOMAIN served' : served'[i].n = served'[j].n => i = j
    <3>1. /\ DOMAIN served' = DOMAIN served \cup {Len(served) + 1}
          /\ \A i \in DOMAIN served : served'[i] = served[i]
          /\ served'[Len(served) + 1] = f
      <4> HIDE DEF Message
      <4> QED BY <1>2
    <3>2. \A i \in DOMAIN served : served[i].n # f.n
      BY <2>1 DEF IInv, OnePlace, B!Numbers
    <3> QED BY <3>1, <3>2 DEF IInv, OnePlace
  <2> QED BY <1>3, <2>1, <2>2, <2>3, <2>4 DEF OnePlace
<1> QED BY <1>3, <1>4, <1>7, <1>8 DEF IInv

LEMMA HandleRight ==
  ASSUME SystemAssumption, IInv, B!Handle,
         served' = IF pc' = "saving" THEN Append(served, B!Request) ELSE served,
         UNCHANGED <<clientVars, proxyVars, first, queued, seen>>
  PROVE  IInv'
<1>1. /\ B!Handling /\ recv_payload # <<>> /\ pc = "loop"
      /\ B!IsDictionary(resources) /\ B!IsDictionary(first) /\ B!Agrees(resources, first, served)
      /\ served \in Seq(Message)
  BY DEF B!Handle, B!HandlePost, B!RenderPut, B!RenderDelete, B!RenderGet, B!Refuse, B!Handling,
         IInv, ServerRight
<1>2. B!Request \in Message
  BY <1>1, AtRequest
<1>3. ASSUME NEW c, B!Answer(c), c \notin B!Success,
             c = "CONTENT" => /\ B!Request.path \in DOMAIN resources
                              /\ content' = resources[B!Request.path]
      PROVE  IInv'
  <2>1. served' = served
    BY <1>3 DEF B!Answer
  <2> QED BY <1>1, <1>3, <2>1, AnswerRight DEF history
<1>4. ASSUME NEW r, NEW c \in B!Success, B!Change(r, c), B!IsDictionary(r),
             B!Agrees(r, first, Append(served, B!Request))
      PROVE  IInv'
  <2>1. served' = Append(served, B!Request)
    BY <1>4 DEF B!Change
  <2> QED BY <1>1, <1>4, <2>1, ChangeRight
<1>5. CASE B!HandlePost
  <2>1. CASE B!Request.payload \notin Names \/ B!Request.payload \in DOMAIN resources
    <3>1. B!Answer("BAD_REQUEST")
      BY <1>5, <2>1 DEF B!HandlePost
    <3> QED BY <1>3, <3>1 DEF B!Success
  <2>2. CASE B!Request.payload \in Names /\ B!Request.payload \notin DOMAIN resources
    <3>1. /\ B!Change(B!Created(resources, B!Request.payload), "CREATED")
          /\ B!Request.code = "POST"
      BY <1>5, <2>2 DEF B!HandlePost
    <3>2. /\ B!Agrees(B!Created(resources, B!Request.payload), first, Append(served, B!Request))
          /\ B!IsDictionary(B!Created(resources, B!Request.payload))
      BY <1>1, <1>2, <2>2, <3>1, AgreesCreated
    <3> QED BY <1>4, <3>1, <3>2 DEF B!Success
  <2> QED BY <2>1, <2>2
<1>6. CASE B!RenderPut
  <2> DEFINE r == [resources EXCEPT ![B!Request.path] = Append(@, B!Request.payload)]
  <2>1. CASE B!Request.payload \notin Values
    <3>1. B!Answer("BAD_REQUEST")
      BY <1>6, <2>1 DEF B!RenderPut
    <3> QED BY <1>3, <3>1 DEF B!Success
  <2>2. CASE B!Request.payload \in Values
    <3>1. /\ B!Change(r, "CHANGED")
          /\ B!Request.code = "PUT" /\ B!Request.path \in DOMAIN resources
      BY <1>6, <2>2 DEF B!RenderPut
    <3>2. B!Agrees(r, first, Append(served, B!Request)) /\ B!IsDictionary(r)
      BY <1>1, <1>2, <2>2, <3>1, AgreesAdded
    <3> QED BY <1>4, <3>1, <3>2 DEF B!Success
  <2> QED BY <2>1, <2>2
<1>7. CASE B!RenderDelete
  <2> DEFINE r == [resources EXCEPT ![B!Request.path] = <<>>]
  <2>1. /\ B!Change(r, "DELETED")
        /\ B!Request.code = "DELETE" /\ B!Request.path \in DOMAIN resources
    BY <1>7 DEF B!RenderDelete
  <2>2. B!Agrees(r, first, Append(served, B!Request)) /\ B!IsDictionary(r)
    BY <1>1, <1>2, <2>1, AgreesDeleted
  <2> QED BY <1>4, <2>1, <2>2 DEF B!Success
<1>8. CASE B!RenderGet
  <2>1. /\ B!Answer("CONTENT") /\ B!Request.path \in DOMAIN resources
        /\ content' = resources[B!Request.path]
    BY <1>8 DEF B!RenderGet
  <2> QED BY <1>3, <2>1 DEF B!Success
<1>9. CASE B!Refuse
  <2>1. B!Answer("METHOD_NOT_ALLOWED") \/ B!Answer("NOT_FOUND")
    BY <1>9 DEF B!Refuse
  <2> QED BY <1>3, <2>1 DEF B!Success
<1> QED BY <1>5, <1>6, <1>7, <1>8, <1>9 DEF B!Handle

LEMMA FinishSaveRight ==
  ASSUME SystemAssumption, IInv, B!FinishSave, UNCHANGED <<clientVars, proxyVars, history>>
  PROVE  IInv'
<1>1. /\ pc = "saving" /\ pc' = "respond"
      /\ UNCHANGED <<resources, recv_payload, code, content, net, first, served>>
  BY DEF B!FinishSave, B!network, history
<1>2. /\ Grown /\ MapsGrown /\ Typed' /\ ClientRight' /\ PrintedRight' /\ ProxyRight'
      /\ Gone' = Gone /\ Asked' = Asked /\ AtD' = AtD /\ IdsGivenOut'
  BY <1>1, ClientAndProxyKept DEF history
<1>3. NetRight'
  BY <1>1, <1>2, BundlesLater DEF NetRight
<1> PICK f : f = B!Request
  OBVIOUS
<1>4. recv_payload = <<f>> /\ Forwarded(f) /\ recv_payload # <<>> /\ f.n \in Asked
  BY <1>1, AtRequest DEF IInv, ServerRight
<1>5. f = B!Request' /\ Forwarded(f)'
  BY <1>1, <1>2, <1>4, Later DEF B!Request, IInv, ServerRight
<1>6. Done(B!Request.n, code, content)'
  <2> PICK c, v : c = code /\ v = content
    OBVIOUS
  <2>1. Done(f.n, c, v)
    BY <1>1 DEF Done, IInv, ServerRight, B!Success
  <2>2. Done(f.n, c, v)'
    BY <2>1, <1>2, <1>4, DoneLater DEF IInv, ServerRight
  <2> QED BY <2>2, <1>1, <1>5
<1>7. ServerRight'
  <2>1. Forwarded(B!Request)'
    BY <1>5
  <2> QED BY <1>1, <1>4, <1>5, <1>6, <2>1, OneFrame DEF IInv, ServerRight
<1>8. OnePlace'
  <2>1. AtB' \subseteq AtB /\ RequestBundles' = RequestBundles
    BY <1>1 DEF AtB, RequestBundles
  <2> QED BY <2>1, <1>1, <1>2, OnePlaceAtB
<1> QED BY <1>2, <1>3, <1>7, <1>8 DEF IInv

\* The response leaves; what it says of its request is so, now and later.
LEMMA RespondRight ==
  ASSUME SystemAssumption, IInv, B!Respond, UNCHANGED <<clientVars, proxyVars, history>>
  PROVE  IInv'
<1> PICK f : f = B!Request
  OBVIOUS
<1> PICK r : r = B!Response
  OBVIOUS
<1> PICK new : new = [src |-> NodeB, dst |-> NodeD, seq |-> seqno[NodeB], adu |-> <<r>>]
  OBVIOUS
<1>1. /\ pc = "respond" /\ pc' = "loop" /\ recv_payload' = Tail(recv_payload)
      /\ net' = net \cup {new} /\ UNCHANGED <<resources, first, served>>
  BY DEF B!Respond, B!Submit, B!Bundle, history
<1>2. NodeA # NodeB /\ NodeA # NodeD /\ NodeB # NodeD
  BY DEF SystemAssumption
<1>3. /\ Grown /\ MapsGrown /\ Typed' /\ ClientRight' /\ PrintedRight' /\ ProxyRight'
      /\ Gone' = Gone /\ Asked' = Asked /\ AtD' = AtD /\ IdsGivenOut'
  BY <1>1, <1>2, ClientAndProxyKept DEF history
<1>4. recv_payload # <<>> /\ Done(f.n, code, content)
  BY <1>1 DEF IInv, ServerRight
<1>5. /\ Tail(recv_payload) = <<>> /\ Forwarded(f) /\ f.n \in Asked
      /\ f.mtype = queued[f.n].mtype
  BY <1>4, AtRequest
<1>6. r = [n |-> f.n, token |-> f.token, mid |-> f.mid, code |-> code,
           mtype |-> IF f.mtype # "NON" THEN "ACK" ELSE "NON", payload |-> content]
  BY DEF B!Response
<1>7. Mapped(r) /\ Reply(r)
  <2>1. queued[f.n].mtype \in {"CON", "NON"}
    BY <1>5, QueuedTypes DEF IInv, Message
  <2>2. Mapped(r)
    BY <1>5, <1>6 DEF Forwarded, Mapped
  <2> QED BY <1>4, <1>5, <1>6, <2>1, <2>2 DEF Reply
<1>8. NetRight'
  <2>1. Mapped(r)' /\ Reply(r)'
    BY <1>3, <1>7, Later DEF IInv, ServerRight
  <2>2. BundleRight(new)'
    BY <1>2, <2>1, OneFrame DEF BundleRight
  <2>3. \A b \in net : BundleRight(b)'
    BY <1>3, BundlesLater
  <2> QED BY <1>1, <2>2, <2>3 DEF NetRight
<1>9. ServerRight'
  BY <1>1, <1>5 DEF IInv, ServerRight
<1>10. OnePlace'
  <2>1. RequestBundles' = RequestBundles
    BY <1>1, <1>2 DEF RequestBundles
  <2>2. AtB' = {}
    BY <1>1, <1>5 DEF AtB, B!Numbers
  <2> QED BY <2>1, <2>2, <1>1, <1>3, OnePlaceAtB
<1> QED BY <1>3, <1>8, <1>9, <1>10 DEF IInv

\* A frame that cannot be parsed, or the end of the ADU.
LEMMA LeaveRight ==
  ASSUME SystemAssumption, IInv, B!Break \/ B!NextADU, UNCHANGED <<clientVars, proxyVars, history>>
  PROVE  IInv'
<1>1. /\ pc = "loop" /\ pc' \in {"loop", "idle"} /\ recv_payload' = <<>>
      /\ UNCHANGED <<resources, net, first, served>>
  BY DEF B!Break, B!NextADU, B!network, history
<1>2. /\ Grown /\ MapsGrown /\ Typed' /\ ClientRight' /\ PrintedRight' /\ ProxyRight'
      /\ Gone' = Gone /\ Asked' = Asked /\ AtD' = AtD /\ IdsGivenOut'
  BY <1>1, ClientAndProxyKept DEF history
<1>3. NetRight'
  BY <1>1, <1>2, BundlesLater DEF NetRight
<1>4. ServerRight'
  BY <1>1 DEF IInv, ServerRight
<1>5. OnePlace'
  <2>1. AtB' = {} /\ RequestBundles' = RequestBundles
    BY <1>1 DEF AtB, RequestBundles, B!Numbers
  <2> QED BY <2>1, <1>1, <1>2, OnePlaceAtB
<1> QED BY <1>2, <1>3, <1>4, <1>5 DEF IInv

-----------------------------------------------------------------------------
(* The invariant *)

LEMMA InitRight ==
  ASSUME SystemAssumption, Init
  PROVE  IInv
<1> USE DEF SystemAssumption
<1>1. /\ current_id = 1 /\ coap_buffer = <<>> /\ at = [t \in {0} |-> "input"] /\ stream = <<>>
      /\ printed = {} /\ net = {} /\ queued = <<>> /\ seen = <<>> /\ served = <<>>
      /\ first = resources
  BY DEF Init, A!ClientInit, A!Main
<1>2. /\ next_mid \in StartMids /\ src_eid = NoEid /\ proxy_payload = <<>> /\ era = 0
      /\ reverse_token_map = [t \in Tokens |-> NoToken]
      /\ reverse_mid_map = [m \in Mids |-> 0]
  BY DEF Init, D!ProxyInit, D!FreshMapper, D!Mids, Mids
<1>3. /\ recv_payload = <<>> /\ pc = "idle" /\ B!IsDictionary(resources)
  <2>1. /\ recv_payload = <<>> /\ pc = "idle" /\ resources = B!Contents
        /\ file \in {B!Absent} \cup { B!File(r) : r \in Databases }
    BY DEF Init, B!ServerInit
  <2>2. CASE file = B!Absent
    BY <2>1, <2>2 DEF B!Contents, B!IsDictionary
  <2>3. CASE file # B!Absent
    <3>1. PICK r \in Databases : file = B!File(r)
      BY <2>1, <2>3
    <3>2. resources = r
      BY <2>1, <2>3, <3>1 DEF B!Contents, B!File
    <3> QED BY <2>1, <3>2 DEF B!IsDictionary
  <2> QED BY <2>1, <2>2, <2>3
<1>4. B!Numbers(<<>>) = {} /\ <<>> \in Seq(Message) /\ FromUser(<<>>) /\ Asked = {}
  BY <1>1 DEF B!Numbers, FromUser, Ascending, Asked
<1>5. Typed
  BY <1>1, <1>4 DEF Typed, Mids
<1>6. ClientRight
  <2>1. ~Finishing
    BY <1>1 DEF Finishing
  <2>2. TasksRight
    BY <1>1 DEF TasksRight
  <2>3. BufferRight /\ StreamRight
    BY <1>1, <1>4, <2>1 DEF BufferRight, StreamRight
  <2> QED BY <2>2, <2>3 DEF ClientRight
<1>7. ProxyRight
  BY <1>2, <1>4 DEF ProxyRight, Mids
<1>8. ServerRight
  <2>1. B!Agrees(resources, first, <<>>)
    BY <1>1, <1>3, AgreesAtFirst
  <2> QED BY <1>1, <1>3, <1>4, <2>1 DEF ServerRight
<1>9. OnePlace
  BY <1>1, <1>2, <1>3, <1>4 DEF OnePlace, RequestBundles, AtD, AtB
<1>10. IdsGivenOut
  <2>1. next_mid \in Mids /\ next_mid \in Int
    BY <1>2 DEF Mids
  <2>2. GivenOut = {}
    BY <1>2 DEF GivenOut
  <2>3. Interval(next_mid, 0)
    BY <2>1, <2>2 DEF Interval, Mids
  <2>4. {} \in SUBSET Gone /\ Cardinality({}) = 0
    BY FS_EmptySet
  <2>5. Interval(next_mid, Cardinality({}))
    BY <2>3, <2>4
  <2> QED BY <2>1, <2>4, <2>5 DEF IdsGivenOut
<1>11. NetRight /\ PrintedRight
  BY <1>1 DEF NetRight, PrintedRight
<1> QED BY <1>5, <1>6, <1>7, <1>8, <1>9, <1>10, <1>11 DEF IInv

LEMMA ServerStepRight ==
  ASSUME SystemAssumption, IInv, Server
  PROVE  IInv'
<1>1. /\ B!Work \/ \E b \in net : B!Receive(b)
      /\ served' = IF pc' = "saving" /\ pc # "saving" THEN Append(served, B!Request) ELSE served
      /\ UNCHANGED <<clientVars, proxyVars, first, queued, seen>>
  BY DEF Server, B!Request
<1>2. CASE B!Handle
  <2>1. pc = "loop"
    BY <1>2 DEF B!Handle, B!HandlePost, B!RenderPut, B!RenderDelete, B!RenderGet, B!Refuse, B!Handling
  <2> QED BY <1>1, <1>2, <2>1, HandleRight
<1>3. CASE B!FinishSave
  <2>1. served' = served
    BY <1>1, <1>3 DEF B!FinishSave
  <2> QED BY <1>1, <1>3, <2>1, FinishSaveRight DEF history
<1>4. CASE B!DumpFails \/ B!SendFails
  BY <1>4 DEF B!DumpFails, B!SendFails
<1>5. CASE B!SaveFailed
  BY <1>5 DEF B!SaveFailed, IInv, ServerRight
<1>6. CASE B!Respond
  <2>1. served' = served
    BY <1>1, <1>6 DEF B!Respond
  <2> QED BY <1>1, <1>6, <2>1, RespondRight DEF history
<1>7. CASE B!Break \/ B!NextADU
  <2>1. served' = served
    BY <1>1, <1>7 DEF B!Break, B!NextADU
  <2> QED BY <1>1, <1>7, <2>1, LeaveRight DEF history
<1>8. CASE \E b \in net : B!Receive(b)
  <2>1. served' = served
    BY <1>1, <1>8 DEF B!Receive
  <2> QED BY <1>1, <1>8, <2>1, ReceiveAtBRight DEF history
<1> QED BY <1>1, <1>2, <1>3, <1>4, <1>5, <1>6, <1>7, <1>8 DEF B!Work

LEMMA ProxyStepRight ==
  ASSUME SystemAssumption, IInv, Proxy
  PROVE  IInv'
<1>1. /\ D!Process \/ \E b \in net : D!Receive(b)
      /\ UNCHANGED <<clientVars, serverVars, history>>
  BY DEF Proxy
<1>2. CASE D!DiscardResponse \/ D!SkipJunk
  <2>1. PICK msg \in D!NextFrame : D!GoOn(msg)
    BY <1>2 DEF D!DiscardResponse, D!SkipJunk
  <2>2. /\ proxy_payload # <<>> /\ UNCHANGED src_eid
        /\ UNCHANGED <<next_mid, reverse_token_map, reverse_mid_map, era, net>>
    BY <1>2, <2>1 DEF D!DiscardResponse, D!SkipJunk, D!NextFrame, D!mapper, D!network
  <2> QED BY <1>1, <2>1, <2>2, DropRight
<1> QED
  BY <1>1, <1>2, ForwardRequestRight, ForwardResponseRight, ReceiveAtDRight DEF D!Process

LEMMA ClientStepRight ==
  ASSUME SystemAssumption, IInv, Unhindered, Unhindered', Client
  PROVE  IInv'
<1>1. /\ A!Run \/ A!Accept \/ \E b \in net : A!ChatReceive(b)
      /\ UNCHANGED <<proxyVars, serverVars, history>>
  BY DEF Client
<1>2. ~A!Resume /\ ~A!Continue
  BY DEF Unhindered, A!Resume, A!Continue
<1> QED
  BY <1>1, <1>2, ExpireRight, SendAduRight, FinishFlushRight, AcceptRight, ChatReceiveRight
  DEF A!Run

LEMMA NextRight ==
  ASSUME SystemAssumption, IInv, Unhindered, Unhindered', [Next]_vars
  PROVE  IInv'
<1>1. CASE UNCHANGED vars
  <2>1. UNCHANGED <<clientVars, proxyVars, first, queued, seen, serverVars, net, served, history>>
    BY <1>1 DEF vars, history
  <2>2. /\ Grown /\ MapsGrown /\ Typed' /\ ClientRight' /\ PrintedRight' /\ ProxyRight'
        /\ Gone' = Gone /\ Asked' = Asked /\ AtD' = AtD /\ IdsGivenOut'
    BY <2>1, ClientAndProxyKept
  <2>3. ServerRight'
    BY <2>1, <2>2, ServerLater
  <2>4. NetRight'
    BY <2>1, <2>2, BundlesLater DEF NetRight
  <2>5. OnePlace'
    <3>1. AtB' \subseteq AtB /\ RequestBundles' = RequestBundles
      BY <2>1 DEF AtB, RequestBundles, serverVars, B!Numbers
    <3> QED BY <2>1, <2>2, <3>1, OnePlaceAtB
  <2> QED BY <2>2, <2>3, <2>4, <2>5 DEF IInv
<1>2. CASE Next
  BY <1>2, TypeCommandRight, ClientStepRight, ProxyStepRight, ServerStepRight DEF Next
<1> QED BY <1>1, <1>2

-----------------------------------------------------------------------------
(* The theorems *)

\* What the requests that are not answered yet, and those that are, look like everywhere:
\* at A, D and B, and on the way.  It holds as long as no task of A waits in drain(): one that
\* does lets a second one write the same aggregate again.
THEOREM SystemInvariant ==
  ASSUME SystemAssumption
  PROVE  Spec /\ []Unhindered => []IInv
<1>1. Init => IInv
  BY InitRight
<1>2. IInv /\ Unhindered /\ Unhindered' /\ [Next]_vars => IInv'
  BY NextRight
<1> QED BY <1>1, <1>2, PTL DEF Spec

LEMMA SessionRight ==
  ASSUME IInv
  PROVE  SessionInv /\ ReadYourWrites
<1>1. \A r \in printed : Matched(r) /\ Reply(r)
  BY DEF IInv, PrintedRight
<1>2. EndToEndMatch
  BY <1>1 DEF EndToEndMatch, Matched, Reply
<1>3. AtMostOnce
  <2>1. \A i, j \in DOMAIN served : served[i].n = served[j].n => i = j
    BY DEF IInv, OnePlace
  <2>2. \A r \in printed : r.code \in B!Success => r.n \in B!Numbers(served)
    BY <1>1 DEF Reply, Done
  <2> QED BY <2>1, <2>2 DEF AtMostOnce, B!Numbers
<1>4. ReadYourWrites
  BY <1>1 DEF ReadYourWrites, Reply, Done
<1> QED BY <1>2, <1>3, <1>4 DEF SessionInv

\* The answers A prints are those of its requests, no request takes effect twice, a success is
\* printed only for one that did, and a GET shows all that its user knew was done; for any
\* number of commands, however D and B, the network and the tasks of A take turns.
THEOREM SystemCorrect ==
  ASSUME SystemAssumption
  PROVE  Spec /\ []Unhindered => [](SessionInv /\ ReadYourWrites)
<1>1. IInv => SessionInv /\ ReadYourWrites
  BY SessionRight
<1> QED BY <1>1, SystemInvariant, PTL

-----------------------------------------------------------------------------
(* When the transport cannot be paused *)

\* There are fewer commands than ADUs it takes to pause the transport.
Uncrowded == HighWater \in Nat /\ MaxCommands < HighWater

\* Every ADU that waits for uD3TN holds a request written before, none is empty.
Room ==
  /\ Len(stream) <= Written
  /\ \A t \in DOMAIN at : at[t] = "write" => coap_buffer # <<>>

LEMMA RoomStays ==
  ASSUME SystemAssumption, Uncrowded, IInv, Unhindered, Room, [Next]_vars
  PROVE  Room' /\ Unhindered'
<1>1. /\ queued \in Seq(Message) /\ Len(queued) \in Nat /\ Len(queued) <= MaxCommands
      /\ coap_buffer \in Seq(Message) /\ Len(coap_buffer) \in Nat
      /\ stream \in Seq(Seq(Message)) /\ Len(stream) \in Nat
  BY DEF IInv, Typed, ClientRight, BufferRight, StreamRight, FromUser
<1>2. CASE UNCHANGED <<queued, coap_buffer, at, stream, waiters, woken>>
  BY <1>2 DEF Room, Unhindered, Written, Finishing
<1>3. CASE TypeCommand
  <2> PICK c \in Commands : A!Queue(c, Len(queued) + 1)
    BY <1>3 DEF TypeCommand
  <2> PICK m, q : coap_buffer' = Append(coap_buffer, m) /\ queued' = Append(queued, q)
    BY <1>3 DEF A!Queue, TypeCommand
  <2>1. /\ A!LoopIdle /\ UNCHANGED <<stream, waiters, woken>>
    BY DEF A!Queue
  <2>2. Len(coap_buffer') = Len(coap_buffer) + 1 /\ Len(queued') = Len(queued) + 1
    <3> HIDE DEF Message
    <3>1. \A S : \A s \in Seq(S) : \A e : Len(Append(s, e)) = Len(s) + 1
      OBVIOUS
    <3> QED BY <1>1, <3>1
  <2>3. ~Finishing /\ ~Finishing'
    <3> DEFINE flusher == A!Cardinality(DOMAIN at)
               started == [t \in DOMAIN at \cup {flusher} |-> IF t = flusher THEN "sleep" ELSE at[t]]
               known == IF flusher_task = A!NoTask THEN started ELSE at
    <3>1. at' = IF Len(coap_buffer') >= BufferLimit THEN [known EXCEPT ![A!Main] = "write"] ELSE known
      BY DEF A!Queue
    <3>2. \A u \in DOMAIN at : at[u] \notin {"write", "finish"}
      BY <2>1 DEF A!LoopIdle
    <3>3. \A u \in DOMAIN known : known[u] \notin {"write", "finish"}
      BY <3>2
    <3> HIDE DEF known
    <3>4. \A u \in DOMAIN at' : at'[u] # "finish"
      BY <3>1, <3>3
    <3> QED BY <3>2, <3>4 DEF Finishing
  <2>4. Written' = Written
    BY <1>1, <2>2, <2>3 DEF Written
  <2>5. coap_buffer' # <<>>
    BY <1>1, <2>2
  <2> QED BY <2>1, <2>4, <2>5 DEF Room, Unhindered
<1>4. ASSUME NEW t \in DOMAIN at, A!Expire(t), queued' = queued
      PROVE  Room' /\ Unhindered'
  <2>1. /\ A!LoopIdle /\ UNCHANGED <<coap_buffer, stream, waiters, woken>>
        /\ at' = [at EXCEPT ![t] = IF coap_buffer = <<>> THEN "done" ELSE "write"]
    BY <1>4 DEF A!Expire
  <2>2. ~Finishing /\ ~Finishing'
    BY <2>1 DEF Finishing, A!LoopIdle
  <2>3. \A u \in DOMAIN at' : at'[u] = "write" => coap_buffer # <<>>
    BY <2>1 DEF A!LoopIdle
  <2> QED BY <1>4, <2>1, <2>2, <2>3 DEF Room, Unhindered, Written
<1>5. ASSUME NEW t \in DOMAIN at, A!SendAdu(t), queued' = queued
      PROVE  Room' /\ Unhindered'
  <2>1. /\ at[t] = "write" /\ stream' = Append(stream, coap_buffer) /\ coap_buffer # <<>>
        /\ UNCHANGED <<coap_buffer, woken>>
    BY <1>5 DEF A!SendAdu, Room
  <2>2. ~Finishing
    BY <2>1 DEF Finishing, IInv, ClientRight, TasksRight
  <2>3. Len(coap_buffer) > 0 /\ Len(stream') = Len(stream) + 1
    BY <1>1, <2>1
  <2>4. Len(stream') <= Len(queued)
    BY <1>1, <2>2, <2>3 DEF Room, Written
  <2>5. ~(Len(stream') >= HighWater)
    BY <1>1, <2>3, <2>4 DEF Uncrowded, SystemAssumption
  <2>6. at' = [at EXCEPT ![t] = "finish"] /\ UNCHANGED waiters
    BY <1>5, <2>5 DEF A!SendAdu
  <2>7. Finishing'
    BY <2>6 DEF Finishing
  <2>8. \A u \in DOMAIN at' : at'[u] # "write"
    BY <2>1, <2>6 DEF IInv, ClientRight, TasksRight
  <2> QED BY <1>5, <2>1, <2>4, <2>6, <2>7, <2>8 DEF Room, Unhindered, Written
<1>6. ASSUME NEW t \in DOMAIN at, A!FinishFlush(t), queued' = queued
      PROVE  Room' /\ Unhindered'
  <2>1. /\ at[t] = "finish" /\ coap_buffer' = <<>> /\ at' = A!Finished(t) /\ stream' = stream
        /\ waiters' = A!RemoveFirst(waiters, flusher_task)
        /\ woken' = A!RemoveFirst(woken, flusher_task)
    BY <1>6 DEF A!FinishFlush
  <2>2. waiters' = <<>> /\ woken' = <<>>
    BY <2>1 DEF Unhindered, A!RemoveFirst
  <2>3. \A u \in DOMAIN at' : at'[u] \notin {"write", "finish"}
    BY <2>1 DEF A!Finished, IInv, ClientRight, TasksRight
  <2>4. Finishing /\ ~Finishing'
    BY <2>1, <2>3 DEF Finishing
  <2>5. Len(coap_buffer') = 0
    BY <2>1
  <2>6. Written' = Written
    BY <1>1, <1>6, <2>4, <2>5 DEF Written
  <2> QED BY <2>1, <2>2, <2>3, <2>6 DEF Room, Unhindered
<1>7. CASE A!Accept /\ queued' = queued
  <2>1. stream # <<>> /\ stream' = Tail(stream) /\ UNCHANGED <<coap_buffer, at, waiters, woken>>
    BY <1>7 DEF A!Accept, A!tasks
  <2>2. Len(stream') = Len(stream) - 1
    BY <1>1, <2>1
  <2>3. Written' = Written /\ Written \in Int
    BY <1>1, <1>7, <2>1 DEF Written, Finishing
  <2> QED BY <1>1, <2>1, <2>2, <2>3 DEF Room, Unhindered
<1>8. CASE Client
  <2>1. queued' = queued /\ ~A!Resume /\ ~A!Continue
    BY <1>8 DEF Client, history, Unhindered, A!Resume, A!Continue
  <2>2. ASSUME NEW b \in net, A!ChatReceive(b)
        PROVE  Room' /\ Unhindered'
    BY <1>2, <2>1, <2>2 DEF A!ChatReceive, A!tasks
  <2> QED BY <1>4, <1>5, <1>6, <1>7, <1>8, <2>1, <2>2 DEF Client, A!Run
<1>9. CASE Proxy \/ Server \/ UNCHANGED vars
  BY <1>2, <1>9 DEF Proxy, Server, vars, history, clientVars
<1> QED BY <1>3, <1>8, <1>9 DEF Next

\* The same without the condition on drain(), for sessions with fewer commands than it takes
\* ADUs to pause the transport.
THEOREM SystemUncrowded ==
  ASSUME SystemAssumption, Uncrowded
  PROVE  Spec => []Unhindered /\ [](SessionInv /\ ReadYourWrites)
<1>1. Init => IInv /\ Room /\ Unhindered
  <2>1. SUFFICES ASSUME Init PROVE Room /\ Unhindered
    BY InitRight
  <2>2. /\ coap_buffer = <<>> /\ at = [t \in {0} |-> "input"] /\ stream = <<>> /\ queued = <<>>
        /\ waiters = <<>> /\ woken = <<>>
    BY <2>1 DEF Init, A!ClientInit, A!Main
  <2> QED BY <2>2 DEF Room, Unhindered, Written, Finishing
<1>2. IInv /\ Room /\ Unhindered /\ [Next]_vars => IInv' /\ Room' /\ Unhindered'
  BY RoomStays, NextRight
<1>3. IInv => SessionInv /\ ReadYourWrites
  BY SessionRight
<1> QED BY <1>1, <1>2, <1>3, PTL DEF Spec
=============================================================================
