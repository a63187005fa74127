----------------------------- MODULE ServerProofs -----------------------------
(***************************************************************************)
(* What the run of ServerService checks on small instances, proved for     *)
(* any resources, payloads and requests, and any number of crashes: what   *)
(* was confirmed survives, and no request is served twice.                 *)
(***************************************************************************)
EXTENDS ServerService, SequenceTheorems, TLAPS

-----------------------------------------------------------------------------
(* The inductive invariant *)

Message ==
  [n : Nat, token : Nat, mid : Nat, mtype : {"CON"}, code : { r.code : r \in Requests },
   path : { r.path : r \in Requests }, payload : { r.payload : r \in Requests } \cup Pieces]
Frame == Message \cup {Junk}

\* The frames under way to the server are requests or broken ones, the logs hold requests.
Typed ==
  /\ TypeOK /\ made \in Nat
  /\ recv_payload \in Seq(Frame)
  /\ \A b \in net : b.dst = NodeB => b.adu \in Seq(Frame)
  /\ held \in Seq(Message) /\ saved \in Seq(Message)

\* The numbers of the requests in a sequence of frames.
NumbersOf(frames) == { frames[i].n : i \in { j \in DOMAIN frames : frames[j] # Junk } }
AllDifferent(frames) ==
  \A i, j \in DOMAIN frames : i < j /\ frames[i] # Junk /\ frames[j] # Junk =>
                                frames[i].n # frames[j].n

\* What is still to be served: all that was received, or all but the request in hand.
ToServe == IF pc = "loop" \/ recv_payload = <<>> THEN recv_payload ELSE Tail(recv_payload)

\* One ADU at most is under way to the server; what it carries, what the server has yet to
\* serve and what was served have different numbers, all given out already.
NumbersRight ==
  /\ \A b, c \in net : b.dst = NodeB /\ c.dst = NodeB => b = c
  /\ \A b \in net : b.dst = NodeB =>
       /\ AllDifferent(b.adu) /\ NumbersOf(b.adu) \subseteq 1 .. made
       /\ NumbersOf(b.adu) \cap (NumbersOf(recv_payload) \cup Numbers(held)) = {}
  /\ AllDifferent(recv_payload) /\ NumbersOf(recv_payload) \subseteq 1 .. made
  /\ Numbers(held) \subseteq 1 .. made /\ NumbersOf(ToServe) \cap Numbers(held) = {}
  /\ Numbers(saved) \subseteq Numbers(held)

\* A request whose change is to be saved is in memory, one about to be confirmed in the file.
InHand ==
  /\ pc \in {"saving", "savefailed", "respond"} => Request # Junk
  /\ pc = "saving" => Request.n \in Numbers(held)
  /\ pc = "respond" /\ code \in Success => Request.n \in Numbers(saved)

Confirmed == \A a \in answers : a.code \in Success => a.n \in Numbers(saved)

Agreed ==
  /\ Running => Agrees(resources, first, held)
  /\ file # Torn => Agrees(Contents, first, saved)

IInv == Typed /\ NumbersRight /\ ServedOnce /\ InHand /\ Confirmed /\ Agreed

-----------------------------------------------------------------------------
(* Sequences *)

\* What Append does, element by element.
LEMMA AppendElements ==
  ASSUME NEW S, NEW s \in Seq(S), NEW e \in S
  PROVE  /\ Append(s, e) \in Seq(S) /\ Len(Append(s, e)) = Len(s) + 1
         /\ DOMAIN s = 1 .. Len(s) /\ DOMAIN Append(s, e) = 1 .. (Len(s) + 1)
         /\ \A i \in DOMAIN s : Append(s, e)[i] = s[i]
         /\ Append(s, e)[Len(s) + 1] = e
         /\ Len(s) \in Nat
OBVIOUS

LEMMA TailElements ==
  ASSUME NEW S, NEW s \in Seq(S), s # <<>>
  PROVE  /\ Head(s) \in S /\ Head(s) = s[1] /\ 1 \in DOMAIN s
         /\ Tail(s) \in Seq(S)
         /\ \A i \in DOMAIN Tail(s) : i + 1 \in DOMAIN s /\ Tail(s)[i] = s[i + 1]
         /\ \A i \in DOMAIN s : i = 1 \/ (i - 1 \in DOMAIN Tail(s) /\ Tail(s)[i - 1] = s[i])
         /\ \A i \in DOMAIN s : i \in Int
OBVIOUS

-----------------------------------------------------------------------------
(* What the requests of a log make of the dictionary *)

LEMMA LeftTyped ==
  ASSUME NEW old, IsDictionary(old), NEW log, NEW x
  PROVE  Left(old, log, x) \in Seq(Values)
BY DEF IsDictionary, Left

\* A log that has grown: what its requests have become.
LEMMA LeftStays ==
  ASSUME NEW old, NEW S, NEW log \in Seq(S), NEW q \in S, NEW x, ~Empties(q, x)
  PROVE  Left(old, Append(log, q), x) = Left(old, log, x)
<1> DEFINE new == Append(log, q)
<1>1. /\ Len(log) \in Nat /\ DOMAIN log = 1 .. Len(log) /\ DOMAIN new = 1 .. (Len(log) + 1)
      /\ \A i \in DOMAIN log : new[i] = log[i]
      /\ new[Len(log) + 1] = q
  BY AppendElements
<1> HIDE DEF new
<1>2. Emptied(new, x) <=> Emptied(log, x)
  BY <1>1 DEF Emptied
<1> QED BY <1>2 DEF Left, new

LEMMA PutsGrow ==
  ASSUME NEW S, NEW log \in Seq(S), NEW q \in S, NEW x, ~Empties(q, x)
  PROVE  \A i : i \in Puts(Append(log, q), x) <=>
                \/ i \in Puts(log, x)
                \/ q.code = "PUT" /\ q.path = x /\ i = Len(log) + 1
<1> DEFINE new == Append(log, q)
<1>1. /\ Len(log) \in Nat /\ DOMAIN log = 1 .. Len(log) /\ DOMAIN new = 1 .. (Len(log) + 1)
      /\ \A i \in DOMAIN log : new[i] = log[i]
      /\ new[Len(log) + 1] = q
  BY AppendElements
<1> HIDE DEF new
<1>2. ASSUME NEW i \in Puts(new, x)
      PROVE  i \in Puts(log, x) \/ (q.code = "PUT" /\ q.path = x /\ i = Len(log) + 1)
  <2>1. CASE i = Len(log) + 1
    BY <1>1, <1>2, <2>1 DEF Puts
  <2>2. CASE i # Len(log) + 1
    <3>1. i \in DOMAIN log
      BY <1>1, <1>2, <2>2 DEF Puts
    <3>2. \A j \in DOMAIN log : i < j => ~Empties(log[j], x)
      BY <1>1, <1>2 DEF Puts
    <3> QED BY <1>1, <1>2, <3>1, <3>2 DEF Puts
  <2> QED BY <2>1, <2>2
<1>3. ASSUME NEW i \in Puts(log, x)
      PROVE  i \in Puts(new, x)
  <2>1. ASSUME NEW j \in DOMAIN new, i < j
        PROVE  ~Empties(new[j], x)
    BY <1>1, <1>3, <2>1 DEF Puts
  <2> QED BY <1>1, <1>3, <2>1 DEF Puts
<1>4. ASSUME q.code = "PUT", q.path = x
      PROVE  Len(log) + 1 \in Puts(new, x)
  BY <1>1, <1>4 DEF Puts
<1> QED BY <1>2, <1>3, <1>4 DEF new

\* A request that does not concern a resource leaves it as it was.
LEMMA ValuesStay ==
  ASSUME NEW old, NEW S, NEW log \in Seq(S), NEW q \in S, NEW x, NEW v, ~Empties(q, x),
         q.code = "PUT" => q.path # x, ValuesAfter(v, old, log, x)
  PROVE  ValuesAfter(v, old, Append(log, q), x)
<1> DEFINE new == Append(log, q)
<1>1. Left(old, new, x) = Left(old, log, x) /\ Puts(new, x) = Puts(log, x)
  <2>1. \A i : i \in Puts(new, x) <=> i \in Puts(log, x)
    BY PutsGrow
  <2>2. Left(old, new, x) = Left(old, log, x)
    BY LeftStays
  <2> QED BY <2>1, <2>2 DEF Puts
<1>2. \A i \in Puts(log, x) : new[i] = log[i]
  BY AppendElements DEF Puts
<1> HIDE DEF new
<1>3. PICK pos \in [1 .. (Len(v) - Len(Left(old, log, x))) -> Puts(log, x)] :
        /\ \A i, j \in DOMAIN pos : i < j => pos[i] < pos[j]
        /\ \A k \in Puts(log, x) : \E i \in DOMAIN pos : pos[i] = k
        /\ v = Left(old, log, x) \o [i \in DOMAIN pos |-> log[pos[i]].payload]
  BY DEF ValuesAfter
<1>4. [i \in DOMAIN pos |-> new[pos[i]].payload] = [i \in DOMAIN pos |-> log[pos[i]].payload]
  BY <1>2
<1>5. v = Left(old, new, x) \o [i \in DOMAIN pos |-> new[pos[i]].payload]
  BY <1>1, <1>3, <1>4
<1> QED BY <1>1, <1>3, <1>5 DEF ValuesAfter, new

\* A request that empties a resource, or creates it.
LEMMA ValuesEmptied ==
  ASSUME NEW old, NEW S, NEW log \in Seq(S), NEW q \in S, NEW x, Empties(q, x)
  PROVE  ValuesAfter(<<>>, old, Append(log, q), x)
<1> DEFINE new == Append(log, q)
<1>1. /\ Len(log) \in Nat /\ DOMAIN log = 1 .. Len(log) /\ DOMAIN new = 1 .. (Len(log) + 1)
      /\ new[Len(log) + 1] = q
  BY AppendElements
<1> HIDE DEF new
<1>2. Left(old, new, x) = <<>>
  BY <1>1 DEF Left, Emptied
<1>3. Puts(new, x) = {}
  <2>1. q.code # "PUT"
    BY DEF Empties
  <2> QED BY <1>1, <2>1 DEF Puts
<1> DEFINE pos == [i \in 1 .. 0 |-> 0]
<1>4. pos \in [1 .. (Len(<<>>) - Len(Left(old, new, x))) -> Puts(new, x)] /\ DOMAIN pos = {}
  BY <1>2, <1>3
<1>5. <<>> = Left(old, new, x) \o [i \in DOMAIN pos |-> new[pos[i]].payload]
  BY <1>2
<1> HIDE DEF pos
<1> QED BY <1>3, <1>4, <1>5 DEF ValuesAfter, new

\* A request that adds a value to a resource.
LEMMA ValueAdded ==
  ASSUME NEW old, NEW S, NEW log \in Seq(S), NEW q \in S, q.code = "PUT", NEW v \in Seq(Values),
         q.payload \in Values, IsDictionary(old), ValuesAfter(v, old, log, q.path)
  PROVE  ValuesAfter(Append(v, q.payload), old, Append(log, q), q.path)
<1>0. /\ Left(old, Append(log, q), q.path) = Left(old, log, q.path)
      /\ Puts(Append(log, q), q.path) = Puts(log, q.path) \cup {Len(log) + 1}
  <2>1. ~Empties(q, q.path)
    BY DEF Empties
  <2>2. \A i : i \in Puts(Append(log, q), q.path) <=>
               i \in Puts(log, q.path) \/ i = Len(log) + 1
    BY <2>1, PutsGrow
  <2>3. Left(old, Append(log, q), q.path) = Left(old, log, q.path)
    BY <2>1, LeftStays
  <2> QED BY <2>2, <2>3 DEF Puts
<1> DEFINE new == Append(log, q)
           x == q.path
           kept == Left(old, log, x)
           n == Len(log)
<1>1. /\ n \in Nat /\ DOMAIN log = 1 .. n
      /\ \A i \in DOMAIN log : new[i] = log[i]
      /\ new[n + 1] = q
  BY AppendElements
<1>3. Left(old, new, x) = kept /\ Puts(new, x) = Puts(log, x) \cup {n + 1}
  BY <1>0
<1>4. Puts(log, x) \subseteq 1 .. n
  BY <1>1 DEF Puts
<1>5. kept \in Seq(Values)
  BY LeftTyped
<1> HIDE DEF new, x, kept, n
<1>6. PICK pos \in [1 .. (Len(v) - Len(kept)) -> Puts(log, x)] :
        /\ \A i, j \in DOMAIN pos : i < j => pos[i] < pos[j]
        /\ \A k \in Puts(log, x) : \E i \in DOMAIN pos : pos[i] = k
        /\ v = kept \o [i \in DOMAIN pos |-> log[pos[i]].payload]
  BY DEF ValuesAfter, x, kept
<1> DEFINE k == Len(v) - Len(kept)
           pos2 == [i \in 1 .. (k + 1) |-> IF i = k + 1 THEN n + 1 ELSE pos[i]]
           w == [i \in DOMAIN pos |-> log[pos[i]].payload]
           w2 == [i \in DOMAIN pos2 |-> new[pos2[i]].payload]
<1>7. k \in Nat /\ w \in Seq({log[j].payload : j \in Puts(log, x)}) /\ Len(w) = k
  <2>1. k \in Int
    BY <1>5
  <2>2. CASE k >= 0
    <3>1. DOMAIN pos = 1 .. k
      BY <1>6
    <3>2. \A i \in 1 .. k : w[i] \in {log[j].payload : j \in Puts(log, x)}
      BY <3>1, <1>6
    <3> QED BY <2>2, <2>1, <3>1, <3>2
  <2>3. CASE k < 0
    <3>1. DOMAIN pos = 1 .. 0
      BY <1>6, <2>3, <2>1
    <3>2. w = <<>>
      BY <3>1
    <3>3. v = kept
      BY <3>2, <1>6, <1>5
    <3> QED BY <3>3, <2>3
  <2> QED BY <2>1, <2>2, <2>3
<1>8. /\ pos2 \in [1 .. (Len(Append(v, q.payload)) - Len(kept)) -> Puts(new, x)]
      /\ DOMAIN pos2 = 1 .. (k + 1) /\ DOMAIN pos = 1 .. k
      /\ pos2[k + 1] = n + 1 /\ \A i \in 1 .. k : pos2[i] = pos[i]
  <2>1. Len(Append(v, q.payload)) - Len(kept) = k + 1
    BY <1>5
  <2>2. DOMAIN pos = 1 .. k /\ \A i \in 1 .. k : pos[i] \in Puts(new, x)
    BY <1>3, <1>6
  <2> HIDE DEF k
  <2>3. pos2[k + 1] = n + 1 /\ \A i \in 1 .. k : pos2[i] = pos[i]
    BY <1>7
  <2>4. \A i \in 1 .. (k + 1) : pos2[i] \in Puts(new, x)
    <3>1. TAKE i \in 1 .. (k + 1)
    <3>2. i = k + 1 \/ i \in 1 .. k
      BY <1>7
    <3> QED BY <3>2, <2>2, <2>3, <1>3
  <2> QED BY <2>1, <2>2, <2>3, <2>4
<1> HIDE DEF pos2, k
<1>9. \A i, j \in DOMAIN pos2 : i < j => pos2[i] < pos2[j]
  <2>1. SUFFICES ASSUME NEW i \in 1 .. (k + 1), NEW j \in 1 .. (k + 1), i < j
                 PROVE  pos2[i] < pos2[j]
    BY <1>8
  <2>2. i \in 1 .. k /\ pos2[i] = pos[i] /\ pos[i] \in 1 .. n
    <3>1. i \in 1 .. k
      BY <2>1, <1>7
    <3> QED BY <3>1, <1>8, <1>6, <1>4
  <2>3. CASE j = k + 1
    BY <2>2, <2>3, <1>8, <1>1
  <2>4. CASE j # k + 1
    <3>1. j \in 1 .. k
      BY <2>4, <1>7
    <3> QED BY <3>1, <2>1, <2>2, <1>8, <1>6
  <2> QED BY <2>3, <2>4
<1>10. \A m \in Puts(new, x) : \E i \in DOMAIN pos2 : pos2[i] = m
  <2>1. ASSUME NEW m \in Puts(log, x)
        PROVE  \E i \in DOMAIN pos2 : pos2[i] = m
    <3>1. PICK i \in DOMAIN pos : pos[i] = m
      BY <1>6
    <3>2. i \in DOMAIN pos2 /\ pos2[i] = m
      BY <3>1, <1>8, <1>7
    <3> QED BY <3>2
  <2>2. k + 1 \in DOMAIN pos2
    BY <1>8, <1>7
  <2> QED BY <2>1, <2>2, <1>3, <1>8
<1>11. w2 = Append(w, q.payload)
  <2>1. DOMAIN w2 = 1 .. (k + 1) /\ DOMAIN w = 1 .. k
    BY <1>8
  <2>2. \A i \in 1 .. k : w2[i] = w[i]
    <3>1. TAKE i \in 1 .. k
    <3>2. pos[i] \in DOMAIN log /\ pos2[i] = pos[i]
      BY <1>8, <1>6, <1>4, <1>1
    <3>3. i \in DOMAIN pos2 /\ i \in DOMAIN pos
      BY <1>8, <1>7
    <3> QED BY <3>2, <3>3, <1>1
  <2>3. w2[k + 1] = q.payload
    BY <1>8, <1>7, <1>1
  <2> DEFINE P == {q.payload} \cup {log[j].payload : j \in Puts(log, x)}
  <2>4. w \in Seq(P) /\ q.payload \in P
    BY <1>7
  <2>5. /\ Append(w, q.payload) \in Seq(P) /\ Len(Append(w, q.payload)) = k + 1
        /\ \A i \in 1 .. k : Append(w, q.payload)[i] = w[i]
        /\ Append(w, q.payload)[k + 1] = q.payload
    <3> HIDE DEF w, P
    <3>1. DOMAIN w = 1 .. Len(w) /\ Len(w) = k
      BY <2>4, <1>7
    <3>2. /\ Append(w, q.payload) \in Seq(P) /\ Len(Append(w, q.payload)) = Len(w) + 1
          /\ \A i \in DOMAIN w : Append(w, q.payload)[i] = w[i]
          /\ Append(w, q.payload)[Len(w) + 1] = q.payload
      BY <2>4, AppendElements
    <3> QED BY <3>1, <3>2
  <2>6. \A i \in 1 .. (k + 1) : w2[i] = Append(w, q.payload)[i] /\ w2[i] \in P
    <3>1. TAKE i \in 1 .. (k + 1)
    <3>2. i = k + 1 \/ i \in 1 .. k
      BY <1>7
    <3>3. i \in 1 .. k => w[i] \in P
      BY <2>1
    <3> HIDE DEF w, w2, P
    <3> QED BY <3>2, <3>3, <2>2, <2>3, <2>4, <2>5
  <2>7. w2 \in Seq(P) /\ Len(w2) = k + 1
    <3>1. k + 1 \in Nat
      BY <1>7
    <3>2. w2 = [i \in 1 .. (k + 1) |-> w2[i]]
      BY <2>1
    <3> HIDE DEF w, w2, P
    <3>3. \A i \in 1 .. (k + 1) : w2[i] \in P
      BY <2>6
    <3> DEFINE g == [i \in 1 .. (k + 1) |-> w2[i]]
    <3>5. g \in Seq(P) /\ Len(g) = k + 1
      BY <3>1, <3>3
    <3> HIDE DEF g
    <3>6. w2 = g
      BY <3>2 DEF g
    <3> QED BY <3>5, <3>6
  <2> HIDE DEF w, w2, P
  <2> QED BY <2>5, <2>6, <2>7, SeqEqual
<1>12. Append(v, q.payload) = kept \o w2
  <2> DEFINE P == Values \cup {log[j].payload : j \in Puts(log, x)}
  <2>1. kept \in Seq(P) /\ w \in Seq(P) /\ q.payload \in P
    BY <1>5, <1>7
  <2>2. v = kept \o w
    BY <1>6
  <2> HIDE DEF w, w2, P
  <2>3. Append(kept \o w, q.payload) = kept \o Append(w, q.payload)
    <3>1. \A s \in Seq(P) : Append(s, q.payload) = s \o <<q.payload>>
      BY <2>1, AppendIsConcat
    <3>2. <<q.payload>> \in Seq(P)
      BY <2>1
    <3>3. kept \o w \in Seq(P)
      BY <2>1, ConcatProperties
    <3>4. (kept \o w) \o <<q.payload>> = kept \o (w \o <<q.payload>>)
      BY <2>1, <3>2, ConcatAssociative
    <3>5. Append(kept \o w, q.payload) = (kept \o w) \o <<q.payload>>
      BY <3>1, <3>3
    <3>6. Append(w, q.payload) = w \o <<q.payload>>
      BY <3>1, <2>1
    <3> QED BY <3>4, <3>5, <3>6
  <2> QED BY <2>2, <2>3, <1>11
<1>13. ValuesAfter(Append(v, q.payload), old, new, x)
  BY <1>3, <1>8, <1>9, <1>10, <1>12 DEF ValuesAfter
<1> QED BY <1>13 DEF new, x

-----------------------------------------------------------------------------
(* What a request does to the dictionary is what the log says *)

LEMMA NamesGrow ==
  ASSUME NEW S, NEW log \in Seq(S), NEW q \in S
  PROVE  NamesAfter(Append(log, q)) =
           NamesAfter(log) \cup (IF q.code = "POST" THEN {q.payload} ELSE {})
<1> DEFINE new == Append(log, q)
<1>1. /\ Len(log) \in Nat /\ DOMAIN log = 1 .. Len(log) /\ DOMAIN new = 1 .. (Len(log) + 1)
      /\ \A i \in DOMAIN log : new[i] = log[i]
      /\ new[Len(log) + 1] = q
  BY AppendElements
<1>2. DOMAIN new = DOMAIN log \cup {Len(log) + 1}
  BY <1>1
<1> HIDE DEF new
<1>3. NamesAfter(new) = NamesAfter(log) \cup (IF q.code = "POST" THEN {q.payload} ELSE {})
  BY <1>1, <1>2 DEF NamesAfter
<1> QED BY <1>3 DEF new

LEMMA NumbersGrow ==
  ASSUME NEW S, NEW log \in Seq(S), NEW q \in S
  PROVE  Numbers(Append(log, q)) = Numbers(log) \cup {q.n}
<1> DEFINE new == Append(log, q)
<1>1. /\ Len(log) \in Nat /\ DOMAIN log = 1 .. Len(log) /\ DOMAIN new = 1 .. (Len(log) + 1)
      /\ \A i \in DOMAIN log : new[i] = log[i]
      /\ new[Len(log) + 1] = q
  BY AppendElements
<1>2. DOMAIN new = DOMAIN log \cup {Len(log) + 1}
  BY <1>1
<1> HIDE DEF new
<1>3. Numbers(new) = Numbers(log) \cup {q.n}
  BY <1>1, <1>2 DEF Numbers
<1> QED BY <1>3 DEF new

\* At the start nothing has happened.
LEMMA AgreesAtFirst ==
  ASSUME NEW old, IsDictionary(old)
  PROVE  Agrees(old, old, <<>>)
<1>1. NamesAfter(<<>>) = {}
  BY DEF NamesAfter
<1>2. ASSUME NEW x \in DOMAIN old
      PROVE  ValuesAfter(old[x], old, <<>>, x)
  <2> DEFINE pos == [i \in 1 .. 0 |-> 0]
  <2>1. Left(old, <<>>, x) = old[x] /\ Puts(<<>>, x) = {}
    BY <1>2 DEF Left, Emptied, Puts
  <2>2. old[x] \in Seq(Values)
    BY <1>2 DEF IsDictionary
  <2>3. Len(old[x]) - Len(Left(old, <<>>, x)) = 0
    BY <2>1, <2>2
  <2>4. pos \in [1 .. (Len(old[x]) - Len(Left(old, <<>>, x))) -> Puts(<<>>, x)]
    BY <2>1, <2>3
  <2>5. DOMAIN pos = {}
    OBVIOUS
  <2>6. [i \in DOMAIN pos |-> <<>>[pos[i]].payload] = <<>>
    BY <2>5
  <2>7. old[x] = Left(old, <<>>, x) \o [i \in DOMAIN pos |-> <<>>[pos[i]].payload]
    BY <2>1, <2>2, <2>6, ConcatEmptySeq
  <2> HIDE DEF pos
  <2> QED BY <2>1, <2>4, <2>5, <2>7 DEF ValuesAfter
<1> QED BY <1>1, <1>2 DEF Agrees

LEMMA AgreesCreated ==
  ASSUME NEW old, NEW S, NEW log \in Seq(S), NEW r, IsDictionary(r), Agrees(r, old, log),
         NEW q \in S, q.code = "POST", q.payload \notin DOMAIN r, q.payload \in Names
  PROVE  /\ Agrees(Created(r, q.payload), old, Append(log, q))
         /\ IsDictionary(Created(r, q.payload))
<1> DEFINE new == Created(r, q.payload)
<1>1. /\ DOMAIN new = DOMAIN r \cup {q.payload}
      /\ \A x \in DOMAIN r : new[x] = r[x]
      /\ new[q.payload] = <<>>
      /\ new = [x \in DOMAIN new |-> new[x]]
  BY DEF Created
<1> HIDE DEF new
<1>2. NamesAfter(Append(log, q)) = NamesAfter(log) \cup {q.payload}
  BY NamesGrow
<1>3. ASSUME NEW x \in DOMAIN r
      PROVE  ValuesAfter(new[x], old, Append(log, q), x)
  <2>1. ~Empties(q, x)
    BY <1>3 DEF Empties
  <2>2. ValuesAfter(r[x], old, log, x)
    BY <1>3 DEF Agrees
  <2> QED BY <2>1, <2>2, <1>1, ValuesStay
<1>4. ValuesAfter(new[q.payload], old, Append(log, q), q.payload)
  <2>1. Empties(q, q.payload)
    BY DEF Empties
  <2> QED BY <2>1, <1>1, ValuesEmptied
<1>5. Agrees(new, old, Append(log, q))
  BY <1>1, <1>2, <1>3, <1>4 DEF Agrees
<1>6. IsDictionary(new)
  <2>1. <<>> \in Seq(Values) /\ \A x \in DOMAIN r : r[x] \in Seq(Values)
    BY DEF IsDictionary
  <2>2. \A x \in DOMAIN new : new[x] \in Seq(Values)
    BY <1>1, <2>1
  <2> QED BY <1>1, <2>2 DEF IsDictionary
<1> QED BY <1>5, <1>6 DEF new

LEMMA AgreesAdded ==
  ASSUME NEW old, IsDictionary(old), NEW S, NEW log \in Seq(S), NEW r, IsDictionary(r),
         Agrees(r, old, log),
         NEW q \in S, q.code = "PUT", q.path \in DOMAIN r, q.payload \in Values
  PROVE  /\ Agrees([r EXCEPT ![q.path] = Append(@, q.payload)], old, Append(log, q))
         /\ IsDictionary([r EXCEPT ![q.path] = Append(@, q.payload)])
<1> DEFINE new == [r EXCEPT ![q.path] = Append(@, q.payload)]
<1>1. /\ DOMAIN new = DOMAIN r
      /\ \A x \in DOMAIN r : x # q.path => new[x] = r[x]
      /\ new[q.path] = Append(r[q.path], q.payload)
      /\ new = [x \in DOMAIN new |-> new[x]]
  BY DEF IsDictionary
<1> HIDE DEF new
<1>2. NamesAfter(Append(log, q)) = NamesAfter(log)
  <2>1. NamesAfter(Append(log, q)) = NamesAfter(log) \cup (IF q.code = "POST" THEN {q.payload} ELSE {})
    BY NamesGrow
  <2> QED BY <2>1
<1>3. ASSUME NEW x \in DOMAIN r, x # q.path
      PROVE  ValuesAfter(new[x], old, Append(log, q), x)
  <2>1. ~Empties(q, x)
    BY DEF Empties
  <2>2. ValuesAfter(r[x], old, log, x)
    BY <1>3 DEF Agrees
  <2> QED BY <2>1, <2>2, <1>1, <1>3, ValuesStay
<1>4. ValuesAfter(new[q.path], old, Append(log, q), q.path)
  <2>1. r[q.path] \in Seq(Values) /\ ValuesAfter(r[q.path], old, log, q.path)
    BY DEF IsDictionary, Agrees
  <2> QED BY <2>1, <1>1, ValueAdded
<1>5. Agrees(new, old, Append(log, q))
  BY <1>1, <1>2, <1>3, <1>4 DEF Agrees
<1>6. IsDictionary(new)
  <2>1. Append(r[q.path], q.payload) \in Seq(Values) /\ \A x \in DOMAIN r : r[x] \in Seq(Values)
    <3>1. \A x \in DOMAIN r : r[x] \in Seq(Values)
      BY DEF IsDictionary
    <3> QED BY <3>1
  <2>2. \A x \in DOMAIN new : new[x] \in Seq(Values)
    BY <1>1, <2>1
  <2> QED BY <1>1, <2>2 DEF IsDictionary
<1> QED BY <1>5, <1>6 DEF new

LEMMA AgreesDeleted ==
  ASSUME NEW old, NEW S, NEW log \in Seq(S), NEW r, IsDictionary(r), Agrees(r, old, log),
         NEW q \in S, q.code = "DELETE", q.path \in DOMAIN r
  PROVE  /\ Agrees([r EXCEPT ![q.path] = <<>>], old, Append(log, q))
         /\ IsDictionary([r EXCEPT ![q.path] = <<>>])
<1> DEFINE new == [r EXCEPT ![q.path] = <<>>]
<1>1. /\ DOMAIN new = DOMAIN r
      /\ \A x \in DOMAIN r : x # q.path => new[x] = r[x]
      /\ new[q.path] = <<>>
      /\ new = [x \in DOMAIN new |-> new[x]]
  BY DEF IsDictionary
<1> HIDE DEF new
<1>2. NamesAfter(Append(log, q)) = NamesAfter(log)
  <2>1. NamesAfter(Append(log, q)) = NamesAfter(log) \cup (IF q.code = "POST" THEN {q.payload} ELSE {})
    BY NamesGrow
  <2> QED BY <2>1
<1>3. ASSUME NEW x \in DOMAIN r, x # q.path
      PROVE  ValuesAfter(new[x], old, Append(log, q), x)
  <2>1. ~Empties(q, x)
    BY <1>3 DEF Empties
  <2>2. ValuesAfter(r[x], old, log, x)
    BY <1>3 DEF Agrees
  <2> QED BY <2>1, <2>2, <1>1, <1>3, ValuesStay
<1>4. ValuesAfter(new[q.path], old, Append(log, q), q.path)
  <2>1. Empties(q, q.path)
    BY DEF Empties
  <2> QED BY <2>1, <1>1, ValuesEmptied
<1>5. Agrees(new, old, Append(log, q))
  BY <1>1, <1>2, <1>3, <1>4 DEF Agrees
<1>6. IsDictionary(new)
  <2>1. <<>> \in Seq(Values) /\ \A x \in DOMAIN r : r[x] \in Seq(Values)
    BY DEF IsDictionary
  <2>2. \A x \in DOMAIN new : new[x] \in Seq(Values)
    BY <1>1, <2>1
  <2> QED BY <1>1, <2>2 DEF IsDictionary
<1> QED BY <1>5, <1>6 DEF new

-----------------------------------------------------------------------------
(* The steps *)

\* What the file may be is three different things.
LEMMA Files ==
  ASSUME NEW r
  PROVE  /\ Absent # Torn /\ File(r) # Torn /\ File(r) # Absent
         /\ File(r).values = r
<1>1. DOMAIN Absent = {"absent"} /\ DOMAIN Torn = {"torn"} /\ DOMAIN File(r) = {"values"}
  BY DEF Absent, Torn, File
<1>2. File(r).values = r
  BY DEF File
<1> QED BY <1>1, <1>2

\* The numbers of the first of several frames and of the others.
LEMMA TailNumbers ==
  ASSUME NEW s \in Seq(Frame), s # <<>>, AllDifferent(s)
  PROVE  /\ AllDifferent(Tail(s)) /\ NumbersOf(Tail(s)) \subseteq NumbersOf(s)
         /\ Head(s) # Junk => /\ Head(s) \in Message /\ Head(s).n \in NumbersOf(s)
                              /\ Head(s).n \notin NumbersOf(Tail(s))
<1>1. /\ Head(s) \in Frame /\ Head(s) = s[1] /\ 1 \in DOMAIN s
      /\ Tail(s) \in Seq(Frame)
      /\ \A i \in DOMAIN Tail(s) : i + 1 \in DOMAIN s /\ Tail(s)[i] = s[i + 1]
      /\ \A i \in DOMAIN s : i \in Int
  BY TailElements
<1>2. \A i \in DOMAIN Tail(s) : i \in Nat /\ i > 0
  BY <1>1
<1>3. AllDifferent(Tail(s))
  <2>1. SUFFICES ASSUME NEW i \in DOMAIN Tail(s), NEW j \in DOMAIN Tail(s), i < j,
                        Tail(s)[i] # Junk, Tail(s)[j] # Junk
                 PROVE  Tail(s)[i].n # Tail(s)[j].n
    BY DEF AllDifferent
  <2>2. i + 1 \in DOMAIN s /\ j + 1 \in DOMAIN s /\ i + 1 < j + 1
    BY <1>1, <1>2, <2>1
  <2> QED BY <2>1, <2>2, <1>1 DEF AllDifferent
<1>4. NumbersOf(Tail(s)) \subseteq NumbersOf(s)
  BY <1>1 DEF NumbersOf
<1>5. ASSUME Head(s) # Junk
      PROVE  /\ Head(s) \in Message /\ Head(s).n \in NumbersOf(s)
             /\ Head(s).n \notin NumbersOf(Tail(s))
  <2>1. ASSUME NEW i \in DOMAIN Tail(s), Tail(s)[i] # Junk, Tail(s)[i].n = Head(s).n
        PROVE  FALSE
    <3>1. i + 1 \in DOMAIN s /\ 1 < i + 1 /\ s[i + 1] # Junk /\ s[1] # Junk
      BY <1>1, <1>2, <2>1, <1>5
    <3>2. s[1].n # s[i + 1].n
      BY <3>1, <1>1 DEF AllDifferent
    <3> QED BY <3>2, <2>1, <1>1
  <2>2. Head(s).n \in NumbersOf(s)
    BY <1>1, <1>5 DEF NumbersOf
  <2> QED BY <1>1, <1>5, <2>1, <2>2 DEF NumbersOf, Frame
<1> QED BY <1>3, <1>4, <1>5

\* A request that may change the dictionary.
LEMMA Handled ==
  ASSUME IInv, Handling
  PROVE  /\ Request \in Message /\ Request.n \in NumbersOf(recv_payload)
         /\ Request.n \notin Numbers(held) /\ Request.n \in 1 .. made
         /\ Request.n \notin NumbersOf(Tail(recv_payload))
         /\ NumbersOf(Tail(recv_payload)) \subseteq NumbersOf(recv_payload)
         /\ NumbersOf(recv_payload) \cap Numbers(held) = {}
<1>1. recv_payload \in Seq(Frame) /\ recv_payload # <<>> /\ AllDifferent(recv_payload)
  BY DEF IInv, Typed, NumbersRight, Handling
<1>2. NumbersOf(recv_payload) \cap Numbers(held) = {} /\ NumbersOf(recv_payload) \subseteq 1 .. made
  BY DEF IInv, NumbersRight, Handling, ToServe
<1> QED BY <1>1, <1>2, TailNumbers DEF Request, Handling

\* A request that changes the dictionary, whether the file can be opened or not.
LEMMA Changes ==
  ASSUME IInv, Handling, Record, NEW r, IsDictionary(r), NEW c, Change(r, c),
         Agrees(r, first, Append(held, Request))
  PROVE  IInv'
<1>1. /\ Request \in Message /\ Request.n \in NumbersOf(recv_payload)
      /\ Request.n \notin Numbers(held) /\ Request.n \in 1 .. made
      /\ Request.n \notin NumbersOf(Tail(recv_payload))
      /\ NumbersOf(Tail(recv_payload)) \subseteq NumbersOf(recv_payload)
      /\ NumbersOf(recv_payload) \cap Numbers(held) = {}
  BY Handled
<1>2. pc = "loop" /\ recv_payload # <<>> /\ Request # Junk
  BY DEF Handling
<1>3. /\ resources' = r /\ pc' \in {"saving", "savefailed"}
      /\ file' \in {file, Torn} /\ recv_payload' = recv_payload
      /\ net' = net
  BY DEF Change, network
<1>4. /\ held' = Append(held, Request) /\ saved' = saved /\ answers' = answers
      /\ first' = first /\ made' = made
  BY <1>2, <1>3 DEF Record
<1>5. held \in Seq(Message) /\ made \in Nat
  BY DEF IInv, Typed
<1>6. Numbers(Append(held, Request)) = Numbers(held) \cup {Request.n}
  BY <1>1, <1>5, NumbersGrow
<1>7. Numbers(held)' = Numbers(held) \cup {Request.n}
  BY <1>4, <1>6 DEF Numbers
<1>8. Typed'
  <2>1. TypeOK'
    BY <1>2, <1>3, <1>4 DEF IInv, Typed, TypeOK
  <2>2. held' \in Seq(Message)
    BY <1>4, <1>5, <1>1
  <2> QED BY <2>1, <2>2, <1>3, <1>4 DEF IInv, Typed
<1>9. NumbersRight'
  <2>1. ToServe' = Tail(recv_payload)
    BY <1>2, <1>3 DEF ToServe
  <2>2. NumbersOf(ToServe)' \cap Numbers(held)' = {}
    <3>1. NumbersOf(ToServe)' = NumbersOf(Tail(recv_payload))
      BY <2>1 DEF NumbersOf
    <3> QED BY <3>1, <1>7, <1>1
  <2>3. NumbersOf(recv_payload)' = NumbersOf(recv_payload) /\ Numbers(saved)' = Numbers(saved)
    BY <1>3, <1>4 DEF NumbersOf, Numbers
  <2>4. AllDifferent(recv_payload)'
    BY <1>3 DEF IInv, NumbersRight, AllDifferent
  <2>5. ASSUME NEW b \in net', b.dst = NodeB
        PROVE  /\ AllDifferent(b.adu) /\ NumbersOf(b.adu) \subseteq 1 .. made'
               /\ NumbersOf(b.adu) \cap (NumbersOf(recv_payload)' \cup Numbers(held)') = {}
    <3>1. /\ AllDifferent(b.adu) /\ NumbersOf(b.adu) \subseteq 1 .. made
          /\ NumbersOf(b.adu) \cap (NumbersOf(recv_payload) \cup Numbers(held)) = {}
      BY <2>5, <1>3 DEF IInv, NumbersRight
    <3> QED BY <3>1, <2>3, <1>4, <1>7, <1>1
  <2>6. \A b, d \in net' : b.dst = NodeB /\ d.dst = NodeB => b = d
    BY <1>3 DEF IInv, NumbersRight
  <2>7. /\ NumbersOf(recv_payload)' \subseteq 1 .. made' /\ Numbers(held)' \subseteq 1 .. made'
        /\ Numbers(saved)' \subseteq Numbers(held)'
    BY <2>3, <1>4, <1>7, <1>1 DEF IInv, NumbersRight
  <2> QED BY <2>2, <2>4, <2>5, <2>6, <2>7 DEF NumbersRight, AllDifferent, NumbersOf
<1>10. ServedOnce'
  <2>1. /\ Len(held) \in Nat /\ DOMAIN held = 1 .. Len(held) /\ DOMAIN held' = 1 .. (Len(held) + 1)
        /\ \A i \in DOMAIN held : held'[i] = held[i]
        /\ held'[Len(held) + 1] = Request
    BY <1>1, <1>4, <1>5, AppendElements
  <2>2. ASSUME NEW i \in DOMAIN held', NEW j \in DOMAIN held', i < j
        PROVE  held'[i].n # held'[j].n
    <3>1. i \in DOMAIN held
      BY <2>1, <2>2
    <3>2. CASE j \in DOMAIN held
      BY <3>1, <3>2, <2>1, <2>2 DEF IInv, ServedOnce
    <3>3. CASE j = Len(held) + 1
      <4>1. held[i].n \in Numbers(held)
        BY <3>1 DEF Numbers
      <4> QED BY <4>1, <3>1, <3>3, <2>1, <1>1
    <3> QED BY <3>2, <3>3, <2>1
  <2> QED BY <2>2, <1>4 DEF IInv, ServedOnce
<1>11. InHand'
  BY <1>2, <1>3, <1>7 DEF InHand, Request
<1>12. Confirmed'
  BY <1>4 DEF IInv, Confirmed, Numbers
<1>13. Agreed'
  <2>1. Agrees(resources', first', held')
    BY <1>3, <1>4
  <2>2. file' # Torn => Agrees(Contents', first', saved')
    BY <1>3, <1>4 DEF IInv, Agreed, Contents
  <2> QED BY <2>1, <2>2 DEF Agreed, Agrees, ValuesAfter, Left, Emptied, Puts, NamesAfter, Empties
<1> QED BY <1>8, <1>9, <1>10, <1>11, <1>12, <1>13 DEF IInv

\* A step that serves nothing: the logs and the file stay, the server goes on or goes down,
\* and nothing new is to be served.
LEMMA Moves ==
  ASSUME IInv, file' = file, UNCHANGED <<first, made, held, saved>>,
         Running' => Running /\ resources' = resources,
         \A b \in net' : b.dst = NodeB => b \in net,
         TypeOK', recv_payload' \in Seq(Frame), AllDifferent(recv_payload'),
         NumbersOf(recv_payload') \subseteq NumbersOf(recv_payload),
         NumbersOf(ToServe') \cap Numbers(held) = {}, InHand', Confirmed'
  PROVE  IInv'
<1>1. /\ first' = first /\ made' = made /\ held' = held /\ saved' = saved
      /\ Numbers(held)' = Numbers(held) /\ Numbers(saved)' = Numbers(saved)
      /\ NumbersOf(ToServe)' = NumbersOf(ToServe')
      /\ NumbersOf(recv_payload)' = NumbersOf(recv_payload')
  BY DEF Numbers, NumbersOf
<1>2. Typed'
  BY <1>1 DEF IInv, Typed
<1>3. NumbersRight'
  <2>1. ASSUME NEW b \in net', b.dst = NodeB
        PROVE  /\ AllDifferent(b.adu) /\ NumbersOf(b.adu) \subseteq 1 .. made'
               /\ NumbersOf(b.adu) \cap (NumbersOf(recv_payload)' \cup Numbers(held)') = {}
    <3>1. /\ AllDifferent(b.adu) /\ NumbersOf(b.adu) \subseteq 1 .. made
          /\ NumbersOf(b.adu) \cap (NumbersOf(recv_payload) \cup Numbers(held)) = {}
      BY <2>1 DEF IInv, NumbersRight
    <3> QED BY <3>1, <1>1
  <2>2. \A b, d \in net' : b.dst = NodeB /\ d.dst = NodeB => b = d
    BY DEF IInv, NumbersRight
  <2>3. AllDifferent(recv_payload)'
    BY DEF AllDifferent
  <2>4. /\ NumbersOf(recv_payload)' \subseteq 1 .. made' /\ Numbers(held)' \subseteq 1 .. made'
        /\ Numbers(saved)' \subseteq Numbers(held)' /\ NumbersOf(ToServe)' \cap Numbers(held)' = {}
    BY <1>1 DEF IInv, NumbersRight
  <2> QED BY <2>1, <2>2, <2>3, <2>4 DEF NumbersRight, AllDifferent, NumbersOf
<1>4. ServedOnce'
  BY <1>1 DEF IInv, ServedOnce
<1>5. Agreed'
  <2>1. Running' => Agrees(resources', first', held')
    BY <1>1 DEF IInv, Agreed
  <2>2. file' # Torn => Agrees(Contents', first', saved')
    BY <1>1 DEF IInv, Agreed, Contents
  <2> QED BY <2>1, <2>2 DEF Agreed, Agrees, ValuesAfter, Left, Emptied, Puts, NamesAfter, Empties
<1> QED BY <1>2, <1>3, <1>4, <1>5 DEF IInv

\* A request that changes nothing, or is refused.
LEMMA Answers ==
  ASSUME IInv, Handling, Record, NEW c, c \notin Success, Answer(c)
  PROVE  IInv'
<1>1. /\ Request \in Message
      /\ NumbersOf(Tail(recv_payload)) \subseteq NumbersOf(recv_payload)
      /\ NumbersOf(recv_payload) \cap Numbers(held) = {}
  BY Handled
<1>2. pc = "loop" /\ recv_payload # <<>> /\ Request # Junk
  BY DEF Handling
<1>3. /\ resources' = resources /\ pc' = "respond" /\ code' = c
      /\ file' = file /\ recv_payload' = recv_payload /\ net' = net
  BY DEF Answer, network
<1>4. held' = held /\ saved' = saved /\ answers' = answers /\ first' = first /\ made' = made
  BY <1>2, <1>3 DEF Record
<1>5. TypeOK'
  BY <1>2, <1>3, <1>4 DEF IInv, Typed, TypeOK
<1>6. NumbersOf(ToServe') \cap Numbers(held) = {}
  <2>1. ToServe' = Tail(recv_payload)
    BY <1>2, <1>3 DEF ToServe
  <2> QED BY <2>1, <1>1
<1>7. InHand' /\ Confirmed'
  <2>1. InHand'
    BY <1>2, <1>3 DEF InHand, Request
  <2>2. Confirmed'
    BY <1>4 DEF IInv, Confirmed, Numbers
  <2> QED BY <2>1, <2>2
<1>8. recv_payload' \in Seq(Frame) /\ AllDifferent(recv_payload')
  BY <1>3 DEF IInv, Typed, NumbersRight
<1>9. Running' => Running /\ resources' = resources
  BY <1>2, <1>3 DEF Running
<1> QED BY <1>3, <1>4, <1>5, <1>6, <1>7, <1>8, <1>9, Moves

LEMMA HandlePostRight ==
  ASSUME IInv, HandlePost, Record
  PROVE  IInv'
<1>1. Handling /\ Request.code = "POST"
  BY DEF HandlePost
<1>2. Request \in Message /\ held \in Seq(Message)
  BY <1>1, Handled DEF IInv, Typed
<1>3. CASE Request.payload \notin Names \/ Request.payload \in DOMAIN resources
  BY <1>1, <1>3, Answers DEF HandlePost, Success
<1>4. CASE ~(Request.payload \notin Names \/ Request.payload \in DOMAIN resources)
  <2>1. Change(Created(resources, Request.payload), "CREATED")
    BY <1>4 DEF HandlePost
  <2>2. IsDictionary(resources) /\ Agrees(resources, first, held)
    BY <1>1 DEF IInv, Typed, TypeOK, Agreed, Handling, Running
  <2>3. /\ IsDictionary(Created(resources, Request.payload))
        /\ Agrees(Created(resources, Request.payload), first, Append(held, Request))
    BY <1>1, <1>2, <1>4, <2>2, AgreesCreated
  <2> QED BY <1>1, <2>1, <2>3, Changes
<1> QED BY <1>3, <1>4

LEMMA RenderPutRight ==
  ASSUME IInv, RenderPut, Record
  PROVE  IInv'
<1>1. Handling /\ Request.code = "PUT" /\ Request.path \in DOMAIN resources
  BY DEF RenderPut
<1>2. Request \in Message /\ held \in Seq(Message)
  BY <1>1, Handled DEF IInv, Typed
<1>3. CASE Request.payload \notin Values
  BY <1>1, <1>3, Answers DEF RenderPut, Success
<1>4. CASE Request.payload \in Values
  <2> DEFINE new == [resources EXCEPT ![Request.path] = Append(@, Request.payload)]
  <2>1. Change(new, "CHANGED")
    BY <1>4 DEF RenderPut
  <2>2. IsDictionary(resources) /\ IsDictionary(first) /\ Agrees(resources, first, held)
    BY <1>1 DEF IInv, Typed, TypeOK, Agreed, Handling, Running
  <2>3. IsDictionary(new) /\ Agrees(new, first, Append(held, Request))
    BY <1>1, <1>2, <1>4, <2>2, AgreesAdded
  <2> HIDE DEF new
  <2> QED BY <1>1, <2>1, <2>3, Changes
<1> QED BY <1>3, <1>4

LEMMA RenderDeleteRight ==
  ASSUME IInv, RenderDelete, Record
  PROVE  IInv'
<1>1. Handling /\ Request.code = "DELETE" /\ Request.path \in DOMAIN resources
  BY DEF RenderDelete
<1>2. Request \in Message /\ held \in Seq(Message)
  BY <1>1, Handled DEF IInv, Typed
<1> DEFINE new == [resources EXCEPT ![Request.path] = <<>>]
<1>3. Change(new, "DELETED")
  BY DEF RenderDelete
<1>4. IsDictionary(resources) /\ Agrees(resources, first, held)
  BY <1>1 DEF IInv, Typed, TypeOK, Agreed, Handling, Running
<1>5. IsDictionary(new) /\ Agrees(new, first, Append(held, Request))
  BY <1>1, <1>2, <1>4, AgreesDeleted
<1> HIDE DEF new
<1> QED BY <1>1, <1>3, <1>5, Changes

\* A request that was looked at and left alone: one that reads, or is refused.
LEMMA LeftAloneRight ==
  ASSUME IInv, RenderGet \/ Refuse, Record
  PROVE  IInv'
<1>1. Handling /\ \E c \in {"CONTENT", "METHOD_NOT_ALLOWED", "NOT_FOUND"} : Answer(c)
  BY DEF RenderGet, Refuse
<1> QED BY <1>1, Answers DEF Success

LEMMA HandleRight ==
  ASSUME IInv, Handle, Record
  PROVE  IInv'
BY HandlePostRight, RenderPutRight, RenderDeleteRight, LeftAloneRight DEF Handle

\* The file holds the dictionary: the request in hand is saved.
LEMMA FinishSaveRight ==
  ASSUME IInv, FinishSave, Record
  PROVE  IInv'
<1>1. /\ pc = "saving" /\ pc' = "respond" /\ file' = File(resources) /\ resources' = resources
      /\ recv_payload' = recv_payload /\ code' = code /\ net' = net
  BY DEF FinishSave, network
<1>2. held' = held /\ saved' = held /\ answers' = answers /\ first' = first /\ made' = made
  BY <1>1 DEF Record, FinishSave, network
<1>3. /\ Numbers(held)' = Numbers(held) /\ Numbers(saved)' = Numbers(held)
      /\ NumbersOf(recv_payload)' = NumbersOf(recv_payload) /\ NumbersOf(ToServe)' = NumbersOf(ToServe)
  BY <1>1, <1>2 DEF Numbers, NumbersOf, ToServe
<1>4. Typed'
  <2>1. TypeOK'
    <3>1. file' = File(file'.values) /\ IsDictionary(file'.values)
      BY <1>1, Files DEF IInv, Typed, TypeOK
    <3> QED BY <3>1, <1>1, <1>2 DEF IInv, Typed, TypeOK
  <2> QED BY <2>1, <1>1, <1>2 DEF IInv, Typed
<1>5. NumbersRight'
  <2>1. \A b \in net' : b.dst = NodeB =>
          /\ AllDifferent(b.adu) /\ NumbersOf(b.adu) \subseteq 1 .. made'
          /\ NumbersOf(b.adu) \cap (NumbersOf(recv_payload)' \cup Numbers(held)') = {}
    BY <1>1, <1>2, <1>3 DEF IInv, NumbersRight
  <2>2. AllDifferent(recv_payload)'
    BY <1>1 DEF IInv, NumbersRight, AllDifferent
  <2>3. /\ NumbersOf(recv_payload)' \subseteq 1 .. made' /\ Numbers(held)' \subseteq 1 .. made'
        /\ Numbers(saved)' \subseteq Numbers(held)' /\ NumbersOf(ToServe)' \cap Numbers(held)' = {}
    BY <1>2, <1>3 DEF IInv, NumbersRight
  <2>4. \A b, d \in net' : b.dst = NodeB /\ d.dst = NodeB => b = d
    BY <1>1 DEF IInv, NumbersRight
  <2> QED BY <2>1, <2>2, <2>3, <2>4 DEF NumbersRight, AllDifferent, NumbersOf
<1>6. ServedOnce'
  BY <1>2 DEF IInv, ServedOnce
<1>7. InHand'
  BY <1>1, <1>3 DEF IInv, InHand, Request
<1>8. Confirmed'
  BY <1>2, <1>3 DEF IInv, Confirmed, NumbersRight
<1>9. Agreed'
  <2>1. Agrees(resources, first, held)
    BY <1>1 DEF IInv, Agreed, Running
  <2>2. Contents' = resources
    BY <1>1, Files DEF Contents
  <2>3. Agrees(resources', first', held') /\ Agrees(Contents', first', saved')
    BY <2>1, <2>2, <1>1, <1>2
  <2> QED BY <2>3 DEF Agreed, Agrees, ValuesAfter, Left, Emptied, Puts, NamesAfter, Empties
<1> QED BY <1>4, <1>5, <1>6, <1>7, <1>8, <1>9 DEF IInv

LEMMA FailuresRight ==
  ASSUME IInv, DumpFails \/ SaveFailed, Record
  PROVE  IInv'
<1>1. /\ pc \in {"saving", "savefailed"} /\ pc' \in {"savefailed", "respond"}
      /\ pc' = "respond" => code' \notin Success
      /\ resources' = resources /\ file' = file /\ recv_payload' = recv_payload /\ net' = net
      /\ pc = "saving" => pc' = "savefailed"
  BY DEF DumpFails, SaveFailed, network, Success
<1>2. held' = held /\ saved' = saved /\ answers' = answers /\ first' = first /\ made' = made
  BY <1>1 DEF Record
<1>3. TypeOK' /\ InHand' /\ Confirmed' /\ ToServe' = ToServe /\ NumbersOf(ToServe) \cap Numbers(held) = {}
  <2>1. TypeOK'
    BY <1>1, <1>2 DEF IInv, Typed, TypeOK
  <2>2. InHand'
    BY <1>1 DEF IInv, InHand, Request
  <2>3. Confirmed'
    BY <1>2 DEF IInv, Confirmed, Numbers
  <2> QED BY <1>1, <2>1, <2>2, <2>3 DEF ToServe, IInv, NumbersRight
<1>4. recv_payload' \in Seq(Frame) /\ AllDifferent(recv_payload') /\ (Running' => Running)
  BY <1>1 DEF IInv, Typed, NumbersRight, Running
<1> QED BY <1>1, <1>2, <1>3, <1>4, Moves

\* The response is handed over, and confirms what is in the file; or it is not, or the daemon
\* does not answer.
LEMMA RespondRight ==
  ASSUME IInv, Respond \/ SendFails, Record
  PROVE  IInv'
<1>1. /\ pc = "respond" /\ pc' = "loop" /\ resources' = resources /\ file' = file
      /\ recv_payload' \in {Tail(recv_payload), <<>>}
  BY DEF Respond, SendFails
<1>2. held' = held /\ saved' = saved /\ first' = first /\ made' = made
  BY <1>1 DEF Record
<1>3. recv_payload # <<>> /\ recv_payload \in Seq(Frame) /\ AllDifferent(recv_payload)
  BY <1>1 DEF IInv, Typed, TypeOK, NumbersRight
<1>4. /\ AllDifferent(recv_payload') /\ NumbersOf(recv_payload') \subseteq NumbersOf(recv_payload)
      /\ recv_payload' \in Seq(Frame) /\ NumbersOf(recv_payload') \subseteq NumbersOf(ToServe)
  <2>1. <<>> \in Seq(Frame) /\ AllDifferent(<<>>) /\ NumbersOf(<<>>) = {}
    BY DEF AllDifferent, NumbersOf
  <2>2. ToServe = Tail(recv_payload)
    BY <1>1, <1>3 DEF ToServe
  <2>3. CASE recv_payload' = <<>>
    BY <2>1, <2>3
  <2>4. CASE recv_payload' = Tail(recv_payload)
    <3>1. /\ AllDifferent(Tail(recv_payload)) /\ Tail(recv_payload) \in Seq(Frame)
          /\ NumbersOf(Tail(recv_payload)) \subseteq NumbersOf(recv_payload)
      BY <1>3, TailNumbers, TailElements
    <3> QED BY <2>2, <2>4, <3>1
  <2> QED BY <1>1, <2>3, <2>4
<1>5. TypeOK'
  BY <1>1, <1>2 DEF IInv, Typed, TypeOK
<1>6. InHand'
  BY <1>1 DEF InHand
<1>7. Confirmed'
  <2>1. answers' \in {answers, answers \cup {Response}}
    BY DEF Record
  <2>2. Response.n = Request.n /\ Response.code = code
    BY DEF Response
  <2>3. code \in Success => Request.n \in Numbers(saved)
    BY <1>1 DEF IInv, InHand
  <2>4. \A a \in answers' : a.code \in Success => a.n \in Numbers(saved)
    BY <2>1, <2>2, <2>3 DEF IInv, Confirmed
  <2> QED BY <2>4, <1>2 DEF Confirmed, Numbers
<1>8. \A b \in net' : b.dst = NodeB => b \in net
  BY NodesAssumption DEF Respond, SendFails, Submit, Bundle, network
<1>9. NumbersOf(ToServe') \cap Numbers(held) = {}
  <2>1. ToServe' = recv_payload'
    BY <1>1 DEF ToServe
  <2> QED BY <1>4, <2>1 DEF IInv, NumbersRight
<1>10. Running' => Running /\ resources' = resources
  BY <1>1 DEF Running
<1> QED BY <1>1, <1>2, <1>4, <1>5, <1>6, <1>7, <1>8, <1>9, <1>10, Moves

\* The rest of an ADU is left alone, or there is none.
LEMMA DroppedRight ==
  ASSUME IInv, Break \/ NextADU, Record
  PROVE  IInv'
<1>1. /\ resources' = resources /\ file' = file /\ net' = net
      /\ pc = "loop" /\ pc' \in {"loop", "idle"} /\ recv_payload' = <<>>
  BY DEF Break, NextADU, network
<1>2. held' = held /\ saved' = saved /\ answers' = answers /\ first' = first /\ made' = made
  BY <1>1 DEF Record
<1>3. <<>> \in Seq(Frame) /\ AllDifferent(<<>>) /\ NumbersOf(<<>>) = {}
  BY DEF AllDifferent, NumbersOf
<1>4. ToServe' = <<>>
  BY <1>1 DEF ToServe
<1>5. TypeOK' /\ InHand' /\ Confirmed'
  <2>1. TypeOK'
    BY <1>1, <1>2 DEF IInv, Typed, TypeOK
  <2>2. InHand'
    BY <1>1 DEF InHand
  <2>3. Confirmed'
    BY <1>2 DEF IInv, Confirmed, Numbers
  <2> QED BY <2>1, <2>2, <2>3
<1>6. Running' => Running /\ resources' = resources
  BY <1>1 DEF Running
<1> QED BY <1>1, <1>2, <1>3, <1>4, <1>5, <1>6, Moves

LEMMA ServeRight ==
  ASSUME IInv, Serve
  PROVE  IInv'
BY HandleRight, FinishSaveRight, FailuresRight, RespondRight, DroppedRight DEF Serve, Work

LEMMA CrashRight ==
  ASSUME IInv, CrashServer
  PROVE  IInv'
<1>1. /\ file' = file /\ net' = net /\ pc' = "down" /\ recv_payload' = <<>> /\ resources' = <<>>
      /\ held' = held /\ saved' = saved /\ answers' = answers /\ first' = first /\ made' = made
  BY DEF CrashServer, Crash, network
<1>2. <<>> \in Seq(Frame) /\ AllDifferent(<<>>) /\ NumbersOf(<<>>) = {}
  BY DEF AllDifferent, NumbersOf
<1>3. ToServe' = <<>>
  BY <1>1 DEF ToServe
<1>4. TypeOK'
  <2>1. IsDictionary(<<>>)
    BY DEF IsDictionary
  <2> QED BY <1>1, <2>1 DEF IInv, Typed, TypeOK
<1>5. InHand' /\ ~Running'
  BY <1>1 DEF InHand, Running
<1>6. Confirmed'
  BY <1>1 DEF IInv, Confirmed, Numbers
<1> QED BY <1>1, <1>2, <1>3, <1>4, <1>5, <1>6, Moves

\* What was changed but not saved is gone.
LEMMA RestartRight ==
  ASSUME IInv, RestartServer
  PROVE  IInv'
<1>1. /\ file' = file /\ net' = net /\ recv_payload' = recv_payload
      /\ held' = saved /\ saved' = saved /\ answers' = answers /\ first' = first /\ made' = made
      /\ pc = "down"
      /\ \/ pc' = "dead" /\ resources' = <<>>
         \/ pc' = "idle" /\ resources' = Contents /\ file # Torn
  BY DEF RestartServer, Restart, Load, network
<1>2. /\ Numbers(held)' = Numbers(saved) /\ Numbers(saved)' = Numbers(saved)
      /\ NumbersOf(recv_payload)' = NumbersOf(recv_payload) /\ NumbersOf(ToServe)' = NumbersOf(ToServe)
  BY <1>1 DEF Numbers, NumbersOf, ToServe
<1>3. Typed'
  <2>1. IsDictionary(<<>>)
    BY DEF IsDictionary
  <2>2. IsDictionary(resources')
    BY <1>1, <2>1 DEF IInv, Typed, TypeOK, Contents
  <2>3. TypeOK'
    BY <1>1, <2>2 DEF IInv, Typed, TypeOK
  <2> QED BY <2>3, <1>1 DEF IInv, Typed
<1>4. NumbersRight'
  <2>1. \A b \in net' : b.dst = NodeB =>
          /\ AllDifferent(b.adu) /\ NumbersOf(b.adu) \subseteq 1 .. made'
          /\ NumbersOf(b.adu) \cap (NumbersOf(recv_payload)' \cup Numbers(held)') = {}
    BY <1>1, <1>2 DEF IInv, NumbersRight
  <2>2. AllDifferent(recv_payload)'
    BY <1>1 DEF IInv, NumbersRight, AllDifferent
  <2>3. /\ NumbersOf(recv_payload)' \subseteq 1 .. made' /\ Numbers(held)' \subseteq 1 .. made'
        /\ Numbers(saved)' \subseteq Numbers(held)' /\ NumbersOf(ToServe)' \cap Numbers(held)' = {}
    BY <1>1, <1>2 DEF IInv, NumbersRight
  <2>4. \A b, d \in net' : b.dst = NodeB /\ d.dst = NodeB => b = d
    BY <1>1 DEF IInv, NumbersRight
  <2> QED BY <2>1, <2>2, <2>3, <2>4 DEF NumbersRight, AllDifferent, NumbersOf
<1>5. ServedOnce' /\ InHand' /\ Confirmed'
  <2>1. ServedOnce'
    BY <1>1 DEF IInv, ServedOnce
  <2>2. InHand'
    BY <1>1 DEF InHand
  <2>3. Confirmed'
    BY <1>1 DEF IInv, Confirmed, Numbers
  <2> QED BY <2>1, <2>2, <2>3
<1>6. Agreed'
  <2>1. file # Torn => Agrees(Contents, first, saved)
    BY DEF IInv, Agreed
  <2>2. Running' => Agrees(resources', first', held')
    BY <1>1, <2>1 DEF Running
  <2>3. file' # Torn => Agrees(Contents', first', saved')
    BY <1>1, <2>1 DEF Contents
  <2> QED BY <2>2, <2>3 DEF Agreed, Agrees, ValuesAfter, Left, Emptied, Puts, NamesAfter, Empties
<1> QED BY <1>3, <1>4, <1>5, <1>6 DEF IInv

\* What the loop takes a request for has its number.
LEMMA ReadsNumber ==
  ASSUME NEW f \in Frame, NEW g \in Readings(f), g # Junk
  PROVE  g \in Message /\ f # Junk /\ g.n = f.n
<1>1. f # Junk /\ f \in Message
  BY DEF Readings, Frame
<1>2. g = f \/ g \in CutShort(f, Pieces)
  BY <1>1 DEF Readings, CutShort
<1>3. CASE g \in CutShort(f, Pieces)
  <2>1. PICK p \in Pieces : g = [f EXCEPT !.payload = p]
    BY <1>3 DEF CutShort
  <2> QED BY <1>1, <2>1 DEF Message
<1> QED BY <1>1, <1>2, <1>3

\* The frames the loop gets to see have the numbers they had in the ADU.
LEMMA ExtractedRight ==
  ASSUME NEW adu \in Seq(Frame), AllDifferent(adu), NEW s \in Extracted(adu)
  PROVE  s \in Seq(Frame) /\ AllDifferent(s) /\ NumbersOf(s) \subseteq NumbersOf(adu)
<1>1. CASE s = adu
  BY <1>1
<1>2. CASE s # adu
  <2> PICK i \in DOMAIN adu : \E f \in Readings(adu[i]) :
        s = IF f = Junk THEN SubSeq(adu, 1, i - 1) ELSE Append(SubSeq(adu, 1, i - 1), f)
    BY <1>2 DEF Extracted
  <2>1. PICK f \in Readings(adu[i]) :
          s = IF f = Junk THEN SubSeq(adu, 1, i - 1) ELSE Append(SubSeq(adu, 1, i - 1), f)
    OBVIOUS
  <2> DEFINE front == SubSeq(adu, 1, i - 1)
  <2>2. /\ i \in Nat /\ front \in Seq(Frame) /\ DOMAIN front = 1 .. (i - 1) /\ Len(front) = i - 1
        /\ \A j \in 1 .. (i - 1) : j \in DOMAIN adu /\ front[j] = adu[j] /\ j < i
        /\ adu[i] \in Frame
    <3>1. /\ Len(adu) \in Nat /\ DOMAIN adu = 1 .. Len(adu) /\ i \in 1 .. Len(adu)
          /\ \A j \in 1 .. Len(adu) : adu[j] \in Frame
      OBVIOUS
    <3>2. \A j \in 1 .. (i - 1) : j \in 1 .. Len(adu) /\ j < i
      BY <3>1
    <3>3. front = [j \in 1 .. (i - 1) |-> adu[j]]
      BY <3>1, <3>2
    <3>4. front \in Seq(Frame) /\ Len(front) = i - 1 /\ DOMAIN front = 1 .. (i - 1)
      BY <3>1, <3>2
    <3> HIDE DEF front
    <3> QED BY <3>1, <3>2, <3>3, <3>4
  <2> HIDE DEF front
  <2>3. AllDifferent(front) /\ NumbersOf(front) \subseteq NumbersOf(adu)
    <3>1. AllDifferent(front)
      BY <2>2 DEF AllDifferent
    <3> QED BY <3>1, <2>2 DEF NumbersOf
  <2>4. CASE f = Junk
    BY <2>1, <2>2, <2>3, <2>4 DEF front
  <2>5. CASE f # Junk
    <3>1. f \in Message /\ f \in Frame /\ adu[i] # Junk /\ f.n = adu[i].n
      BY <2>1, <2>2, <2>5, ReadsNumber DEF Frame
    <3>2. s = Append(front, f)
      BY <2>1, <2>5 DEF front
    <3>3. /\ s \in Seq(Frame) /\ DOMAIN s = 1 .. i /\ s[i] = f
          /\ \A j \in 1 .. (i - 1) : s[j] = adu[j]
      BY <2>2, <3>1, <3>2
    <3>4. \A j \in DOMAIN s : j \in DOMAIN adu /\ (s[j] # Junk => adu[j] # Junk /\ s[j].n = adu[j].n)
      <4>1. \A j \in 1 .. i : j = i \/ j \in 1 .. (i - 1)
        BY <2>2
      <4> QED BY <2>1, <2>2, <3>1, <3>3, <4>1
    <3>5. AllDifferent(s)
      BY <3>4 DEF AllDifferent
    <3>6. NumbersOf(s) \subseteq NumbersOf(adu)
      BY <3>4 DEF NumbersOf
    <3> QED BY <3>3, <3>5, <3>6
  <2> QED BY <2>4, <2>5
<1> QED BY <1>1, <1>2

\* An ADU taken from the network is no longer there.
LEMMA ReceiveRight ==
  ASSUME IInv, ReceiveADU
  PROVE  IInv'
<1>1. PICK b \in net : Receive(b)
  BY DEF ReceiveADU
<1>2. /\ file' = file /\ net' = net \ {b} /\ recv_payload' \in Extracted(b.adu)
      /\ resources' = resources /\ held' = held /\ saved' = saved /\ answers' = answers /\ first' = first /\ made' = made
      /\ pc = "idle" /\ pc' = "loop" /\ b.dst = NodeB
  BY <1>1 DEF ReceiveADU, Receive, Deliver, history
<1>0. /\ recv_payload' \in Seq(Frame) /\ AllDifferent(recv_payload')
      /\ NumbersOf(recv_payload') \subseteq NumbersOf(b.adu)
  <2>1. b.adu \in Seq(Frame) /\ AllDifferent(b.adu)
    BY <1>2 DEF IInv, Typed, NumbersRight
  <2> QED BY <1>2, <2>1, ExtractedRight
<1>3. /\ Numbers(held)' = Numbers(held) /\ Numbers(saved)' = Numbers(saved)
      /\ NumbersOf(recv_payload)' = NumbersOf(recv_payload')
      /\ NumbersOf(ToServe)' = NumbersOf(recv_payload')
  BY <1>2 DEF Numbers, NumbersOf, ToServe
<1>4. Typed'
  <2>1. TypeOK'
    BY <1>2 DEF IInv, Typed, TypeOK
  <2> QED BY <2>1, <1>0, <1>2 DEF IInv, Typed
<1>5. NumbersRight'
  <2>1. \A d \in net' : d.dst # NodeB
    BY <1>2 DEF IInv, NumbersRight
  <2>2. AllDifferent(recv_payload)'
    BY <1>0 DEF AllDifferent
  <2>3. /\ NumbersOf(recv_payload)' \subseteq 1 .. made' /\ Numbers(held)' \subseteq 1 .. made'
        /\ Numbers(saved)' \subseteq Numbers(held)' /\ NumbersOf(ToServe)' \cap Numbers(held)' = {}
    <3>1. NumbersOf(b.adu) \subseteq 1 .. made /\ NumbersOf(b.adu) \cap Numbers(held) = {}
      BY <1>2 DEF IInv, NumbersRight
    <3> QED BY <3>1, <1>0, <1>2, <1>3 DEF IInv, NumbersRight
  <2> QED BY <2>1, <2>2, <2>3 DEF NumbersRight, AllDifferent, NumbersOf
<1>6. ServedOnce' /\ InHand' /\ Confirmed'
  <2>1. ServedOnce'
    BY <1>2 DEF IInv, ServedOnce
  <2>2. InHand'
    BY <1>2 DEF InHand
  <2>3. Confirmed'
    BY <1>2 DEF IInv, Confirmed, Numbers
  <2> QED BY <2>1, <2>2, <2>3
<1>7. Agreed'
  <2>1. Agrees(resources', first', held')
    BY <1>2 DEF IInv, Agreed, Running
  <2>2. file' # Torn => Agrees(Contents', first', saved')
    BY <1>2 DEF IInv, Agreed, Contents
  <2> QED BY <2>1, <2>2 DEF Agreed, Agrees, ValuesAfter, Left, Emptied, Puts, NamesAfter, Empties
<1> QED BY <1>4, <1>5, <1>6, <1>7 DEF IInv

\* The requests of a new ADU have numbers of their own.
LEMMA NewRequests ==
  ASSUME made \in Nat, NEW r \in Requests, NEW s \in Requests
  PROVE  /\ \A adu \in { <<Number(r, 1)>>, <<Junk, Number(r, 1)>>, <<Number(r, 1), Junk>> } :
              adu \in Seq(Frame) /\ AllDifferent(adu) /\ NumbersOf(adu) \subseteq {made + 1}
         /\ LET adu == <<Number(r, 1), Number(s, 2)>>
            IN  adu \in Seq(Frame) /\ AllDifferent(adu) /\ NumbersOf(adu) \subseteq {made + 1, made + 2}
<1> DEFINE m == Number(r, 1)
           k == Number(s, 2)
<1>1. m \in Message /\ m.n = made + 1 /\ k \in Message /\ k.n = made + 2
  BY DEF Number, Message
<1> HIDE DEF m, k
<1>2. m \in Frame /\ k \in Frame /\ Junk \in Frame
  BY <1>1 DEF Frame
<1>3. <<m>> \in Seq(Frame) /\ AllDifferent(<<m>>) /\ NumbersOf(<<m>>) \subseteq {made + 1}
  BY <1>1, <1>2 DEF AllDifferent, NumbersOf
<1>4. /\ <<Junk, m>> \in Seq(Frame) /\ AllDifferent(<<Junk, m>>)
      /\ NumbersOf(<<Junk, m>>) \subseteq {made + 1}
  BY <1>1, <1>2 DEF AllDifferent, NumbersOf
<1>5. /\ <<m, Junk>> \in Seq(Frame) /\ AllDifferent(<<m, Junk>>)
      /\ NumbersOf(<<m, Junk>>) \subseteq {made + 1}
  BY <1>1, <1>2 DEF AllDifferent, NumbersOf
<1>6. /\ <<m, k>> \in Seq(Frame) /\ AllDifferent(<<m, k>>)
      /\ NumbersOf(<<m, k>>) \subseteq {made + 1, made + 2}
  BY <1>1, <1>2 DEF AllDifferent, NumbersOf
<1> QED BY <1>3, <1>4, <1>5, <1>6 DEF m, k

LEMMA AskRight ==
  ASSUME IInv, Ask
  PROVE  IInv'
<1>1. made \in Nat /\ \A b \in net : b.dst # NodeB
  BY DEF IInv, Typed, Ask
<1>2. PICK n \in {1, 2}, adu \in Seq(Frame) :
        /\ made' = made + n /\ Submit(NodeD, NodeB, adu)
        /\ AllDifferent(adu) /\ NumbersOf(adu) \subseteq made + 1 .. made + n
  <2>1. PICK r \in Requests :
          \/ /\ made' = made + 1
             /\ \E adu \in { <<Number(r, 1)>>, <<Junk, Number(r, 1)>>, <<Number(r, 1), Junk>> } :
                  Submit(NodeD, NodeB, adu)
          \/ /\ made' = made + 2
             /\ \E s \in Requests : Submit(NodeD, NodeB, <<Number(r, 1), Number(s, 2)>>)
    BY DEF Ask
  <2>2. CASE /\ made' = made + 1
             /\ \E adu \in { <<Number(r, 1)>>, <<Junk, Number(r, 1)>>, <<Number(r, 1), Junk>> } :
                  Submit(NodeD, NodeB, adu)
    <3>1. PICK adu \in { <<Number(r, 1)>>, <<Junk, Number(r, 1)>>, <<Number(r, 1), Junk>> } :
            Submit(NodeD, NodeB, adu)
      BY <2>2
    <3>2. adu \in Seq(Frame) /\ AllDifferent(adu) /\ NumbersOf(adu) \subseteq {made + 1}
      BY <1>1, NewRequests
    <3>3. made + 1 \in made + 1 .. made + 1
      BY <1>1
    <3> QED BY <2>2, <3>1, <3>2, <3>3
  <2>3. CASE /\ made' = made + 2
             /\ \E s \in Requests : Submit(NodeD, NodeB, <<Number(r, 1), Number(s, 2)>>)
    <3>1. PICK s \in Requests : Submit(NodeD, NodeB, <<Number(r, 1), Number(s, 2)>>)
      BY <2>3
    <3> DEFINE adu == <<Number(r, 1), Number(s, 2)>>
    <3>2. adu \in Seq(Frame) /\ AllDifferent(adu) /\ NumbersOf(adu) \subseteq {made + 1, made + 2}
      BY <1>1, NewRequests
    <3>3. Submit(NodeD, NodeB, adu)
      BY <3>1
    <3>4. {made + 1, made + 2} \subseteq made + 1 .. made + 2
      BY <1>1
    <3> HIDE DEF adu
    <3> QED BY <2>3, <3>2, <3>3, <3>4
  <2> QED BY <2>1, <2>2, <2>3
<1>3. /\ resources' = resources /\ file' = file /\ recv_payload' = recv_payload /\ pc' = pc
      /\ code' = code
      /\ held' = held /\ saved' = saved /\ answers' = answers /\ first' = first
  BY DEF Ask, serverVars
<1>4. \A b \in net' : b.dst = NodeB => b.adu = adu
  BY <1>1, <1>2 DEF Submit, Bundle
<1>5. /\ Numbers(held)' = Numbers(held) /\ Numbers(saved)' = Numbers(saved)
      /\ NumbersOf(recv_payload)' = NumbersOf(recv_payload) /\ NumbersOf(ToServe)' = NumbersOf(ToServe)
  BY <1>3 DEF Numbers, NumbersOf, ToServe
<1>6. Typed'
  <2>1. TypeOK'
    BY <1>3 DEF IInv, Typed, TypeOK
  <2>2. made' \in Nat
    BY <1>1, <1>2
  <2> QED BY <2>1, <2>2, <1>2, <1>3, <1>4 DEF IInv, Typed
<1>7. NumbersRight'
  <2>1. /\ NumbersOf(adu) \subseteq 1 .. made' /\ 1 .. made \subseteq 1 .. made'
        /\ NumbersOf(adu) \cap 1 .. made = {}
    BY <1>1, <1>2
  <2>2. NumbersOf(recv_payload) \subseteq 1 .. made /\ Numbers(held) \subseteq 1 .. made
    BY DEF IInv, NumbersRight
  <2>3. \A b \in net' : b.dst = NodeB =>
          /\ AllDifferent(b.adu) /\ NumbersOf(b.adu) \subseteq 1 .. made'
          /\ NumbersOf(b.adu) \cap (NumbersOf(recv_payload)' \cup Numbers(held)') = {}
    BY <1>2, <1>4, <1>5, <2>1, <2>2
  <2>4. AllDifferent(recv_payload)'
    BY <1>3 DEF IInv, NumbersRight, AllDifferent
  <2>5. /\ NumbersOf(recv_payload)' \subseteq 1 .. made' /\ Numbers(held)' \subseteq 1 .. made'
        /\ Numbers(saved)' \subseteq Numbers(held)' /\ NumbersOf(ToServe)' \cap Numbers(held)' = {}
    BY <1>5, <2>1, <2>2 DEF IInv, NumbersRight
  <2>6. \A b, d \in net' : b.dst = NodeB /\ d.dst = NodeB => b = d
    BY <1>1, <1>2 DEF Submit
  <2> QED BY <2>3, <2>4, <2>5, <2>6 DEF NumbersRight, AllDifferent, NumbersOf
<1>8. ServedOnce' /\ InHand' /\ Confirmed'
  <2>1. ServedOnce'
    BY <1>3 DEF IInv, ServedOnce
  <2>2. InHand'
    BY <1>3, <1>5 DEF IInv, InHand, Request
  <2>3. Confirmed'
    BY <1>3 DEF IInv, Confirmed, Numbers
  <2> QED BY <2>1, <2>2, <2>3
<1>9. Agreed'
  <2>1. Running' => Agrees(resources', first', held')
    BY <1>3 DEF IInv, Agreed, Running
  <2>2. file' # Torn => Agrees(Contents', first', saved')
    BY <1>3 DEF IInv, Agreed, Contents
  <2> QED BY <2>1, <2>2 DEF Agreed, Agrees, ValuesAfter, Left, Emptied, Puts, NamesAfter, Empties
<1> QED BY <1>6, <1>7, <1>8, <1>9 DEF IInv

LEMMA InitRight ==
  ASSUME Init
  PROVE  IInv
<1>1. /\ file \in {Absent} \cup { File(r) : r \in Databases } /\ resources = Contents
      /\ recv_payload = <<>> /\ pc = "idle" /\ net = {} /\ first = resources
      /\ made = 0 /\ held = <<>> /\ saved = <<>> /\ answers = {}
  BY DEF Init, ServerInit
<1>2. IsDictionary(<<>>)
  BY DEF IsDictionary
<1>3. /\ IsDictionary(Contents)
      /\ file = Absent \/ (file = File(file.values) /\ IsDictionary(file.values))
  <2>1. CASE file = Absent
    BY <2>1, <1>2 DEF Contents
  <2>2. CASE \E r \in Databases : file = File(r)
    BY <2>2, Files, DatabasesAssumption DEF Contents
  <2> QED BY <2>1, <2>2, <1>1
<1>4. Numbers(<<>>) = {} /\ NumbersOf(<<>>) = {} /\ AllDifferent(<<>>) /\ <<>> \in Seq(Frame)
      /\ <<>> \in Seq(Message)
  BY DEF Numbers, NumbersOf, AllDifferent
<1>5. Typed
  BY <1>1, <1>3, <1>4 DEF Typed, TypeOK
<1>6. NumbersRight
  BY <1>1, <1>4 DEF NumbersRight, ToServe
<1>7. ServedOnce /\ InHand /\ Confirmed
  BY <1>1 DEF ServedOnce, InHand, Confirmed
<1>8. Agreed
  BY <1>1, <1>3, AgreesAtFirst DEF Agreed
<1> QED BY <1>5, <1>6, <1>7, <1>8 DEF IInv

-----------------------------------------------------------------------------
(* The theorems *)

LEMMA StutterRight ==
  ASSUME IInv, UNCHANGED vars
  PROVE  IInv'
<1>1. /\ file' = file /\ net' = net /\ pc' = pc /\ recv_payload' = recv_payload /\ code' = code
      /\ resources' = resources /\ held' = held /\ saved' = saved /\ answers' = answers
      /\ first' = first /\ made' = made
  BY DEF vars, serverVars, network, history
<1>2. recv_payload' \in Seq(Frame) /\ AllDifferent(recv_payload') /\ (Running' => Running)
  BY <1>1 DEF IInv, Typed, NumbersRight, Running
<1>3. TypeOK' /\ InHand' /\ Confirmed'
  <2>1. TypeOK'
    BY <1>1 DEF IInv, Typed, TypeOK
  <2>2. InHand'
    BY <1>1 DEF IInv, InHand, Request, Numbers
  <2>3. Confirmed'
    BY <1>1 DEF IInv, Confirmed, Numbers
  <2> QED BY <2>1, <2>2, <2>3
<1>4. NumbersOf(ToServe') \cap Numbers(held) = {}
  <2>1. ToServe' = ToServe
    BY <1>1 DEF ToServe
  <2> QED BY <2>1 DEF IInv, NumbersRight
<1> QED BY <1>1, <1>2, <1>3, <1>4, Moves

\* The invariant of the server (NodeBaap2.py), for any resources, requests, crashes and errors.
THEOREM ServerInvariant == Spec => []IInv
<1>1. Init => IInv
  BY InitRight
<1>2. IInv /\ [Next]_vars => IInv'
  BY AskRight, ReceiveRight, ServeRight, CrashRight, RestartRight, StutterRight DEF Next
<1> QED BY <1>1, <1>2, PTL DEF Spec

\* The loop of bundle_coap_server (NodeBaap2.py:145) serves no request twice, whatever breaks,
\* and the dictionary and the file keep their form.
THEOREM ServerCorrect == Spec => []ServerInv
<1>1. IInv => ServerInv
  BY DEF IInv, Typed, ServerInv
<1> QED BY <1>1, ServerInvariant, PTL

\* save_resources_to_file (NodeBaap2.py:37): what was answered with success is in memory and in
\* the file, which are what the requests they hold make of the dictionary of the start, in any
\* order of requests, disk errors, lost connections and crashes.
THEOREM ConfirmedStays == Spec => []ConfirmedSurvives
<1>1. IInv => ConfirmedSurvives
  <2>1. ASSUME IInv
        PROVE  { a.n : a \in { b \in answers : b.code \in Success } } \subseteq Numbers(saved)
    BY <2>1 DEF IInv, Confirmed
  <2> QED BY <2>1 DEF IInv, ConfirmedSurvives, Agreed, NumbersRight
<1> QED BY <1>1, ServerInvariant, PTL
=============================================================================
