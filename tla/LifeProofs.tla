----------------------------- MODULE LifeProofs -----------------------------
(***************************************************************************)
(* The count of a bundle covers its transmissions, a bundle that is freed  *)
(* is not transmitted, and none is forgotten, in BundleLife: proved for    *)
(* any bundles, links, dispatchers, lengths of queues and settings.        *)
(* Then of the TCPCLv3 sessions that bundles leave on, for any peers,      *)
(* addresses and connections: nothing freed is used, a planned connection  *)
(* is the one in the table, and only a contact keeps it planned.           *)
(* Last of the bundles for the node itself, in Reassembly: an ADU is       *)
(* delivered once, when all of it has come and not before.                 *)
(***************************************************************************)
EXTENDS BundleLife, TcpclSessions, Reassembly, FiniteSetTheorems, SequenceTheorems, WellFoundedInduction, TLAPS

Reasons == {"NO_FIB_ENTRY", "TX_SUCCEEDED", "TX_FAILED", "CLA_ENQUEUE_FAILED"}

\* What signals, items of an agent_queue, tasks and links are made of.
Signals(s) ==
  [type : {"INCOMING", "TX_SUCCESS", "TX_FAILURE"}, b : Bundle]
  \cup [type : {"BDM_DISPATCH"}, b : Bundle, reason : Reasons, hops : s.hops \cup {NoHops},
        wild : BOOLEAN]
  \cup [type : {"LINK_UP", "LINK_DOWN"}, hop : Hop]
  \cup [type : {"AGENT_REGISTER", "AGENT_DEREGISTER"}, agent : Agent]

Items == [b : Bundle, reason : Reasons]
Asked == {"asking", "answered", "garbled"}
Ats == {"off", "joining", "sub", "leaving", "draining", "gone"} \cup Asked
Tasks(s) == [at : Ats, queue : Seq(Items \cup {Finalize}), item : Items \cup {NoItem},
             open : BOOLEAN, answer : s.hops \cup {NoHops}]
Objects == [at : {"out", "live", "forwarded", "deleted"}, refs : Nat, failed : BOOLEAN]
Links == [link : BOOLEAN, queue : Seq(Bundle \cup {"FINALIZE"}),
          task : {"off", "idle", "sending", "ending"}, sending : Bundle \cup {Nothing}]

\* FINALIZE is the last command of a link that is gone.
LinkRight(t) ==
  /\ \A i \in DOMAIN t.queue : t.queue[i] = "FINALIZE" => ~t.link /\ i = Len(t.queue)
  /\ t.task \in {"off", "ending"} => ~t.link /\ t.queue = <<>>

Typed ==
  /\ LifeTypeOK
  /\ signals \in Seq(Signals(setting))
  /\ tx \in [Hop -> Links]
  /\ \A h \in Hop : LinkRight(tx[h])
  /\ agent \in [Agent -> Tasks(setting)]
  /\ \A a \in Agent : agent[a].item \in Items <=> agent[a].at \in Asked

\* The places of the elements of Y in a sequence, and how many there are.
Among(q, Y) == {i \in DOMAIN q : q[i] \in Y}
Count(q, Y) == Cardinality(Among(q, Y))

Incoming(s, b) == {m \in Signals(s) : m.type = "INCOMING" /\ m.b = b}
Settled(s, b) == {m \in Signals(s) : m.type \in {"TX_SUCCESS", "TX_FAILURE"} /\ m.b = b}
Answers(s, b) == {m \in Signals(s) : m.type = "BDM_DISPATCH" /\ m.b = b}
Joins(s, a) == {m \in Signals(s) : m.type = "AGENT_REGISTER" /\ m.agent = a}
Leaves(s, a) == {m \in Signals(s) : m.type = "AGENT_DEREGISTER" /\ m.agent = a}

\* A task that asked for its registration or its removal waits for it, and did so once.
TaskRight(at, joins, leaves) ==
  /\ joins + leaves <= 1
  /\ joins > 0 => at = "joining"
  /\ leaves > 0 => at = "leaving"
AgentsRight ==
  /\ \A a \in Agent : TaskRight(agent[a].at, Count(signals, Joins(setting, a)),
                                Count(signals, Leaves(setting, a)))
  /\ bdm # NoAgent => agent[bdm].at \in Asked \cup {"sub", "leaving"}

\* b is with an agent task t, or with one of g; TX tasks x have it so often.
With(q, b) == \E i \in DOMAIN q : q[i].b = b
Has(t, b) == t.item.b = b \/ With(t.queue, b)
WithAgents(g, b) == \E a \in Agent : Has(g[a], b)
Pairs(H, F) == UNION { {k} \X F[k] : k \in H }
OnLinks(x, b) == Cardinality(Pairs(Hop, [h \in Hop |-> Commands(x[h], b)]))

\* An object r with a dispatch of it (d), and w signals that it has come.
Right(r, d, w) ==
  /\ r.at \in {"forwarded", "deleted"} => r.refs = 0
  /\ r.at = "out" => r.refs = 0 /\ ~d /\ w = 0
  /\ w <= 1
  /\ w > 0 => r.at = "live" /\ r.refs = 0 /\ ~d
  /\ r.at = "live" => r.refs > 0 \/ d \/ w > 0

Under(s, q, x, b) == OnLinks(x, b) + Count(q, Settled(s, b))
Owned(s, q, g, b) == WithAgents(g, b) \/ Count(q, Answers(s, b)) > 0
RightAt(s, o, q, x, g, b) ==
  /\ Covers(s, o[b].refs, Under(s, q, x, b))
  /\ Right(o[b], Owned(s, q, g, b), Count(q, Incoming(s, b)))
Counted == \A b \in Bundle : RightAt(setting, bundle, signals, tx, agent, b)

IInv == Typed /\ AgentsRight /\ (~crashed => Counted)

-----------------------------------------------------------------------------

-----------------------------------------------------------------------------
\* A set of numbers and the same set moved by n.
Moved(D, n) == {i + n : i \in D}

LEMMA Shifted ==
  ASSUME NEW D, IsFiniteSet(D), D \subseteq Int, NEW n \in Int
  PROVE  /\ IsFiniteSet(Moved(D, n))
         /\ Cardinality(Moved(D, n)) = Cardinality(D)
<1> DEFINE E == Moved(D, n)
           f == [i \in D |-> i + n]
<1>1. f \in Bijection(D, E)
  BY DEF Bijection, Injection, Surjection, IsInjective, Moved
<1> QED BY <1>1, FS_Bijection DEF ExistsBijection

\* Two sets without a common element.
LEMMA Disjoint ==
  ASSUME NEW S, IsFiniteSet(S), NEW T, IsFiniteSet(T), S \cap T = {}
  PROVE  /\ IsFiniteSet(S \cup T)
         /\ Cardinality(S \cup T) = Cardinality(S) + Cardinality(T)
         /\ Cardinality(S) \in Nat /\ Cardinality(T) \in Nat
BY FS_Union, FS_EmptySet, FS_CardinalityType

LEMMA AmongFinite ==
  ASSUME NEW X, NEW q \in Seq(X), NEW Y
  PROVE  /\ IsFiniteSet(Among(q, Y)) /\ Cardinality(Among(q, Y)) \in Nat
         /\ Among(q, Y) \subseteq Nat
         /\ Among(q, Y) # {} <=> Cardinality(Among(q, Y)) > 0
<1>1. Len(q) \in Nat /\ DOMAIN q = 1 .. Len(q)
  OBVIOUS
<1>2. IsFiniteSet(Among(q, Y))
  <2>1. IsFiniteSet(1 .. Len(q))
    BY <1>1, FS_Interval
  <2>2. Among(q, Y) \in SUBSET (1 .. Len(q))
    BY <1>1 DEF Among
  <2> QED BY <2>1, <2>2, FS_Subset
<1>3. Among(q, Y) \subseteq Nat
  BY <1>1 DEF Among
<1> HIDE DEF Among
<1>4. Cardinality(Among(q, Y)) \in Nat /\ (Cardinality(Among(q, Y)) = 0 <=> Among(q, Y) = {})
  BY <1>2, FS_CardinalityType, FS_EmptySet
<1> QED BY <1>2, <1>3, <1>4

\* What is left after the first element.
LEMMA AmongTail ==
  ASSUME NEW X, NEW q \in Seq(X), q # <<>>, NEW Y
  PROVE  Cardinality(Among(q, Y)) =
           Cardinality(Among(Tail(q), Y)) + (IF Head(q) \in Y THEN 1 ELSE 0)
<1> DEFINE T == Among(Tail(q), Y)
           S == Moved(T, 1)
<1>1. /\ Len(q) \in Nat \ {0} /\ DOMAIN q = 1 .. Len(q) /\ Head(q) = q[1]
      /\ Tail(q) \in Seq(X) /\ DOMAIN Tail(q) = 1 .. Len(q) - 1
      /\ \A i \in 1 .. Len(q) - 1 : Tail(q)[i] = q[i + 1]
  OBVIOUS
<1>2. Among(q, Y) = S \cup (IF Head(q) \in Y THEN {1} ELSE {})
  <2>1. \A i \in Among(q, Y) : (i = 1 /\ Head(q) \in Y) \/ (i - 1 \in T /\ i = (i - 1) + 1)
    BY <1>1 DEF Among
  <2>2. \A i \in T : i + 1 \in Among(q, Y)
    BY <1>1 DEF Among
  <2>3. Head(q) \in Y => 1 \in Among(q, Y)
    BY <1>1 DEF Among
  <2> QED BY <2>1, <2>2, <2>3 DEF Moved
<1>t. Tail(q) \in Seq(X)
  BY <1>1
<1>s. IsFiniteSet(T) /\ T \subseteq Nat
  BY <1>t, AmongFinite, Zenon
<1>3. IsFiniteSet(T) /\ T \subseteq Int
  BY <1>s
<1>4. IsFiniteSet(S) /\ Cardinality(S) = Cardinality(T)
  <2>1. 1 \in Int
    OBVIOUS
  <2> HIDE DEF T
  <2> QED BY <1>3, <2>1, Shifted
<1>0. 1 \notin S
  BY <1>1 DEF Among, Moved
<1>5. Cardinality(T) \in Nat
  BY <1>3, FS_CardinalityType
<1> HIDE DEF T, S
<1>6. CASE Head(q) \in Y
  <2>1. Among(q, Y) = S \cup {1}
    BY <1>2, <1>6
  <2>2. Cardinality(S \cup {1}) = Cardinality(S) + 1
    BY <1>0, <1>4, FS_AddElement
  <2>3. Cardinality(Among(q, Y)) = Cardinality(T) + 1
    BY <1>4, <2>1, <2>2
  <2> QED BY <1>6, <2>3 DEF T
<1>7. CASE Head(q) \notin Y
  <2>1. Cardinality(Among(q, Y)) = Cardinality(T)
    BY <1>2, <1>4, <1>7
  <2> QED BY <1>5, <1>7, <2>1 DEF T
<1> QED BY <1>6, <1>7

\* What is added behind.
LEMMA AmongConcat ==
  ASSUME NEW X, NEW p \in Seq(X), NEW q \in Seq(X), NEW Y
  PROVE  Cardinality(Among(p \o q, Y)) = Cardinality(Among(p, Y)) + Cardinality(Among(q, Y))
<1> DEFINE n == Len(p)
           S == Moved(Among(q, Y), n)
<1>1. /\ n \in Nat /\ Len(q) \in Nat /\ DOMAIN p = 1 .. n /\ DOMAIN q = 1 .. Len(q)
      /\ p \o q \in Seq(X) /\ DOMAIN (p \o q) = 1 .. n + Len(q)
      /\ \A i \in 1 .. n : (p \o q)[i] = p[i]
      /\ \A i \in 1 .. Len(q) : (p \o q)[i + n] = q[i]
  OBVIOUS
<1> HIDE DEF n
<1>2. Among(p \o q, Y) = Among(p, Y) \cup S
  <2>1. \A i \in Among(p \o q, Y) : i \in Among(p, Y) \/ (i - n \in Among(q, Y) /\ i = (i - n) + n)
    <3> SUFFICES ASSUME NEW i \in Among(p \o q, Y), i \notin Among(p, Y)
                 PROVE  i - n \in Among(q, Y) /\ i = (i - n) + n
      OBVIOUS
    <3>1. i \in 1 .. n + Len(q) /\ i > n
      BY <1>1 DEF Among
    <3>2. i - n \in 1 .. Len(q) /\ i = (i - n) + n
      BY <1>1, <3>1
    <3>3. (p \o q)[i] = q[i - n]
      BY <1>1, <3>2
    <3> QED BY <1>1, <3>2, <3>3 DEF Among
  <2>2. \A i \in Among(p, Y) : i \in Among(p \o q, Y)
    BY <1>1 DEF Among
  <2>3. \A i \in Among(q, Y) : i + n \in Among(p \o q, Y)
    BY <1>1 DEF Among
  <2> QED BY <2>1, <2>2, <2>3 DEF Moved
<1>3. Among(p, Y) \cap S = {}
  BY <1>1 DEF Among, Moved
<1>a. IsFiniteSet(Among(q, Y)) /\ Among(q, Y) \subseteq Int /\ n \in Int
  BY <1>1, AmongFinite
<1>4. IsFiniteSet(S) /\ Cardinality(S) = Cardinality(Among(q, Y))
  BY <1>a, Shifted
<1>5. Cardinality(Among(p \o q, Y)) = Cardinality(Among(p, Y)) + Cardinality(Among(q, Y))
  BY <1>2, <1>3, <1>4, AmongFinite, Disjoint
<1> QED BY <1>5

\* One element added behind.
LEMMA AmongAppend ==
  ASSUME NEW X, NEW q \in Seq(X), NEW m \in X, NEW Y
  PROVE  Cardinality(Among(Append(q, m), Y)) =
           Cardinality(Among(q, Y)) + (IF m \in Y THEN 1 ELSE 0)
<1> DEFINE n == Len(q)
           r == Append(q, m)
<1>1. /\ n \in Nat /\ DOMAIN q = 1 .. n /\ DOMAIN r = 1 .. n + 1 /\ r[n + 1] = m
      /\ \A i \in 1 .. n : r[i] = q[i]
  OBVIOUS
<1> HIDE DEF n, r
<1>2. m \notin Y => Among(r, Y) = Among(q, Y)
  BY <1>1 DEF Among
<1>3. m \in Y => Among(r, Y) = Among(q, Y) \cup {n + 1}
  <2>1. \A i \in 1 .. n + 1 : i \in 1 .. n \/ i = n + 1
    BY <1>1
  <2> QED BY <1>1, <2>1 DEF Among
<1>4. IsFiniteSet(Among(q, Y)) /\ Cardinality(Among(q, Y)) \in Nat
  BY AmongFinite
<1>a. n + 1 \notin Among(q, Y)
  BY <1>1 DEF Among
<1>5. Cardinality(Among(r, Y)) = Cardinality(Among(q, Y)) + (IF m \in Y THEN 1 ELSE 0)
  <2>1. CASE m \in Y
    BY <1>3, <1>4, <1>a, <2>1, FS_AddElement
  <2>2. CASE m \notin Y
    BY <1>2, <1>4, <2>2
  <2> QED BY <2>1, <2>2
<1> QED BY <1>5 DEF r

-----------------------------------------------------------------------------
\* Numbers per element of H, in pairs.
LEMMA PairsAre ==
  ASSUME NEW H, NEW F
  PROVE  /\ \A c \in Pairs(H, F) : c = <<c[1], c[2]>> /\ c[1] \in H /\ c[2] \in F[c[1]]
         /\ \A k \in H : \A i \in F[k] : <<k, i>> \in Pairs(H, F)
<1>1. ASSUME NEW c \in Pairs(H, F)
      PROVE  c = <<c[1], c[2]>> /\ c[1] \in H /\ c[2] \in F[c[1]]
  <2>1. PICK k \in H : c \in {k} \X F[k]
    BY DEF Pairs
  <2> QED BY <2>1
<1>2. ASSUME NEW k \in H, NEW i \in F[k]
      PROVE  <<k, i>> \in Pairs(H, F)
  <2>1. <<k, i>> \in {k} \X F[k]
    OBVIOUS
  <2> QED BY <2>1, Zenon DEF Pairs
<1> QED BY <1>1, <1>2

LEMMA PairsFinite ==
  ASSUME NEW H, IsFiniteSet(H), NEW F, \A k \in H : IsFiniteSet(F[k])
  PROVE  IsFiniteSet(Pairs(H, F)) /\ Cardinality(Pairs(H, F)) \in Nat
<1> DEFINE S == { {k} \X F[k] : k \in H }
           f == [k \in H |-> {k} \X F[k]]
<1>1. f \in Surjection(H, S)
  BY DEF Surjection
<1>2. IsFiniteSet(S)
  BY <1>1, FS_Surjection
<1>3. \A k \in H : IsFiniteSet({k} \X F[k])
  BY FS_Singleton, FS_Product
<1>4. \A T \in S : IsFiniteSet(T)
  BY <1>3
<1> HIDE DEF S
<1>5. IsFiniteSet(UNION S)
  BY <1>2, <1>4, FS_UNION
<1> QED BY <1>5, FS_CardinalityType DEF S, Pairs

LEMMA PairsOfOne ==
  ASSUME NEW h, NEW F, IsFiniteSet(F[h])
  PROVE  /\ IsFiniteSet(Pairs({h}, F))
         /\ Cardinality(Pairs({h}, F)) = Cardinality(F[h])
         /\ Cardinality(F[h]) \in Nat
<1>1. Pairs({h}, F) = {h} \X F[h]
  BY DEF Pairs
<1>2. IsFiniteSet({h}) /\ Cardinality({h}) = 1
  BY FS_Singleton
<1>3. Cardinality(F[h]) \in Nat
  BY FS_CardinalityType
<1>4. /\ IsFiniteSet({h} \X F[h])
      /\ Cardinality({h} \X F[h]) = 1 * Cardinality(F[h])
  <2>1. /\ IsFiniteSet({h} \X F[h])
        /\ Cardinality({h} \X F[h]) = Cardinality({h}) * Cardinality(F[h])
    BY <1>2, FS_Product
  <2> QED BY <1>2, <2>1
<1>5. 1 * Cardinality(F[h]) = Cardinality(F[h])
  BY <1>3
<1> QED BY <1>1, <1>3, <1>4, <1>5

LEMMA PairsSplit ==
  ASSUME NEW H, IsFiniteSet(H), NEW F, \A k \in H : IsFiniteSet(F[k]), NEW h \in H
  PROVE  Cardinality(Pairs(H, F)) = Cardinality(Pairs(H \ {h}, F)) + Cardinality(F[h])
<1> DEFINE R == Pairs(H \ {h}, F)
           P == Pairs({h}, F)
<1>1. Pairs(H, F) = R \cup P /\ R \cap P = {}
  BY DEF Pairs
<1>2. IsFiniteSet(H \ {h})
  BY FS_Difference
<1>3. IsFiniteSet(R)
  BY <1>2, PairsFinite
<1>4. IsFiniteSet(P) /\ Cardinality(P) = Cardinality(F[h])
  BY PairsOfOne
<1> HIDE DEF R, P
<1>5. Cardinality(R \cup P) = Cardinality(R) + Cardinality(P)
  BY <1>1, <1>3, <1>4, Disjoint
<1> QED BY <1>1, <1>4, <1>5 DEF R

\* The numbers of one element have changed.
LEMMA OneChanged ==
  ASSUME NEW H, IsFiniteSet(H), NEW h \in H, NEW F, NEW G,
         \A k \in H : IsFiniteSet(F[k]) /\ IsFiniteSet(G[k]),
         \A k \in H : k # h => G[k] = F[k]
  PROVE  /\ Cardinality(Pairs(H, G)) + Cardinality(F[h]) =
              Cardinality(Pairs(H, F)) + Cardinality(G[h])
         /\ Cardinality(F[h]) \in Nat /\ Cardinality(G[h]) \in Nat
<1>1. Cardinality(Pairs(H, F)) = Cardinality(Pairs(H \ {h}, F)) + Cardinality(F[h])
  BY PairsSplit
<1>2. Cardinality(Pairs(H, G)) = Cardinality(Pairs(H \ {h}, G)) + Cardinality(G[h])
  BY PairsSplit
<1>3. Pairs(H \ {h}, F) = Pairs(H \ {h}, G)
  BY DEF Pairs
<1>4. IsFiniteSet(H \ {h})
  BY FS_Difference
<1>5. Cardinality(Pairs(H \ {h}, F)) \in Nat
  BY <1>4, PairsFinite
<1>6. Cardinality(F[h]) \in Nat /\ Cardinality(G[h]) \in Nat
  BY FS_CardinalityType
<1> QED BY <1>1, <1>2, <1>3, <1>5, <1>6

\* Numbers E, moved by L, have come to F.
Added(H, F, G, E, L) ==
  \A k \in H : /\ IsFiniteSet(F[k]) /\ IsFiniteSet(E[k]) /\ E[k] \subseteq Int
               /\ L[k] \in Int
               /\ G[k] = F[k] \cup Moved(E[k], L[k])
               /\ F[k] \cap Moved(E[k], L[k]) = {}

LEMMA AllChanged ==
  ASSUME NEW H, IsFiniteSet(H), NEW F, NEW G, NEW E, NEW L, Added(H, F, G, E, L)
  PROVE  Cardinality(Pairs(H, G)) = Cardinality(Pairs(H, F)) + Cardinality(Pairs(H, E))
<1> DEFINE M == [k \in H |-> Moved(E[k], L[k])]
           f == [c \in Pairs(H, E) |-> <<c[1], c[2] + L[c[1]]>>]
           A == Pairs(H, E)
           B == Pairs(H, M)
<1> USE DEF Added
<1>1. f \in Bijection(A, B)
  <2>1. f \in [A -> B]
    <3> SUFFICES ASSUME NEW c \in A PROVE <<c[1], c[2] + L[c[1]]>> \in B
      OBVIOUS
    <3>1. c[1] \in H /\ c[2] \in E[c[1]]
      BY PairsAre
    <3>2. c[2] + L[c[1]] \in M[c[1]]
      BY <3>1 DEF Moved
    <3> HIDE DEF M
    <3> QED BY <3>1, <3>2, PairsAre
  <2>2. \A c, d \in A : f[c] = f[d] => c = d
    <3> SUFFICES ASSUME NEW c \in A, NEW d \in A, f[c] = f[d] PROVE c = d
      OBVIOUS
    <3>1. /\ c = <<c[1], c[2]>> /\ c[1] \in H /\ c[2] \in E[c[1]]
          /\ d = <<d[1], d[2]>> /\ d[1] \in H /\ d[2] \in E[d[1]]
      BY PairsAre
    <3>2. c[1] = d[1] /\ c[2] + L[c[1]] = d[2] + L[d[1]]
      OBVIOUS
    <3>3. c[2] = d[2]
      BY <3>1, <3>2
    <3> QED BY <3>1, <3>2, <3>3
  <2>3. \A c \in B : \E d \in A : f[d] = c
    <3> SUFFICES ASSUME NEW c \in B PROVE \E d \in A : f[d] = c
      OBVIOUS
    <3>0. c = <<c[1], c[2]>> /\ c[1] \in H /\ c[2] \in M[c[1]]
      <4> HIDE DEF M
      <4> QED BY PairsAre
    <3>2. PICK j \in E[c[1]] : c[2] = j + L[c[1]]
      BY <3>0 DEF Moved
    <3>3. <<c[1], j>> \in A
      BY <3>0, PairsAre
    <3>4. f[<<c[1], j>>] = c
      BY <3>0, <3>2, <3>3
    <3> QED BY <3>3, <3>4
  <2> HIDE DEF f, A, B
  <2> QED BY <2>1, <2>2, <2>3 DEF Bijection, Injection, Surjection, IsInjective
<1> HIDE DEF f
<1>2. IsFiniteSet(A)
  BY PairsFinite
<1>3. IsFiniteSet(B) /\ Cardinality(B) = Cardinality(A)
  BY <1>1, <1>2, FS_Bijection DEF ExistsBijection
<1>4. IsFiniteSet(Pairs(H, F))
  BY PairsFinite
<1>5. Pairs(H, G) = Pairs(H, F) \cup B
  <2>1. \A k \in H : G[k] = F[k] \cup M[k]
    OBVIOUS
  <2> HIDE DEF M
  <2> QED BY <2>1 DEF Pairs
<1>6. Pairs(H, F) \cap B = {}
  <2>1. \A k \in H : F[k] \cap M[k] = {}
    OBVIOUS
  <2> HIDE DEF M
  <2>2. \A c : ~ (c \in Pairs(H, F) /\ c \in Pairs(H, M))
    <3> SUFFICES ASSUME NEW c, c \in Pairs(H, F), c \in Pairs(H, M) PROVE FALSE
      OBVIOUS
    <3>1. c[1] \in H /\ c[2] \in F[c[1]]
      BY PairsAre
    <3>2. c[2] \in M[c[1]]
      BY PairsAre
    <3> QED BY <2>1, <3>1, <3>2
  <2> QED BY <2>2
<1> HIDE DEF B, A
<1>7. Cardinality(Pairs(H, F) \cup B) = Cardinality(Pairs(H, F)) + Cardinality(B)
  BY <1>3, <1>4, <1>6, Disjoint
<1> QED BY <1>3, <1>5, <1>7 DEF A

-----------------------------------------------------------------------------
\* What signals have, by their type.
LEMMA SignalsAre ==
  ASSUME NEW s, NEW m \in Signals(s)
  PROVE  /\ m.type \in {"INCOMING", "TX_SUCCESS", "TX_FAILURE", "BDM_DISPATCH"} => m.b \in Bundle
         /\ m.type = "BDM_DISPATCH" => m.hops \in s.hops \cup {NoHops}
         /\ m.type \in {"LINK_UP", "LINK_DOWN"} => m.hop \in Hop
         /\ m.type \in {"AGENT_REGISTER", "AGENT_DEREGISTER"} => m.agent \in Agent
BY DEF Signals

LEMMA SignalsOf ==
  ASSUME NEW s
  PROVE  /\ \A b \in Bundle : /\ [type |-> "INCOMING", b |-> b] \in Signals(s)
                              /\ Result("TX_SUCCESS", b) \in Signals(s)
                              /\ Result("TX_FAILURE", b) \in Signals(s)
         /\ \A h \in Hop : /\ [type |-> "LINK_UP", hop |-> h] \in Signals(s)
                           /\ [type |-> "LINK_DOWN", hop |-> h] \in Signals(s)
         /\ \A a \in Agent : /\ [type |-> "AGENT_REGISTER", agent |-> a] \in Signals(s)
                             /\ Leaving(a) \in Signals(s)
         /\ \A item \in Items, hops \in s.hops \cup {NoHops}, wild \in BOOLEAN :
              Answer(item, hops, wild) \in Signals(s)
BY DEF Signals, Result, Leaving, Answer, Items

LEMMA CountIsNat ==
  ASSUME NEW X, NEW q \in Seq(X), NEW Y
  PROVE  Count(q, Y) \in Nat
BY AmongFinite DEF Count

LEMMA CountTail ==
  ASSUME NEW X, NEW q \in Seq(X), q # <<>>, NEW Y
  PROVE  Count(q, Y) = Count(Tail(q), Y) + (IF Head(q) \in Y THEN 1 ELSE 0)
BY AmongTail, Zenon DEF Count

LEMMA CountAppend ==
  ASSUME NEW X, NEW q \in Seq(X), NEW m \in X, NEW Y
  PROVE  Count(Append(q, m), Y) = Count(q, Y) + (IF m \in Y THEN 1 ELSE 0)
BY AmongAppend, Zenon DEF Count

One(P) == IF P THEN 1 ELSE 0

\* What p has more than q, if it is a signal m.
OneMore(s, p, q, m) ==
  \A b :
    /\ Count(q, Settled(s, b)) \in Nat /\ Count(q, Answers(s, b)) \in Nat
    /\ Count(q, Incoming(s, b)) \in Nat
    /\ Count(q, Joins(s, b)) \in Nat /\ Count(q, Leaves(s, b)) \in Nat
    /\ Count(p, Settled(s, b)) =
         Count(q, Settled(s, b)) + One(m.type \in {"TX_SUCCESS", "TX_FAILURE"} /\ m.b = b)
    /\ Count(p, Answers(s, b)) =
         Count(q, Answers(s, b)) + One(m.type = "BDM_DISPATCH" /\ m.b = b)
    /\ Count(p, Incoming(s, b)) =
         Count(q, Incoming(s, b)) + One(m.type = "INCOMING" /\ m.b = b)
    /\ Count(p, Joins(s, b)) =
         Count(q, Joins(s, b)) + One(m.type = "AGENT_REGISTER" /\ m.agent = b)
    /\ Count(p, Leaves(s, b)) =
         Count(q, Leaves(s, b)) + One(m.type = "AGENT_DEREGISTER" /\ m.agent = b)

LEMMA MoreByOne ==
  ASSUME NEW s, NEW p \in Seq(Signals(s)), NEW q \in Seq(Signals(s)), NEW m \in Signals(s),
         \A Y : Count(p, Y) = Count(q, Y) + (IF m \in Y THEN 1 ELSE 0)
  PROVE  OneMore(s, p, q, m)
<1> SUFFICES ASSUME NEW b
             PROVE  OneMore(s, p, q, m)!(b)
  BY Zenon DEF OneMore
<1>1. /\ m \in Settled(s, b) <=> m.type \in {"TX_SUCCESS", "TX_FAILURE"} /\ m.b = b
      /\ m \in Answers(s, b) <=> m.type = "BDM_DISPATCH" /\ m.b = b
      /\ m \in Incoming(s, b) <=> m.type = "INCOMING" /\ m.b = b
      /\ m \in Joins(s, b) <=> m.type = "AGENT_REGISTER" /\ m.agent = b
      /\ m \in Leaves(s, b) <=> m.type = "AGENT_DEREGISTER" /\ m.agent = b
  BY Zenon DEF Settled, Answers, Incoming, Joins, Leaves
<1>2. \A Y : Count(q, Y) \in Nat
  BY CountIsNat, Zenon
<1> QED BY <1>1, <1>2 DEF One

\* The first signal is taken from the queue; one is put behind the others.
LEMMA PoppedMore ==
  ASSUME NEW s, NEW q \in Seq(Signals(s)), q # <<>>
  PROVE  OneMore(s, q, Tail(q), Head(q))
<1>1. Head(q) \in Signals(s) /\ Tail(q) \in Seq(Signals(s))
  OBVIOUS
<1>2. \A Y : Count(q, Y) = Count(Tail(q), Y) + (IF Head(q) \in Y THEN 1 ELSE 0)
  BY CountTail, Zenon
<1> QED BY <1>1, <1>2, MoreByOne, Zenon

LEMMA PushedMore ==
  ASSUME NEW s, NEW q \in Seq(Signals(s)), NEW m \in Signals(s)
  PROVE  OneMore(s, Append(q, m), q, m)
<1>1. Append(q, m) \in Seq(Signals(s))
  OBVIOUS
<1>2. \A Y : Count(Append(q, m), Y) = Count(q, Y) + (IF m \in Y THEN 1 ELSE 0)
  BY CountAppend, Zenon
<1> QED BY <1>1, <1>2, MoreByOne, Zenon

\* What this one is, by its type.
LEMMA MoreIncoming ==
  ASSUME NEW s, NEW p, NEW q, NEW m, OneMore(s, p, q, m), m.type = "INCOMING", NEW c
  PROVE  /\ Count(p, Settled(s, c)) = Count(q, Settled(s, c))
         /\ Count(p, Answers(s, c)) = Count(q, Answers(s, c))
         /\ Count(p, Incoming(s, c)) = Count(q, Incoming(s, c)) + One(m.b = c)
BY DEF OneMore, One

LEMMA MoreResult ==
  ASSUME NEW s, NEW p, NEW q, NEW m, OneMore(s, p, q, m),
         m.type \in {"TX_SUCCESS", "TX_FAILURE"}, NEW c
  PROVE  /\ Count(p, Settled(s, c)) = Count(q, Settled(s, c)) + One(m.b = c)
         /\ Count(p, Answers(s, c)) = Count(q, Answers(s, c))
         /\ Count(p, Incoming(s, c)) = Count(q, Incoming(s, c))
BY DEF OneMore, One

LEMMA MoreAnswers ==
  ASSUME NEW s, NEW p, NEW q, NEW m, OneMore(s, p, q, m), m.type = "BDM_DISPATCH", NEW c
  PROVE  /\ Count(p, Settled(s, c)) = Count(q, Settled(s, c))
         /\ Count(p, Answers(s, c)) = Count(q, Answers(s, c)) + One(m.b = c)
         /\ Count(p, Incoming(s, c)) = Count(q, Incoming(s, c))
BY DEF OneMore, One

LEMMA MoreOther ==
  ASSUME NEW s, NEW p, NEW q, NEW m, OneMore(s, p, q, m),
         m.type \in {"LINK_UP", "LINK_DOWN", "AGENT_REGISTER", "AGENT_DEREGISTER"}, NEW c
  PROVE  /\ Count(p, Settled(s, c)) = Count(q, Settled(s, c))
         /\ Count(p, Answers(s, c)) = Count(q, Answers(s, c))
         /\ Count(p, Incoming(s, c)) = Count(q, Incoming(s, c))
BY DEF OneMore, One

LEMMA MoreUnasked ==
  ASSUME NEW s, NEW p, NEW q, NEW m, OneMore(s, p, q, m),
         m.type \notin {"AGENT_REGISTER", "AGENT_DEREGISTER"}, NEW a
  PROVE  /\ Count(p, Joins(s, a)) = Count(q, Joins(s, a))
         /\ Count(p, Leaves(s, a)) = Count(q, Leaves(s, a))
BY DEF OneMore, One

\* Numbers of signals are numbers.
LEMMA CountsAreNat ==
  ASSUME NEW s, NEW q \in Seq(Signals(s)), NEW b
  PROVE  /\ Count(q, Settled(s, b)) \in Nat /\ Count(q, Answers(s, b)) \in Nat
         /\ Count(q, Incoming(s, b)) \in Nat
         /\ Count(q, Joins(s, b)) \in Nat /\ Count(q, Leaves(s, b)) \in Nat
BY CountIsNat, Zenon

-----------------------------------------------------------------------------
\* A queue of items without its first, and with one more.
LEMMA WithTail ==
  ASSUME NEW X, NEW q \in Seq(X), q # <<>>, NEW b
  PROVE  With(q, b) <=> Head(q).b = b \/ With(Tail(q), b)
<1>1. /\ Len(q) \in Nat \ {0} /\ DOMAIN q = 1 .. Len(q) /\ Head(q) = q[1]
      /\ DOMAIN Tail(q) = 1 .. Len(q) - 1
      /\ \A i \in 1 .. Len(q) - 1 : Tail(q)[i] = q[i + 1]
  OBVIOUS
<1>2. ASSUME NEW i \in DOMAIN q, q[i].b = b PROVE Head(q).b = b \/ With(Tail(q), b)
  <2>1. CASE i = 1
    BY <1>1, <1>2, <2>1
  <2>2. CASE i # 1
    <3>1. i - 1 \in DOMAIN Tail(q) /\ Tail(q)[i - 1] = q[i]
      BY <1>1, <2>2
    <3> QED BY <1>2, <3>1 DEF With
  <2> QED BY <2>1, <2>2
<1>3. ASSUME NEW i \in DOMAIN Tail(q), Tail(q)[i].b = b PROVE With(q, b)
  <2>1. i + 1 \in DOMAIN q /\ Tail(q)[i] = q[i + 1]
    BY <1>1
  <2> QED BY <1>3, <2>1 DEF With
<1>4. 1 \in DOMAIN q
  BY <1>1
<1>5. Head(q).b = b => With(q, b)
  BY <1>1, <1>4 DEF With
<1> QED BY <1>2, <1>3, <1>5 DEF With

LEMMA WithAppend ==
  ASSUME NEW X, NEW q \in Seq(X), NEW m \in X, NEW b
  PROVE  With(Append(q, m), b) <=> m.b = b \/ With(q, b)
<1> DEFINE n == Len(q)
           r == Append(q, m)
<1>1. /\ n \in Nat /\ DOMAIN q = 1 .. n /\ DOMAIN r = 1 .. n + 1 /\ r[n + 1] = m
      /\ \A i \in 1 .. n : r[i] = q[i]
  OBVIOUS
<1> HIDE DEF n, r
<1>2. n + 1 \in DOMAIN r /\ \A i \in DOMAIN q : i \in DOMAIN r
  BY <1>1
<1>3. \A i \in DOMAIN r : i = n + 1 \/ i \in DOMAIN q
  BY <1>1
<1>4. With(r, b) <=> m.b = b \/ With(q, b)
  BY <1>1, <1>2, <1>3 DEF With
<1> QED BY <1>4 DEF r

\* What has become of the tasks, where only a has got or lost b.
LEMMA TaskChanged ==
  ASSUME NEW g, NEW k, NEW a \in Agent, NEW b, NEW P \in BOOLEAN, NEW Q \in BOOLEAN,
         \A c \in Agent : c # a => (Has(k[c], b) <=> Has(g[c], b)),
         (Has(k[a], b) \/ P) <=> (Has(g[a], b) \/ Q), Q => P
  PROVE  (WithAgents(k, b) \/ P) <=> (WithAgents(g, b) \/ Q)
BY DEF WithAgents

LEMMA SameTasks ==
  ASSUME NEW g, NEW k, NEW b, \A c \in Agent : Has(k[c], b) <=> Has(g[c], b)
  PROVE  WithAgents(k, b) <=> WithAgents(g, b)
BY DEF WithAgents

\* The commands for b of a link, by what is done to the link.
LEMMA CommandsFinite ==
  ASSUME NEW t \in Links, NEW b
  PROVE  /\ IsFiniteSet(Commands(t, b)) /\ Commands(t, b) \subseteq Nat
         /\ Cardinality(Commands(t, b)) \in Nat
<1>1. Len(t.queue) \in Nat /\ DOMAIN t.queue = 1 .. Len(t.queue)
  BY DEF Links
<1> DEFINE n == Len(t.queue)
<1>2. Commands(t, b) \subseteq 0 .. n
  BY <1>1 DEF Commands
<1> HIDE DEF n
<1>3. IsFiniteSet(0 .. n)
  <2>1. 0 \in Int /\ n \in Int
    BY <1>1 DEF n
  <2> QED BY <2>1, FS_Interval
<1>4. IsFiniteSet(Commands(t, b))
  BY <1>2, <1>3, FS_Subset
<1>5. Commands(t, b) \subseteq Nat
  BY <1>1, <1>2 DEF n
<1> QED BY <1>4, <1>5, FS_CardinalityType

LEMMA CommandsTaken ==
  ASSUME NEW t \in Links, t.task = "idle", t.sending = Nothing, t.queue # <<>>,
         NEW b \in Bundle
  PROVE  Cardinality(Commands(Take(t, Head(t.queue)), b)) = Cardinality(Commands(t, b))
<1> DEFINE u == Take(t, Head(t.queue))
           q == t.queue
<1>1. /\ Len(q) \in Nat \ {0} /\ DOMAIN q = 1 .. Len(q) /\ Head(q) = q[1]
      /\ Tail(q) \in Seq(Bundle \cup {"FINALIZE"}) /\ DOMAIN Tail(q) = 1 .. Len(q) - 1
      /\ \A i \in 1 .. Len(q) - 1 : Tail(q)[i] = q[i + 1]
  BY DEF Links
<1>2. b # Nothing /\ b # "FINALIZE"
  BY BundleAssumption
<1>3. /\ u.queue = Tail(q)
      /\ u.sending = b <=> Head(q) = b
  BY <1>2 DEF Take, Links
<1>4. Commands(u, b) = Moved(Commands(t, b), -1)
  <2>1. \A i \in Commands(u, b) : i + 1 \in Commands(t, b) /\ i = (i + 1) + (-1)
    <3> SUFFICES ASSUME NEW i \in Commands(u, b)
                 PROVE  i + 1 \in Commands(t, b) /\ i = (i + 1) + (-1)
      OBVIOUS
    <3>1. CASE i \in 1 .. Len(q) - 1 /\ Tail(q)[i] = b
      <4>1. i + 1 \in 1 .. Len(q) /\ q[i + 1] = b
        BY <1>1, <3>1
      <4> QED BY <1>1, <3>1, <4>1 DEF Commands
    <3>2. CASE i = 0 /\ u.sending = b
      <4>1. 1 \in 1 .. Len(q) /\ q[1] = b
        BY <1>1, <1>3, <3>2
      <4> QED BY <1>1, <3>2, <4>1 DEF Commands
    <3>3. \/ i \in DOMAIN u.queue /\ u.queue[i] = b
          \/ i = 0 /\ u.sending = b
      BY DEF Commands
    <3> QED BY <1>1, <1>3, <3>1, <3>2, <3>3
  <2>2. \A i \in Commands(t, b) : i + (-1) \in Commands(u, b)
    <3> SUFFICES ASSUME NEW i \in Commands(t, b) PROVE i - 1 \in Commands(u, b)
      BY <1>1 DEF Commands
    <3>1. i \in 1 .. Len(q) /\ q[i] = b
      BY <1>1, <1>2 DEF Commands
    <3>2. CASE i = 1
      BY <1>1, <1>3, <3>1, <3>2 DEF Commands
    <3>3. CASE i # 1
      <4>1. i - 1 \in 1 .. Len(q) - 1 /\ Tail(q)[i - 1] = q[i]
        BY <1>1, <3>1, <3>3
      <4> QED BY <1>1, <1>3, <3>1, <4>1 DEF Commands
    <3> QED BY <3>2, <3>3
  <2> QED BY <2>1, <2>2 DEF Moved
<1>5. IsFiniteSet(Commands(t, b)) /\ Commands(t, b) \subseteq Int
  BY CommandsFinite
<1> QED BY <1>4, <1>5, Shifted

LEMMA CommandsSent ==
  ASSUME NEW t \in Links, NEW b \in Bundle
  PROVE  Cardinality(Commands(t, b)) =
           Cardinality(Commands([t EXCEPT !.task = "idle", !.sending = Nothing], b))
             + One(t.sending = b)
<1> DEFINE u == [t EXCEPT !.task = "idle", !.sending = Nothing]
<1>1. u \in Links /\ u.queue = t.queue /\ u.sending = Nothing /\ b # Nothing
  BY BundleAssumption DEF Links
<1>2. 0 \notin DOMAIN t.queue
  BY DEF Links
<1> HIDE DEF u
<1>3. IsFiniteSet(Commands(u, b)) /\ Cardinality(Commands(u, b)) \in Nat
  BY <1>1, CommandsFinite
<1>4. CASE t.sending = b
  <2>1. Commands(t, b) = Commands(u, b) \cup {0} /\ 0 \notin Commands(u, b)
    BY <1>1, <1>2, <1>4 DEF Commands
  <2>2. Cardinality(Commands(u, b) \cup {0}) = Cardinality(Commands(u, b)) + 1
    BY <1>3, <2>1, FS_AddElement
  <2> QED BY <1>4, <2>1, <2>2 DEF One, u
<1>5. CASE t.sending # b
  <2>1. Commands(t, b) = Commands(u, b)
    BY <1>1, <1>5 DEF Commands
  <2> QED BY <1>3, <1>5, <2>1 DEF One, u
<1> QED BY <1>4, <1>5

LEMMA CommandsFinal ==
  ASSUME NEW t \in Links, NEW b \in Bundle
  PROVE  Commands([t EXCEPT !.link = FALSE, !.queue = Append(@, "FINALIZE")], b) = Commands(t, b)
<1> DEFINE u == [t EXCEPT !.link = FALSE, !.queue = Append(@, "FINALIZE")]
           n == Len(t.queue)
<1>1. /\ n \in Nat /\ DOMAIN t.queue = 1 .. n /\ u.sending = t.sending
      /\ u.queue = Append(t.queue, "FINALIZE")
      /\ DOMAIN u.queue = 1 .. n + 1 /\ u.queue[n + 1] = "FINALIZE"
      /\ \A i \in 1 .. n : u.queue[i] = t.queue[i]
  BY DEF Links
<1>2. b # "FINALIZE"
  BY BundleAssumption
<1> HIDE DEF u, n
<1>3. \A i \in 1 .. n + 1 : i \in 1 .. n \/ i = n + 1
  BY <1>1
<1>4. \A i \in 1 .. n : i \in 1 .. n + 1
  BY <1>1
<1>5. Commands(u, b) = Commands(t, b)
  BY <1>1, <1>2, <1>3, <1>4 DEF Commands
<1> QED BY <1>5 DEF u

\* How often TX tasks have b, where one link has changed.
Others(x, y, h) == \A k \in Hop : k # h => y[k] = x[k]
Balanced(x, y, h, b) ==
  OnLinks(y, b) + Cardinality(Commands(x[h], b)) = OnLinks(x, b) + Cardinality(Commands(y[h], b))

LEMMA LinkChanged ==
  ASSUME NEW x \in [Hop -> Links], NEW y \in [Hop -> Links], NEW h \in Hop, NEW b,
         Others(x, y, h)
  PROVE  Balanced(x, y, h, b)
<1> DEFINE F == [k \in Hop |-> Commands(x[k], b)]
           G == [k \in Hop |-> Commands(y[k], b)]
<1>1. \A k \in Hop : IsFiniteSet(F[k]) /\ IsFiniteSet(G[k])
  BY CommandsFinite
<1>2. \A k \in Hop : k # h => G[k] = F[k]
  BY DEF Others
<1>3. F[h] = Commands(x[h], b) /\ G[h] = Commands(y[h], b)
  OBVIOUS
<1> HIDE DEF F, G
<1>4. Cardinality(Pairs(Hop, G)) + Cardinality(F[h]) =
        Cardinality(Pairs(Hop, F)) + Cardinality(G[h])
  BY <1>1, <1>2, HopAssumption, OneChanged
<1> QED BY <1>3, <1>4 DEF Balanced, OnLinks, F, G

LEMMA OnLinksIsNat ==
  ASSUME NEW x \in [Hop -> Links], NEW b
  PROVE  OnLinks(x, b) \in Nat
<1> DEFINE F == [k \in Hop |-> Commands(x[k], b)]
<1>1. \A k \in Hop : IsFiniteSet(F[k])
  BY CommandsFinite
<1> HIDE DEF F
<1>2. Cardinality(Pairs(Hop, F)) \in Nat
  BY <1>1, HopAssumption, PairsFinite
<1> QED BY <1>2 DEF OnLinks, F

-----------------------------------------------------------------------------
\* A bundle is handed to the dispatcher, or settled where there is none.
LEMMA HandOverTyped ==
  ASSUME Typed, NEW b \in Bundle, NEW reason \in Reasons, NEW kept \in Objects,
         NEW otherwise \in Objects, HandOver(b, reason, kept, otherwise)
  PROVE  /\ bundle' \in [Bundle -> Objects] /\ agent' \in [Agent -> Tasks(setting)]
         /\ \A a \in Agent : /\ Len(agent'[a].queue) <= AGENT_QUEUE_LENGTH
                             /\ agent'[a].at = agent[a].at /\ agent'[a].item = agent[a].item
<1>1. /\ bundle \in [Bundle -> Objects] /\ agent \in [Agent -> Tasks(setting)]
      /\ \A a \in Agent : Len(agent[a].queue) <= AGENT_QUEUE_LENGTH
      /\ bdm \in Agent \cup {NoAgent}
  BY DEF Typed, LifeTypeOK, Objects
<1>2. CASE bdm = NoAgent
  BY <1>1, <1>2 DEF HandOver
<1>3. CASE bdm # NoAgent
  <2> DEFINE item == [b |-> b, reason |-> reason]
             t == [agent[bdm] EXCEPT !.queue = Append(@, item)]
  <2>0. bdm \in Agent /\ agent[bdm] \in Tasks(setting)
    BY <1>1, <1>3
  <2>1. /\ Len(agent[bdm].queue) < AGENT_QUEUE_LENGTH
        /\ agent' = [agent EXCEPT ![bdm] = t] /\ bundle' = [bundle EXCEPT ![b] = kept]
    BY <1>3 DEF HandOver
  <2>2. item \in Items
    BY DEF Items
  <2> HIDE DEF item
  <2>3. /\ t \in Tasks(setting) /\ Len(t.queue) = Len(agent[bdm].queue) + 1
        /\ t.at = agent[bdm].at /\ t.item = agent[bdm].item
    BY <2>0, <2>2, SMTT(30) DEF Tasks
  <2>4. Len(agent[bdm].queue) \in Nat /\ AGENT_QUEUE_LENGTH \in Nat
    BY <2>0, LengthAssumption DEF Tasks
  <2> HIDE DEF t
  <2> QED BY <1>1, <2>0, <2>1, <2>3, <2>4
<1> QED BY <1>2, <1>3

LEMMA HandOverDoes ==
  ASSUME Typed, NEW b \in Bundle, NEW reason \in Reasons, NEW kept \in Objects,
         NEW otherwise \in Objects, HandOver(b, reason, kept, otherwise)
  PROVE  /\ \A c \in Bundle : c # b =>
              /\ bundle'[c] = bundle[c]
              /\ WithAgents(agent', c) <=> WithAgents(agent, c)
         /\ \/ bundle'[b] = otherwise
            \/ bundle'[b] = kept /\ WithAgents(agent', b)
<1>1. /\ bundle \in [Bundle -> Objects] /\ agent \in [Agent -> Tasks(setting)]
      /\ bdm \in Agent \cup {NoAgent}
  BY DEF Typed, LifeTypeOK, Objects
<1>2. CASE bdm = NoAgent
  BY <1>1, <1>2 DEF HandOver
<1>3. CASE bdm # NoAgent
  <2> DEFINE item == [b |-> b, reason |-> reason]
             t == [agent[bdm] EXCEPT !.queue = Append(@, item)]
  <2>0. bdm \in Agent /\ agent[bdm] \in Tasks(setting)
    BY <1>1, <1>3
  <2>1. agent' = [agent EXCEPT ![bdm] = t] /\ bundle' = [bundle EXCEPT ![b] = kept]
    BY <1>3 DEF HandOver
  <2>2. item \in Items /\ item.b = b
    BY DEF Items
  <2> HIDE DEF item
  <2>3. /\ agent[bdm].queue \in Seq(Items \cup {Finalize})
        /\ t.queue = Append(agent[bdm].queue, item) /\ t.item = agent[bdm].item
    BY <2>0 DEF Tasks
  <2> HIDE DEF t
  <2>4. ASSUME NEW c
        PROVE  Has(t, c) <=> item.b = c \/ Has(agent[bdm], c)
    <3>1. With(t.queue, c) <=> item.b = c \/ With(agent[bdm].queue, c)
      BY <2>2, <2>3, WithAppend
    <3> QED BY <2>3, <3>1 DEF Has
  <2>5. agent'[bdm] = t /\ \A a \in Agent : a # bdm => agent'[a] = agent[a]
    BY <1>1, <2>0, <2>1
  <2>6. ASSUME NEW c \in Bundle, c # b
        PROVE  WithAgents(agent', c) <=> WithAgents(agent, c)
    <3>1. \A a \in Agent : Has(agent'[a], c) <=> Has(agent[a], c)
      BY <2>2, <2>4, <2>5, <2>6
    <3> QED BY <3>1, SameTasks
  <2>7. WithAgents(agent', b)
    BY <2>0, <2>2, <2>4, <2>5 DEF WithAgents
  <2> QED BY <1>1, <2>1, <2>6, <2>7
<1> QED BY <1>2, <1>3

LEMMA SettledObject ==
  ASSUME NEW r \in Objects
  PROVE  Failed(r) \in Objects /\ Succeeded(r) \in Objects
BY DEF Objects, Failed, Succeeded

\* What a bundle is afterwards that is live.
LEMMA SettledRight ==
  ASSUME NEW kept \in Objects, NEW r \in {Failed(kept), Succeeded(kept)}, kept.at = "live",
         NEW d
  PROVE  Right(r, d, 0) /\ r.refs = kept.refs
<1>1. r.refs = kept.refs /\ kept.refs \in Nat
  BY DEF Objects, Failed, Succeeded
<1>2. \/ kept.refs = 0 /\ r.at \in {"forwarded", "deleted"}
      \/ kept.refs # 0 /\ r.at = "live"
  BY DEF Objects, Failed, Succeeded
<1> QED BY <1>1, <1>2 DEF Right

LEMMA HandOverRight ==
  ASSUME Typed, NEW b \in Bundle, NEW reason \in Reasons, NEW kept \in Objects,
         NEW otherwise \in {Failed(kept), Succeeded(kept)}, HandOver(b, reason, kept, otherwise),
         kept.at = "live", NEW P \in BOOLEAN
  PROVE  Right(bundle'[b], WithAgents(agent', b) \/ P, 0) /\ bundle'[b].refs = kept.refs
<1>1. otherwise \in Objects
  BY SettledObject
<1>2. \/ bundle'[b] = otherwise
      \/ bundle'[b] = kept /\ WithAgents(agent', b)
  BY <1>1, HandOverDoes
<1>3. CASE bundle'[b] = kept /\ WithAgents(agent', b)
  BY <1>3 DEF Right, Objects
<1>4. CASE bundle'[b] = otherwise
  <2>1. Right(otherwise, WithAgents(agent', b) \/ P, 0) /\ otherwise.refs = kept.refs
    BY SettledRight
  <2> QED BY <1>4, <2>1
<1> QED BY <1>2, <1>3, <1>4

-----------------------------------------------------------------------------
\* Hops to send to, of which none may get a fragment that has to be cut again.
HopsRight(hops) ==
  /\ DOMAIN hops \subseteq Hop
  /\ \A h \in DOMAIN hops :
       /\ hops[h] \in Nat
       /\ Fitting(setting) => setting.mbs = 0 \/ hops[h] <= setting.mbs

LEMMA Rounded ==
  ASSUME NEW l \in Nat, NEW m \in Nat \ {0}, l > m
  PROVE  (l + m - 1) \div m \in Nat \ {0}
<1> DEFINE q == (l + m - 1) \div m
<1>1. q \in Int /\ m * q <= l + m - 1 /\ l + m - 1 < m * (q + 1)
  OBVIOUS
<1> HIDE DEF q
<1>2. q > 0
  <2>1. m * (q + 1) = m * q + m
    BY <1>1
  <2>2. m * q > 0
    BY <1>1, <2>1
  <2> QED BY <1>1, <2>2
<1> QED BY <1>1, <1>2 DEF q

LEMMA PiecesAre ==
  ASSUME Typed, NEW b \in Bundle, NEW length \in Nat
  PROVE  /\ Pieces(b, length) \in Nat \ {0}
         /\ Fragment(b, length) /\ (setting.mbs = 0 \/ length <= setting.mbs)
              => Pieces(b, length) = 1
<1>1. setting.size[b] \in Nat \ {0} /\ setting.mbs \in Nat
  BY SettingsAssumption DEF Typed, LifeTypeOK
<1> DEFINE l == IF Fragment(b, length) THEN length ELSE setting.size[b]
<1>2. l \in Nat \ {0}
  BY <1>1 DEF Fragment
<1>3. Pieces(b, length) = IF setting.mbs = 0 \/ l <= setting.mbs THEN 1
                          ELSE (l + setting.mbs - 1) \div setting.mbs
  BY DEF Pieces
<1>4. Fragment(b, length) => l = length
  OBVIOUS
<1> HIDE DEF l
<1>5. CASE setting.mbs = 0 \/ l <= setting.mbs
  BY <1>3, <1>5
<1>6. CASE ~(setting.mbs = 0 \/ l <= setting.mbs)
  <2>1. (l + setting.mbs - 1) \div setting.mbs \in Nat \ {0}
    <3>1. setting.mbs \in Nat \ {0} /\ l \in Nat /\ l > setting.mbs
      BY <1>1, <1>2, <1>6
    <3> QED BY <3>1, Rounded
  <2> QED BY <1>3, <1>4, <1>6, <2>1
<1> QED BY <1>5, <1>6

\* What one hop gets.
LEMMA EnqueuedAre ==
  ASSUME Typed, NEW b \in Bundle, NEW hops, HopsRight(hops), NEW h \in DOMAIN hops
  PROVE  LET n == Enqueued(b, h, hops[h])
         IN  /\ n \in Nat /\ Len(tx[h].queue) + n <= TX_QUEUE_LENGTH
             /\ n > 0 => tx[h].link
             /\ Fits(b, h, hops[h]) => n > 0
             /\ References(b, h, hops[h]) \in {0 .. n, 1 .. n}
             /\ Fitting(setting) => References(b, h, hops[h]) = 1 .. n
<1>1. /\ h \in Hop /\ hops[h] \in Nat
      /\ Fitting(setting) => setting.mbs = 0 \/ hops[h] <= setting.mbs
      /\ Len(tx[h].queue) \in Nat /\ Len(tx[h].queue) <= TX_QUEUE_LENGTH
  BY DEF HopsRight, Typed, LifeTypeOK, Links
<1> DEFINE p == Pieces(b, hops[h])
<1>2. p \in Nat \ {0} /\ (Fitting(setting) /\ Fragment(b, hops[h]) => p = 1)
  BY <1>1, PiecesAre
<1>3. /\ References(b, h, hops[h]) \in {0 .. Enqueued(b, h, hops[h]), 1 .. Enqueued(b, h, hops[h])}
      /\ Fitting(setting) => References(b, h, hops[h]) = 1 .. Enqueued(b, h, hops[h])
  BY <1>2 DEF References
<1> HIDE DEF p
<1>4. /\ Room(h) \in Nat /\ Len(tx[h].queue) + Room(h) <= TX_QUEUE_LENGTH
      /\ Room(h) > 0 => tx[h].link
  <2>1. CASE h \in up /\ tx[h].link
    <3>1. Room(h) = TX_QUEUE_LENGTH - Len(tx[h].queue)
      BY <2>1 DEF Room
    <3> QED BY <1>1, <2>1, <3>1, LengthAssumption
  <2>2. CASE ~(h \in up /\ tx[h].link)
    <3>1. Room(h) = 0
      BY <2>2 DEF Room
    <3> QED BY <1>1, <3>1
  <2> QED BY <2>1, <2>2
<1> DEFINE n == Enqueued(b, h, hops[h])
           r == Room(h)
           l == Len(tx[h].queue)
<1>5. n = IF p <= r THEN p ELSE r
  BY DEF Enqueued, Fits, p
<1>6. Fits(b, h, hops[h]) <=> p <= r
  BY DEF Fits, p
<1>7. r \in Nat /\ l + r <= TX_QUEUE_LENGTH /\ l \in Nat
  BY <1>1, <1>4
<1>8. r > 0 => tx[h].link
  BY <1>4
<1> HIDE DEF n, r, l
<1>9. n \in Nat /\ n <= r
  BY <1>2, <1>5, <1>7
<1>10. l + n <= TX_QUEUE_LENGTH
  BY <1>7, <1>9, LengthAssumption
<1>11. n > 0 => tx[h].link
  BY <1>7, <1>8, <1>9
<1>12. Fits(b, h, hops[h]) => n > 0
  <2>1. p <= r => n > 0
    BY <1>2, <1>5
  <2> QED BY <1>6, <2>1
<1> QED BY <1>3, <1>9, <1>10, <1>11, <1>12 DEF n, l

\* n commands for b in the queue of a link.
Longer(t, n, b) == [t EXCEPT !.queue = @ \o [i \in 1 .. n |-> b]]

LEMMA LongerIs ==
  ASSUME NEW t \in Links, NEW n \in Nat, NEW b \in Bundle
  PROVE  LET u == Longer(t, n, b)
             l == Len(t.queue)
         IN  /\ u \in Links /\ u.link = t.link /\ u.task = t.task /\ u.sending = t.sending
             /\ Len(u.queue) = l + n /\ l \in Nat /\ DOMAIN u.queue = 1 .. l + n
             /\ \A i \in 1 .. l : u.queue[i] = t.queue[i]
             /\ \A i \in 1 .. l + n : i > l => u.queue[i] = b
<1> DEFINE r == [i \in 1 .. n |-> b]
           q == t.queue
           X == Bundle \cup {"FINALIZE"}
<1>1. r \in Seq(X) /\ Len(r) = n /\ \A i \in 1 .. n : r[i] = b
  OBVIOUS
<1>2. q \in Seq(X)
  BY DEF Links
<1> HIDE DEF r, X
<1>3. /\ q \o r \in Seq(X) /\ Len(q \o r) = Len(q) + n /\ Len(q) \in Nat
      /\ DOMAIN (q \o r) = 1 .. Len(q) + n
      /\ \A i \in 1 .. Len(q) : (q \o r)[i] = q[i]
      /\ \A i \in 1 .. Len(q) + n : i > Len(q) => (q \o r)[i] = r[i - Len(q)]
  BY <1>1, <1>2
<1>4. \A i \in 1 .. Len(q) + n : i > Len(q) => i - Len(q) \in 1 .. n
  BY <1>3
<1>5. Longer(t, n, b) = [t EXCEPT !.queue = q \o r]
  BY DEF Longer, r
<1>6. /\ Longer(t, n, b) \in Links /\ Longer(t, n, b).queue = q \o r
      /\ Longer(t, n, b).link = t.link /\ Longer(t, n, b).task = t.task
      /\ Longer(t, n, b).sending = t.sending
  BY <1>3, <1>5 DEF Links, X
<1>7. \A i \in 1 .. Len(q) + n : i > Len(q) => (q \o r)[i] = b
  BY <1>1, <1>3, <1>4
<1> QED BY <1>3, <1>6, <1>7

LEMMA LongerCommands ==
  ASSUME NEW t \in Links, NEW n \in Nat, NEW b \in Bundle, NEW c \in Bundle
  PROVE  LET E == IF c = b THEN 1 .. n ELSE {}
             l == Len(t.queue)
         IN  /\ Commands(Longer(t, n, b), c) = Commands(t, c) \cup Moved(E, l)
             /\ Commands(t, c) \cap Moved(E, l) = {}
             /\ IsFiniteSet(E) /\ E \subseteq Int
<1> DEFINE u == Longer(t, n, b)
           E == IF c = b THEN 1 .. n ELSE {}
           l == Len(t.queue)
<1>1. /\ u.sending = t.sending /\ l \in Nat
      /\ DOMAIN u.queue = 1 .. l + n /\ DOMAIN t.queue = 1 .. l
      /\ \A i \in 1 .. l : u.queue[i] = t.queue[i]
      /\ \A i \in 1 .. l + n : i > l => u.queue[i] = b
  <2>1. DOMAIN t.queue = 1 .. l
    BY DEF Links
  <2> HIDE DEF u, l
  <2>2. /\ u.sending = t.sending /\ l \in Nat
        /\ DOMAIN u.queue = 1 .. l + n
        /\ \A i \in 1 .. l : u.queue[i] = t.queue[i]
        /\ \A i \in 1 .. l + n : i > l => u.queue[i] = b
    BY LongerIs DEF u, l
  <2> QED BY <2>1, <2>2
<1>2. IsFiniteSet(E) /\ E \subseteq Int
  BY FS_Interval, FS_EmptySet
<1>3. \A i \in E : i > 0 /\ i <= n /\ c = b
  OBVIOUS
<1>4. c = b => \A i \in 1 .. n : i \in E
  OBVIOUS
<1> HIDE DEF u, E, l
<1>5. ASSUME NEW i \in Commands(u, c), i \notin Commands(t, c)
      PROVE  i - l \in E /\ i = (i - l) + l
  <2>1. i \in 1 .. l + n /\ u.queue[i] = c
    BY <1>1, <1>5 DEF Commands
  <2>2. i > l
    BY <1>1, <1>5, <2>1 DEF Commands
  <2>3. c = b /\ i - l \in 1 .. n /\ i = (i - l) + l
    BY <1>1, <2>1, <2>2
  <2> QED BY <1>4, <2>3
<1>6. ASSUME NEW i \in Commands(t, c)
      PROVE  i \in Commands(u, c) /\ i <= l
  <2>1. CASE i \in 1 .. l /\ t.queue[i] = c
    <3>1. i \in 1 .. l + n
      BY <1>1, <2>1
    <3> QED BY <1>1, <2>1, <3>1 DEF Commands
  <2>2. CASE i = 0 /\ t.sending = c
    BY <1>1, <2>2 DEF Commands
  <2> QED BY <1>1, <1>6, <2>1, <2>2 DEF Commands
<1>7. ASSUME NEW i \in E
      PROVE  i + l \in Commands(u, c) /\ i + l > l
  <2>1. i \in Int /\ i > 0 /\ i <= n /\ c = b
    BY <1>2, <1>3
  <2>2. i + l \in 1 .. l + n /\ i + l > l
    BY <1>1, <2>1
  <2> QED BY <1>1, <2>1, <2>2 DEF Commands
<1>8. Commands(u, c) = Commands(t, c) \cup Moved(E, l)
  BY <1>5, <1>6, <1>7 DEF Moved
<1>9. Commands(t, c) \cap Moved(E, l) = {}
  <2> SUFFICES ASSUME NEW i \in Commands(t, c), NEW j \in E, i = j + l PROVE FALSE
    BY DEF Moved
  <2> QED BY <1>1, <1>2, <1>6, <1>7
<1> QED BY <1>2, <1>8, <1>9 DEF u, E, l

\* The commands that sending b to hops makes.
New(b, hops) == UNION { {h} \X References(b, h, hops[h]) : h \in DOMAIN hops }
Sent(b, hops) == UNION { {h} \X (1 .. Enqueued(b, h, hops[h])) : h \in DOMAIN hops }

LEMMA SendToLinks ==
  ASSUME Typed, NEW b \in Bundle, NEW hops, HopsRight(hops), SendTo(b, hops), NEW h \in Hop
  PROVE  /\ h \notin DOMAIN hops => tx'[h] = tx[h]
         /\ h \in DOMAIN hops => tx'[h] = Longer(tx[h], Enqueued(b, h, hops[h]), b)
<1>1. tx' = [k \in Hop |->
               IF k \notin DOMAIN hops THEN tx[k]
               ELSE Longer(tx[k], Enqueued(b, k, hops[k]), b)]
  BY DEF SendTo, Longer
<1> QED BY <1>1

LEMMA SendToTyped ==
  ASSUME Typed, NEW b \in Bundle, NEW hops, HopsRight(hops), SendTo(b, hops)
  PROVE  /\ tx' \in [Hop -> Links]
         /\ \A h \in Hop : /\ LinkRight(tx'[h]) /\ Len(tx'[h].queue) <= TX_QUEUE_LENGTH
                           /\ tx'[h].sending \in Bundle <=> tx'[h].task = "sending"
<1>1. \A h \in Hop : /\ tx[h] \in Links /\ LinkRight(tx[h])
                     /\ Len(tx[h].queue) <= TX_QUEUE_LENGTH
                     /\ tx[h].sending \in Bundle <=> tx[h].task = "sending"
  BY DEF Typed, LifeTypeOK
<1>2. ASSUME NEW h \in Hop
      PROVE  /\ tx'[h] \in Links /\ LinkRight(tx'[h])
             /\ Len(tx'[h].queue) <= TX_QUEUE_LENGTH
             /\ tx'[h].sending \in Bundle <=> tx'[h].task = "sending"
  <2>1. CASE h \notin DOMAIN hops
    BY <1>1, <2>1, SendToLinks
  <2>2. CASE h \in DOMAIN hops
    <3> DEFINE n == Enqueued(b, h, hops[h])
               t == tx[h]
               u == Longer(t, n, b)
               l == Len(t.queue)
    <3>1. n \in Nat /\ l + n <= TX_QUEUE_LENGTH /\ (n > 0 => t.link)
      BY <2>2, EnqueuedAre
    <3>2. tx'[h] = u
      BY <2>2, SendToLinks
    <3>3. t \in Links
      BY <1>1
    <3> HIDE DEF n
    <3>4. /\ u \in Links /\ u.link = t.link /\ u.task = t.task /\ u.sending = t.sending
          /\ Len(u.queue) = l + n /\ l \in Nat /\ DOMAIN u.queue = 1 .. l + n
          /\ \A i \in 1 .. l : u.queue[i] = t.queue[i]
      <4> HIDE DEF t
      <4> QED BY <3>1, <3>3, LongerIs, Zenon
    <3> HIDE DEF u
    <3>5. LinkRight(u)
      <4>1. CASE n = 0
        <5>1. \A i \in DOMAIN u.queue : i \in DOMAIN t.queue /\ u.queue[i] = t.queue[i]
          BY <3>3, <3>4, <4>1 DEF Links
        <5>2. t.queue = <<>> => u.queue = <<>>
          BY <3>3, <3>4, <4>1 DEF Links
        <5>3. Len(u.queue) = Len(t.queue)
          BY <3>4, <4>1
        <5> QED BY <1>1, <3>4, <5>1, <5>2, <5>3 DEF LinkRight
      <4>2. CASE n > 0
        <5>1. t.link
          BY <3>1, <4>2
        <5>2. \A i \in 1 .. l : t.queue[i] # "FINALIZE"
          BY <1>1, <3>3, <5>1 DEF LinkRight, Links
        <5>3. t.task \notin {"off", "ending"}
          BY <1>1, <5>1 DEF LinkRight
        <5>4. \A i \in 1 .. l + n : i > l => u.queue[i] = b
          BY <3>1, <3>3, LongerIs DEF u
        <5>5. b # "FINALIZE"
          BY BundleAssumption
        <5>6. \A i \in 1 .. l + n : u.queue[i] # "FINALIZE"
          <6> SUFFICES ASSUME NEW i \in 1 .. l + n PROVE u.queue[i] # "FINALIZE"
            OBVIOUS
          <6>1. i \in 1 .. l \/ i > l
            BY <3>1, <3>4
          <6> QED BY <3>4, <5>2, <5>4, <5>5, <6>1
        <5> QED BY <3>4, <5>3, <5>6 DEF LinkRight
      <4> QED BY <3>1, <4>1, <4>2
    <3> QED BY <1>1, <3>1, <3>2, <3>4, <3>5
  <2> QED BY <2>1, <2>2
<1>3. DOMAIN tx' = Hop /\ tx' = [h \in Hop |-> tx'[h]]
  BY DEF SendTo
<1> QED BY <1>2, <1>3

\* How often TX tasks have a bundle c then.
LEMMA SendToCounts ==
  ASSUME Typed, NEW b \in Bundle, NEW hops, HopsRight(hops), SendTo(b, hops), NEW c \in Bundle
  PROVE  /\ c # b => OnLinks(tx', c) = OnLinks(tx, c)
         /\ c = b => OnLinks(tx', c) = OnLinks(tx, c) + Cardinality(Sent(b, hops))
<1> DEFINE N(h) == Enqueued(b, h, hops[h])
           F == [h \in Hop |-> Commands(tx[h], c)]
           G == [h \in Hop |-> Commands(tx'[h], c)]
           E == [h \in Hop |-> IF h \in DOMAIN hops /\ c = b THEN 1 .. N(h) ELSE {}]
           L == [h \in Hop |-> Len(tx[h].queue)]
<1>1. ASSUME NEW h \in Hop
      PROVE  /\ IsFiniteSet(F[h]) /\ IsFiniteSet(E[h]) /\ E[h] \subseteq Int /\ L[h] \in Int
             /\ G[h] = F[h] \cup Moved(E[h], L[h])
             /\ F[h] \cap Moved(E[h], L[h]) = {}
  <2>1. tx[h] \in Links
    BY DEF Typed
  <2>2. IsFiniteSet(F[h]) /\ L[h] \in Int
    BY <2>1, CommandsFinite DEF Links
  <2>3. CASE h \notin DOMAIN hops
    <3>1. G[h] = F[h] /\ E[h] = {}
      BY <2>3, SendToLinks
    <3>2. Moved(E[h], L[h]) = {}
      BY <3>1 DEF Moved
    <3> HIDE DEF F, G, E, L
    <3> QED BY <2>2, <3>1, <3>2, FS_EmptySet
  <2>4. CASE h \in DOMAIN hops
    <3>1. N(h) \in Nat
      BY <2>4, EnqueuedAre
    <3>2. G[h] = Commands(Longer(tx[h], N(h), b), c)
      BY <2>4, SendToLinks
    <3>3. E[h] = IF c = b THEN 1 .. N(h) ELSE {}
      BY <2>4
    <3> DEFINE n == N(h)
    <3> HIDE DEF n
    <3>4. /\ Commands(Longer(tx[h], n, b), c) =
               Commands(tx[h], c) \cup Moved(IF c = b THEN 1 .. n ELSE {}, Len(tx[h].queue))
          /\ Commands(tx[h], c) \cap Moved(IF c = b THEN 1 .. n ELSE {}, Len(tx[h].queue)) = {}
          /\ IsFiniteSet(IF c = b THEN 1 .. n ELSE {})
          /\ (IF c = b THEN 1 .. n ELSE {}) \subseteq Int
      <4>1. n \in Nat
        BY <3>1 DEF n
      <4> QED BY <2>1, <4>1, LongerCommands
    <3> QED BY <2>2, <3>2, <3>3, <3>4 DEF n
  <2> QED BY <2>3, <2>4
<1>2. OnLinks(tx, c) = Cardinality(Pairs(Hop, F)) /\ OnLinks(tx', c) = Cardinality(Pairs(Hop, G))
  BY DEF OnLinks
<1>3. c # b => Pairs(Hop, E) = {}
  BY DEF Pairs
<1>4. c = b => Pairs(Hop, E) = Sent(b, hops)
  <2> SUFFICES ASSUME c = b PROVE Pairs(Hop, E) = Sent(b, hops)
    OBVIOUS
  <2>1. DOMAIN hops \subseteq Hop
    BY DEF HopsRight
  <2>2. \A h \in DOMAIN hops : E[h] = 1 .. Enqueued(b, h, hops[h])
    BY <2>1
  <2>3. \A h \in Hop : h \notin DOMAIN hops => E[h] = {}
    OBVIOUS
  <2> HIDE DEF E
  <2>4. ASSUME NEW x \in Pairs(Hop, E) PROVE x \in Sent(b, hops)
    <3>1. PICK h \in Hop : x \in {h} \X E[h]
      BY <2>4 DEF Pairs
    <3>2. h \in DOMAIN hops
      BY <2>3, <3>1
    <3> QED BY <2>2, <3>1, <3>2 DEF Sent
  <2>5. ASSUME NEW x \in Sent(b, hops) PROVE x \in Pairs(Hop, E)
    <3>1. PICK h \in DOMAIN hops : x \in {h} \X (1 .. Enqueued(b, h, hops[h]))
      BY <2>5 DEF Sent
    <3>2. h \in Hop /\ x \in {h} \X E[h]
      BY <2>1, <2>2, <3>1
    <3> QED BY <3>2 DEF Pairs
  <2> QED BY <2>4, <2>5
<1> HIDE DEF F, G, E, L
<1>5. Cardinality(Pairs(Hop, G)) = Cardinality(Pairs(Hop, F)) + Cardinality(Pairs(Hop, E))
  <2>1. Added(Hop, F, G, E, L)
    BY <1>1 DEF Added
  <2> QED BY <2>1, HopAssumption, AllChanged
<1>6. \A h \in Hop : IsFiniteSet(F[h])
  BY <1>1
<1>7. Cardinality(Pairs(Hop, F)) \in Nat
  BY <1>6, HopAssumption, PairsFinite
<1>8. c # b => Cardinality(Pairs(Hop, E)) = 0
  BY <1>3, FS_EmptySet
<1> QED BY <1>2, <1>4, <1>5, <1>7, <1>8

\* What is counted is at least what is sent, and that is something if all of it fits.
LEMMA NewCovers ==
  ASSUME Typed, NEW b \in Bundle, NEW hops, HopsRight(hops)
  PROVE  /\ Cardinality(New(b, hops)) \in Nat /\ Cardinality(Sent(b, hops)) \in Nat
         /\ Covers(setting, Cardinality(New(b, hops)), Cardinality(Sent(b, hops)))
         /\ DOMAIN hops # {} /\ (\A h \in DOMAIN hops : Fits(b, h, hops[h]))
              => Cardinality(New(b, hops)) > 0
<1> DEFINE E == [h \in DOMAIN hops |-> References(b, h, hops[h])]
           N == New(b, hops)
           S == Sent(b, hops)
<1>1. N = Pairs(DOMAIN hops, E)
  BY DEF New, Pairs
<1>2. ASSUME NEW h \in DOMAIN hops
      PROVE  /\ IsFiniteSet(E[h]) /\ (Fits(b, h, hops[h]) => 1 \in E[h])
             /\ 1 .. Enqueued(b, h, hops[h]) \subseteq E[h]
             /\ Fitting(setting) => E[h] = 1 .. Enqueued(b, h, hops[h])
  <2> DEFINE n == Enqueued(b, h, hops[h])
  <2>1. n \in Nat /\ (Fits(b, h, hops[h]) => n > 0)
    BY EnqueuedAre
  <2>2. E[h] \in {0 .. n, 1 .. n} /\ (Fitting(setting) => E[h] = 1 .. n)
    BY EnqueuedAre
  <2> HIDE DEF n, E
  <2>3. IsFiniteSet(0 .. n) /\ IsFiniteSet(1 .. n)
    <3>1. 0 \in Int /\ 1 \in Int /\ n \in Int
      BY <2>1
    <3> QED BY <3>1, FS_Interval
  <2>4. n > 0 => 1 \in 1 .. n /\ 1 \in 0 .. n
    BY <2>1
  <2>5. 1 .. n \subseteq 0 .. n
    BY <2>1
  <2> QED BY <2>1, <2>2, <2>3, <2>4, <2>5 DEF n
<1>3. IsFiniteSet(DOMAIN hops)
  BY HopAssumption, FS_Subset DEF HopsRight
<1>4. S \subseteq N /\ (Fitting(setting) => S = N)
  <2>1. S \subseteq N
    BY <1>2 DEF Sent, New
  <2>2. ASSUME Fitting(setting)
        PROVE  S = N
    <3>1. \A h \in DOMAIN hops : 1 .. Enqueued(b, h, hops[h]) = References(b, h, hops[h])
      BY <1>2, <2>2
    <3> QED BY <3>1 DEF Sent, New
  <2> QED BY <2>1, <2>2
<1> HIDE DEF E, N, S
<1>5. IsFiniteSet(N)
  BY <1>1, <1>2, <1>3, PairsFinite
<1>6. ASSUME DOMAIN hops # {}, \A h \in DOMAIN hops : Fits(b, h, hops[h])
      PROVE  N # {}
  <2>1. PICK h \in DOMAIN hops : TRUE
    BY <1>6
  <2>2. 1 \in E[h]
    BY <1>2, <1>6
  <2> QED BY <1>1, <2>2, PairsAre
<1>7. IsFiniteSet(S) /\ Cardinality(S) <= Cardinality(N)
  BY <1>4, <1>5, FS_Subset
<1>8. /\ Cardinality(N) \in Nat /\ Cardinality(S) \in Nat
      /\ Cardinality(N) = 0 <=> N = {}
  BY <1>5, <1>7, FS_CardinalityType, FS_EmptySet
<1>9. Covers(setting, Cardinality(N), Cardinality(S))
  BY <1>4, <1>7, <1>8 DEF Covers
<1> QED BY <1>6, <1>8, <1>9 DEF N, S

\* What sending does to the objects and the agent tasks.
LEMMA SendToHands ==
  ASSUME Typed, NEW b \in Bundle, NEW hops, HopsRight(hops), SendTo(b, hops)
  PROVE  \E kept \in Objects :
           /\ kept = [bundle[b] EXCEPT !.refs = @ + Cardinality(New(b, hops))]
           /\ \/ /\ \A h \in DOMAIN hops : Fits(b, h, hops[h])
                 /\ bundle' = [bundle EXCEPT ![b] = kept] /\ agent' = agent
              \/ HandOver(b, "CLA_ENQUEUE_FAILED", kept, Failed(kept))
<1> DEFINE k == Cardinality(New(b, hops))
           kept == [bundle[b] EXCEPT !.refs = @ + k]
<1>1. k \in Nat
  BY NewCovers
<1>2. bundle[b] \in Objects
  BY DEF Typed, LifeTypeOK, Objects
<1>3. IF \A h \in DOMAIN hops : Fits(b, h, hops[h])
      THEN bundle' = [bundle EXCEPT ![b] = kept] /\ UNCHANGED agent
      ELSE HandOver(b, "CLA_ENQUEUE_FAILED", kept, Failed(kept))
  BY DEF SendTo, New
<1> HIDE DEF k
<1>4. kept \in Objects
  BY <1>1, <1>2 DEF Objects
<1>5. kept = [bundle[b] EXCEPT !.refs = @ + Cardinality(New(b, hops))]
  BY DEF k
<1> HIDE DEF kept
<1> QED BY <1>3, <1>4, <1>5

LEMMA SendToAgents ==
  ASSUME Typed, NEW b \in Bundle, NEW hops, HopsRight(hops), SendTo(b, hops)
  PROVE  /\ bundle' \in [Bundle -> Objects] /\ agent' \in [Agent -> Tasks(setting)]
         /\ \A a \in Agent : /\ Len(agent'[a].queue) <= AGENT_QUEUE_LENGTH
                             /\ agent'[a].at = agent[a].at /\ agent'[a].item = agent[a].item
<1>1. PICK kept \in Objects :
        \/ /\ \A h \in DOMAIN hops : Fits(b, h, hops[h])
           /\ bundle' = [bundle EXCEPT ![b] = kept] /\ agent' = agent
        \/ HandOver(b, "CLA_ENQUEUE_FAILED", kept, Failed(kept))
  BY SendToHands
<1>2. /\ bundle \in [Bundle -> Objects] /\ agent \in [Agent -> Tasks(setting)]
      /\ \A a \in Agent : Len(agent[a].queue) <= AGENT_QUEUE_LENGTH
  BY DEF Typed, LifeTypeOK, Objects
<1>3. CASE bundle' = [bundle EXCEPT ![b] = kept] /\ agent' = agent
  BY <1>2, <1>3
<1>4. CASE HandOver(b, "CLA_ENQUEUE_FAILED", kept, Failed(kept))
  <2> DEFINE reason == "CLA_ENQUEUE_FAILED"
             settled == Failed(kept)
  <2>1. reason \in Reasons
    BY DEF Reasons
  <2>2. settled \in Objects
    BY SettledObject
  <2>3. HandOver(b, reason, kept, settled)
    BY <1>4, Zenon
  <2> HIDE DEF reason, settled
  <2> QED BY <2>1, <2>2, <2>3, HandOverTyped
<1> QED BY <1>1, <1>3, <1>4

LEMMA SendToOthers ==
  ASSUME Typed, NEW b \in Bundle, NEW hops, HopsRight(hops), SendTo(b, hops),
         NEW c \in Bundle, c # b
  PROVE  bundle'[c] = bundle[c] /\ (WithAgents(agent', c) <=> WithAgents(agent, c))
<1>1. PICK kept \in Objects :
        \/ /\ \A h \in DOMAIN hops : Fits(b, h, hops[h])
           /\ bundle' = [bundle EXCEPT ![b] = kept] /\ agent' = agent
        \/ HandOver(b, "CLA_ENQUEUE_FAILED", kept, Failed(kept))
  BY SendToHands
<1>2. bundle \in [Bundle -> Objects]
  BY DEF Typed, LifeTypeOK, Objects
<1>3. CASE bundle' = [bundle EXCEPT ![b] = kept] /\ agent' = agent
  BY <1>2, <1>3
<1>4. CASE HandOver(b, "CLA_ENQUEUE_FAILED", kept, Failed(kept))
  <2> DEFINE reason == "CLA_ENQUEUE_FAILED"
             settled == Failed(kept)
  <2>1. reason \in Reasons
    BY DEF Reasons
  <2>2. settled \in Objects
    BY SettledObject
  <2>3. HandOver(b, reason, kept, settled)
    BY <1>4, Zenon
  <2> HIDE DEF reason, settled
  <2> QED BY <2>1, <2>2, <2>3, HandOverDoes
<1> QED BY <1>1, <1>3, <1>4

LEMMA SendToRight ==
  ASSUME Typed, NEW b \in Bundle, NEW hops, HopsRight(hops), SendTo(b, hops),
         DOMAIN hops # {}, bundle[b].at = "live",
         NEW u \in Nat, Covers(setting, bundle[b].refs, OnLinks(tx, b) + u), NEW P \in BOOLEAN
  PROVE  /\ Right(bundle'[b], WithAgents(agent', b) \/ P, 0)
         /\ Covers(setting, bundle'[b].refs, OnLinks(tx', b) + u)
<1> DEFINE k == Cardinality(New(b, hops))
           l == Cardinality(Sent(b, hops))
<1>1. PICK kept \in Objects :
        /\ kept = [bundle[b] EXCEPT !.refs = @ + Cardinality(New(b, hops))]
        /\ \/ /\ \A h \in DOMAIN hops : Fits(b, h, hops[h])
              /\ bundle' = [bundle EXCEPT ![b] = kept] /\ agent' = agent
           \/ HandOver(b, "CLA_ENQUEUE_FAILED", kept, Failed(kept))
  BY SendToHands
<1>2. bundle \in [Bundle -> Objects] /\ bundle[b] \in Objects
  BY DEF Typed, LifeTypeOK, Objects
<1>3. kept.at = "live" /\ kept.refs = bundle[b].refs + k /\ bundle[b].refs \in Nat
  BY <1>1, <1>2 DEF Objects
<1>4. k \in Nat /\ l \in Nat /\ Covers(setting, k, l)
  BY NewCovers
<1>5. OnLinks(tx', b) = OnLinks(tx, b) + l
  BY SendToCounts
<1>6. OnLinks(tx, b) \in Nat
  BY OnLinksIsNat DEF Typed
<1>7. Covers(setting, kept.refs, OnLinks(tx', b) + u)
  <2> HIDE DEF k, l
  <2> QED BY <1>3, <1>4, <1>5, <1>6 DEF Covers
<1>8. CASE /\ \A h \in DOMAIN hops : Fits(b, h, hops[h])
           /\ bundle' = [bundle EXCEPT ![b] = kept]
  <2>1. k > 0
    BY <1>8, NewCovers
  <2>2. bundle'[b] = kept
    BY <1>2, <1>8
  <2> HIDE DEF k
  <2>3. kept.refs > 0
    BY <1>3, <1>4, <2>1
  <2> QED BY <1>3, <1>7, <2>2, <2>3 DEF Right
<1>9. CASE HandOver(b, "CLA_ENQUEUE_FAILED", kept, Failed(kept))
  <2> DEFINE reason == "CLA_ENQUEUE_FAILED"
             settled == Failed(kept)
  <2>1. reason \in Reasons
    BY DEF Reasons
  <2>2. settled \in {Failed(kept), Succeeded(kept)}
    OBVIOUS
  <2>3. HandOver(b, reason, kept, settled)
    BY <1>9, Zenon
  <2> HIDE DEF reason, settled
  <2>4. Right(bundle'[b], WithAgents(agent', b) \/ P, 0) /\ bundle'[b].refs = kept.refs
    BY <1>3, <2>1, <2>2, <2>3, HandOverRight
  <2> QED BY <1>7, <2>4
<1> QED BY <1>1, <1>8, <1>9

LEMMA HopsAreRight ==
  ASSUME Typed
  PROVE  /\ \A hops \in setting.hops : HopsRight(hops)
         /\ \A h \in Hop : HopsRight([k \in {h} |-> 0])
<1>1. setting \in Settings /\ setting.mbs \in Nat
  BY SettingsAssumption DEF Typed, LifeTypeOK
<1>2. ASSUME NEW hops \in setting.hops PROVE HopsRight(hops)
  BY <1>1, <1>2, SettingsAssumption DEF HopsRight, Fitting
<1>3. ASSUME NEW h \in Hop PROVE HopsRight([k \in {h} |-> 0])
  BY <1>1 DEF HopsRight
<1> QED BY <1>2, <1>3

-----------------------------------------------------------------------------
\* Agents are right after a signal m that does not concern them is taken or put.
LEMMA AgentsKept ==
  ASSUME Typed, AgentsRight, NEW m,
         \/ OneMore(setting, signals, signals', m)
         \/ OneMore(setting, signals', signals, m),
         m.type \notin {"AGENT_REGISTER", "AGENT_DEREGISTER"},
         setting' = setting, bdm' = bdm, \A a \in Agent : agent'[a].at = agent[a].at
  PROVE  AgentsRight'
<1>1. bdm \in Agent \cup {NoAgent}
  BY DEF Typed, LifeTypeOK
<1>2. ASSUME NEW a \in Agent
      PROVE  /\ Count(signals', Joins(setting, a)) = Count(signals, Joins(setting, a))
             /\ Count(signals', Leaves(setting, a)) = Count(signals, Leaves(setting, a))
  <2>1. CASE OneMore(setting, signals, signals', m)
    BY <2>1, MoreUnasked
  <2>2. CASE OneMore(setting, signals', signals, m)
    BY <2>2, MoreUnasked
  <2> QED BY <2>1, <2>2
<1>3. ASSUME NEW a \in Agent
      PROVE  TaskRight(agent'[a].at, Count(signals', Joins(setting', a)),
                       Count(signals', Leaves(setting', a)))
  BY <1>2, Zenon DEF AgentsRight
<1>4. bdm' # NoAgent => agent'[bdm'].at \in Asked \cup {"sub", "leaving"}
  BY <1>1 DEF AgentsRight
<1> QED BY <1>3, <1>4 DEF AgentsRight

\* A bundle is as it was, if what is counted is.
LEMMA SameCounts ==
  ASSUME NEW b \in Bundle, RightAt(setting, bundle, signals, tx, agent, b),
         setting' = setting, bundle'[b] = bundle[b],
         OnLinks(tx', b) = OnLinks(tx, b),
         WithAgents(agent', b) <=> WithAgents(agent, b),
         Count(signals', Settled(setting, b)) = Count(signals, Settled(setting, b)),
         Count(signals', Answers(setting, b)) = Count(signals, Answers(setting, b)),
         Count(signals', Incoming(setting, b)) = Count(signals, Incoming(setting, b))
  PROVE  RightAt(setting, bundle, signals, tx, agent, b)'
<1>1. Under(setting', signals', tx', b) = Under(setting, signals, tx, b)
  BY Zenon DEF Under
<1>2. Owned(setting', signals', agent', b) <=> Owned(setting, signals, agent, b)
  BY Zenon DEF Owned
<1>3. Count(signals', Incoming(setting', b)) = Count(signals, Incoming(setting, b))
  OBVIOUS
<1>4. RightAt(setting', bundle', signals', tx', agent', b)
  BY <1>1, <1>2, <1>3, Zenon DEF RightAt, Right
<1> QED BY <1>4

-----------------------------------------------------------------------------
\* The facts of a state that every step needs.
LEMMA TypedAre ==
  ASSUME Typed
  PROVE  /\ setting \in Settings /\ bundle \in [Bundle -> Objects]
         /\ signals \in Seq(Signals(setting)) /\ tx \in [Hop -> Links]
         /\ agent \in [Agent -> Tasks(setting)]
         /\ bdm \in Agent \cup {NoAgent} /\ up \subseteq Hop
BY DEF Typed, LifeTypeOK, Objects

\* The numbers about a bundle.
LEMMA NumbersAre ==
  ASSUME Typed, NEW b \in Bundle
  PROVE  /\ OnLinks(tx, b) \in Nat
         /\ Count(signals, Settled(setting, b)) \in Nat
         /\ Count(signals, Answers(setting, b)) \in Nat
         /\ Count(signals, Incoming(setting, b)) \in Nat
<1>1. signals \in Seq(Signals(setting)) /\ tx \in [Hop -> Links]
  BY TypedAre
<1> QED BY <1>1, OnLinksIsNat, CountsAreNat

LEMMA ArriveTyped ==
  ASSUME Typed, NEW b \in Bundle, Arrive(b)
  PROVE  Typed'
<1>1. /\ signals \in Seq(Signals(setting))
      /\ [type |-> "INCOMING", b |-> b] \in Signals(setting)
  BY TypedAre, SignalsOf
<1>2. signals' \in Seq(Signals(setting'))
  BY <1>1 DEF Arrive
<1> QED BY <1>2 DEF Arrive, Typed, LifeTypeOK

LEMMA ArriveCounted ==
  ASSUME Typed, Counted, NEW b \in Bundle, Arrive(b)
  PROVE  Counted'
<1> DEFINE m == [type |-> "INCOMING", b |-> b]
<1>1. /\ signals \in Seq(Signals(setting)) /\ m \in Signals(setting)
      /\ bundle \in [Bundle -> Objects]
  BY TypedAre, SignalsOf
<1>2. /\ signals' = Append(signals, m) /\ bundle' = [bundle EXCEPT ![b].at = "live"]
      /\ bundle[b].at = "out"
      /\ setting' = setting /\ tx' = tx /\ agent' = agent
  BY DEF Arrive
<1>3. m.type = "INCOMING" /\ m.b = b
  OBVIOUS
<1>o. OneMore(setting, signals', signals, m)
  BY <1>1, <1>2, PushedMore
<1> HIDE DEF m
<1> SUFFICES ASSUME NEW c \in Bundle
             PROVE  RightAt(setting, bundle, signals, tx, agent, c)'
  BY DEF Counted
<1>5. /\ Count(signals', Settled(setting, c)) = Count(signals, Settled(setting, c))
      /\ Count(signals', Answers(setting, c)) = Count(signals, Answers(setting, c))
      /\ Count(signals', Incoming(setting, c)) =
           Count(signals, Incoming(setting, c)) + One(m.b = c)
  BY <1>3, <1>o, MoreIncoming
<1>6. RightAt(setting, bundle, signals, tx, agent, c)
  BY DEF Counted
<1>7. CASE c # b
  <2>1. Count(signals', Incoming(setting, c)) = Count(signals, Incoming(setting, c))
    BY <1>3, <1>5, <1>7, NumbersAre DEF One
  <2>2. bundle'[c] = bundle[c]
    BY <1>1, <1>2, <1>7
  <2> QED BY <1>2, <1>5, <1>6, <2>1, <2>2, SameCounts, Zenon
<1>8. CASE c = b
  <2>1. bundle'[c].at = "live" /\ bundle'[c].refs = bundle[c].refs
    BY <1>1, <1>2, <1>8 DEF Objects
  <2>2. /\ Under(setting', signals', tx', c) = Under(setting, signals, tx, c)
        /\ Owned(setting', signals', agent', c) <=> Owned(setting, signals, agent, c)
    BY <1>2, <1>5, Zenon DEF Under, Owned
  <2>3. /\ Covers(setting, bundle[c].refs, Under(setting, signals, tx, c))
        /\ bundle[c].refs = 0 /\ ~Owned(setting, signals, agent, c)
        /\ Count(signals, Incoming(setting, c)) = 0
    BY <1>2, <1>6, <1>8 DEF RightAt, Right
  <2>4. Count(signals', Incoming(setting', c)) = 1
    BY <1>2, <1>3, <1>5, <1>8, <2>3 DEF One
  <2> QED BY <1>2, <2>1, <2>2, <2>3, <2>4 DEF RightAt, Right
<1> QED BY <1>7, <1>8

-----------------------------------------------------------------------------
\* A signal about a bundle is taken.
LEMMA SignalOf ==
  ASSUME Typed, NEW type, Signal(type)
  PROVE  /\ signals # <<>> /\ signals' = Tail(signals) /\ Head(signals).type = type
         /\ Head(signals) \in Signals(setting) /\ signals' \in Seq(Signals(setting))
BY TypedAre DEF Signal

LEMMA DeleteTyped ==
  ASSUME Typed, DeleteIncoming
  PROVE  Typed'
<1>1. /\ Head(signals) \in Signals(setting) /\ signals' \in Seq(Signals(setting))
      /\ Head(signals).type = "INCOMING"
  BY SignalOf DEF DeleteIncoming
<1>2. Head(signals).b \in Bundle
  BY <1>1, SignalsAre
<1> QED BY <1>1, <1>2 DEF DeleteIncoming, Typed, LifeTypeOK

LEMMA DeleteCounted ==
  ASSUME Typed, Counted, DeleteIncoming
  PROVE  Counted'
<1> DEFINE m == Head(signals)
           b == m.b
<1>1. /\ Head(signals) \in Signals(setting) /\ signals \in Seq(Signals(setting))
      /\ Head(signals).type = "INCOMING" /\ signals # <<>> /\ signals' = Tail(signals)
      /\ signals' \in Seq(Signals(setting))
  BY SignalOf, TypedAre DEF DeleteIncoming
<1>2. b \in Bundle /\ bundle \in [Bundle -> Objects]
  BY <1>1, SignalsAre, TypedAre
<1>3. /\ bundle' = [bundle EXCEPT ![b].at = "deleted"]
      /\ setting' = setting /\ tx' = tx /\ agent' = agent
  BY DEF DeleteIncoming
<1>0. m.type = "INCOMING"
  BY <1>1
<1>o. OneMore(setting, signals, signals', m)
  BY <1>1, PoppedMore
<1> HIDE DEF m
<1> SUFFICES ASSUME NEW c \in Bundle
             PROVE  RightAt(setting, bundle, signals, tx, agent, c)'
  BY DEF Counted
<1>4. /\ Count(signals', Settled(setting, c)) = Count(signals, Settled(setting, c))
      /\ Count(signals', Answers(setting, c)) = Count(signals, Answers(setting, c))
      /\ Count(signals, Incoming(setting, c)) =
           Count(signals', Incoming(setting, c)) + One(b = c)
  BY <1>0, <1>o, MoreIncoming
<1>n. Count(signals', Incoming(setting, c)) \in Nat
  BY <1>1, CountsAreNat
<1>5. RightAt(setting, bundle, signals, tx, agent, c)
  BY DEF Counted
<1> HIDE DEF b
<1>6. CASE c # b
  <2>1. Count(signals', Incoming(setting, c)) = Count(signals, Incoming(setting, c))
    BY <1>4, <1>6, <1>n DEF One
  <2>2. bundle'[c] = bundle[c]
    BY <1>2, <1>3, <1>6
  <2> QED BY <1>3, <1>4, <1>5, <2>1, <2>2, SameCounts, Zenon
<1>7. CASE c = b
  <2>1. bundle'[c].at = "deleted" /\ bundle'[c].refs = bundle[c].refs
    BY <1>2, <1>3, <1>7 DEF Objects
  <2>2. Under(setting', signals', tx', c) = Under(setting, signals, tx, c)
    BY <1>3, <1>4, Zenon DEF Under
  <2>3. Count(signals, Incoming(setting, c)) = Count(signals', Incoming(setting', c)) + 1
    BY <1>3, <1>4, <1>7 DEF One
  <2>4. /\ Covers(setting, bundle[c].refs, Under(setting, signals, tx, c))
        /\ Count(signals, Incoming(setting, c)) <= 1
        /\ Count(signals, Incoming(setting, c)) > 0 => bundle[c].refs = 0
    BY <1>5 DEF RightAt, Right
  <2>5. Count(signals', Incoming(setting', c)) = 0 /\ bundle[c].refs = 0
    BY <1>3, <1>n, <2>3, <2>4
  <2> QED BY <1>3, <2>1, <2>2, <2>4, <2>5 DEF RightAt, Right
<1> QED BY <1>6, <1>7

-----------------------------------------------------------------------------
\* A signal m about b is taken, and b is handed over or sent; the others are as they were.
LEMMA OthersRight ==
  ASSUME Typed, Counted, NEW b \in Bundle, NEW m, OneMore(setting, signals, signals', m),
         m.type \in {"INCOMING", "TX_SUCCESS", "TX_FAILURE", "BDM_DISPATCH"}, m.b = b,
         setting' = setting,
         \A c \in Bundle : c # b => /\ bundle'[c] = bundle[c]
                                    /\ OnLinks(tx', c) = OnLinks(tx, c)
                                    /\ WithAgents(agent', c) <=> WithAgents(agent, c),
         RightAt(setting, bundle', signals', tx', agent', b)
  PROVE  Counted'
<1> SUFFICES ASSUME NEW c \in Bundle
             PROVE  RightAt(setting, bundle, signals, tx, agent, c)'
  BY DEF Counted
<1>1. CASE c = b
  BY <1>1
<1>2. CASE c # b
  <2>1. /\ Count(signals', Settled(setting, c)) = Count(signals, Settled(setting, c))
        /\ Count(signals', Answers(setting, c)) = Count(signals, Answers(setting, c))
        /\ Count(signals', Incoming(setting, c)) = Count(signals, Incoming(setting, c))
    BY <1>2 DEF OneMore, One
  <2>2. RightAt(setting, bundle, signals, tx, agent, c)
    BY DEF Counted
  <2> QED BY <1>2, <2>1, <2>2, SameCounts
<1> QED BY <1>1, <1>2

LEMMA HandedCounted ==
  ASSUME Typed, Counted, NEW b \in Bundle, NEW m, OneMore(setting, signals, signals', m),
         m.type \in {"INCOMING", "TX_SUCCESS", "TX_FAILURE", "BDM_DISPATCH"}, m.b = b,
         setting' = setting, tx' = tx,
         NEW reason \in Reasons, NEW kept \in Objects,
         NEW otherwise \in {Failed(kept), Succeeded(kept)}, HandOver(b, reason, kept, otherwise),
         kept.at = "live",
         Covers(setting, kept.refs, OnLinks(tx, b) + Count(signals', Settled(setting, b))),
         Count(signals', Incoming(setting, b)) = 0
  PROVE  Counted'
<1>1. otherwise \in Objects
  BY SettledObject
<1>2. \A c \in Bundle : c # b => /\ bundle'[c] = bundle[c]
                                 /\ WithAgents(agent', c) <=> WithAgents(agent, c)
  BY <1>1, HandOverDoes
<1> DEFINE P == Count(signals', Answers(setting, b)) > 0
<1>3. Right(bundle'[b], WithAgents(agent', b) \/ P, 0) /\ bundle'[b].refs = kept.refs
  <2>1. P \in BOOLEAN
    OBVIOUS
  <2> HIDE DEF P
  <2> QED BY <2>1, HandOverRight
<1>4. RightAt(setting, bundle', signals', tx', agent', b)
  BY <1>3 DEF RightAt, Under, Owned
<1> QED BY <1>2, <1>4, OthersRight

LEMMA SentCounted ==
  ASSUME Typed, Counted, NEW b \in Bundle, NEW m, OneMore(setting, signals, signals', m),
         m.type \in {"INCOMING", "TX_SUCCESS", "TX_FAILURE", "BDM_DISPATCH"}, m.b = b,
         setting' = setting,
         NEW hops, HopsRight(hops), SendTo(b, hops), DOMAIN hops # {},
         bundle[b].at = "live",
         Covers(setting, bundle[b].refs, OnLinks(tx, b) + Count(signals', Settled(setting, b))),
         Count(signals', Settled(setting, b)) \in Nat,
         Count(signals', Incoming(setting, b)) = 0
  PROVE  Counted'
<1>1. \A c \in Bundle : c # b => /\ bundle'[c] = bundle[c]
                                 /\ WithAgents(agent', c) <=> WithAgents(agent, c)
  BY SendToOthers
<1>2. \A c \in Bundle : c # b => OnLinks(tx', c) = OnLinks(tx, c)
  BY SendToCounts
<1> DEFINE P == Count(signals', Answers(setting, b)) > 0
           u == Count(signals', Settled(setting, b))
<1>3. /\ Right(bundle'[b], WithAgents(agent', b) \/ P, 0)
      /\ Covers(setting, bundle'[b].refs, OnLinks(tx', b) + u)
  <2>1. P \in BOOLEAN /\ u \in Nat /\ Covers(setting, bundle[b].refs, OnLinks(tx, b) + u)
    OBVIOUS
  <2> HIDE DEF P, u
  <2> QED BY <2>1, SendToRight
<1>4. RightAt(setting, bundle', signals', tx', agent', b)
  BY <1>3 DEF RightAt, Under, Owned
<1> QED BY <1>1, <1>2, <1>4, OthersRight

\* What is typed after that.
LEMMA HandedTyped ==
  ASSUME Typed, NEW b \in Bundle, setting' = setting, up' = up, bdm' = bdm,
         tx' = tx, crashed' = crashed, signals' \in Seq(Signals(setting)),
         NEW reason \in Reasons, NEW kept \in Objects, NEW otherwise \in Objects,
         HandOver(b, reason, kept, otherwise)
  PROVE  Typed' /\ \A a \in Agent : agent'[a].at = agent[a].at
<1>1. /\ bundle' \in [Bundle -> Objects] /\ agent' \in [Agent -> Tasks(setting)]
      /\ \A a \in Agent : /\ Len(agent'[a].queue) <= AGENT_QUEUE_LENGTH
                          /\ agent'[a].at = agent[a].at /\ agent'[a].item = agent[a].item
  BY HandOverTyped
<1>2. \A a \in Agent : /\ agent[a].item \in Items <=> agent[a].at \in Asked
                       /\ agent[a].item # NoItem => agent[a].at \in Asked
  BY DEF Typed, LifeTypeOK, Asked
<1>3. LifeTypeOK'
  BY <1>1, <1>2 DEF LifeTypeOK, Typed, Objects, Asked
<1> QED BY <1>1, <1>2, <1>3 DEF Typed

LEMMA SentTyped ==
  ASSUME Typed, NEW b \in Bundle, setting' = setting, up' = up, bdm' = bdm,
         crashed' = crashed, signals' \in Seq(Signals(setting)),
         NEW hops, HopsRight(hops), SendTo(b, hops)
  PROVE  Typed' /\ \A a \in Agent : agent'[a].at = agent[a].at
<1>1. /\ bundle' \in [Bundle -> Objects] /\ agent' \in [Agent -> Tasks(setting)]
      /\ \A a \in Agent : /\ Len(agent'[a].queue) <= AGENT_QUEUE_LENGTH
                          /\ agent'[a].at = agent[a].at /\ agent'[a].item = agent[a].item
  BY SendToAgents
<1>2. \A a \in Agent : /\ agent[a].item \in Items <=> agent[a].at \in Asked
                       /\ agent[a].item # NoItem => agent[a].at \in Asked
  BY DEF Typed, LifeTypeOK, Asked
<1>3. /\ tx' \in [Hop -> Links]
      /\ \A h \in Hop : /\ LinkRight(tx'[h]) /\ Len(tx'[h].queue) <= TX_QUEUE_LENGTH
                        /\ tx'[h].sending \in Bundle <=> tx'[h].task = "sending"
  BY SendToTyped
<1>4. LifeTypeOK'
  BY <1>1, <1>2, <1>3 DEF LifeTypeOK, Typed, Objects, Asked
<1> QED BY <1>1, <1>2, <1>3, <1>4 DEF Typed

-----------------------------------------------------------------------------
\* A signal of a bundle: what is true when it is taken.
LEMMA TakenOf ==
  ASSUME Typed, NEW type, Signal(type),
         type \in {"INCOMING", "TX_SUCCESS", "TX_FAILURE", "BDM_DISPATCH"}
  PROVE  /\ Head(signals).b \in Bundle /\ Head(signals).type = type
         /\ OneMore(setting, signals, signals', Head(signals))
         /\ signals' \in Seq(Signals(setting)) /\ signals # <<>>
<1>1. /\ signals # <<>> /\ signals' = Tail(signals) /\ Head(signals).type = type
      /\ Head(signals) \in Signals(setting) /\ signals' \in Seq(Signals(setting))
  BY SignalOf
<1>2. Head(signals).b \in Bundle
  BY <1>1, SignalsAre
<1>3. OneMore(setting, signals, Tail(signals), Head(signals))
  BY <1>1, PoppedMore, TypedAre
<1> QED BY <1>1, <1>2, <1>3

\* Of a bundle that came in, nothing else is under way.
LEMMA IncomingAre ==
  ASSUME Typed, Counted, NEW m, m.b \in Bundle, m.type = "INCOMING",
         OneMore(setting, signals, signals', m)
  PROVE  /\ bundle[m.b].at = "live"
         /\ Covers(setting, bundle[m.b].refs, OnLinks(tx, m.b) + Count(signals', Settled(setting, m.b)))
         /\ Count(signals', Settled(setting, m.b)) \in Nat
         /\ Count(signals', Incoming(setting, m.b)) = 0
<1> DEFINE b == m.b
           n == Count(signals', Incoming(setting, b))
<1>1. RightAt(setting, bundle, signals, tx, agent, b)
  BY DEF Counted
<1>2. /\ Count(signals, Settled(setting, b)) = Count(signals', Settled(setting, b))
      /\ Count(signals, Incoming(setting, b)) = n + 1
      /\ n \in Nat /\ Count(signals', Settled(setting, b)) \in Nat
  BY DEF OneMore, One
<1> HIDE DEF b, n
<1>3. /\ Covers(setting, bundle[b].refs, OnLinks(tx, b) + Count(signals, Settled(setting, b)))
      /\ n + 1 <= 1 /\ (n + 1 > 0 => bundle[b].at = "live")
  BY <1>1, <1>2 DEF RightAt, Right, Under
<1>4. n = 0 /\ bundle[b].at = "live"
  BY <1>2, <1>3
<1> QED BY <1>2, <1>3, <1>4 DEF b, n

\* A bundle with a result has a transmission less.
LEMMA ResultsAre ==
  ASSUME Typed, Counted, NEW m, m.b \in Bundle, m.type \in {"TX_SUCCESS", "TX_FAILURE"},
         OneMore(setting, signals, signals', m)
  PROVE  LET r == [bundle[m.b] EXCEPT !.refs = @ - 1]
         IN  /\ r \in Objects /\ r.at = "live"
             /\ Covers(setting, r.refs, OnLinks(tx, m.b) + Count(signals', Settled(setting, m.b)))
             /\ Count(signals', Incoming(setting, m.b)) = 0
<1> DEFINE b == m.b
           o == bundle[b]
           r == [o EXCEPT !.refs = @ - 1]
           w == Count(signals, Incoming(setting, b))
           l == OnLinks(tx, b)
           u == Count(signals', Settled(setting, b))
<1>1. RightAt(setting, bundle, signals, tx, agent, b)
  BY DEF Counted
<1>2. /\ Count(signals, Settled(setting, b)) = u + 1 /\ u \in Nat
      /\ w = Count(signals', Incoming(setting, b)) /\ w \in Nat
  BY DEF OneMore, One
<1>3. l \in Nat /\ o \in Objects
  BY OnLinksIsNat, TypedAre
<1>4. /\ Right(o, Owned(setting, signals, agent, b), w)
      /\ Covers(setting, o.refs, l + (u + 1))
  BY <1>1, <1>2, Zenon DEF RightAt, Under
<1> HIDE DEF o, w, l, u
<1>5. /\ o.at \in {"forwarded", "deleted"} => o.refs = 0
      /\ o.at = "out" => o.refs = 0
      /\ w > 0 => o.refs = 0
      /\ o.at \in {"out", "live", "forwarded", "deleted"} /\ o.refs \in Nat
  BY <1>3, <1>4 DEF Right, Objects
<1>6. o.refs # 0 /\ o.refs - 1 \in Nat /\ Covers(setting, o.refs - 1, l + u)
  BY <1>2, <1>3, <1>4, <1>5 DEF Covers
<1>7. o.at = "live" /\ w = 0
  BY <1>2, <1>5, <1>6
<1>8. r \in Objects /\ r.at = "live" /\ r.refs = o.refs - 1
  BY <1>3, <1>6, <1>7 DEF Objects
<1> QED BY <1>2, <1>6, <1>7, <1>8 DEF o, w, l, u

\* A bundle that is answered for is not new, and what came in of it has been taken.
LEMMA AnsweredAre ==
  ASSUME Typed, Counted, NEW m, m.b \in Bundle, m.type = "BDM_DISPATCH",
         OneMore(setting, signals, signals', m), ~Freed(m.b)
  PROVE  /\ bundle[m.b].at = "live"
         /\ Covers(setting, bundle[m.b].refs, OnLinks(tx, m.b) + Count(signals', Settled(setting, m.b)))
         /\ Count(signals', Settled(setting, m.b)) \in Nat
         /\ Count(signals', Incoming(setting, m.b)) = 0
<1> DEFINE b == m.b
           o == bundle[b]
           w == Count(signals, Incoming(setting, b))
<1>1. RightAt(setting, bundle, signals, tx, agent, b)
  BY DEF Counted
<1>2. /\ Count(signals, Settled(setting, b)) = Count(signals', Settled(setting, b))
      /\ Count(signals', Settled(setting, b)) \in Nat
      /\ w = Count(signals', Incoming(setting, b)) /\ w \in Nat
      /\ Count(signals, Answers(setting, b)) = Count(signals', Answers(setting, b)) + 1
      /\ Count(signals', Answers(setting, b)) \in Nat
  BY DEF OneMore, One
<1>3. o \in Objects /\ o.at \notin {"forwarded", "deleted"}
  BY TypedAre DEF Freed
<1>4. Owned(setting, signals, agent, b)
  <2>1. Count(signals, Answers(setting, b)) > 0
    BY <1>2
  <2> QED BY <2>1 DEF Owned
<1> HIDE DEF b, o, w
<1>5. /\ Covers(setting, bundle[b].refs, OnLinks(tx, b) + Count(signals, Settled(setting, b)))
      /\ bundle[b].at # "out" /\ ~(w > 0)
  BY <1>1, <1>4, Zenon DEF RightAt, Right, Under, w
<1>6. o.at = "live"
  BY <1>3, <1>5 DEF Objects, o
<1>7. w = 0
  BY <1>2, <1>5
<1> QED BY <1>2, <1>5, <1>6, <1>7 DEF b, o, w

-----------------------------------------------------------------------------
\* One step per signal of a bundle.
LEMMA DeleteStep ==
  ASSUME Typed, AgentsRight, Counted, DeleteIncoming
  PROVE  Typed' /\ AgentsRight' /\ Counted'
<1>1. Typed' /\ Counted'
  BY DeleteTyped, DeleteCounted
<1> DEFINE m == Head(signals)
<1>2. /\ OneMore(setting, signals, signals', m)
      /\ m.type = "INCOMING"
  BY TakenOf DEF DeleteIncoming
<1>3. setting' = setting /\ bdm' = bdm /\ \A a \in Agent : agent'[a].at = agent[a].at
  BY DEF DeleteIncoming
<1> HIDE DEF m
<1>4. AgentsRight'
  BY <1>2, <1>3, AgentsKept
<1> QED BY <1>1, <1>4

LEMMA ForwardStep ==
  ASSUME Typed, AgentsRight, Counted, ForwardIncoming
  PROVE  Typed' /\ AgentsRight' /\ Counted'
<1> DEFINE m == Head(signals)
           b == m.b
           node == setting.direct[b]
           hops == [h \in {node} |-> 0]
           reason == "NO_FIB_ENTRY"
           kept == bundle[b]
           otherwise == Failed(kept)
<1>1. /\ b \in Bundle /\ m.type = "INCOMING"
      /\ OneMore(setting, signals, signals', m)
      /\ signals' \in Seq(Signals(setting))
  BY TakenOf DEF ForwardIncoming
<1>2. /\ setting' = setting /\ up' = up /\ bdm' = bdm /\ crashed' = crashed
      /\ \/ node \in up /\ SendTo(b, hops)
         \/ HandOver(b, reason, kept, otherwise) /\ tx' = tx
  BY DEF ForwardIncoming
<1>3. /\ kept.at = "live"
      /\ Covers(setting, kept.refs, OnLinks(tx, b) + Count(signals', Settled(setting, b)))
      /\ Count(signals', Settled(setting, b)) \in Nat
      /\ Count(signals', Incoming(setting, b)) = 0
  <2> HIDE DEF m
  <2> QED BY <1>1, IncomingAre
<1>4. /\ reason \in Reasons /\ kept \in Objects /\ otherwise \in {Failed(kept), Succeeded(kept)}
      /\ otherwise \in Objects
  BY <1>1, TypedAre, SettledObject DEF Reasons
<1>5. DOMAIN hops # {} /\ (node \in up => HopsRight(hops))
  BY TypedAre, HopsAreRight
<1>b. b = m.b
  OBVIOUS
<1>k. kept = bundle[b]
  OBVIOUS
<1> HIDE DEF m, b, node, hops, reason, kept, otherwise
<1>6. Typed' /\ \A a \in Agent : agent'[a].at = agent[a].at
  <2>1. CASE node \in up /\ SendTo(b, hops)
    BY <1>1, <1>2, <1>5, <2>1, SentTyped
  <2>2. CASE HandOver(b, reason, kept, otherwise) /\ tx' = tx
    BY <1>1, <1>2, <1>4, <2>2, HandedTyped
  <2> QED BY <1>2, <2>1, <2>2
<1>7. AgentsRight'
  BY <1>1, <1>2, <1>6, AgentsKept
<1>8. Counted'
  <2>0. m.type \in {"INCOMING", "TX_SUCCESS", "TX_FAILURE", "BDM_DISPATCH"} /\ m.b = b
    BY <1>1, <1>b
  <2>1. CASE node \in up /\ SendTo(b, hops)
    <3>1. bundle[b].at = "live"
          /\ Covers(setting, bundle[b].refs, OnLinks(tx, b) + Count(signals', Settled(setting, b)))
      BY <1>3, <1>k
    <3> QED BY <1>1, <1>2, <1>3, <1>5, <2>0, <2>1, <3>1, SentCounted
  <2>2. CASE HandOver(b, reason, kept, otherwise) /\ tx' = tx
    BY <1>1, <1>2, <1>3, <1>4, <2>0, <2>2, HandedCounted
  <2> QED BY <1>2, <2>1, <2>2
<1> QED BY <1>6, <1>7, <1>8

LEMMA ResultStep ==
  ASSUME Typed, AgentsRight, Counted, TransmissionSuccess \/ TransmissionFailure
  PROVE  Typed' /\ AgentsRight' /\ Counted'
<1> DEFINE m == Head(signals)
           b == m.b
           kept == [bundle[b] EXCEPT !.refs = @ - 1]
<1>1. /\ b \in Bundle /\ m.type \in {"TX_SUCCESS", "TX_FAILURE"}
      /\ OneMore(setting, signals, signals', m)
      /\ signals' \in Seq(Signals(setting))
  <2>1. CASE TransmissionSuccess
    BY <2>1, TakenOf DEF TransmissionSuccess
  <2>2. CASE TransmissionFailure
    BY <2>2, TakenOf DEF TransmissionFailure
  <2> QED BY <2>1, <2>2
<1>2. /\ setting' = setting /\ up' = up /\ bdm' = bdm /\ crashed' = crashed /\ tx' = tx
      /\ \E reason \in Reasons, otherwise \in {Failed(kept), Succeeded(kept)} :
           HandOver(b, reason, kept, otherwise)
  <2>1. "TX_SUCCEEDED" \in Reasons /\ "TX_FAILED" \in Reasons
    BY DEF Reasons
  <2>2. \/ HandOver(b, "TX_SUCCEEDED", kept, Succeeded(kept))
        \/ HandOver(b, "TX_FAILED", kept, Failed(kept))
    BY DEF TransmissionSuccess, TransmissionFailure
  <2>3. setting' = setting /\ up' = up /\ bdm' = bdm /\ crashed' = crashed /\ tx' = tx
    BY DEF TransmissionSuccess, TransmissionFailure
  <2> HIDE DEF kept
  <2> QED BY <2>1, <2>2, <2>3
<1>3. /\ kept \in Objects /\ kept.at = "live"
      /\ Covers(setting, kept.refs, OnLinks(tx, b) + Count(signals', Settled(setting, b)))
      /\ Count(signals', Incoming(setting, b)) = 0
  <2> HIDE DEF m
  <2> QED BY <1>1, ResultsAre
<1>b. b = m.b
  OBVIOUS
<1> HIDE DEF m, b, kept
<1>4. PICK reason \in Reasons, otherwise \in {Failed(kept), Succeeded(kept)} :
        HandOver(b, reason, kept, otherwise)
  BY <1>2
<1>5. otherwise \in Objects
  BY <1>3, SettledObject
<1>6. Typed' /\ \A a \in Agent : agent'[a].at = agent[a].at
  BY <1>1, <1>2, <1>3, <1>4, <1>5, HandedTyped
<1>7. AgentsRight'
  BY <1>1, <1>2, <1>6, AgentsKept
<1>8. Counted'
  <2>0. m.type \in {"INCOMING", "TX_SUCCESS", "TX_FAILURE", "BDM_DISPATCH"} /\ m.b = b
    BY <1>1, <1>b
  <2> QED BY <1>1, <1>2, <1>3, <1>4, <2>0, HandedCounted
<1> QED BY <1>6, <1>7, <1>8

LEMMA DispatchStep ==
  ASSUME Typed, AgentsRight, Counted, BdmDispatch
  PROVE  Typed' /\ AgentsRight' /\ (~crashed' => Counted')
<1> DEFINE m == Head(signals)
           b == m.b
           hops == m.hops
           kept == bundle[b]
<1>1. /\ b \in Bundle /\ m.type = "BDM_DISPATCH"
      /\ OneMore(setting, signals, signals', m)
      /\ signals' \in Seq(Signals(setting)) /\ signals # <<>>
  BY TakenOf DEF BdmDispatch
<1>2. setting' = setting /\ up' = up /\ bdm' = bdm
  BY DEF BdmDispatch
<1>3. \/ crashed' = TRUE /\ bundle' = bundle /\ tx' = tx /\ agent' = agent
      \/ /\ ~Freed(b) /\ crashed' = crashed /\ tx' = tx /\ agent' = agent
         /\ bundle' = [bundle EXCEPT ![b] = IF m.reason = "TX_SUCCEEDED" THEN Succeeded(kept)
                                            ELSE Failed(kept)]
      \/ /\ ~Freed(b) /\ DOMAIN hops # {} /\ crashed' = crashed
         /\ SendTo(b, hops)
  BY DEF BdmDispatch
<1>4. kept \in Objects /\ Failed(kept) \in Objects /\ Succeeded(kept) \in Objects
  BY <1>1, TypedAre, SettledObject
<1>5. ASSUME ~Freed(b)
      PROVE  /\ kept.at = "live"
             /\ Covers(setting, kept.refs, OnLinks(tx, b) + Count(signals', Settled(setting, b)))
             /\ Count(signals', Settled(setting, b)) \in Nat
             /\ Count(signals', Incoming(setting, b)) = 0
  <2> HIDE DEF m
  <2> QED BY <1>1, <1>5, AnsweredAre
<1>6. DOMAIN hops # {} => HopsRight(hops)
  <2>1. m \in Signals(setting)
    BY <1>1, TypedAre
  <2> HIDE DEF m
  <2>2. hops \in setting.hops \cup {NoHops}
    BY <1>1, <2>1, SignalsAre
  <2>3. DOMAIN NoHops = {}
    BY DEF NoHops
  <2> HIDE DEF hops
  <2> QED BY <2>2, <2>3, HopsAreRight
<1>b. b = m.b
  OBVIOUS
<1>k. kept = bundle[b]
  OBVIOUS
<1> HIDE DEF m, b, hops, kept
<1>7. CASE crashed' = TRUE /\ bundle' = bundle /\ tx' = tx /\ agent' = agent
  <2>1. Typed'
    BY <1>1, <1>2, <1>7 DEF Typed, LifeTypeOK
  <2>2. AgentsRight'
    BY <1>1, <1>2, <1>7, AgentsKept
  <2> QED BY <1>7, <2>1, <2>2
<1>8. CASE /\ ~Freed(b) /\ crashed' = crashed /\ tx' = tx /\ agent' = agent
           /\ bundle' = [bundle EXCEPT ![b] = IF m.reason = "TX_SUCCEEDED" THEN Succeeded(kept)
                                              ELSE Failed(kept)]
  <2> DEFINE r == IF m.reason = "TX_SUCCEEDED" THEN Succeeded(kept) ELSE Failed(kept)
  <2>1. r \in {Failed(kept), Succeeded(kept)} /\ r \in Objects
    BY <1>4
  <2>2. bundle' = [bundle EXCEPT ![b] = r] /\ bundle \in [Bundle -> Objects]
    BY <1>8, TypedAre
  <2> HIDE DEF r
  <2>3. /\ bundle' \in [Bundle -> Objects] /\ bundle'[b] = r
        /\ \A c \in Bundle : c # b => bundle'[c] = bundle[c]
    BY <1>1, <2>1, <2>2
  <2>4. Typed'
    BY <1>1, <1>2, <1>8, <2>3 DEF Typed, LifeTypeOK, Objects
  <2>5. AgentsRight'
    BY <1>1, <1>2, <1>8, AgentsKept
  <2>6. RightAt(setting, bundle', signals', tx', agent', b)
    <3>1. Right(r, Owned(setting, signals', agent', b), 0) /\ r.refs = kept.refs
      BY <1>4, <1>5, <1>8, <2>1, SettledRight
    <3>2. Covers(setting, kept.refs, Under(setting, signals', tx', b))
      BY <1>5, <1>8 DEF Under
    <3>3. Count(signals', Incoming(setting, b)) = 0
      BY <1>5, <1>8
    <3> QED BY <2>3, <3>1, <3>2, <3>3, Zenon DEF RightAt
  <2>7. m.type \in {"INCOMING", "TX_SUCCESS", "TX_FAILURE", "BDM_DISPATCH"} /\ m.b = b
    BY <1>1, <1>b
  <2>8. \A c \in Bundle : c # b => /\ bundle'[c] = bundle[c]
                                   /\ OnLinks(tx', c) = OnLinks(tx, c)
                                   /\ WithAgents(agent', c) <=> WithAgents(agent, c)
    BY <1>8, <2>3
  <2>9. Counted'
    BY <1>1, <1>2, <2>6, <2>7, <2>8, OthersRight
  <2> QED BY <2>4, <2>5, <2>9
<1>9. CASE /\ ~Freed(b) /\ DOMAIN hops # {} /\ crashed' = crashed
           /\ SendTo(b, hops)
  <2>1. Typed' /\ \A a \in Agent : agent'[a].at = agent[a].at
    BY <1>1, <1>2, <1>6, <1>9, SentTyped
  <2>2. AgentsRight'
    BY <1>1, <1>2, <2>1, AgentsKept
  <2>3. m.type \in {"INCOMING", "TX_SUCCESS", "TX_FAILURE", "BDM_DISPATCH"} /\ m.b = b
    BY <1>1, <1>b
  <2>4. /\ bundle[b].at = "live"
        /\ Covers(setting, bundle[b].refs, OnLinks(tx, b) + Count(signals', Settled(setting, b)))
    BY <1>5, <1>9, <1>k
  <2>5. Counted'
    BY <1>1, <1>2, <1>5, <1>6, <1>9, <2>3, <2>4, SentCounted
  <2> QED BY <2>1, <2>2, <2>5
<1> QED BY <1>3, <1>7, <1>8, <1>9

-----------------------------------------------------------------------------
\* A signal that no bundle is in.
LEMMA OtherTaken ==
  ASSUME Typed, NEW type, Signal(type),
         type \in {"LINK_UP", "LINK_DOWN", "AGENT_REGISTER", "AGENT_DEREGISTER"}
  PROVE  /\ Head(signals).type = type
         /\ OneMore(setting, signals, signals', Head(signals))
         /\ signals' \in Seq(Signals(setting)) /\ signals # <<>>
<1>1. /\ signals # <<>> /\ signals' = Tail(signals) /\ Head(signals).type = type
      /\ Head(signals) \in Signals(setting) /\ signals' \in Seq(Signals(setting))
  BY SignalOf
<1>2. OneMore(setting, signals, Tail(signals), Head(signals))
  BY <1>1, PoppedMore, TypedAre
<1> QED BY <1>1, <1>2

\* Counts are as they were, whether such a signal is taken or put.
LEMMA OtherCounted ==
  ASSUME Typed, Counted, NEW m,
         \/ OneMore(setting, signals, signals', m)
         \/ OneMore(setting, signals', signals, m),
         m.type \in {"LINK_UP", "LINK_DOWN", "AGENT_REGISTER", "AGENT_DEREGISTER"},
         setting' = setting, bundle' = bundle,
         \A c \in Bundle : OnLinks(tx', c) = OnLinks(tx, c),
         \A c \in Bundle : WithAgents(agent', c) <=> WithAgents(agent, c)
  PROVE  Counted'
<1> SUFFICES ASSUME NEW c \in Bundle
             PROVE  RightAt(setting, bundle, signals, tx, agent, c)'
  BY DEF Counted
<1>1. /\ Count(signals', Settled(setting, c)) = Count(signals, Settled(setting, c))
      /\ Count(signals', Answers(setting, c)) = Count(signals, Answers(setting, c))
      /\ Count(signals', Incoming(setting, c)) = Count(signals, Incoming(setting, c))
  BY MoreOther
<1>2. RightAt(setting, bundle, signals, tx, agent, c)
  BY DEF Counted
<1> QED BY <1>1, <1>2, SameCounts

LEMMA LinkStep ==
  ASSUME Typed, AgentsRight, Counted, LinkSignal
  PROVE  Typed' /\ AgentsRight' /\ Counted'
<1> DEFINE m == Head(signals)
<1>1. /\ m.type \in {"LINK_UP", "LINK_DOWN"}
      /\ OneMore(setting, signals, signals', m)
      /\ signals' \in Seq(Signals(setting)) /\ signals # <<>>
      /\ up' = up \cup {m.hop} \/ up' = up \ {m.hop}
  <2>1. CASE Signal("LINK_UP") /\ up' = up \cup {Head(signals).hop}
    BY <2>1, OtherTaken
  <2>2. CASE Signal("LINK_DOWN") /\ up' = up \ {Head(signals).hop}
    BY <2>2, OtherTaken
  <2> QED BY <2>1, <2>2 DEF LinkSignal
<1>2. m \in Signals(setting)
  BY <1>1, TypedAre
<1> HIDE DEF m
<1>3. m.hop \in Hop
  BY <1>1, <1>2, SignalsAre
<1>4. UNCHANGED <<setting, bundle, tx, agent, bdm, crashed>>
  BY DEF LinkSignal
<1>5. up' \subseteq Hop
  BY <1>1, <1>3, TypedAre
<1>6. Typed'
  BY <1>1, <1>4, <1>5 DEF Typed, LifeTypeOK
<1>7. AgentsRight'
  BY <1>1, <1>4, AgentsKept
<1>8. Counted'
  BY <1>1, <1>4, OtherCounted
<1> QED BY <1>6, <1>7, <1>8

-----------------------------------------------------------------------------
\* An agent task has asked for its registration or its removal, and asks no more.
LEMMA AskedAre ==
  ASSUME Typed, AgentsRight, NEW m, OneMore(setting, signals, signals', m),
         m.type \in {"AGENT_REGISTER", "AGENT_DEREGISTER"}, m.agent \in Agent
  PROVE  /\ Count(signals', Joins(setting, m.agent)) = 0
         /\ Count(signals', Leaves(setting, m.agent)) = 0
         /\ m.type = "AGENT_REGISTER" => agent[m.agent].at = "joining"
         /\ m.type = "AGENT_DEREGISTER" => agent[m.agent].at = "leaving"
<1> DEFINE a == m.agent
           j == Count(signals', Joins(setting, a))
           l == Count(signals', Leaves(setting, a))
<1>1. TaskRight(agent[a].at, Count(signals, Joins(setting, a)),
                Count(signals, Leaves(setting, a)))
  BY DEF AgentsRight
<1>2. /\ Count(signals, Joins(setting, a)) = j + One(m.type = "AGENT_REGISTER" /\ m.agent = a)
      /\ Count(signals, Leaves(setting, a)) = l + One(m.type = "AGENT_DEREGISTER" /\ m.agent = a)
      /\ j \in Nat /\ l \in Nat
  BY Zenon DEF OneMore
<1>3. m.agent = a
  OBVIOUS
<1> HIDE DEF a, j, l
<1>4. CASE m.type = "AGENT_REGISTER"
  <2>1. TaskRight(agent[a].at, j + 1, l + 0)
    BY <1>1, <1>2, <1>3, <1>4 DEF One
  <2>2. j = 0 /\ l = 0 /\ agent[a].at = "joining"
    BY <1>2, <2>1 DEF TaskRight
  <2> QED BY <1>4, <2>2 DEF a, j, l
<1>5. CASE m.type = "AGENT_DEREGISTER"
  <2>1. TaskRight(agent[a].at, j + 0, l + 1)
    BY <1>1, <1>2, <1>3, <1>5 DEF One
  <2>2. j = 0 /\ l = 0 /\ agent[a].at = "leaving"
    BY <1>2, <2>1 DEF TaskRight
  <2> QED BY <1>5, <2>2 DEF a, j, l
<1> QED BY <1>4, <1>5

LEMMA AgentsTaken ==
  ASSUME Typed, AgentsRight, NEW m, OneMore(setting, signals, signals', m),
         m.type \in {"AGENT_REGISTER", "AGENT_DEREGISTER"}, m.agent \in Agent,
         setting' = setting,
         \A c \in Agent : c # m.agent => agent'[c].at = agent[c].at \/ agent[c].at \in Asked,
         bdm' # NoAgent => agent'[bdm'].at \in Asked \cup {"sub", "leaving"}
  PROVE  AgentsRight'
<1>1. ASSUME NEW c \in Agent
      PROVE  TaskRight(agent'[c].at, Count(signals', Joins(setting', c)),
                       Count(signals', Leaves(setting', c)))
  <2>1. CASE c = m.agent
    <3>1. Count(signals', Joins(setting', c)) = 0 /\ Count(signals', Leaves(setting', c)) = 0
      BY <2>1, AskedAre
    <3> QED BY <3>1 DEF TaskRight
  <2>2. CASE c # m.agent
    <3> DEFINE j == Count(signals, Joins(setting, c))
               l == Count(signals, Leaves(setting, c))
    <3>1. /\ Count(signals', Joins(setting, c)) = j /\ Count(signals', Leaves(setting, c)) = l
          /\ j \in Nat /\ l \in Nat
      BY <2>2 DEF OneMore, One
    <3>2. TaskRight(agent[c].at, j, l)
      BY DEF AgentsRight
    <3>3. agent'[c].at = agent[c].at \/ agent[c].at \in Asked
      BY <2>2
    <3> HIDE DEF j, l
    <3>4. TaskRight(agent'[c].at, j, l)
      BY <3>1, <3>2, <3>3 DEF TaskRight, Asked
    <3> QED BY <3>1, <3>4
  <2> QED BY <2>1, <2>2
<1> QED BY <1>1 DEF AgentsRight

\* A task with the same item and queue.
LEMMA HasSame ==
  ASSUME NEW t, NEW u, u.item = t.item, u.queue = t.queue, NEW b
  PROVE  Has(u, b) <=> Has(t, b)
BY DEF Has

\* Typed, where one agent task is t now.
LEMMA TaskTyped ==
  ASSUME Typed, setting' = setting, up' = up, tx' = tx, bundle' = bundle, crashed' \in BOOLEAN,
         bdm' \in Agent \cup {NoAgent},
         signals' \in Seq(Signals(setting)),
         NEW a \in Agent, NEW t \in Tasks(setting), agent' = [agent EXCEPT ![a] = t],
         Len(t.queue) <= AGENT_QUEUE_LENGTH, t.item \in Items <=> t.at \in Asked
  PROVE  Typed'
<1>1. /\ agent \in [Agent -> Tasks(setting)]
      /\ \A c \in Agent : /\ Len(agent[c].queue) <= AGENT_QUEUE_LENGTH
                          /\ agent[c].item \in Items <=> agent[c].at \in Asked
  BY DEF Typed, LifeTypeOK
<1>2. /\ agent' \in [Agent -> Tasks(setting)]
      /\ \A c \in Agent : /\ Len(agent'[c].queue) <= AGENT_QUEUE_LENGTH
                          /\ agent'[c].item \in Items <=> agent'[c].at \in Asked
  BY <1>1
<1>3. \A c \in Agent : agent'[c].item # NoItem => agent'[c].at \in Asked
  <2>1. \A c \in Agent : agent'[c].item \in Items \cup {NoItem}
    BY <1>2 DEF Tasks
  <2> QED BY <1>2, <2>1
<1>4. LifeTypeOK'
  BY <1>2, <1>3 DEF LifeTypeOK, Typed, Asked
<1> QED BY <1>2, <1>4 DEF Typed

\* Right, where the tasks that have changed have what they had.
LEMMA TasksHave ==
  ASSUME Typed, NEW a \in Agent, NEW t, agent' = [agent EXCEPT ![a] = t], NEW c,
         Has(t, c) <=> Has(agent[a], c)
  PROVE  WithAgents(agent', c) <=> WithAgents(agent, c)
<1>1. \A k \in Agent : Has(agent'[k], c) <=> Has(agent[k], c)
  BY TypedAre
<1> QED BY <1>1, SameTasks

-----------------------------------------------------------------------------
\* An agent task that is only somewhere else.
LEMMA AtChanged ==
  ASSUME NEW s, NEW t \in Tasks(s), NEW at \in Ats
  PROVE  LET u == [t EXCEPT !.at = at]
         IN  u \in Tasks(s) /\ u.at = at /\ u.queue = t.queue /\ u.item = t.item
BY DEF Tasks

LEMMA MovedTask ==
  ASSUME Typed, setting' = setting, up' = up, tx' = tx, bundle' = bundle, crashed' = crashed,
         bdm' \in Agent \cup {NoAgent}, signals' \in Seq(Signals(setting)),
         NEW a \in Agent, NEW at \in Ats, agent[a].at \notin Asked, at \notin Asked,
         agent' = [agent EXCEPT ![a].at = at]
  PROVE  /\ Typed' /\ agent'[a].at = at
         /\ \A k \in Agent : k # a => agent'[k] = agent[k]
         /\ \A c \in Bundle : WithAgents(agent', c) <=> WithAgents(agent, c)
<1> DEFINE t == [agent[a] EXCEPT !.at = at]
<1>1. agent \in [Agent -> Tasks(setting)] /\ agent[a] \in Tasks(setting)
  BY TypedAre
<1>2. /\ t \in Tasks(setting) /\ t.at = at
      /\ t.queue = agent[a].queue /\ t.item = agent[a].item
  BY <1>1, AtChanged
<1>3. agent' = [agent EXCEPT ![a] = t]
  OBVIOUS
<1> HIDE DEF t
<1>4. Len(t.queue) <= AGENT_QUEUE_LENGTH /\ t.item \notin Items
  BY <1>2 DEF Typed, LifeTypeOK
<1>c. crashed' \in BOOLEAN
  BY DEF Typed, LifeTypeOK
<1>5. Typed'
  BY <1>2, <1>3, <1>4, <1>c, TaskTyped
<1>6. agent'[a].at = at /\ \A k \in Agent : k # a => agent'[k] = agent[k]
  BY <1>1, <1>2, <1>3
<1>7. ASSUME NEW c PROVE WithAgents(agent', c) <=> WithAgents(agent, c)
  BY <1>2, <1>3, HasSame, TasksHave
<1> QED BY <1>5, <1>6, <1>7

LEMMA DeregisterStep ==
  ASSUME Typed, AgentsRight, Counted, Deregister
  PROVE  Typed' /\ AgentsRight' /\ Counted'
<1> DEFINE m == Head(signals)
           a == m.agent
<1>1. /\ m.type = "AGENT_DEREGISTER" /\ OneMore(setting, signals, signals', m)
      /\ signals' \in Seq(Signals(setting)) /\ signals # <<>>
  BY OtherTaken DEF Deregister
<1>2. a \in Agent
  <2>1. m \in Signals(setting)
    BY <1>1, TypedAre
  <2> HIDE DEF m
  <2> QED BY <1>1, <2>1, SignalsAre
<1>3. /\ UNCHANGED <<setting, bundle, up, tx, crashed>>
      /\ agent' = [agent EXCEPT ![a].at = "draining"]
      /\ bdm' = IF bdm = a THEN NoAgent ELSE bdm
  BY DEF Deregister
<1>a. a = m.agent
  OBVIOUS
<1> HIDE DEF m, a
<1>4. agent[a].at = "leaving"
  BY <1>1, <1>2, <1>a, AskedAre
<1> DEFINE at == "draining"
<1>5. at \in Ats /\ agent[a].at \notin Asked /\ at \notin Asked
  BY <1>4 DEF Ats, Asked
<1>6. bdm' \in Agent \cup {NoAgent}
  BY <1>3, TypedAre
<1> HIDE DEF at
<1>e. agent' = [agent EXCEPT ![a].at = at]
  BY <1>3 DEF at
<1>7. /\ Typed'
      /\ \A k \in Agent : k # a => agent'[k] = agent[k]
      /\ \A c \in Bundle : WithAgents(agent', c) <=> WithAgents(agent, c)
  BY <1>1, <1>2, <1>3, <1>5, <1>6, <1>e, MovedTask
<1>8. bdm' # NoAgent => agent'[bdm'].at \in Asked \cup {"sub", "leaving"}
  BY <1>2, <1>3, <1>7, TypedAre DEF AgentsRight
<1>9. AgentsRight'
  BY <1>1, <1>2, <1>3, <1>7, <1>8, <1>a, AgentsTaken
<1>10. Counted'
  BY <1>1, <1>3, <1>7, OtherCounted
<1> QED BY <1>7, <1>9, <1>10

\* The subscriber that is told to leave has one item more, which no bundle is in.
LEMMA FinalizedTask ==
  ASSUME NEW s, NEW t \in Tasks(s), NEW at \in Ats
  PROVE  LET u == [t EXCEPT !.queue = Append(@, Finalize), !.at = at]
         IN  /\ u \in Tasks(s) /\ u.at = at /\ u.item = t.item
             /\ Len(u.queue) = Len(t.queue) + 1 /\ Len(t.queue) \in Nat
             /\ \A c \in Bundle : Has(u, c) <=> Has(t, c)
<1> DEFINE u == [t EXCEPT !.queue = Append(@, Finalize), !.at = at]
           q == Append(t.queue, Finalize)
<1>0. /\ t.queue \in Seq(Items \cup {Finalize}) /\ q \in Seq(Items \cup {Finalize})
      /\ Len(q) = Len(t.queue) + 1 /\ Len(t.queue) \in Nat
  BY DEF Tasks
<1>q. u = [t EXCEPT !.queue = q, !.at = at]
  OBVIOUS
<1> HIDE DEF q, u
<1>r. u \in Tasks(s) /\ u.at = at /\ u.item = t.item /\ u.queue = q
  BY <1>0, <1>q DEF Tasks
<1>1. /\ u \in Tasks(s) /\ u.at = at /\ u.item = t.item
      /\ u.queue = Append(t.queue, Finalize)
      /\ Len(u.queue) = Len(t.queue) + 1 /\ Len(t.queue) \in Nat
      /\ t.queue \in Seq(Items \cup {Finalize})
  BY <1>0, <1>r DEF q
<1> HIDE DEF u
<1>2. ASSUME NEW c \in Bundle PROVE Has(u, c) <=> Has(t, c)
  <2>1. Finalize.b # c
    BY BundleAssumption DEF Finalize
  <2>2. With(u.queue, c) <=> With(t.queue, c)
    BY <1>1, <2>1, WithAppend
  <2> QED BY <1>1, <2>2 DEF Has
<1> QED BY <1>1, <1>2 DEF u

LEMMA RegisterStep ==
  ASSUME Typed, AgentsRight, Counted, Register
  PROVE  Typed' /\ AgentsRight' /\ Counted'
<1> DEFINE m == Head(signals)
           a == m.agent
<1>1. /\ m.type = "AGENT_REGISTER" /\ OneMore(setting, signals, signals', m)
      /\ signals' \in Seq(Signals(setting)) /\ signals # <<>>
  BY OtherTaken DEF Register
<1>2. a \in Agent
  <2>1. m \in Signals(setting)
    BY <1>1, TypedAre
  <2> HIDE DEF m
  <2> QED BY <1>1, <2>1, SignalsAre
<1>3. /\ UNCHANGED <<setting, bundle, up, tx, crashed>>
      /\ \/ bdm = NoAgent /\ bdm' = a /\ agent' = [agent EXCEPT ![a].at = "sub"]
         \/ bdm # NoAgent /\ bdm' = bdm /\ agent' = [agent EXCEPT ![a].at = "off"]
         \/ /\ bdm # NoAgent /\ Len(agent[bdm].queue) < AGENT_QUEUE_LENGTH /\ bdm' = a
            /\ agent' = [agent EXCEPT
                 ![a].at = "sub",
                 ![bdm].queue = Append(@, Finalize),
                 ![bdm].at = IF @ = "answered" THEN "garbled" ELSE @]
  BY DEF Register
<1>a. a = m.agent
  OBVIOUS
<1> HIDE DEF m, a
<1>4. agent[a].at = "joining"
  BY <1>1, <1>2, <1>a, AskedAre
<1>5. agent[a].at \notin Asked
  BY <1>4 DEF Asked
<1>6. agent \in [Agent -> Tasks(setting)] /\ bdm \in Agent \cup {NoAgent}
  BY TypedAre
<1>7. bdm # NoAgent => /\ agent[bdm].at \in Asked \cup {"sub", "leaving"}
                       /\ bdm # a /\ bdm \in Agent
  BY <1>4, <1>6 DEF AgentsRight, Asked
<1>8. CASE bdm = NoAgent /\ bdm' = a /\ agent' = [agent EXCEPT ![a].at = "sub"]
  <2> DEFINE at == "sub"
  <2>1. at \in Ats /\ at \notin Asked
    BY DEF Ats, Asked
  <2> HIDE DEF at
  <2>2. agent' = [agent EXCEPT ![a].at = at]
    BY <1>8 DEF at
  <2>3. /\ Typed' /\ agent'[a].at = at
        /\ \A k \in Agent : k # a => agent'[k] = agent[k]
        /\ \A c \in Bundle : WithAgents(agent', c) <=> WithAgents(agent, c)
    BY <1>1, <1>2, <1>3, <1>5, <1>8, <2>1, <2>2, MovedTask
  <2>4. bdm' # NoAgent => agent'[bdm'].at \in Asked \cup {"sub", "leaving"}
    BY <1>8, <2>3 DEF at
  <2>5. AgentsRight'
    BY <1>1, <1>2, <1>3, <1>a, <2>3, <2>4, AgentsTaken
  <2>6. Counted'
    BY <1>1, <1>3, <2>3, OtherCounted
  <2> QED BY <2>3, <2>5, <2>6
<1>9. CASE bdm # NoAgent /\ bdm' = bdm /\ agent' = [agent EXCEPT ![a].at = "off"]
  <2> DEFINE at == "off"
  <2>1. at \in Ats /\ at \notin Asked
    BY DEF Ats, Asked
  <2> HIDE DEF at
  <2>2. agent' = [agent EXCEPT ![a].at = at]
    BY <1>9 DEF at
  <2>3. /\ Typed' /\ agent'[a].at = at
        /\ \A k \in Agent : k # a => agent'[k] = agent[k]
        /\ \A c \in Bundle : WithAgents(agent', c) <=> WithAgents(agent, c)
    BY <1>1, <1>2, <1>3, <1>5, <1>6, <1>9, <2>1, <2>2, MovedTask
  <2>4. bdm' # NoAgent => agent'[bdm'].at \in Asked \cup {"sub", "leaving"}
    BY <1>7, <1>9, <2>3
  <2>5. AgentsRight'
    BY <1>1, <1>2, <1>3, <1>a, <2>3, <2>4, AgentsTaken
  <2>6. Counted'
    BY <1>1, <1>3, <2>3, OtherCounted
  <2> QED BY <2>3, <2>5, <2>6
<1>10. CASE /\ bdm # NoAgent /\ Len(agent[bdm].queue) < AGENT_QUEUE_LENGTH /\ bdm' = a
            /\ agent' = [agent EXCEPT
                 ![a].at = "sub",
                 ![bdm].queue = Append(@, Finalize),
                 ![bdm].at = IF @ = "answered" THEN "garbled" ELSE @]
  <2> DEFINE t == [agent[a] EXCEPT !.at = "sub"]
             at == IF agent[bdm].at = "answered" THEN "garbled" ELSE agent[bdm].at
             u == [agent[bdm] EXCEPT !.queue = Append(@, Finalize), !.at = at]
             new == "sub"
  <2>1. /\ agent'[a] = [agent[a] EXCEPT !.at = new] /\ agent'[bdm] = u
        /\ \A k \in Agent : k # a /\ k # bdm => agent'[k] = agent[k]
        /\ DOMAIN agent' = Agent /\ agent' = [k \in Agent |-> agent'[k]]
    BY <1>2, <1>6, <1>7, <1>10
  <2>2. /\ at \in Ats /\ (at \in Asked <=> agent[bdm].at \in Asked)
        /\ agent[bdm].at = "sub" \/ agent[bdm].at = "leaving" \/ agent[bdm].at \in Asked
        /\ new \in Ats /\ new \notin Asked
    BY <1>7, <1>10 DEF Asked, Ats
  <2> HIDE DEF at, u, new
  <2>3. /\ agent'[a] \in Tasks(setting) /\ agent'[a].at = new
        /\ agent'[a].queue = agent[a].queue /\ agent'[a].item = agent[a].item
    BY <1>2, <1>6, <2>1, <2>2, AtChanged
  <2>4. /\ u \in Tasks(setting) /\ u.at = at /\ u.item = agent[bdm].item
        /\ Len(u.queue) = Len(agent[bdm].queue) + 1 /\ Len(agent[bdm].queue) \in Nat
        /\ \A c \in Bundle : Has(u, c) <=> Has(agent[bdm], c)
    BY <1>6, <1>7, <1>10, <2>2, FinalizedTask DEF u
  <2>5. \A k \in Agent : /\ Len(agent[k].queue) <= AGENT_QUEUE_LENGTH
                         /\ agent[k].item \in Items <=> agent[k].at \in Asked
    BY DEF Typed, LifeTypeOK
  <2>6. Len(u.queue) <= AGENT_QUEUE_LENGTH
    BY <1>10, <2>4, LengthAssumption
  <2>7. ASSUME NEW k \in Agent
        PROVE  /\ agent'[k] \in Tasks(setting) /\ Len(agent'[k].queue) <= AGENT_QUEUE_LENGTH
               /\ agent'[k].item \in Items <=> agent'[k].at \in Asked
               /\ agent'[k].item # NoItem => agent'[k].at \in Asked
               /\ \A c \in Bundle : Has(agent'[k], c) <=> Has(agent[k], c)
               /\ k # a => agent'[k].at = agent[k].at \/ agent[k].at \in Asked
    <3>1. /\ agent'[k] \in Tasks(setting) /\ Len(agent'[k].queue) <= AGENT_QUEUE_LENGTH
          /\ agent'[k].item \in Items <=> agent'[k].at \in Asked
      <4>1. CASE k = a
        BY <1>5, <2>2, <2>3, <2>5, <4>1
      <4>2. CASE k = bdm
        BY <1>7, <1>10, <2>1, <2>2, <2>4, <2>5, <2>6, <4>2
      <4>3. CASE k # a /\ k # bdm
        BY <1>6, <2>1, <2>5, <4>3
      <4> QED BY <4>1, <4>2, <4>3
    <3>2. agent'[k].item \in Items \cup {NoItem}
      BY <3>1 DEF Tasks
    <3>3. \A c \in Bundle : Has(agent'[k], c) <=> Has(agent[k], c)
      <4>1. CASE k = a
        BY <2>3, <4>1, HasSame
      <4>2. CASE k = bdm
        BY <2>1, <2>4, <4>2
      <4>3. CASE k # a /\ k # bdm
        BY <2>1, <4>3
      <4> QED BY <4>1, <4>2, <4>3
    <3>4. k # a => agent'[k].at = agent[k].at \/ agent[k].at \in Asked
      <4>1. CASE k = bdm
        <5>1. agent[bdm].at = at \/ agent[bdm].at \in Asked
          BY DEF at, Asked
        <5> QED BY <2>1, <2>4, <4>1, <5>1
      <4>2. CASE k # bdm
        BY <2>1, <4>2
      <4> QED BY <4>1, <4>2
    <3> QED BY <3>1, <3>2, <3>3, <3>4
  <2>8. agent' \in [Agent -> Tasks(setting)]
    BY <2>1, <2>7
  <2>9. LifeTypeOK'
    BY <1>2, <1>3, <1>10, <2>7 DEF LifeTypeOK, Typed, Asked
  <2>10. Typed'
    BY <1>1, <1>3, <2>7, <2>8, <2>9 DEF Typed
  <2>11. bdm' # NoAgent => agent'[bdm'].at \in Asked \cup {"sub", "leaving"}
    BY <1>10, <2>3 DEF new
  <2>12. AgentsRight'
    BY <1>1, <1>2, <1>3, <1>a, <2>7, <2>11, AgentsTaken
  <2>13. \A c \in Bundle : WithAgents(agent', c) <=> WithAgents(agent, c)
    BY <2>7, SameTasks
  <2>14. Counted'
    BY <1>1, <1>3, <2>13, OtherCounted
  <2> QED BY <2>10, <2>12, <2>14
<1> QED BY <1>3, <1>8, <1>9, <1>10

-----------------------------------------------------------------------------
\* A step of an agent task a: it is t then, has perhaps given an answer x, which q has, and
\* perhaps asked to be registered or removed by m.
Gives(q, x, answers) ==
  IF answers THEN OneMore(setting, q, signals, x) /\ x.type = "BDM_DISPATCH" ELSE q = signals
Asks(q, a, t, m, asks) ==
  IF asks
  THEN /\ OneMore(setting, signals', q, m) /\ m.agent = a
       /\ \/ m.type = "AGENT_REGISTER" /\ t.at = "joining"
          \/ m.type = "AGENT_DEREGISTER" /\ t.at = "leaving"
  ELSE signals' = q
\* It has what it had, but for what it has answered.
Keeps(a, t, x, answers) ==
  \A c \in Bundle : Has(agent[a], c) <=> Has(t, c) \/ (answers /\ x.b = c)

LEMMA GivesAndAsks ==
  ASSUME Typed, NEW q, NEW x, NEW answers \in BOOLEAN, Gives(q, x, answers),
         NEW a, NEW t, NEW m, NEW asks \in BOOLEAN, Asks(q, a, t, m, asks), NEW c
  PROVE  /\ Count(signals', Settled(setting, c)) = Count(signals, Settled(setting, c))
         /\ Count(signals', Incoming(setting, c)) = Count(signals, Incoming(setting, c))
         /\ Count(signals', Answers(setting, c)) =
              Count(signals, Answers(setting, c)) + One(answers /\ x.b = c)
<1>1. /\ Count(signals', Settled(setting, c)) = Count(q, Settled(setting, c))
      /\ Count(signals', Incoming(setting, c)) = Count(q, Incoming(setting, c))
      /\ Count(signals', Answers(setting, c)) = Count(q, Answers(setting, c))
  <2>1. CASE asks
    BY <2>1, MoreOther DEF Asks
  <2>2. CASE ~asks
    BY <2>2 DEF Asks
  <2> QED BY <2>1, <2>2
<1>2. /\ Count(q, Settled(setting, c)) = Count(signals, Settled(setting, c))
      /\ Count(q, Incoming(setting, c)) = Count(signals, Incoming(setting, c))
      /\ Count(q, Answers(setting, c)) =
           Count(signals, Answers(setting, c)) + One(answers /\ x.b = c)
  <2>1. CASE answers
    BY <2>1, MoreAnswers DEF Gives, One
  <2>2. CASE ~answers
    <3>1. Count(signals, Answers(setting, c)) \in Nat
      BY TypedAre, CountsAreNat
    <3> QED BY <2>2, <3>1 DEF Gives, One
  <2> QED BY <2>1, <2>2
<1> QED BY <1>1, <1>2

LEMMA TaskCounted ==
  ASSUME Typed, Counted, NEW q, NEW x, NEW answers \in BOOLEAN, Gives(q, x, answers),
         NEW a \in Agent, NEW t, NEW m, NEW asks \in BOOLEAN, Asks(q, a, t, m, asks),
         agent' = [agent EXCEPT ![a] = t],
         Keeps(a, t, x, answers),
         setting' = setting, bundle' = bundle, tx' = tx
  PROVE  Counted'
<1> SUFFICES ASSUME NEW c \in Bundle
             PROVE  RightAt(setting, bundle, signals, tx, agent, c)'
  BY DEF Counted
<1> DEFINE A == Count(signals, Answers(setting, c))
           B == Count(signals', Answers(setting, c))
           P == B > 0
           Q == A > 0
<1>1. /\ Count(signals', Settled(setting, c)) = Count(signals, Settled(setting, c))
      /\ Count(signals', Incoming(setting, c)) = Count(signals, Incoming(setting, c))
      /\ B = A + One(answers /\ x.b = c)
  BY GivesAndAsks
<1>2. A \in Nat
  BY TypedAre, CountsAreNat
<1> HIDE DEF A, B
<1>3. P <=> Q \/ (answers /\ x.b = c)
  BY <1>1, <1>2 DEF One
<1>4. /\ agent'[a] = t
      /\ \A k \in Agent : k # a => (Has(agent'[k], c) <=> Has(agent[k], c))
  BY TypedAre
<1>5. (Has(agent'[a], c) \/ P) <=> (Has(agent[a], c) \/ Q)
  BY <1>3, <1>4 DEF Keeps
<1>6. P \in BOOLEAN /\ Q \in BOOLEAN
  OBVIOUS
<1> HIDE DEF P, Q
<1>7. (WithAgents(agent', c) \/ P) <=> (WithAgents(agent, c) \/ Q)
  BY <1>3, <1>4, <1>5, <1>6, TaskChanged
<1>8. RightAt(setting, bundle, signals, tx, agent, c)
  BY DEF Counted
<1>9. Owned(setting', signals', agent', c) <=> Owned(setting, signals, agent, c)
  BY <1>7 DEF Owned, P, Q, A, B
<1>10. Under(setting', signals', tx', c) = Under(setting, signals, tx, c)
  BY <1>1, Zenon DEF Under
<1> QED BY <1>1, <1>8, <1>9, <1>10 DEF RightAt, Right

LEMMA TaskAgents ==
  ASSUME Typed, AgentsRight, NEW q, NEW x, NEW answers \in BOOLEAN, Gives(q, x, answers),
         NEW a \in Agent, NEW t, NEW m, NEW asks \in BOOLEAN, Asks(q, a, t, m, asks),
         agent' = [agent EXCEPT ![a] = t], agent[a].at \notin {"joining", "leaving"},
         bdm = a => t.at \in Asked \cup {"sub", "leaving"},
         setting' = setting, bdm' = bdm
  PROVE  AgentsRight'
<1>1. /\ agent'[a] = t /\ \A k \in Agent : k # a => agent'[k] = agent[k]
      /\ bdm \in Agent \cup {NoAgent} /\ signals \in Seq(Signals(setting))
  BY TypedAre
<1>2. ASSUME NEW c \in Agent
      PROVE  TaskRight(agent'[c].at, Count(signals', Joins(setting', c)),
                       Count(signals', Leaves(setting', c)))
  <2> DEFINE j == Count(signals, Joins(setting, c))
             l == Count(signals, Leaves(setting, c))
  <2>1. j \in Nat /\ l \in Nat
    BY <1>1, CountsAreNat
  <2>2. TaskRight(agent[c].at, j, l)
    BY DEF AgentsRight
  <2>3. Count(q, Joins(setting, c)) = j /\ Count(q, Leaves(setting, c)) = l
    <3>1. CASE answers
      BY <3>1, MoreUnasked DEF Gives
    <3>2. CASE ~answers
      BY <3>2 DEF Gives
    <3> QED BY <3>1, <3>2
  <2> HIDE DEF j, l
  <2>4. CASE ~asks
    <3>1. signals' = q
      BY <2>4 DEF Asks
    <3>2. c = a => j = 0 /\ l = 0
      BY <2>1, <2>2 DEF TaskRight
    <3>3. TaskRight(agent'[c].at, j, l)
      BY <1>1, <2>2, <3>2 DEF TaskRight
    <3> QED BY <2>3, <3>1, <3>3
  <2>5. CASE asks
    <3>1. /\ OneMore(setting, signals', q, m) /\ m.agent = a
          /\ \/ m.type = "AGENT_REGISTER" /\ t.at = "joining"
             \/ m.type = "AGENT_DEREGISTER" /\ t.at = "leaving"
      BY <2>5 DEF Asks
    <3>2. /\ Count(signals', Joins(setting, c)) =
               j + One(m.type = "AGENT_REGISTER" /\ m.agent = c)
          /\ Count(signals', Leaves(setting, c)) =
               l + One(m.type = "AGENT_DEREGISTER" /\ m.agent = c)
      BY <2>3, <3>1, Zenon DEF OneMore
    <3>3. TaskRight(agent'[c].at, j + One(m.type = "AGENT_REGISTER" /\ m.agent = c),
                    l + One(m.type = "AGENT_DEREGISTER" /\ m.agent = c))
      <4>1. CASE c = a
        <5>1. j = 0 /\ l = 0
          BY <2>1, <2>2, <4>1 DEF TaskRight
        <5> QED BY <1>1, <3>1, <4>1, <5>1 DEF TaskRight, One
      <4>2. CASE c # a
        BY <1>1, <2>1, <2>2, <3>1, <4>2 DEF TaskRight, One
      <4> QED BY <4>1, <4>2
    <3> QED BY <3>2, <3>3
  <2> QED BY <2>4, <2>5
<1>3. bdm' # NoAgent => agent'[bdm'].at \in Asked \cup {"sub", "leaving"}
  BY <1>1 DEF AgentsRight
<1> QED BY <1>2, <1>3 DEF AgentsRight

LEMMA TaskStep ==
  ASSUME Typed, AgentsRight, Counted,
         NEW q, NEW x, NEW answers \in BOOLEAN, Gives(q, x, answers),
         NEW a \in Agent, NEW t \in Tasks(setting),
         NEW m, NEW asks \in BOOLEAN, Asks(q, a, t, m, asks),
         signals' \in Seq(Signals(setting)),
         agent' = [agent EXCEPT ![a] = t], agent[a].at \notin {"joining", "leaving"},
         Len(t.queue) <= AGENT_QUEUE_LENGTH, t.item \in Items <=> t.at \in Asked,
         bdm = a => t.at \in Asked \cup {"sub", "leaving"},
         Keeps(a, t, x, answers),
         UNCHANGED <<setting, bundle, up, tx, bdm, crashed>>
  PROVE  Typed' /\ AgentsRight' /\ Counted'
<1>1. AgentsRight'
  BY TaskAgents
<1>0. setting' = setting /\ bundle' = bundle /\ tx' = tx
  OBVIOUS
<1>2. Counted'
  BY <1>0, TaskCounted
<1>3. bdm' \in Agent \cup {NoAgent} /\ crashed' \in BOOLEAN
  BY DEF Typed, LifeTypeOK
<1>4. Typed'
  BY <1>3, TaskTyped
<1> QED BY <1>1, <1>2, <1>4

-----------------------------------------------------------------------------
\* The task of a connection: what is true of it.
LEMMA TaskIs ==
  ASSUME Typed, NEW a \in Agent
  PROVE  /\ agent[a] \in Tasks(setting) /\ agent \in [Agent -> Tasks(setting)]
         /\ Len(agent[a].queue) <= AGENT_QUEUE_LENGTH
         /\ agent[a].item \in Items <=> agent[a].at \in Asked
         /\ agent[a].item \in Items \cup {NoItem}
         /\ agent[a].queue \in Seq(Items \cup {Finalize})
         /\ signals \in Seq(Signals(setting))
BY DEF Typed, LifeTypeOK, Tasks

\* What was asked for by the bundle processor is not said by NoItem or Finalize.
LEMMA ItemsAre ==
  /\ NoItem \notin Items /\ Finalize \notin Items
  /\ \A c \in Bundle : NoItem.b # c /\ Finalize.b # c
BY BundleAssumption DEF Items, NoItem, Finalize

LEMMA SubscribeStep ==
  ASSUME Typed, AgentsRight, Counted, NEW a \in Agent, Subscribe(a)
  PROVE  Typed' /\ AgentsRight' /\ Counted'
<1> DEFINE m == [type |-> "AGENT_REGISTER", agent |-> a]
           at == "joining"
           t == [agent[a] EXCEPT !.at = at]
           q == signals
<1>1. /\ agent[a].at = "off" /\ agent' = [agent EXCEPT ![a] = t]
      /\ signals' = Append(signals, m)
      /\ UNCHANGED <<setting, bundle, up, tx, bdm, crashed>>
  BY DEF Subscribe, AgentStep
<1>2. m \in Signals(setting) /\ m.type = "AGENT_REGISTER" /\ m.agent = a
  BY SignalsOf
<1>3. at \in Ats /\ at \notin Asked /\ agent[a].at \notin Asked
      /\ agent[a].at \notin {"joining", "leaving", "sub"} /\ at = "joining"
  BY <1>1 DEF Ats, Asked
<1> HIDE DEF m, at
<1>4. t \in Tasks(setting) /\ t.at = at /\ t.queue = agent[a].queue /\ t.item = agent[a].item
  BY <1>3, TaskIs, AtChanged
<1> HIDE DEF t
<1>5. Gives(q, m, FALSE)
  BY DEF Gives
<1> HIDE DEF q
<1>6. OneMore(setting, signals', signals, m) /\ signals' \in Seq(Signals(setting))
  BY <1>1, <1>2, PushedMore, TaskIs
<1>7. Asks(q, a, t, m, TRUE)
  BY <1>2, <1>3, <1>4, <1>6 DEF Asks, q
<1>8. bdm # a
  BY <1>1, AgentAssumption DEF AgentsRight, Asked
<1>9. Keeps(a, t, m, FALSE)
  BY <1>4, HasSame DEF Keeps
<1>10. /\ Len(t.queue) <= AGENT_QUEUE_LENGTH /\ (t.item \in Items <=> t.at \in Asked)
       /\ FALSE \in BOOLEAN /\ TRUE \in BOOLEAN
  BY <1>3, <1>4, TaskIs
<1> QED BY <1>1, <1>3, <1>4, <1>5, <1>6, <1>7, <1>8, <1>9, <1>10, TaskStep

LEMMA KeepaliveStep ==
  ASSUME Typed, AgentsRight, Counted, NEW a \in Agent, Keepalive(a)
  PROVE  Typed' /\ AgentsRight' /\ Counted'
<1> DEFINE m == Leaving(a)
           at == "leaving"
           t == [agent[a] EXCEPT !.at = at]
           q == signals
<1>1. /\ agent[a].at = "sub" /\ agent' = [agent EXCEPT ![a] = t]
      /\ signals' = Append(signals, m)
      /\ UNCHANGED <<setting, bundle, up, tx, bdm, crashed>>
  BY DEF Keepalive, AgentStep
<1>2. m \in Signals(setting) /\ m.type = "AGENT_DEREGISTER" /\ m.agent = a
  BY SignalsOf DEF Leaving
<1>3. at \in Ats /\ at \notin Asked /\ agent[a].at \notin Asked
      /\ agent[a].at \notin {"joining", "leaving"} /\ at = "leaving"
  BY <1>1 DEF Ats, Asked
<1> HIDE DEF m, at
<1>4. t \in Tasks(setting) /\ t.at = at /\ t.queue = agent[a].queue /\ t.item = agent[a].item
  BY <1>3, TaskIs, AtChanged
<1> HIDE DEF t
<1>5. Gives(q, m, FALSE)
  BY DEF Gives
<1> HIDE DEF q
<1>6. OneMore(setting, signals', signals, m) /\ signals' \in Seq(Signals(setting))
  BY <1>1, <1>2, PushedMore, TaskIs
<1>7. Asks(q, a, t, m, TRUE)
  BY <1>2, <1>3, <1>4, <1>6 DEF Asks, q
<1>8. t.at \in Asked \cup {"sub", "leaving"}
  BY <1>3, <1>4
<1>9. Keeps(a, t, m, FALSE)
  BY <1>4, HasSame DEF Keeps
<1>10. /\ Len(t.queue) <= AGENT_QUEUE_LENGTH /\ (t.item \in Items <=> t.at \in Asked)
       /\ FALSE \in BOOLEAN /\ TRUE \in BOOLEAN
  BY <1>3, <1>4, TaskIs
<1> QED BY <1>1, <1>3, <1>4, <1>5, <1>6, <1>7, <1>8, <1>9, <1>10, TaskStep

\* A step that says nothing, to anybody.
LEMMA QuietStep ==
  ASSUME Typed, AgentsRight, Counted, NEW a \in Agent, NEW t \in Tasks(setting),
         agent' = [agent EXCEPT ![a] = t], agent[a].at \notin {"joining", "leaving"},
         Len(t.queue) <= AGENT_QUEUE_LENGTH, t.item \in Items <=> t.at \in Asked,
         bdm = a => t.at \in Asked \cup {"sub", "leaving"},
         \A c \in Bundle : Has(t, c) <=> Has(agent[a], c),
         UNCHANGED <<setting, bundle, signals, up, tx, bdm, crashed>>
  PROVE  Typed' /\ AgentsRight' /\ Counted'
<1> DEFINE q == signals
<1>1. Gives(q, 0, FALSE) /\ Asks(q, a, t, 0, FALSE)
  BY DEF Gives, Asks
<1>2. Keeps(a, t, 0, FALSE)
  BY DEF Keeps
<1>3. /\ signals' \in Seq(Signals(setting)) /\ FALSE \in BOOLEAN
      /\ UNCHANGED <<setting, bundle, up, tx, bdm, crashed>>
  BY TaskIs
<1> HIDE DEF q
<1> QED BY <1>1, <1>2, <1>3, TaskStep

LEMMA DisconnectStep ==
  ASSUME Typed, AgentsRight, Counted, NEW a \in Agent, HangUp(a)
  PROVE  Typed' /\ AgentsRight' /\ Counted'
<1> DEFINE t == [agent[a] EXCEPT !.open = FALSE]
<1>1. /\ agent[a].at \in Asked \cup {"sub"} /\ agent' = [agent EXCEPT ![a] = t]
      /\ UNCHANGED <<setting, bundle, signals, up, tx, bdm, crashed>>
  BY DEF HangUp, Asked
<1>2. /\ t \in Tasks(setting) /\ t.at = agent[a].at
      /\ t.queue = agent[a].queue /\ t.item = agent[a].item
  BY TaskIs DEF Tasks
<1> HIDE DEF t
<1>3. \A c \in Bundle : Has(t, c) <=> Has(agent[a], c)
  BY <1>2, HasSame
<1>4. agent[a].at \notin {"joining", "leaving"}
  BY <1>1 DEF Asked
<1>5. Len(t.queue) <= AGENT_QUEUE_LENGTH /\ (t.item \in Items <=> t.at \in Asked)
  BY <1>2, TaskIs
<1>6. bdm = a => t.at \in Asked \cup {"sub", "leaving"}
  BY <1>1, <1>2
<1> QED BY <1>1, <1>2, <1>3, <1>4, <1>5, <1>6, QuietStep

-----------------------------------------------------------------------------
\* What an agent task takes from its queue.
LEMMA TaskPopped ==
  ASSUME NEW s, NEW t \in Tasks(s), t.queue # <<>>
  PROVE  /\ Head(t.queue) \in Items \cup {Finalize}
         /\ Tail(t.queue) \in Seq(Items \cup {Finalize})
         /\ Len(Tail(t.queue)) \in Nat /\ Len(Tail(t.queue)) <= Len(t.queue)
         /\ \A c : With(t.queue, c) <=> Head(t.queue).b = c \/ With(Tail(t.queue), c)
<1>1. t.queue \in Seq(Items \cup {Finalize})
  BY DEF Tasks
<1> DEFINE q == t.queue
<1>2. q \in Seq(Items \cup {Finalize}) /\ q # <<>>
  BY <1>1
<1> HIDE DEF q
<1>3. /\ Head(q) \in Items \cup {Finalize} /\ Tail(q) \in Seq(Items \cup {Finalize})
      /\ Len(Tail(q)) \in Nat /\ Len(Tail(q)) <= Len(q)
  BY <1>2
<1>4. \A c : With(q, c) <=> Head(q).b = c \/ With(Tail(q), c)
  BY <1>2, WithTail
<1> QED BY <1>3, <1>4 DEF q

\* Two signals put behind the others are put there one after the other.
LEMMA TwoMore ==
  ASSUME NEW X, NEW q \in Seq(X), NEW x \in X, NEW m \in X
  PROVE  q \o <<x, m>> = Append(Append(q, x), m)
<1> DEFINE p == q \o <<x, m>>
           r == Append(Append(q, x), m)
           n == Len(q)
<1>1. <<x, m>> \in Seq(X) /\ Len(<<x, m>>) = 2 /\ <<x, m>>[1] = x /\ <<x, m>>[2] = m
  OBVIOUS
<1>2. /\ n \in Nat /\ p \in Seq(X) /\ Len(p) = n + 2
      /\ \A i \in 1 .. n : p[i] = q[i]
      /\ p[n + 1] = x /\ p[n + 2] = m
  BY <1>1
<1>3. /\ r \in Seq(X) /\ Len(r) = n + 2
      /\ \A i \in 1 .. n : r[i] = q[i]
      /\ r[n + 1] = x /\ r[n + 2] = m
  OBVIOUS
<1> HIDE DEF p, r, n
<1>4. \A i \in 1 .. n + 2 : i \in 1 .. n \/ i = n + 1 \/ i = n + 2
  BY <1>2
<1>5. \A i \in 1 .. n + 2 : p[i] = r[i]
  BY <1>2, <1>3, <1>4
<1>6. p = r
  BY <1>2, <1>3, <1>5
<1> QED BY <1>6 DEF p, r

LEMMA OneBehind ==
  ASSUME NEW X, NEW q \in Seq(X), NEW x \in X
  PROVE  q \o <<x>> = Append(q, x)
OBVIOUS

\* An agent task becomes t and answers.
LEMMA AnswerStep ==
  ASSUME Typed, AgentsRight, Counted, NEW a \in Agent, NEW t \in Tasks(setting),
         NEW item \in Items, NEW hops \in setting.hops \cup {NoHops}, NEW wild \in BOOLEAN,
         signals' = Append(signals, Answer(item, hops, wild)),
         agent' = [agent EXCEPT ![a] = t], agent[a].at \notin {"joining", "leaving"},
         Len(t.queue) <= AGENT_QUEUE_LENGTH, t.item \in Items <=> t.at \in Asked,
         bdm = a => t.at \in Asked \cup {"sub", "leaving"},
         \A c \in Bundle : Has(agent[a], c) <=> Has(t, c) \/ item.b = c,
         UNCHANGED <<setting, bundle, up, tx, bdm, crashed>>
  PROVE  Typed' /\ AgentsRight' /\ Counted'
<1> DEFINE x == Answer(item, hops, wild)
           q == Append(signals, x)
<1>1. x \in Signals(setting) /\ x.type = "BDM_DISPATCH" /\ x.b = item.b /\ signals' = q
  BY SignalsOf DEF Answer
<1> HIDE DEF x
<1>2. OneMore(setting, q, signals, x) /\ q \in Seq(Signals(setting))
  BY <1>1, PushedMore, TaskIs
<1> HIDE DEF q
<1>3. Gives(q, x, TRUE) /\ Asks(q, a, t, 0, FALSE)
  BY <1>1, <1>2 DEF Gives, Asks
<1>4. Keeps(a, t, x, TRUE)
  BY <1>1 DEF Keeps
<1>5. /\ signals' \in Seq(Signals(setting)) /\ TRUE \in BOOLEAN /\ FALSE \in BOOLEAN
  BY <1>1, <1>2
<1> QED BY <1>3, <1>4, <1>5, TaskStep

\* It answers and leaves.
LEMMA LeaveStep ==
  ASSUME Typed, AgentsRight, Counted, NEW a \in Agent, NEW t \in Tasks(setting),
         NEW item \in Items,
         signals' = signals \o <<Answer(item, NoHops, FALSE), Leaving(a)>>,
         agent' = [agent EXCEPT ![a] = t], agent[a].at \notin {"joining", "leaving"},
         Len(t.queue) <= AGENT_QUEUE_LENGTH, t.item \notin Items, t.at = "leaving",
         \A c \in Bundle : Has(agent[a], c) <=> Has(t, c) \/ item.b = c,
         UNCHANGED <<setting, bundle, up, tx, bdm, crashed>>
  PROVE  Typed' /\ AgentsRight' /\ Counted'
<1> DEFINE x == Answer(item, NoHops, FALSE)
           m == Leaving(a)
           q == Append(signals, x)
           r == Append(q, m)
<1>1. /\ x \in Signals(setting) /\ x.type = "BDM_DISPATCH" /\ x.b = item.b
      /\ m \in Signals(setting) /\ m.type = "AGENT_DEREGISTER" /\ m.agent = a
  BY SignalsOf DEF Answer, Leaving
<1>s. signals' = signals \o <<x, m>>
  OBVIOUS
<1> HIDE DEF x, m
<1>2. OneMore(setting, q, signals, x) /\ q \in Seq(Signals(setting))
  BY <1>1, PushedMore, TaskIs
<1>3. signals' = r
  <2>1. signals \in Seq(Signals(setting))
    BY TaskIs
  <2>2. signals \o <<x, m>> = r
    BY <1>1, <2>1, TwoMore
  <2> QED BY <1>s, <2>2
<1> HIDE DEF q
<1>4. OneMore(setting, r, q, m) /\ r \in Seq(Signals(setting))
  BY <1>1, <1>2, PushedMore
<1> HIDE DEF r
<1>5. Gives(q, x, TRUE) /\ Asks(q, a, t, m, TRUE)
  BY <1>1, <1>2, <1>3, <1>4 DEF Gives, Asks
<1>6. Keeps(a, t, x, TRUE)
  BY <1>1 DEF Keeps
<1>7. /\ signals' \in Seq(Signals(setting)) /\ TRUE \in BOOLEAN
      /\ (t.item \in Items <=> t.at \in Asked)
      /\ (bdm = a => t.at \in Asked \cup {"sub", "leaving"})
  BY <1>3, <1>4 DEF Asked
<1> QED BY <1>5, <1>6, <1>7, TaskStep

LEMMA ReplyStep ==
  ASSUME Typed, AgentsRight, Counted, NEW a \in Agent, Reply(a)
  PROVE  Typed' /\ AgentsRight' /\ Counted'
<1>1. PICK hops \in setting.hops \cup {NoHops} :
        agent' = [agent EXCEPT ![a].at = "answered", ![a].answer = hops]
  BY DEF Reply
<1> DEFINE t == [agent[a] EXCEPT !.at = "answered", !.answer = hops]
<1>2. /\ agent[a].at = "asking" /\ agent' = [agent EXCEPT ![a] = t]
      /\ UNCHANGED <<setting, bundle, signals, up, tx, bdm, crashed>>
  BY <1>1 DEF Reply, AgentStep
<1>3. /\ t \in Tasks(setting) /\ t.at = "answered"
      /\ t.queue = agent[a].queue /\ t.item = agent[a].item
  BY TaskIs DEF Tasks, Ats, Asked
<1> HIDE DEF t
<1>4. \A c \in Bundle : Has(t, c) <=> Has(agent[a], c)
  BY <1>3, HasSame
<1>5. /\ agent[a].at \notin {"joining", "leaving"} /\ agent[a].at \in Asked /\ t.at \in Asked
  BY <1>2, <1>3 DEF Asked
<1>6. Len(t.queue) <= AGENT_QUEUE_LENGTH /\ (t.item \in Items <=> t.at \in Asked)
  BY <1>3, <1>5, TaskIs
<1> QED BY <1>2, <1>3, <1>4, <1>5, <1>6, QuietStep

\* The task whose question is settled.
LEMMA BackIs ==
  ASSUME Typed, NEW a \in Agent, agent[a].at \in Asked
  PROVE  /\ Back(a) \in Tasks(setting) /\ Back(a).at = "sub" /\ Back(a).item = NoItem
         /\ Back(a).queue = agent[a].queue
         /\ agent[a].item \in Items /\ agent[a].answer \in setting.hops \cup {NoHops}
         /\ \A c \in Bundle : Has(agent[a], c) <=> Has(Back(a), c) \/ agent[a].item.b = c
<1>1. /\ Back(a) \in Tasks(setting) /\ Back(a).at = "sub" /\ Back(a).item = NoItem
      /\ Back(a).queue = agent[a].queue
      /\ agent[a].answer \in setting.hops \cup {NoHops}
  BY TaskIs DEF Back, Tasks, Ats
<1>2. agent[a].item \in Items
  BY TaskIs
<1>3. \A c \in Bundle : Has(agent[a], c) <=> Has(Back(a), c) \/ agent[a].item.b = c
  BY <1>1, ItemsAre DEF Has
<1> QED BY <1>1, <1>2, <1>3

LEMMA ReadReplyStep ==
  ASSUME Typed, AgentsRight, Counted, NEW a \in Agent, ReadReply(a)
  PROVE  Typed' /\ AgentsRight' /\ Counted'
<1>1. /\ agent[a].at \in Asked /\ agent[a].at \notin {"joining", "leaving"}
      /\ UNCHANGED <<setting, bundle, up, tx, bdm, crashed>>
      /\ agent' = [agent EXCEPT ![a] = Back(a)]
  BY DEF ReadReply, AgentStep, Asked
<1>2. PICK hops \in {agent[a].answer, NoHops} :
        signals' = Append(signals, Answer(agent[a].item, hops, FALSE))
  BY DEF ReadReply
<1>3. /\ hops \in setting.hops \cup {NoHops} /\ FALSE \in BOOLEAN
      /\ Back(a) \in Tasks(setting) /\ Back(a).at = "sub" /\ Back(a).item \notin Items
      /\ Len(Back(a).queue) <= AGENT_QUEUE_LENGTH
      /\ agent[a].item \in Items
      /\ \A c \in Bundle : Has(agent[a], c) <=> Has(Back(a), c) \/ agent[a].item.b = c
  BY <1>1, <1>2, BackIs, ItemsAre, TaskIs
<1>4. /\ (Back(a).item \in Items <=> Back(a).at \in Asked)
      /\ (bdm = a => Back(a).at \in Asked \cup {"sub", "leaving"})
  BY <1>3 DEF Asked
<1> QED BY <1>1, <1>2, <1>3, <1>4, AnswerStep, ZenonT(60)

LEMMA TimeoutStep ==
  ASSUME Typed, AgentsRight, Counted, NEW a \in Agent, Timeout(a)
  PROVE  Typed' /\ AgentsRight' /\ Counted'
<1> DEFINE at == "leaving"
           t == [Back(a) EXCEPT !.at = at]
<1>1. /\ agent[a].at \in Asked /\ agent[a].at \notin {"joining", "leaving"}
      /\ UNCHANGED <<setting, bundle, up, tx, bdm, crashed>>
      /\ signals' = signals \o <<Answer(agent[a].item, NoHops, FALSE), Leaving(a)>>
      /\ agent' = [agent EXCEPT ![a] = t]
  BY DEF Timeout, AgentStep, Asked
<1>a. at \in Ats /\ at = "leaving"
  BY DEF Ats
<1> HIDE DEF at
<1>2. /\ t \in Tasks(setting) /\ t.at = at
      /\ t.queue = Back(a).queue /\ t.item = Back(a).item
  BY <1>1, <1>a, BackIs, AtChanged
<1> HIDE DEF t
<1>3. /\ agent[a].item \in Items /\ t.item \notin Items /\ t.at = "leaving"
      /\ Len(t.queue) <= AGENT_QUEUE_LENGTH
      /\ \A c \in Bundle : Has(agent[a], c) <=> Has(t, c) \/ agent[a].item.b = c
  BY <1>1, <1>2, <1>a, BackIs, ItemsAre, TaskIs, HasSame
<1> QED BY <1>1, <1>2, <1>3, LeaveStep, ZenonT(60)

LEMMA DrainStep ==
  ASSUME Typed, AgentsRight, Counted, NEW a \in Agent, Drain(a)
  PROVE  Typed' /\ AgentsRight' /\ Counted'
<1> DEFINE q == agent[a].queue
           item == Head(q)
<1>1. /\ agent[a].at = "draining"
      /\ UNCHANGED <<setting, bundle, up, tx, bdm, crashed>>
      /\ \/ /\ q = <<>> /\ agent' = [agent EXCEPT ![a].at = "gone"] /\ signals' = signals
         \/ /\ q # <<>> /\ agent' = [agent EXCEPT ![a].queue = Tail(@)]
            /\ signals' = signals \o Rejected(item)
  BY DEF Drain, AgentStep
<1>2. /\ agent[a].at \notin {"joining", "leaving"} /\ agent[a].at \notin Asked
      /\ bdm # a
  BY <1>1, AgentAssumption DEF AgentsRight, Asked
<1>3. CASE q = <<>> /\ agent' = [agent EXCEPT ![a].at = "gone"] /\ signals' = signals
  <2> DEFINE at == "gone"
             t == [agent[a] EXCEPT !.at = at]
  <2>1. agent' = [agent EXCEPT ![a] = t] /\ signals' = signals
    BY <1>3
  <2>2. at \in Ats /\ at \notin Asked
    BY DEF Ats, Asked
  <2> HIDE DEF at
  <2>3. /\ t \in Tasks(setting) /\ t.at = at
        /\ t.queue = agent[a].queue /\ t.item = agent[a].item
    BY <2>2, AtChanged, TaskIs
  <2> HIDE DEF t, q
  <2>4. /\ Len(t.queue) <= AGENT_QUEUE_LENGTH /\ (t.item \in Items <=> t.at \in Asked)
        /\ \A c \in Bundle : Has(t, c) <=> Has(agent[a], c)
    BY <1>2, <2>2, <2>3, TaskIs, HasSame
  <2> QED BY <1>1, <1>2, <2>1, <2>3, <2>4, QuietStep
<1>4. CASE /\ q # <<>> /\ agent' = [agent EXCEPT ![a].queue = Tail(@)]
           /\ signals' = signals \o Rejected(item)
  <2> DEFINE r == Tail(q)
             t == [agent[a] EXCEPT !.queue = r]
  <2>1. agent' = [agent EXCEPT ![a] = t]
    BY <1>4
  <2>2. /\ item \in Items \cup {Finalize} /\ r \in Seq(Items \cup {Finalize})
        /\ Len(r) \in Nat /\ Len(r) <= Len(q)
        /\ \A c : With(q, c) <=> item.b = c \/ With(r, c)
    BY <1>4, TaskIs, TaskPopped
  <2> HIDE DEF r
  <2>3. /\ t \in Tasks(setting) /\ t.at = agent[a].at
        /\ t.queue = r /\ t.item = agent[a].item
    BY <2>2, TaskIs DEF Tasks
  <2>q. q = agent[a].queue
    OBVIOUS
  <2> HIDE DEF t, q, item
  <2>4. /\ Len(t.queue) <= AGENT_QUEUE_LENGTH /\ (t.item \in Items <=> t.at \in Asked)
    <3>1. Len(q) <= AGENT_QUEUE_LENGTH /\ Len(q) \in Nat
      BY TaskIs, <2>q
    <3> QED BY <2>2, <2>3, <3>1, TaskIs, LengthAssumption
  <2>5. \A c : Has(agent[a], c) <=> Has(t, c) \/ item.b = c
    BY <2>2, <2>3, <2>q DEF Has
  <2>6. CASE item = Finalize
    <3>1. signals' = signals
      BY <1>4, <2>6, TaskIs DEF Rejected
    <3>2. \A c \in Bundle : Has(t, c) <=> Has(agent[a], c)
      BY <2>5, <2>6, ItemsAre
    <3> QED BY <1>1, <1>2, <2>1, <2>3, <2>4, <3>1, <3>2, QuietStep
  <2>7. CASE item # Finalize
    <3>1. signals' = signals \o <<Answer(item, NoHops, TRUE)>>
      BY <1>4, <2>7 DEF Rejected
    <3>2. item \in Items /\ TRUE \in BOOLEAN
      BY <2>2, <2>7
    <3>3. Answer(item, NoHops, TRUE) \in Signals(setting) /\ signals \in Seq(Signals(setting))
      BY <3>2, SignalsOf, TaskIs
    <3>4. signals' = Append(signals, Answer(item, NoHops, TRUE))
      BY <3>1, <3>3, OneBehind
    <3>5. \A c \in Bundle : Has(agent[a], c) <=> Has(t, c) \/ item.b = c
      BY <2>5
    <3>6. /\ NoHops \in setting.hops \cup {NoHops}
          /\ (bdm = a => t.at \in Asked \cup {"sub", "leaving"})
          /\ UNCHANGED <<setting, bundle, up, tx, bdm, crashed>>
          /\ agent[a].at \notin {"joining", "leaving"}
      BY <1>1, <1>2
    <3>7. t \in Tasks(setting) /\ agent' = [agent EXCEPT ![a] = t]
      BY <2>1, <2>3
    <3> QED BY <2>4, <3>2, <3>4, <3>5, <3>6, <3>7, AnswerStep, ZenonT(60)
  <2> QED BY <2>6, <2>7
<1> QED BY <1>1, <1>3, <1>4

\* A task without the first item of its queue.
Popped(t, at, item) == [t EXCEPT !.queue = Tail(@), !.at = at, !.item = item]

\* An item is taken from the queue of a task that asks nothing: where its bundle is.
LEMMA ItemTaken ==
  ASSUME Typed, NEW a \in Agent, agent[a].at = "sub", agent[a].queue # <<>>,
         NEW at \in Ats, NEW item, item \in Items \/ item = NoItem,
         NEW t, t = Popped(agent[a], at, item)
  PROVE  /\ t \in Tasks(setting) /\ t.at = at /\ t.item = item
         /\ Len(t.queue) <= AGENT_QUEUE_LENGTH
         /\ Head(agent[a].queue) \in Items \cup {Finalize}
         /\ agent[a].item = NoItem
         /\ \A c \in Bundle : Has(agent[a], c) <=> Head(agent[a].queue).b = c \/ With(t.queue, c)
<1> DEFINE q == agent[a].queue
           r == Tail(q)
<1>1. /\ Head(q) \in Items \cup {Finalize} /\ r \in Seq(Items \cup {Finalize})
      /\ Len(r) \in Nat /\ Len(r) <= Len(q)
      /\ \A c : With(q, c) <=> Head(q).b = c \/ With(r, c)
  BY TaskIs, TaskPopped
<1>2. t = [agent[a] EXCEPT !.queue = r, !.at = at, !.item = item]
  BY DEF Popped
<1> HIDE DEF r
<1>3. t \in Tasks(setting) /\ t.at = at /\ t.item = item /\ t.queue = r
  BY <1>1, <1>2, TaskIs DEF Tasks
<1>4. agent[a].item = NoItem
  BY TaskIs DEF Asked
<1>5. Len(q) <= AGENT_QUEUE_LENGTH /\ Len(q) \in Nat
  BY TaskIs
<1>6. Len(t.queue) <= AGENT_QUEUE_LENGTH
  BY <1>1, <1>3, <1>5, LengthAssumption
<1>7. ASSUME NEW c \in Bundle
      PROVE  Has(agent[a], c) <=> Head(q).b = c \/ With(t.queue, c)
  BY <1>1, <1>3, <1>4, ItemsAre DEF Has
<1> QED BY <1>1, <1>3, <1>4, <1>6, <1>7

LEMMA TakeItemStep ==
  ASSUME Typed, AgentsRight, Counted, NEW a \in Agent, TakeItem(a)
  PROVE  Typed' /\ AgentsRight' /\ (~crashed' => Counted')
<1> DEFINE q == agent[a].queue
           item == Head(q)
           rest == [agent[a] EXCEPT !.queue = Tail(@)]
<1>1. /\ agent[a].at = "sub" /\ q # <<>>
      /\ UNCHANGED <<setting, bundle, up, tx, bdm>>
      /\ \/ /\ item = Finalize /\ crashed' = crashed
            /\ agent' = [agent EXCEPT ![a] = [rest EXCEPT !.at = "leaving"]]
            /\ signals' = Append(signals, Leaving(a))
         \/ crashed' = TRUE /\ agent' = agent /\ signals' = signals
         \/ /\ item # Finalize /\ crashed' = crashed /\ signals' = signals
            /\ agent' = [agent EXCEPT ![a] = [rest EXCEPT !.at = "asking", !.item = item]]
         \/ /\ item # Finalize /\ crashed' = crashed
            /\ agent' = [agent EXCEPT ![a] = [rest EXCEPT !.at = "leaving"]]
            /\ signals' = signals \o <<Answer(item, NoHops, FALSE), Leaving(a)>>
  BY DEF TakeItem, AgentStep
<1>2. /\ agent[a].at \notin {"joining", "leaving"} /\ agent[a] \in Tasks(setting)
  BY <1>1, TaskIs
<1>3. CASE /\ item = Finalize /\ crashed' = crashed
           /\ agent' = [agent EXCEPT ![a] = [rest EXCEPT !.at = "leaving"]]
           /\ signals' = Append(signals, Leaving(a))
  <2> DEFINE m == Leaving(a)
             at == "leaving"
             t == Popped(agent[a], at, NoItem)
             p == signals
  <2>1. agent[a].item = NoItem
    BY <1>1, <1>2, TaskIs DEF Asked
  <2>2. [rest EXCEPT !.at = "leaving"] = t
    BY <1>2, <2>1 DEF Tasks, Popped
  <2>3. m \in Signals(setting) /\ m.type = "AGENT_DEREGISTER" /\ m.agent = a
    BY SignalsOf DEF Leaving
  <2>4. at \in Ats /\ at \notin Asked /\ at = "leaving"
    BY DEF Ats, Asked
  <2>5. agent' = [agent EXCEPT ![a] = t] /\ signals' = Append(signals, m)
    BY <1>3, <2>2
  <2>t. t = Popped(agent[a], at, NoItem)
    OBVIOUS
  <2> HIDE DEF m, at, rest, t
  <2>6. /\ t \in Tasks(setting) /\ t.at = at /\ t.item = NoItem
        /\ Len(t.queue) <= AGENT_QUEUE_LENGTH
        /\ \A c \in Bundle : Has(agent[a], c) <=> item.b = c \/ With(t.queue, c)
    <3>1. NoItem \notin Items
      BY ItemsAre
    <3>2. /\ agent[a].at = "sub" /\ agent[a].queue # <<>> /\ at \in Ats
          /\ item = Head(agent[a].queue)
      BY <1>1, <2>4
    <3> HIDE DEF item, q
    <3>3. t \in Tasks(setting)
      BY <2>t, <3>1, <3>2, ItemTaken
    <3>4. t.at = at
      BY <2>t, <3>1, <3>2, ItemTaken
    <3>5. t.item = NoItem
      BY <2>t, <3>1, <3>2, ItemTaken
    <3>6. Len(t.queue) <= AGENT_QUEUE_LENGTH
      BY <2>t, <3>1, <3>2, ItemTaken
    <3>7. \A c \in Bundle :
            Has(agent[a], c) <=> Head(agent[a].queue).b = c \/ With(t.queue, c)
      BY <2>t, <3>1, <3>2, ItemTaken
    <3> QED BY <3>2, <3>3, <3>4, <3>5, <3>6, <3>7
  <2> HIDE DEF item, q
  <2>7. Gives(p, m, FALSE)
    BY DEF Gives
  <2> HIDE DEF p
  <2>8. OneMore(setting, signals', signals, m) /\ signals' \in Seq(Signals(setting))
    BY <2>3, <2>5, PushedMore, TaskIs
  <2>9. Asks(p, a, t, m, TRUE)
    BY <2>3, <2>4, <2>6, <2>8 DEF Asks, p
  <2>10. Keeps(a, t, m, FALSE)
    BY <1>3, <2>6, ItemsAre DEF Keeps, Has
  <2>11. /\ (t.item \in Items <=> t.at \in Asked) /\ FALSE \in BOOLEAN /\ TRUE \in BOOLEAN
         /\ (bdm = a => t.at \in Asked \cup {"sub", "leaving"})
         /\ UNCHANGED <<setting, bundle, up, tx, bdm, crashed>>
    BY <1>1, <1>3, <2>4, <2>6, ItemsAre
  <2> QED BY <1>2, <2>5, <2>6, <2>7, <2>8, <2>9, <2>10, <2>11, TaskStep
<1>4. CASE crashed' = TRUE /\ agent' = agent /\ signals' = signals
  <2>1. Typed'
    BY <1>1, <1>4 DEF Typed, LifeTypeOK
  <2>2. AgentsRight'
    BY <1>1, <1>4 DEF AgentsRight
  <2> QED BY <1>4, <2>1, <2>2
<1>5. CASE /\ item # Finalize /\ crashed' = crashed /\ signals' = signals
           /\ agent' = [agent EXCEPT ![a] = [rest EXCEPT !.at = "asking", !.item = item]]
  <2> DEFINE at == "asking"
             t == Popped(agent[a], at, item)
  <2>1. [rest EXCEPT !.at = "asking", !.item = item] = t
    BY <1>2 DEF Tasks, Popped
  <2>2. at \in Ats /\ at \in Asked
    BY DEF Ats, Asked
  <2>3. agent' = [agent EXCEPT ![a] = t] /\ UNCHANGED <<setting, bundle, signals, up, tx, bdm, crashed>>
    BY <1>1, <1>5, <2>1
  <2>t. t = Popped(agent[a], at, item)
    OBVIOUS
  <2> HIDE DEF at, rest, t
  <2>4. item \in Items
    BY <1>1, <1>5, TaskIs, TaskPopped
  <2>5. /\ t \in Tasks(setting) /\ t.at = at /\ t.item = item
        /\ Len(t.queue) <= AGENT_QUEUE_LENGTH
        /\ \A c \in Bundle : Has(agent[a], c) <=> item.b = c \/ With(t.queue, c)
    <3>1. item \in Items \/ item = NoItem
      BY <2>4
    <3>2. /\ agent[a].at = "sub" /\ agent[a].queue # <<>> /\ at \in Ats
          /\ item = Head(agent[a].queue)
      BY <1>1, <2>2
    <3> HIDE DEF item, q
    <3>3. t \in Tasks(setting)
      BY <2>t, <3>1, <3>2, ItemTaken
    <3>4. t.at = at
      BY <2>t, <3>1, <3>2, ItemTaken
    <3>5. t.item = item
      BY <2>t, <3>1, <3>2, ItemTaken
    <3>6. Len(t.queue) <= AGENT_QUEUE_LENGTH
      BY <2>t, <3>1, <3>2, ItemTaken
    <3>7. \A c \in Bundle :
            Has(agent[a], c) <=> Head(agent[a].queue).b = c \/ With(t.queue, c)
      BY <2>t, <3>1, <3>2, ItemTaken
    <3> QED BY <3>2, <3>3, <3>4, <3>5, <3>6, <3>7
  <2> HIDE DEF item, q
  <2>6. /\ (t.item \in Items <=> t.at \in Asked)
        /\ (bdm = a => t.at \in Asked \cup {"sub", "leaving"})
        /\ \A c \in Bundle : Has(t, c) <=> Has(agent[a], c)
    BY <2>2, <2>4, <2>5 DEF Has
  <2> QED BY <1>2, <2>3, <2>5, <2>6, QuietStep
<1>6. CASE /\ item # Finalize /\ crashed' = crashed
           /\ agent' = [agent EXCEPT ![a] = [rest EXCEPT !.at = "leaving"]]
           /\ signals' = signals \o <<Answer(item, NoHops, FALSE), Leaving(a)>>
  <2> DEFINE at == "leaving"
             t == Popped(agent[a], at, NoItem)
  <2>1. agent[a].item = NoItem
    BY <1>1, <1>2, TaskIs DEF Asked
  <2>2. [rest EXCEPT !.at = "leaving"] = t
    BY <1>2, <2>1 DEF Tasks, Popped
  <2>3. at \in Ats /\ at = "leaving"
    BY DEF Ats
  <2>4. /\ agent' = [agent EXCEPT ![a] = t]
        /\ signals' = signals \o <<Answer(item, NoHops, FALSE), Leaving(a)>>
        /\ UNCHANGED <<setting, bundle, up, tx, bdm, crashed>>
    BY <1>1, <1>6, <2>2
  <2>t. t = Popped(agent[a], at, NoItem)
    OBVIOUS
  <2> HIDE DEF at, rest, t
  <2>5. item \in Items
    BY <1>1, <1>6, TaskIs, TaskPopped
  <2>6. /\ t \in Tasks(setting) /\ t.at = at /\ t.item = NoItem
        /\ Len(t.queue) <= AGENT_QUEUE_LENGTH
        /\ \A c \in Bundle : Has(agent[a], c) <=> item.b = c \/ With(t.queue, c)
    <3>1. NoItem \notin Items
      BY ItemsAre
    <3>2. /\ agent[a].at = "sub" /\ agent[a].queue # <<>> /\ at \in Ats
          /\ item = Head(agent[a].queue)
      BY <1>1, <2>3
    <3> HIDE DEF item, q
    <3>3. t \in Tasks(setting)
      BY <2>t, <3>1, <3>2, ItemTaken
    <3>4. t.at = at
      BY <2>t, <3>1, <3>2, ItemTaken
    <3>5. t.item = NoItem
      BY <2>t, <3>1, <3>2, ItemTaken
    <3>6. Len(t.queue) <= AGENT_QUEUE_LENGTH
      BY <2>t, <3>1, <3>2, ItemTaken
    <3>7. \A c \in Bundle :
            Has(agent[a], c) <=> Head(agent[a].queue).b = c \/ With(t.queue, c)
      BY <2>t, <3>1, <3>2, ItemTaken
    <3> QED BY <3>2, <3>3, <3>4, <3>5, <3>6, <3>7
  <2> HIDE DEF item, q
  <2>7. \A c \in Bundle : Has(agent[a], c) <=> Has(t, c) \/ item.b = c
    BY <2>6, ItemsAre DEF Has
  <2>8. t.item \notin Items /\ t.at = "leaving"
    BY <2>3, <2>6, ItemsAre
  <2>9. agent[a].at \notin {"joining", "leaving"} /\ t \in Tasks(setting)
    BY <1>2, <2>6
  <2> QED BY <2>4, <2>5, <2>6, <2>7, <2>8, <2>9, LeaveStep, ZenonT(60)
<1> QED BY <1>1, <1>3, <1>4, <1>5, <1>6

LEMMA AgentTaskStep ==
  ASSUME Typed, AgentsRight, Counted, NEW a \in Agent, AgentTask(a)
  PROVE  Typed' /\ AgentsRight' /\ (~crashed' => Counted')
<1>1. CASE TakeItem(a)
  BY <1>1, TakeItemStep
<1>2. CASE Reply(a)
  BY <1>2, ReplyStep
<1>3. CASE ReadReply(a)
  BY <1>3, ReadReplyStep
<1>4. CASE Timeout(a)
  BY <1>4, TimeoutStep
<1>5. CASE Drain(a)
  BY <1>5, DrainStep
<1> QED BY <1>1, <1>2, <1>3, <1>4, <1>5 DEF AgentTask

-----------------------------------------------------------------------------
\* Typed, where one link is t now.
LEMMA LinkTyped ==
  ASSUME Typed, NEW h \in Hop, NEW t \in Links, tx' = [tx EXCEPT ![h] = t],
         LinkRight(t), Len(t.queue) <= TX_QUEUE_LENGTH,
         t.sending \in Bundle <=> t.task = "sending",
         signals' \in Seq(Signals(setting)),
         UNCHANGED <<setting, bundle, up, agent, bdm, crashed>>
  PROVE  Typed'
<1>1. /\ tx \in [Hop -> Links]
      /\ \A k \in Hop : /\ LinkRight(tx[k]) /\ Len(tx[k].queue) <= TX_QUEUE_LENGTH
                        /\ tx[k].sending \in Bundle <=> tx[k].task = "sending"
  BY DEF Typed, LifeTypeOK
<1>2. /\ tx' \in [Hop -> Links]
      /\ \A k \in Hop : /\ LinkRight(tx'[k]) /\ Len(tx'[k].queue) <= TX_QUEUE_LENGTH
                        /\ tx'[k].sending \in Bundle <=> tx'[k].task = "sending"
  BY <1>1
<1>3. LifeTypeOK'
  BY <1>2 DEF Typed, LifeTypeOK
<1> QED BY <1>2, <1>3 DEF Typed

\* What is true of a link.
LEMMA LinkIs ==
  ASSUME Typed, NEW h \in Hop
  PROVE  /\ tx[h] \in Links /\ tx \in [Hop -> Links] /\ LinkRight(tx[h])
         /\ Len(tx[h].queue) <= TX_QUEUE_LENGTH /\ Len(tx[h].queue) \in Nat
         /\ DOMAIN tx[h].queue = 1 .. Len(tx[h].queue)
         /\ tx[h].task # "sending" => tx[h].sending = Nothing
         /\ tx[h].sending \in Bundle <=> tx[h].task = "sending"
<1>1. /\ tx[h] \in Links /\ tx \in [Hop -> Links] /\ LinkRight(tx[h])
      /\ Len(tx[h].queue) <= TX_QUEUE_LENGTH
      /\ tx[h].sending \in Bundle <=> tx[h].task = "sending"
  BY DEF Typed, LifeTypeOK
<1>2. /\ Len(tx[h].queue) \in Nat /\ DOMAIN tx[h].queue = 1 .. Len(tx[h].queue)
      /\ tx[h].sending \in Bundle \cup {Nothing}
  BY <1>1 DEF Links
<1> QED BY <1>1, <1>2

\* One link has changed: how often TX tasks have c.
LEMMA LinkBecomes ==
  ASSUME NEW x \in [Hop -> Links], NEW y \in [Hop -> Links], NEW h \in Hop,
         Others(x, y, h), NEW c
  PROVE  /\ Balanced(x, y, h, c)
         /\ OnLinks(y, c) \in Nat /\ OnLinks(x, c) \in Nat
         /\ Cardinality(Commands(x[h], c)) \in Nat /\ Cardinality(Commands(y[h], c)) \in Nat
<1>1. x[h] \in Links /\ y[h] \in Links
  OBVIOUS
<1>2. Cardinality(Commands(x[h], c)) \in Nat /\ Cardinality(Commands(y[h], c)) \in Nat
  BY <1>1, CommandsFinite
<1> QED BY <1>2, LinkChanged, OnLinksIsNat

LEMMA SameOnLinks ==
  ASSUME Typed, NEW h \in Hop, NEW t \in Links, tx' = [tx EXCEPT ![h] = t], NEW c,
         Cardinality(Commands(t, c)) = Cardinality(Commands(tx[h], c))
  PROVE  OnLinks(tx', c) = OnLinks(tx, c)
<1>1. /\ tx \in [Hop -> Links] /\ tx' \in [Hop -> Links] /\ tx'[h] = t
      /\ Others(tx, tx', h)
  BY LinkIs DEF Others
<1>2. /\ Balanced(tx, tx', h, c)
      /\ OnLinks(tx', c) \in Nat /\ OnLinks(tx, c) \in Nat
      /\ Cardinality(Commands(tx[h], c)) \in Nat
  BY <1>1, LinkBecomes
<1> QED BY <1>1, <1>2 DEF Balanced

LEMMA StartLinkStep ==
  ASSUME Typed, AgentsRight, Counted, NEW h \in Hop, StartLink(h)
  PROVE  Typed' /\ AgentsRight' /\ Counted'
<1> DEFINE t == [tx[h] EXCEPT !.link = TRUE, !.task = "idle"]
           m == [type |-> "LINK_UP", hop |-> h]
<1>1. /\ tx[h].task = "off" /\ tx' = [tx EXCEPT ![h] = t]
      /\ signals' = Append(signals, m)
      /\ UNCHANGED <<setting, bundle, up, agent, bdm, crashed>>
  BY DEF StartLink
<1>2. m \in Signals(setting) /\ m.type = "LINK_UP"
  BY SignalsOf
<1> HIDE DEF m
<1>3. /\ t \in Links /\ t.queue = tx[h].queue /\ t.sending = tx[h].sending
      /\ t.task = "idle"
  BY LinkIs DEF Links
<1> HIDE DEF t
<1>4. OneMore(setting, signals', signals, m) /\ signals' \in Seq(Signals(setting))
  BY <1>1, <1>2, PushedMore, TypedAre
<1>5. t.queue = <<>>
  BY <1>1, <1>3, LinkIs DEF LinkRight
<1>6. LinkRight(t) /\ Len(t.queue) <= TX_QUEUE_LENGTH /\ (t.sending \in Bundle <=> t.task = "sending")
  BY <1>1, <1>3, <1>5, LinkIs DEF LinkRight
<1>7. Typed'
  BY <1>1, <1>3, <1>4, <1>6, LinkTyped
<1>8. AgentsRight'
  BY <1>1, <1>2, <1>4, AgentsKept
<1>9. ASSUME NEW c \in Bundle PROVE OnLinks(tx', c) = OnLinks(tx, c)
  <2>1. Commands(t, c) = Commands(tx[h], c)
    BY <1>3 DEF Commands
  <2> QED BY <1>1, <1>3, <2>1, SameOnLinks
<1>10. Counted'
  BY <1>1, <1>2, <1>4, <1>9, OtherCounted
<1> QED BY <1>7, <1>8, <1>10

\* A step in which the signals and the agents are as they were.
LEMMA SilentStep ==
  ASSUME Typed, AgentsRight, Counted, NEW h \in Hop, NEW t \in Links,
         tx' = [tx EXCEPT ![h] = t],
         LinkRight(t), Len(t.queue) <= TX_QUEUE_LENGTH,
         t.sending \in Bundle <=> t.task = "sending",
         \A c \in Bundle : Cardinality(Commands(t, c)) = Cardinality(Commands(tx[h], c)),
         UNCHANGED <<setting, bundle, signals, up, agent, bdm, crashed>>
  PROVE  Typed' /\ AgentsRight' /\ Counted'
<1>1. Typed'
  BY LinkTyped, TypedAre
<1>2. AgentsRight'
  BY DEF AgentsRight
<1>3. ASSUME NEW c \in Bundle
      PROVE  RightAt(setting, bundle, signals, tx, agent, c)'
  <2>1. OnLinks(tx', c) = OnLinks(tx, c)
    BY SameOnLinks
  <2>2. RightAt(setting, bundle, signals, tx, agent, c)
    BY DEF Counted
  <2> QED BY <2>1, <2>2, SameCounts
<1>4. Counted'
  BY <1>3 DEF Counted
<1> QED BY <1>1, <1>2, <1>4

LEMMA EndLinkStep ==
  ASSUME Typed, AgentsRight, Counted, NEW h \in Hop, EndLink(h)
  PROVE  Typed' /\ AgentsRight' /\ Counted'
<1> DEFINE q == Append(tx[h].queue, "FINALIZE")
           t == [tx[h] EXCEPT !.link = FALSE, !.queue = Append(@, "FINALIZE")]
           n == Len(tx[h].queue)
<1>1. /\ tx[h].link /\ n < TX_QUEUE_LENGTH /\ tx' = [tx EXCEPT ![h] = t]
      /\ UNCHANGED <<setting, bundle, signals, up, agent, bdm, crashed>>
  BY DEF EndLink
<1>2. /\ tx[h].queue \in Seq(Bundle \cup {"FINALIZE"})
      /\ q \in Seq(Bundle \cup {"FINALIZE"}) /\ n \in Nat
      /\ DOMAIN tx[h].queue = 1 .. n
      /\ Len(q) = n + 1 /\ DOMAIN q = 1 .. n + 1 /\ \A i \in 1 .. n : q[i] = tx[h].queue[i]
  BY LinkIs DEF Links
<1>3. t = [tx[h] EXCEPT !.link = FALSE, !.queue = q]
  OBVIOUS
<1>4. ASSUME NEW c \in Bundle PROVE Cardinality(Commands(t, c)) = Cardinality(Commands(tx[h], c))
  BY CommandsFinal, LinkIs, Zenon
<1> HIDE DEF q, t
<1>5. /\ t \in Links /\ t.queue = q /\ t.sending = tx[h].sending /\ t.task = tx[h].task
      /\ t.link = FALSE
  BY <1>2, <1>3, LinkIs DEF Links
<1>6. \A i \in 1 .. n + 1 : i \in 1 .. n \/ i = n + 1
  BY <1>2
<1>7. \A i \in 1 .. n : tx[h].queue[i] # "FINALIZE"
  BY <1>1, <1>2, LinkIs DEF LinkRight
<1>8. tx[h].task \notin {"off", "ending"}
  BY <1>1, LinkIs DEF LinkRight
<1>9. LinkRight(t)
  BY <1>2, <1>5, <1>6, <1>7, <1>8 DEF LinkRight
<1>10. Len(t.queue) <= TX_QUEUE_LENGTH /\ (t.sending \in Bundle <=> t.task = "sending")
  BY <1>1, <1>2, <1>5, LinkIs, LengthAssumption
<1> QED BY <1>1, <1>4, <1>5, <1>9, <1>10, SilentStep

\* A task that takes its next command.
LEMMA TakenIs ==
  ASSUME NEW t \in Links, LinkRight(t), t.queue # <<>>
  PROVE  LET u == Take(t, Head(t.queue))
         IN  /\ u \in Links /\ LinkRight(u)
             /\ Len(u.queue) \in Nat /\ Len(u.queue) <= Len(t.queue)
             /\ u.sending \in Bundle <=> u.task = "sending"
<1> DEFINE q == t.queue
           r == Tail(q)
           c == Head(q)
           u == Take(t, c)
<1>1. /\ q \in Seq(Bundle \cup {"FINALIZE"}) /\ Len(q) \in Nat \ {0} /\ DOMAIN q = 1 .. Len(q)
      /\ c \in Bundle \cup {"FINALIZE"} /\ c = q[1]
      /\ r \in Seq(Bundle \cup {"FINALIZE"}) /\ Len(r) = Len(q) - 1
      /\ DOMAIN r = 1 .. Len(q) - 1
      /\ \A i \in 1 .. Len(q) - 1 : r[i] = q[i + 1]
  BY DEF Links
<1>2. \A i \in 1 .. Len(q) : q[i] = "FINALIZE" => ~t.link /\ i = Len(q)
  BY <1>1 DEF LinkRight
<1>u. u = [t EXCEPT !.queue = r,
                    !.task = IF c = "FINALIZE" THEN "ending" ELSE "sending",
                    !.sending = IF c = "FINALIZE" THEN Nothing ELSE c]
  BY DEF Take
<1> HIDE DEF u, c, r
<1>3. /\ u \in Links /\ u.queue = r /\ u.link = t.link
      /\ u.task = (IF c = "FINALIZE" THEN "ending" ELSE "sending")
      /\ u.sending = (IF c = "FINALIZE" THEN Nothing ELSE c)
  BY <1>1, <1>u DEF Links
<1>4. \A i \in DOMAIN u.queue : u.queue[i] = "FINALIZE" => ~u.link /\ i = Len(u.queue)
  <2> SUFFICES ASSUME NEW i \in 1 .. Len(q) - 1, r[i] = "FINALIZE"
               PROVE  ~t.link /\ i = Len(q) - 1
    BY <1>1, <1>3
  <2>1. i + 1 \in 1 .. Len(q) /\ q[i + 1] = "FINALIZE"
    BY <1>1
  <2> QED BY <1>1, <1>2, <2>1
<1>5. u.task \in {"off", "ending"} => ~u.link /\ u.queue = <<>>
  <2> SUFFICES ASSUME c = "FINALIZE" PROVE ~t.link /\ r = <<>>
    BY <1>3
  <2>0. 1 \in 1 .. Len(q) /\ q[1] = "FINALIZE"
    BY <1>1
  <2>1. ~t.link /\ Len(q) = 1
    BY <1>1, <1>2, <2>0
  <2> QED BY <1>1, <2>1
<1>6. u.sending \in Bundle <=> u.task = "sending"
  BY <1>1, <1>3, BundleAssumption
<1>7. LinkRight(u)
  BY <1>4, <1>5 DEF LinkRight
<1>8. Len(u.queue) \in Nat /\ Len(u.queue) <= Len(q)
  BY <1>1, <1>3
<1> QED BY <1>3, <1>6, <1>7, <1>8 DEF u, c

LEMMA TakeCommandStep ==
  ASSUME Typed, AgentsRight, Counted, NEW h \in Hop, TakeCommand(h)
  PROVE  Typed' /\ AgentsRight' /\ Counted'
<1> DEFINE t == Take(tx[h], Head(tx[h].queue))
<1>1. /\ tx[h].task = "idle" /\ tx[h].queue # <<>> /\ tx' = [tx EXCEPT ![h] = t]
      /\ UNCHANGED <<setting, bundle, signals, up, agent, bdm, crashed>>
  BY DEF TakeCommand
<1>2. /\ t \in Links /\ LinkRight(t)
      /\ Len(t.queue) \in Nat /\ Len(t.queue) <= Len(tx[h].queue)
      /\ t.sending \in Bundle <=> t.task = "sending"
  BY <1>1, LinkIs, TakenIs
<1>3. tx[h].sending = Nothing /\ tx[h] \in Links
  BY <1>1, LinkIs
<1>4. \A c \in Bundle : Cardinality(Commands(t, c)) = Cardinality(Commands(tx[h], c))
  BY <1>1, <1>3, CommandsTaken
<1> HIDE DEF t
<1>5. Len(t.queue) <= TX_QUEUE_LENGTH
  BY <1>2, LinkIs, LengthAssumption
<1> QED BY <1>1, <1>2, <1>4, <1>5, SilentStep

LEMMA TransmitStep ==
  ASSUME Typed, AgentsRight, Counted, NEW h \in Hop, Transmit(h)
  PROVE  Typed' /\ AgentsRight' /\ Counted'
<1> DEFINE t == [tx[h] EXCEPT !.task = "idle", !.sending = Nothing]
           b == tx[h].sending
<1>1. /\ tx[h].task = "sending" /\ tx' = [tx EXCEPT ![h] = t]
      /\ UNCHANGED <<setting, bundle, up, agent, bdm, crashed>>
  BY DEF Transmit
<1>2. b \in Bundle
  BY <1>1, LinkIs
<1>3. PICK x \in {Result("TX_SUCCESS", b), Result("TX_FAILURE", b)} :
        signals' = Append(signals, x)
  BY DEF Transmit
<1>4. x \in Signals(setting) /\ x.type \in {"TX_SUCCESS", "TX_FAILURE"} /\ x.b = b
  <2>1. /\ Result("TX_SUCCESS", b) \in Signals(setting)
        /\ Result("TX_FAILURE", b) \in Signals(setting)
    BY <1>2, SignalsOf
  <2>2. /\ Result("TX_SUCCESS", b).type = "TX_SUCCESS" /\ Result("TX_SUCCESS", b).b = b
        /\ Result("TX_FAILURE", b).type = "TX_FAILURE" /\ Result("TX_FAILURE", b).b = b
    BY DEF Result
  <2> HIDE DEF b
  <2> QED BY <2>1, <2>2
<1>5. OneMore(setting, signals', signals, x) /\ signals' \in Seq(Signals(setting))
  BY <1>3, <1>4, PushedMore, TypedAre
<1>6. /\ t \in Links /\ t.queue = tx[h].queue /\ t.task = "idle" /\ t.sending = Nothing
      /\ t.link = tx[h].link
  BY LinkIs DEF Links
<1>7. ASSUME NEW c \in Bundle
      PROVE  Cardinality(Commands(tx[h], c)) = Cardinality(Commands(t, c)) + One(b = c)
  BY CommandsSent, LinkIs
<1> HIDE DEF t, b
<1>8. LinkRight(t)
  BY <1>6, LinkIs DEF LinkRight
<1>9. Len(t.queue) <= TX_QUEUE_LENGTH /\ (t.sending \in Bundle <=> t.task = "sending")
  BY <1>6, LinkIs, BundleAssumption
<1>10. Typed'
  BY <1>1, <1>5, <1>6, <1>8, <1>9, LinkTyped
<1>11. AgentsRight'
  BY <1>1, <1>4, <1>5, AgentsKept
<1>12. ASSUME NEW c \in Bundle
       PROVE  RightAt(setting, bundle, signals, tx, agent, c)'
  <2>1. /\ tx \in [Hop -> Links] /\ tx' \in [Hop -> Links] /\ tx'[h] = t
        /\ Others(tx, tx', h)
    BY <1>1, <1>6, LinkIs DEF Others
  <2>2. /\ Balanced(tx, tx', h, c)
        /\ OnLinks(tx', c) \in Nat /\ OnLinks(tx, c) \in Nat
        /\ Cardinality(Commands(tx'[h], c)) \in Nat
    BY <2>1, LinkBecomes
  <2>3. OnLinks(tx, c) = OnLinks(tx', c) + One(b = c)
    BY <1>7, <2>1, <2>2 DEF Balanced, One
  <2>4. /\ Count(signals', Settled(setting, c)) = Count(signals, Settled(setting, c)) + One(b = c)
        /\ Count(signals', Answers(setting, c)) = Count(signals, Answers(setting, c))
        /\ Count(signals', Incoming(setting, c)) = Count(signals, Incoming(setting, c))
    BY <1>4, <1>5, MoreResult
  <2>5. Count(signals, Settled(setting, c)) \in Nat
    BY TypedAre, CountsAreNat
  <2>6. Under(setting', signals', tx', c) = Under(setting, signals, tx, c)
    BY <1>1, <2>2, <2>3, <2>4, <2>5 DEF Under, One
  <2>7. Owned(setting', signals', agent', c) <=> Owned(setting, signals, agent, c)
    BY <1>1, <2>4 DEF Owned
  <2>8. RightAt(setting, bundle, signals, tx, agent, c)
    BY DEF Counted
  <2> QED BY <1>1, <2>4, <2>6, <2>7, <2>8 DEF RightAt, Right
<1>13. Counted'
  BY <1>12 DEF Counted
<1> QED BY <1>10, <1>11, <1>13

LEMMA EndTaskStep ==
  ASSUME Typed, AgentsRight, Counted, NEW h \in Hop, EndTask(h)
  PROVE  Typed' /\ AgentsRight' /\ Counted'
<1> DEFINE t == [tx[h] EXCEPT !.task = "off", !.queue = <<>>]
           m == [type |-> "LINK_DOWN", hop |-> h]
           r == [i \in DOMAIN tx[h].queue |-> Result("TX_FAILURE", tx[h].queue[i])]
<1>1. /\ tx[h].task = "ending" /\ tx' = [tx EXCEPT ![h] = t]
      /\ signals' = signals \o r \o <<m>>
      /\ UNCHANGED <<setting, bundle, up, agent, bdm, crashed>>
  BY DEF EndTask
<1>2. m \in Signals(setting) /\ m.type = "LINK_DOWN"
  BY SignalsOf
<1>3. tx[h].queue = <<>> /\ ~tx[h].link
  BY <1>1, LinkIs DEF LinkRight
<1>4. r = <<>>
  BY <1>3
<1> HIDE DEF m, r
<1>5. signals' = Append(signals, m)
  BY <1>1, <1>2, <1>4, TypedAre, OneBehind
<1>6. OneMore(setting, signals', signals, m) /\ signals' \in Seq(Signals(setting))
  BY <1>2, <1>5, PushedMore, TypedAre
<1>7. /\ t \in Links /\ t.queue = <<>> /\ t.sending = tx[h].sending /\ t.task = "off"
      /\ ~t.link
  BY <1>3, LinkIs DEF Links
<1> HIDE DEF t
<1>8. LinkRight(t) /\ Len(t.queue) <= TX_QUEUE_LENGTH /\ (t.sending \in Bundle <=> t.task = "sending")
  BY <1>1, <1>7, LinkIs, LengthAssumption DEF LinkRight
<1>9. Typed'
  BY <1>1, <1>6, <1>7, <1>8, LinkTyped
<1>10. AgentsRight'
  BY <1>1, <1>2, <1>6, AgentsKept
<1>11. ASSUME NEW c \in Bundle PROVE OnLinks(tx', c) = OnLinks(tx, c)
  <2>1. Commands(t, c) = Commands(tx[h], c)
    BY <1>3, <1>7 DEF Commands
  <2> QED BY <1>1, <1>7, <2>1, SameOnLinks
<1>12. Counted'
  BY <1>1, <1>2, <1>6, <1>11, OtherCounted
<1> QED BY <1>9, <1>10, <1>12

LEMMA ArriveStep ==
  ASSUME Typed, AgentsRight, Counted, NEW b \in Bundle, Arrive(b)
  PROVE  Typed' /\ AgentsRight' /\ Counted'
<1> DEFINE m == [type |-> "INCOMING", b |-> b]
<1>1. m \in Signals(setting) /\ m.type = "INCOMING"
  BY SignalsOf
<1>2. signals' = Append(signals, m) /\ UNCHANGED <<setting, agent, bdm>>
  BY DEF Arrive
<1> HIDE DEF m
<1>3. OneMore(setting, signals', signals, m)
  BY <1>1, <1>2, PushedMore, TypedAre
<1>4. AgentsRight'
  BY <1>1, <1>2, <1>3, AgentsKept
<1> QED BY <1>4, ArriveTyped, ArriveCounted

LEMMA TxTaskStep ==
  ASSUME Typed, AgentsRight, Counted, NEW h \in Hop, TxTask(h)
  PROVE  Typed' /\ AgentsRight' /\ Counted'
BY TakeCommandStep, TransmitStep, EndTaskStep DEF TxTask

LEMMA ProcessorStep ==
  ASSUME Typed, AgentsRight, Counted, BundleProcessor
  PROVE  Typed' /\ AgentsRight' /\ (~crashed' => Counted')
<1>1. CASE DeleteIncoming
  BY <1>1, DeleteStep
<1>2. CASE ForwardIncoming
  BY <1>2, ForwardStep
<1>3. CASE TransmissionSuccess \/ TransmissionFailure
  BY <1>3, ResultStep
<1>4. CASE BdmDispatch
  BY <1>4, DispatchStep
<1>5. CASE LinkSignal
  BY <1>5, LinkStep
<1>6. CASE Register
  BY <1>6, RegisterStep
<1>7. CASE Deregister
  BY <1>7, DeregisterStep
<1> QED BY <1>1, <1>2, <1>3, <1>4, <1>5, <1>6, <1>7 DEF BundleProcessor

-----------------------------------------------------------------------------
\* Nothing is in an empty queue, and in tasks that have not begun.
LEMMA NoneAtFirst ==
  ASSUME NEW Y
  PROVE  Count(<<>>, Y) = 0
<1>1. Among(<<>>, Y) = {}
  BY DEF Among
<1> QED BY <1>1, FS_EmptySet DEF Count

LEMMA NoCommands ==
  ASSUME NEW x, \A h \in Hop : x[h].queue = <<>> /\ x[h].sending = Nothing, NEW b \in Bundle
  PROVE  OnLinks(x, b) = 0
<1> DEFINE F == [h \in Hop |-> Commands(x[h], b)]
<1>1. \A h \in Hop : F[h] = {}
  BY BundleAssumption DEF Commands
<1> HIDE DEF F
<1>2. Pairs(Hop, F) = {}
  BY <1>1 DEF Pairs
<1> QED BY <1>2, FS_EmptySet DEF OnLinks, F

LEMMA InitTyped ==
  ASSUME InitLife
  PROVE  Typed
<1> DEFINE t == [link |-> FALSE, queue |-> <<>>, task |-> "off", sending |-> Nothing]
<1>1. t \in Links /\ LinkRight(t) /\ Len(t.queue) = 0 /\ t.sending \notin Bundle
  BY BundleAssumption DEF Links, LinkRight
<1>2. tx = [h \in Hop |-> t] /\ agent = [a \in Agent |-> NewAgent] /\ signals = <<>>
  BY DEF InitLife
<1>3. /\ NewAgent \in Tasks(setting) /\ NewAgent.item = NoItem /\ NewAgent.at = "off"
      /\ Len(NewAgent.queue) = 0
  BY DEF NewAgent, Tasks, Ats
<1>4. NewAgent.item \in Items <=> NewAgent.at \in Asked
  BY <1>3, ItemsAre DEF Asked
<1>5. t.task = "off"
  OBVIOUS
<1> HIDE DEF t
<1>6. LifeTypeOK
  <2>1. bundle \in [Bundle -> [at : {"out", "live", "forwarded", "deleted"}, refs : Nat, failed : BOOLEAN]]
    BY DEF InitLife, NewBundle
  <2>2. /\ \A h \in Hop : /\ Len(tx[h].queue) <= TX_QUEUE_LENGTH
                          /\ tx[h].sending \in Bundle <=> tx[h].task = "sending"
        /\ \A a \in Agent : /\ Len(agent[a].queue) <= AGENT_QUEUE_LENGTH
                            /\ agent[a].item = NoItem
    BY <1>1, <1>2, <1>3, <1>5, LengthAssumption
  <2> QED BY <2>1, <2>2 DEF LifeTypeOK, InitLife
<1> QED BY <1>1, <1>2, <1>3, <1>4, <1>6 DEF Typed

LEMMA InitRight ==
  ASSUME InitLife
  PROVE  IInv
<1>1. Typed
  BY InitTyped
<1>2. signals = <<>> /\ bdm = NoAgent
  BY DEF InitLife
<1>3. AgentsRight
  BY <1>2, NoneAtFirst DEF AgentsRight, TaskRight
<1>4. ASSUME NEW b \in Bundle
      PROVE  RightAt(setting, bundle, signals, tx, agent, b)
  <2>1. OnLinks(tx, b) = 0
    BY NoCommands DEF InitLife
  <2>2. /\ Count(signals, Settled(setting, b)) = 0
        /\ Count(signals, Answers(setting, b)) = 0
        /\ Count(signals, Incoming(setting, b)) = 0
    BY <1>2, NoneAtFirst
  <2>3. ~WithAgents(agent, b)
    BY ItemsAre DEF InitLife, NewAgent, WithAgents, Has, With
  <2>4. bundle[b].at = "out" /\ bundle[b].refs = 0
    BY DEF InitLife, NewBundle
  <2>5. Under(setting, signals, tx, b) = 0 /\ ~Owned(setting, signals, agent, b)
    BY <2>1, <2>2, <2>3 DEF Under, Owned
  <2> QED BY <2>2, <2>4, <2>5 DEF RightAt, Right, Covers
<1> QED BY <1>1, <1>3, <1>4 DEF IInv, Counted

LEMMA NextRight ==
  ASSUME IInv, [NextLife]_lifeVars
  PROVE  IInv'
<1>1. CASE UNCHANGED lifeVars
  BY <1>1 DEF lifeVars, IInv, Typed, LifeTypeOK, AgentsRight, Counted
<1>2. CASE NextLife
  <2>1. Typed /\ AgentsRight /\ Counted
    BY <1>2 DEF IInv, NextLife
  <2>2. CASE BundleProcessor
    BY <2>1, <2>2, ProcessorStep DEF IInv
  <2>3. CASE \E b \in Bundle : Arrive(b)
    BY <2>1, <2>3, ArriveStep DEF IInv
  <2>4. ASSUME NEW a \in Agent, Subscribe(a) \/ HangUp(a) \/ Keepalive(a) \/ AgentTask(a)
        PROVE  IInv'
    <3>1. CASE Subscribe(a)
      BY <2>1, <3>1, SubscribeStep DEF IInv
    <3>2. CASE HangUp(a)
      BY <2>1, <3>2, DisconnectStep DEF IInv
    <3>3. CASE Keepalive(a)
      BY <2>1, <3>3, KeepaliveStep DEF IInv
    <3>4. CASE AgentTask(a)
      BY <2>1, <3>4, AgentTaskStep DEF IInv
    <3> QED BY <2>4, <3>1, <3>2, <3>3, <3>4
  <2>5. ASSUME NEW h \in Hop, StartLink(h) \/ EndLink(h) \/ TxTask(h)
        PROVE  IInv'
    <3>1. CASE StartLink(h)
      BY <2>1, <3>1, StartLinkStep DEF IInv
    <3>2. CASE EndLink(h)
      BY <2>1, <3>2, EndLinkStep DEF IInv
    <3>3. CASE TxTask(h)
      BY <2>1, <3>3, TxTaskStep DEF IInv
    <3> QED BY <2>5, <3>1, <3>2, <3>3
  <2> QED BY <1>2, <2>2, <2>3, <2>4, <2>5 DEF NextLife
<1> QED BY <1>1, <1>2

-----------------------------------------------------------------------------
\* The counts of the invariant are those of BundleLife.
LEMMA TransmissionsAre ==
  ASSUME Typed, NEW b \in Bundle
  PROVE  Transmissions(b) = Under(setting, signals, tx, b)
<1> DEFINE F == [h \in Hop |-> Commands(tx[h], b)]
<1>1. UNION { {h} \X Commands(tx[h], b) : h \in Hop } = Pairs(Hop, F)
  BY DEF Pairs
<1>2. Results(b) = Among(signals, Settled(setting, b))
  <2>1. signals \in Seq(Signals(setting))
    BY TypedAre
  <2>2. \A i \in DOMAIN signals : signals[i] \in Signals(setting)
    BY <2>1
  <2> QED BY <2>2, Zenon DEF Results, Among, Settled
<1>3. OnLinks(tx, b) = Cardinality(Pairs(Hop, F))
  BY DEF OnLinks
<1> HIDE DEF F
<1>4. Transmissions(b) = Cardinality(Pairs(Hop, F)) + Cardinality(Results(b))
  BY <1>1, Zenon DEF Transmissions
<1> QED BY <1>2, <1>3, <1>4, Zenon DEF Under, Count

\* What is counted is there.
LEMMA SomeAmong ==
  ASSUME NEW X, NEW q \in Seq(X), NEW Y, Count(q, Y) > 0
  PROVE  \E i \in DOMAIN q : q[i] \in Y
<1>1. Among(q, Y) # {}
  BY AmongFinite DEF Count
<1> QED BY <1>1 DEF Among

LEMMA InvCounts ==
  ASSUME IInv
  PROVE  LifeInv
<1>1. Typed /\ LifeTypeOK
  BY DEF IInv, Typed
<1>2. ASSUME ~crashed, NEW b \in Bundle
      PROVE  /\ Covers(setting, bundle[b].refs, Transmissions(b))
             /\ Freed(b) => bundle[b].refs = 0
             /\ bundle[b].at = "live" =>
                  \/ bundle[b].refs > 0 \/ Dispatched(b)
                  \/ \E i \in DOMAIN signals : signals[i].type = "INCOMING" /\ signals[i].b = b
  <2>1. RightAt(setting, bundle, signals, tx, agent, b)
    BY <1>2 DEF IInv, Counted
  <2>2. Transmissions(b) = Under(setting, signals, tx, b)
    BY <1>1, TransmissionsAre
  <2>3. /\ Covers(setting, bundle[b].refs, Transmissions(b))
        /\ Freed(b) => bundle[b].refs = 0
    BY <2>1, <2>2 DEF RightAt, Right, Freed
  <2>4. ASSUME bundle[b].at = "live", ~(bundle[b].refs > 0)
        PROVE  \/ Dispatched(b)
               \/ \E i \in DOMAIN signals : signals[i].type = "INCOMING" /\ signals[i].b = b
    <3>1. \/ WithAgents(agent, b) \/ Count(signals, Answers(setting, b)) > 0
          \/ Count(signals, Incoming(setting, b)) > 0
      BY <2>1, <2>2, <2>3, <2>4 DEF RightAt, Right, Owned
    <3>2. CASE WithAgents(agent, b)
      BY <3>2 DEF WithAgents, Has, With, Dispatched
    <3>3. CASE Count(signals, Answers(setting, b)) > 0
      <4>1. \E i \in DOMAIN signals : signals[i] \in Answers(setting, b)
        BY <1>1, <3>3, TypedAre, SomeAmong
      <4> QED BY <4>1 DEF Answers, Dispatched
    <3>4. CASE Count(signals, Incoming(setting, b)) > 0
      <4>1. \E i \in DOMAIN signals : signals[i] \in Incoming(setting, b)
        BY <1>1, <3>4, TypedAre, SomeAmong
      <4> QED BY <4>1 DEF Incoming
    <3> QED BY <3>1, <3>2, <3>3, <3>4
  <2> QED BY <2>3, <2>4
<1> QED BY <1>1, <1>2 DEF LifeInv, RefsCounted, NotForgotten

-----------------------------------------------------------------------------
\* The invariant holds of every behaviour, for any bundles, links, dispatchers and settings.
THEOREM LifeInvariant == SpecLife => []IInv
<1>1. InitLife => IInv
  BY InitRight
<1>2. IInv /\ [NextLife]_lifeVars => IInv'
  BY NextRight
<1> QED BY <1>1, <1>2, PTL DEF SpecLife

\* bundle_processor.c:584 the count of a bundle covers its transmissions, and is their number if no
\* fragment is cut again; none of a bundle that is freed is under way, and a bundle that is not
\* freed is being transmitted, with a dispatcher, or waits for the bundle processor.
THEOREM BundlesCounted == SpecLife => []LifeInv
<1>1. IInv => LifeInv
  BY InvCounts
<1> QED BY <1>1, LifeInvariant, PTL

-----------------------------------------------------------------------------
(* TCPCLv3 sessions. *)

\* What a connection's state and node ID say of where its task is.
StateTells ==
  \A c \in Connections :
    /\ conn[c].state = "inactive" <=> conn[c].at \in {"free", "leave"}
    /\ conn[c].at \in {"join", "meet", "linked", "ending", "ended"} => conn[c].eid \in Eids

\* Who has the table's semaphore has it alone, and so the entry it looked up stays.
TableHeld ==
  /\ call.at \in {"table", "queue"} =>
       /\ \A c \in Connections : conn[c].at # "meet"
       /\ call.param = param_htab[call.eid]
  /\ \A c, d \in Connections : conn[c].at = "meet" /\ conn[d].at = "meet" => c = d
  /\ \A c \in Connections : conn[c].at = "meet" => Other(c) \notin {c, Nobody}

\* The bundle processor's call is about a connection with the node it names.
CallMeans ==
  call.at # "idle" =>
    /\ call.eid \in Eids /\ call.param \in Connections /\ call.op \in Ops
    /\ call.at \in {"queue", "push"} => call.op = "send"

SessionsInvariant ==
  /\ TypeOK /\ NoUseAfterFree /\ PlannedIsListed /\ OnlyInContact
  /\ StateTells /\ TableHeld /\ CallMeans

LEMMA Initial == Init => SessionsInvariant
<1> SUFFICES ASSUME Init PROVE SessionsInvariant
  OBVIOUS
<1> USE TcpclAssumption DEF Init, TcpclInit, Unused, NoCall
<1>1. TypeOK
  BY DEF TypeOK, ContactParameters, Call, Places, States
<1>2. NoUseAfterFree /\ PlannedIsListed /\ OnlyInContact
  BY DEF NoUseAfterFree, PlannedIsListed, OnlyInContact, Planned
<1>3. StateTells /\ TableHeld /\ CallMeans
  BY DEF StateTells, TableHeld, CallMeans
<1> QED BY <1>1, <1>2, <1>3 DEF SessionsInvariant

\* A connection whose parameters are k, as far as its own fields are concerned.
Sound(k) ==
  /\ k \in ContactParameters
  /\ k.state = "established" <=> k.at \in {"linked", "ending", "ended"}
  /\ k.state = "inactive" <=> k.at \in {"free", "leave"}
  /\ k.at \in {"join", "meet", "linked", "ending", "ended"} => k.eid \in Eids

LEMMA AllSound ==
  ASSUME SessionsInvariant
  PROVE  \A c \in Connections : Sound(conn[c])
BY DEF SessionsInvariant, TypeOK, StateTells, Sound

\* A step of one task that leaves the table, the call and its own node ID alone, and
\* neither becomes planned nor takes the table, keeps the invariant.
LEMMA SessionQuiet ==
  ASSUME SessionsInvariant, NEW c \in Connections, NEW k, Sound(k),
         conn[c].at # "free", k.at \notin {"free", "meet"},
         conn[c].eid # NoEid => k.eid = conn[c].eid,
         ~k.opportunistic => Planned(c),
         call.at = "push" /\ call.param = c => k.at \in {"linked", "ending"},
         conn' = [conn EXCEPT ![c] = k],
         UNCHANGED <<param_htab, call, contacts>>,
         calls' \in Nat, accepts' \in Nat, losses' \in Nat
  PROVE  SessionsInvariant'
<1> USE TcpclAssumption DEF SessionsInvariant
<1>1. conn \in [Connections -> ContactParameters] /\ param_htab \in [Eids -> Connections \cup {Nobody}]
  BY DEF TypeOK
<1>2. /\ conn' \in [Connections -> ContactParameters]
      /\ \A d \in Connections : conn'[d] = IF d = c THEN k ELSE conn[d]
  BY <1>1 DEF Sound
<1>3. \A d \in Connections : conn[d].eid # NoEid => conn'[d].eid = conn[d].eid
  BY <1>2
<1>4. \A d \in Connections : Planned(d)' => Planned(d)
  BY <1>2 DEF Planned
<1>5. TypeOK'
  BY <1>2 DEF TypeOK, Sound
<1>6. NoUseAfterFree'
  <2>1. ASSUME NEW e \in Eids, param_htab[e] # Nobody
        PROVE  conn'[param_htab[e]].at # "free" /\ conn'[param_htab[e]].eid = e
    BY <1>1, <1>2, <1>3, <2>1 DEF NoUseAfterFree
  <2>2. call.at # "idle" => call.param # Nobody /\ conn'[call.param].at # "free"
    BY <1>2 DEF NoUseAfterFree, CallMeans
  <2>3. call.at = "push" => conn'[call.param].at \in {"linked", "ending"}
    BY <1>2 DEF NoUseAfterFree, CallMeans
  <2> QED BY <2>1, <2>2, <2>3 DEF NoUseAfterFree
<1>7. \A d \in Connections : Planned(d)' => conn'[d].eid = conn[d].eid
  BY <1>3, <1>4 DEF PlannedIsListed
<1>8. PlannedIsListed'
  BY <1>4, <1>7 DEF PlannedIsListed
<1>9. OnlyInContact'
  BY <1>4, <1>7 DEF OnlyInContact
<1>10. StateTells'
  BY <1>2 DEF StateTells, Sound
<1>11. \A d \in Connections : conn'[d].at = "meet" => conn[d].at = "meet" /\ conn'[d] = conn[d]
  BY <1>2
<1>12. TableHeld'
  BY <1>11 DEF TableHeld, Other
<1>13. CallMeans'
  BY DEF CallMeans
<1> QED BY <1>5, <1>6, <1>8, <1>9, <1>10, <1>12, <1>13

\* What is tried next is never more than what was planned.
LEMMA NextTryLemma ==
  ASSUME NEW k, Sound(k), k.at \in {"start", "dial", "shake", "ended"}
  PROVE  /\ Sound(NextTry(k))
         /\ NextTry(k).at \in {"dial", "leave"} /\ NextTry(k).eid = k.eid
         /\ NextTry(k).opportunistic = k.opportunistic
<1>1. CASE ~k.opportunistic /\ k.cla_addr # NoAddr
  <2> DEFINE n == [k EXCEPT !.at = "dial", !.state = "connecting"]
  <2>1. NextTry(k) = n
    BY <1>1 DEF NextTry
  <2>2. Sound(n) /\ n.at = "dial" /\ n.eid = k.eid /\ n.opportunistic = k.opportunistic
    BY DEF Sound, ContactParameters, Places, States
  <2> QED BY <1>1, <2>1, <2>2
<1>2. CASE ~(~k.opportunistic /\ k.cla_addr # NoAddr)
  <2> DEFINE n == [k EXCEPT !.at = "leave", !.state = "inactive"]
  <2>1. NextTry(k) = n
    BY <1>2 DEF NextTry
  <2>2. Sound(n) /\ n.at = "leave" /\ n.eid = k.eid /\ n.opportunistic = k.opportunistic
    BY DEF Sound, ContactParameters, Places, States
  <2> QED BY <2>1, <2>2
<1> QED BY <1>1, <1>2

LEMMA NextTryStep ==
  ASSUME SessionsInvariant, NEW c \in Connections, conn[c].at \in {"start", "dial", "shake", "ended"},
         conn' = [conn EXCEPT ![c] = NextTry(@)],
         UNCHANGED <<param_htab, call, contacts, counters>>
  PROVE  SessionsInvariant'
<1>1. Sound(conn[c])
  BY AllSound
<1>2. conn' = [conn EXCEPT ![c] = NextTry(conn[c])]
  BY DEF SessionsInvariant, TypeOK
<1> DEFINE k == NextTry(conn[c])
<1>3. /\ Sound(k) /\ k.at \in {"dial", "leave"} /\ k.eid = conn[c].eid
      /\ k.opportunistic = conn[c].opportunistic
  BY <1>1, NextTryLemma
<1>4. ~k.opportunistic => Planned(c)
  BY <1>3 DEF Planned
<1>5. ~(call.at = "push" /\ call.param = c)
  BY DEF SessionsInvariant, NoUseAfterFree
<1>6. calls' \in Nat /\ accepts' \in Nat /\ losses' \in Nat
  BY DEF SessionsInvariant, TypeOK, counters
<1> HIDE DEF k
<1>7. conn' = [conn EXCEPT ![c] = k]
  BY <1>2 DEF k
<1> QED BY <1>3, <1>4, <1>5, <1>6, <1>7, SessionQuiet

\* A step that changes no more than where the task of c is.
LEMMA PlaceStep ==
  ASSUME SessionsInvariant, NEW c \in Connections, NEW k, Sound(k),
         conn[c].at # "free", k.at \notin {"free", "meet"},
         conn[c].eid # NoEid => k.eid = conn[c].eid,
         k.opportunistic = conn[c].opportunistic,
         call.at = "push" /\ call.param = c => k.at \in {"linked", "ending"},
         conn' = [conn EXCEPT ![c] = k],
         UNCHANGED <<param_htab, call, contacts>>,
         calls' \in Nat, accepts' \in Nat, losses' \in Nat
  PROVE  SessionsInvariant'
<1>1. ~k.opportunistic => Planned(c)
  BY DEF Planned
<1> QED BY <1>1, SessionQuiet

LEMMA DialStep ==
  ASSUME SessionsInvariant, NEW c \in Connections, Dial(c), UNCHANGED <<contacts, counters>>
  PROVE  SessionsInvariant'
<1> DEFINE k == [conn[c] EXCEPT !.at = "shake", !.state = "connected"]
<1>1. Sound(conn[c]) /\ conn[c].at = "dial"
  BY AllSound DEF Dial
<1>2. Sound(k) /\ k.at = "shake" /\ k.eid = conn[c].eid /\ k.opportunistic = conn[c].opportunistic
  BY <1>1 DEF Sound, ContactParameters, Places, States
<1>3. conn' = [conn EXCEPT ![c] = k]
  BY DEF Dial, SessionsInvariant, TypeOK, ContactParameters
<1>4. ~(call.at = "push" /\ call.param = c)
  BY <1>1 DEF SessionsInvariant, NoUseAfterFree
<1>5. calls' \in Nat /\ accepts' \in Nat /\ losses' \in Nat /\ UNCHANGED <<param_htab, call>>
  BY DEF SessionsInvariant, TypeOK, counters, Dial
<1> HIDE DEF k
<1> QED BY <1>1, <1>2, <1>3, <1>4, <1>5, PlaceStep

LEMMA HandshakeStep ==
  ASSUME SessionsInvariant, NEW c \in Connections, NEW e \in Eids, Handshake(c, e),
         UNCHANGED <<contacts, counters>>
  PROVE  SessionsInvariant'
<1> DEFINE k == [conn[c] EXCEPT !.at = "join", !.eid = IF @ = NoEid THEN e ELSE @]
<1>1. Sound(conn[c]) /\ conn[c].at = "shake"
  BY AllSound DEF Handshake
<1>2. /\ Sound(k) /\ k.at = "join" /\ k.opportunistic = conn[c].opportunistic
      /\ conn[c].eid # NoEid => k.eid = conn[c].eid
  BY <1>1 DEF Sound, ContactParameters, Places, States
<1>3. conn' = [conn EXCEPT ![c] = k]
  BY DEF Handshake, SessionsInvariant, TypeOK, ContactParameters
<1>4. ~(call.at = "push" /\ call.param = c)
  BY <1>1 DEF SessionsInvariant, NoUseAfterFree
<1>5. calls' \in Nat /\ accepts' \in Nat /\ losses' \in Nat /\ UNCHANGED <<param_htab, call>>
  BY DEF SessionsInvariant, TypeOK, counters, Handshake
<1> HIDE DEF k
<1> QED BY <1>1, <1>2, <1>3, <1>4, <1>5, PlaceStep

\* The disconnect handler, and the end of the tasks, for which the TX task needs the queue.
LEMMA EndingStep ==
  ASSUME SessionsInvariant, NEW c \in Connections,
         Disconnect(c) \/ TasksEnd(c), UNCHANGED contacts,
         calls' \in Nat, accepts' \in Nat, losses' \in Nat
  PROVE  SessionsInvariant'
<1>1. CASE Disconnect(c)
  <2> DEFINE k == [conn[c] EXCEPT !.at = "ending"]
  <2>1. Sound(conn[c]) /\ conn[c].at = "linked"
    BY <1>1, AllSound DEF Disconnect
  <2>2. Sound(k) /\ k.at = "ending" /\ k.eid = conn[c].eid /\ k.opportunistic = conn[c].opportunistic
    BY <2>1 DEF Sound, ContactParameters, Places, States
  <2>3. conn' = [conn EXCEPT ![c] = k] /\ UNCHANGED <<param_htab, call>>
    BY <1>1 DEF Disconnect, SessionsInvariant, TypeOK, ContactParameters
  <2> HIDE DEF k
  <2> QED BY <2>1, <2>2, <2>3, PlaceStep
<1>2. CASE TasksEnd(c)
  <2> DEFINE k == [conn[c] EXCEPT !.at = "ended"]
  <2>1. Sound(conn[c]) /\ conn[c].at = "ending" /\ ~(call.at = "push" /\ call.param = c)
    BY <1>2, AllSound DEF TasksEnd, QueueFree
  <2>2. Sound(k) /\ k.at = "ended" /\ k.eid = conn[c].eid /\ k.opportunistic = conn[c].opportunistic
    BY <2>1 DEF Sound, ContactParameters, Places, States
  <2>3. conn' = [conn EXCEPT ![c] = k] /\ UNCHANGED <<param_htab, call>>
    BY <1>2 DEF TasksEnd, SessionsInvariant, TypeOK, ContactParameters
  <2> HIDE DEF k
  <2> QED BY <2>1, <2>2, <2>3, PlaceStep
<1> QED BY <1>1, <1>2

\* A connection c enters the table; the one it replaces is not planned (any more).
LEMMA ListStep ==
  ASSUME SessionsInvariant, NEW c \in Connections,
         conn[c].at \in {"join", "meet"}, call.at \notin {"table", "queue"},
         \A d \in Connections : d # c => conn[d].at # "meet",
         conn' \in [Connections -> ContactParameters], Sound(conn'[c]),
         conn'[c].at = "linked", conn'[c].eid = conn[c].eid,
         \A d \in Connections : d # c =>
           /\ Sound(conn'[d])
           /\ conn'[d].at = conn[d].at /\ conn'[d].eid = conn[d].eid
           /\ Planned(d)' => Planned(d) /\ d # Other(c),
         Planned(c)' => conn[c].eid \in contacts,
         param_htab' = [param_htab EXCEPT ![conn[c].eid] = c],
         UNCHANGED <<call, contacts, counters>>
  PROVE  SessionsInvariant'
<1> USE TcpclAssumption DEF SessionsInvariant
<1>1. conn[c].eid \in Eids
  BY DEF StateTells
<1>2. /\ param_htab' \in [Eids -> Connections \cup {Nobody}]
      /\ \A e \in Eids : param_htab'[e] = IF e = conn[c].eid THEN c ELSE param_htab[e]
  BY <1>1 DEF TypeOK
<1>3. \A d \in Connections : Sound(conn'[d]) /\ conn'[d].eid = conn[d].eid
  OBVIOUS
<1>4. TypeOK'
  BY <1>2, <1>3 DEF TypeOK, counters, Sound
<1>5. NoUseAfterFree'
  <2>1. ASSUME NEW e \in Eids, param_htab'[e] # Nobody
        PROVE  conn'[param_htab'[e]].at # "free" /\ conn'[param_htab'[e]].eid = e
    <3>1. CASE e = conn[c].eid
      BY <1>2, <3>1
    <3>2. CASE e # conn[c].eid
      <4>1. param_htab'[e] = param_htab[e] /\ param_htab[e] \in Connections
        BY <1>2, <2>1, <3>2
      <4>2. conn[param_htab[e]].at # "free" /\ conn[param_htab[e]].eid = e
        BY <2>1, <4>1 DEF NoUseAfterFree
      <4> QED BY <3>2, <4>1, <4>2
    <3> QED BY <3>1, <3>2
  <2>2. call.at # "idle" => call.param # Nobody /\ conn'[call.param].at # "free"
    BY DEF NoUseAfterFree, CallMeans
  <2>3. call.at = "push" => conn'[call.param].at \in {"linked", "ending"}
    BY DEF NoUseAfterFree, CallMeans
  <2> QED BY <2>1, <2>2, <2>3 DEF NoUseAfterFree
<1>6. PlannedIsListed'
  <2>1. ASSUME NEW d \in Connections, Planned(d)'
        PROVE  conn'[d].eid \in Eids /\ param_htab'[conn'[d].eid] = d
    <3>1. CASE d = c
      BY <1>1, <1>2, <3>1
    <3>2. CASE d # c
      <4>1. Planned(d) /\ d # Other(c)
        BY <2>1, <3>2
      <4>2. conn[d].eid \in Eids /\ param_htab[conn[d].eid] = d
        BY <4>1 DEF PlannedIsListed
      <4>3. conn[d].eid # conn[c].eid
        BY <4>1, <4>2 DEF Other
      <4> QED BY <1>2, <1>3, <4>2, <4>3
    <3> QED BY <3>1, <3>2
  <2> QED BY <2>1 DEF PlannedIsListed
<1>7. OnlyInContact'
  BY <1>3 DEF OnlyInContact
<1>8. StateTells'
  BY <1>3 DEF StateTells, Sound
<1>9. TableHeld'
  <2>1. \A d \in Connections : conn'[d].at # "meet"
    OBVIOUS
  <2> QED BY <2>1 DEF TableHeld
<1>10. CallMeans'
  BY DEF CallMeans
<1> QED BY <1>4, <1>5, <1>6, <1>7, <1>8, <1>9, <1>10

LEMMA EstablishedLemma ==
  ASSUME NEW k, Sound(k), k.eid \in Eids
  PROVE  /\ Sound(Established(k)) /\ Established(k).at = "linked"
         /\ Established(k).eid = k.eid /\ Established(k).opportunistic = k.opportunistic
BY DEF Established, Sound, ContactParameters, Places, States

\* The table's semaphore is taken: the connection is alone, or has to meet the other one.
LEMMA JoinStep ==
  ASSUME SessionsInvariant, NEW c \in Connections, Join(c), UNCHANGED <<contacts, counters>>
  PROVE  SessionsInvariant'
<1> USE TcpclAssumption DEF SessionsInvariant
<1>1. /\ conn[c].at = "join" /\ call.at \notin {"table", "queue"} /\ UNCHANGED call
      /\ \A d \in Connections : conn[d].at # "meet"
  BY DEF Join, TableFree
<1>2. conn \in [Connections -> ContactParameters] /\ conn[c].eid \in Eids /\ Sound(conn[c])
  BY <1>1, AllSound DEF TypeOK, StateTells
<1>3. CASE Other(c) \in {c, Nobody}
  <2> DEFINE k == Established(conn[c])
  <2>1. conn' = [conn EXCEPT ![c] = k] /\ param_htab' = [param_htab EXCEPT ![conn[c].eid] = c]
    BY <1>2, <1>3 DEF Join
  <2>2. Sound(k) /\ k.at = "linked" /\ k.eid = conn[c].eid /\ k.opportunistic = conn[c].opportunistic
    BY <1>2, EstablishedLemma
  <2> HIDE DEF k
  <2>3. /\ conn' \in [Connections -> ContactParameters]
        /\ conn'[c] = k /\ \A d \in Connections : d # c => conn'[d] = conn[d]
    BY <1>2, <2>1, <2>2 DEF Sound
  <2>4. ASSUME NEW d \in Connections, d # c
        PROVE  /\ Sound(conn'[d])
               /\ conn'[d].at = conn[d].at /\ conn'[d].eid = conn[d].eid
               /\ Planned(d)' => Planned(d) /\ d # Other(c)
    <3>1. conn'[d] = conn[d] /\ Sound(conn[d])
      BY <2>3, <2>4, AllSound
    <3> QED BY <1>3, <2>4, <3>1 DEF Planned
  <2>5. Planned(c)' => conn[c].eid \in contacts
    BY <1>1, <2>2, <2>3 DEF Planned, OnlyInContact, StateTells
  <2> QED BY <1>1, <2>1, <2>2, <2>3, <2>4, <2>5, ListStep
<1>4. CASE Other(c) \notin {c, Nobody}
  <2> DEFINE k == [conn[c] EXCEPT !.at = "meet"]
  <2>1. conn' = [conn EXCEPT ![c] = k] /\ UNCHANGED param_htab
    BY <1>2, <1>4 DEF Join, ContactParameters
  <2>2. /\ Sound(k) /\ k.at = "meet" /\ k.eid = conn[c].eid
        /\ k.opportunistic = conn[c].opportunistic /\ k.state = conn[c].state
    BY <1>1, <1>2 DEF Sound, ContactParameters, Places, States
  <2> HIDE DEF k
  <2>3. /\ conn' \in [Connections -> ContactParameters]
        /\ \A d \in Connections : conn'[d] = IF d = c THEN k ELSE conn[d]
    BY <1>2, <2>1, <2>2 DEF Sound
  <2>4. \A d \in Connections : /\ Sound(conn'[d]) /\ conn'[d].eid = conn[d].eid
                               /\ Planned(d)' <=> Planned(d)
                               /\ conn'[d].at = "free" <=> conn[d].at = "free"
    BY <1>1, <2>2, <2>3, AllSound DEF Planned
  <2>5. TypeOK'
    BY <1>1, <2>1, <2>3, <2>4 DEF TypeOK, counters, Sound
  <2>6. NoUseAfterFree'
    <3>1. \A e \in Eids : param_htab[e] # Nobody =>
            conn'[param_htab[e]].at # "free" /\ conn'[param_htab[e]].eid = e
      BY <2>4 DEF NoUseAfterFree, TypeOK
    <3>2. call.at # "idle" => conn'[call.param].at # "free"
      BY <2>4 DEF NoUseAfterFree, CallMeans
    <3>3. call.at = "push" => conn'[call.param].at \in {"linked", "ending"}
      BY <1>1, <2>3 DEF NoUseAfterFree, CallMeans
    <3> QED BY <1>1, <2>1, <3>1, <3>2, <3>3 DEF NoUseAfterFree
  <2>7. PlannedIsListed' /\ OnlyInContact'
    BY <2>1, <2>4 DEF PlannedIsListed, OnlyInContact
  <2>8. StateTells'
    BY <2>4 DEF StateTells, Sound
  <2>9. TableHeld'
    BY <1>1, <1>4, <2>1, <2>2, <2>3 DEF TableHeld, Other
  <2>10. CallMeans'
    BY <1>1 DEF CallMeans
  <2> QED BY <2>5, <2>6, <2>7, <2>8, <2>9, <2>10
<1> QED BY <1>3, <1>4

\* A takeover: the planned status moves, and does not stay with both.
LEMMA MeetStep ==
  ASSUME SessionsInvariant, NEW c \in Connections, Meet(c), UNCHANGED <<contacts, counters>>
  PROVE  SessionsInvariant'
<1> USE TcpclAssumption DEF SessionsInvariant
<1> DEFINE other == Other(c)
           k == Established(conn[c])
           addr == IF conn[c].cla_addr = NoAddr THEN conn[other].cla_addr ELSE conn[c].cla_addr
           rest == IF conn[c].cla_addr = NoAddr THEN NoAddr ELSE conn[other].cla_addr
           taken == [k EXCEPT !.opportunistic = FALSE, !.cla_addr = addr]
           left == [conn[other] EXCEPT !.opportunistic = TRUE, !.cla_addr = rest]
<1>1. conn[c].at = "meet" /\ conn' = TakeOver(c, other)
  BY DEF Meet
<1>2. call.at \notin {"table", "queue"} /\ \A d \in Connections : d # c => conn[d].at # "meet"
  BY <1>1 DEF TableHeld
<1>3. conn \in [Connections -> ContactParameters] /\ conn[c].eid \in Eids /\ Sound(conn[c])
  BY <1>1, AllSound DEF TypeOK, StateTells
<1>4. /\ other \in Connections /\ other # c
      /\ conn[other].eid = conn[c].eid /\ Sound(conn[other])
  <2>1. other \in Connections /\ other # c
    BY <1>1, <1>3 DEF TableHeld, Other, TypeOK
  <2>2. conn[other].eid = conn[c].eid
    BY <1>3, <2>1 DEF NoUseAfterFree, Other
  <2> QED BY <2>1, <2>2, AllSound
<1>5. Sound(k) /\ k.at = "linked" /\ k.eid = conn[c].eid /\ k.opportunistic = conn[c].opportunistic
  BY <1>3, EstablishedLemma
<1>6. ~Planned(c)
  BY <1>3, <1>4 DEF PlannedIsListed, Other
<1>7. conn[c].opportunistic
  BY <1>6 DEF Planned
<1>8. UNCHANGED call /\ param_htab' = [param_htab EXCEPT ![conn[c].eid] = c]
  BY DEF Meet
<1>9. CASE conn[other].opportunistic
  <2>1. conn' = [conn EXCEPT ![c] = k]
    BY <1>1, <1>3, <1>9 DEF TakeOver
  <2> HIDE DEF k
  <2>2. /\ conn' \in [Connections -> ContactParameters]
        /\ conn'[c] = k /\ \A d \in Connections : d # c => conn'[d] = conn[d]
    BY <1>3, <1>5, <2>1 DEF Sound
  <2>3. ASSUME NEW d \in Connections, d # c
        PROVE  /\ Sound(conn'[d])
               /\ conn'[d].at = conn[d].at /\ conn'[d].eid = conn[d].eid
               /\ Planned(d)' => Planned(d) /\ d # Other(c)
    <3>1. conn'[d] = conn[d] /\ Sound(conn[d])
      BY <2>2, <2>3, AllSound
    <3> QED BY <1>9, <3>1 DEF Planned
  <2>4. ~Planned(c)'
    BY <1>5, <1>7, <2>2 DEF Planned
  <2> QED BY <1>1, <1>2, <1>5, <1>8, <2>2, <2>3, <2>4, ListStep
<1>10. CASE ~conn[other].opportunistic
  <2>1. conn' = [conn EXCEPT ![c] = taken, ![other] = left]
    BY <1>1, <1>10 DEF TakeOver
  <2>2. addr \in Addrs \cup {NoAddr}
    BY <1>3, <1>4 DEF Sound, ContactParameters
  <2> HIDE DEF k, addr
  <2>3. Sound(taken) /\ taken.at = "linked" /\ taken.eid = conn[c].eid
    BY <1>5, <2>2 DEF Sound, ContactParameters
  <2>4. /\ Sound(left) /\ left.opportunistic = TRUE
        /\ left.at = conn[other].at /\ left.eid = conn[other].eid
    BY <1>4 DEF Sound, ContactParameters
  <2> HIDE DEF taken, left
  <2>5. /\ conn' \in [Connections -> ContactParameters]
        /\ conn'[c] = taken /\ conn'[other] = left
        /\ \A d \in Connections : d \notin {c, other} => conn'[d] = conn[d]
    BY <1>3, <1>4, <2>1, <2>3, <2>4 DEF Sound
  <2>6. ASSUME NEW d \in Connections, d # c
        PROVE  /\ Sound(conn'[d])
               /\ conn'[d].at = conn[d].at /\ conn'[d].eid = conn[d].eid
               /\ Planned(d)' => Planned(d) /\ d # Other(c)
    <3>1. CASE d = other
      <4>1. ~Planned(d)'
        BY <2>4, <2>5, <3>1 DEF Planned
      <4> QED BY <2>4, <2>5, <3>1, <4>1
    <3>2. CASE d # other
      <4>1. conn'[d] = conn[d] /\ Sound(conn[d])
        BY <2>5, <2>6, <3>2, AllSound
      <4> QED BY <3>2, <4>1 DEF Planned
    <3> QED BY <3>1, <3>2
  <2>7. conn[c].eid \in contacts
    BY <1>4, <1>10 DEF Planned, OnlyInContact
  <2> QED BY <1>1, <1>2, <1>8, <2>3, <2>5, <2>6, <2>7, ListStep
<1> QED BY <1>9, <1>10

\* Parameters are freed when the table has no entry for them any more.
LEMMA SessionLeaves ==
  ASSUME SessionsInvariant, NEW c \in Connections, Leave(c), UNCHANGED <<contacts, counters>>
  PROVE  SessionsInvariant'
<1> USE TcpclAssumption DEF SessionsInvariant
<1>1. /\ conn[c].at = "leave" /\ UNCHANGED call
      /\ conn[c].eid # NoEid => TableFree
  BY DEF Leave
<1>2. conn' = [conn EXCEPT ![c] = Unused] /\ Sound(Unused)
  BY DEF Leave, Sound, Unused, ContactParameters, Places, States
<1>3. /\ conn' \in [Connections -> ContactParameters]
      /\ conn'[c] = Unused /\ \A d \in Connections : d # c => conn'[d] = conn[d]
  BY <1>2 DEF TypeOK, Sound
<1>4. /\ param_htab' \in [Eids -> Connections \cup {Nobody}]
      /\ \A e \in Eids : param_htab'[e] = IF param_htab[e] = c THEN Nobody ELSE param_htab[e]
  BY DEF Leave, TypeOK, NoUseAfterFree
<1>5. \A d \in Connections : Sound(conn'[d])
  BY <1>2, <1>3, AllSound
<1>6. TypeOK'
  BY <1>1, <1>3, <1>4, <1>5 DEF TypeOK, counters, Sound
<1>7. \A d \in Connections : Planned(d)' => d # c /\ Planned(d) /\ conn'[d] = conn[d]
  BY <1>3 DEF Planned, Unused
<1>8. call.at # "idle" => call.param # c
  <2>1. CASE call.at \in {"table", "queue"}
    <3>1. conn[c].eid = NoEid
      BY <1>1, <2>1 DEF TableFree
    <3>2. call.eid \in Eids /\ call.param = param_htab[call.eid] /\ call.param # Nobody
      BY <2>1 DEF TableHeld, CallMeans, NoUseAfterFree
    <3>3. conn[call.param].eid = call.eid
      BY <3>2 DEF NoUseAfterFree
    <3> QED BY <3>1, <3>2, <3>3
  <2>2. CASE call.at = "push"
    BY <1>1, <2>2 DEF NoUseAfterFree
  <2> QED BY <2>1, <2>2 DEF TypeOK, Call
<1>9. NoUseAfterFree'
  <2>1. \A e \in Eids : param_htab'[e] # Nobody =>
          conn'[param_htab'[e]].at # "free" /\ conn'[param_htab'[e]].eid = e
    BY <1>3, <1>4 DEF NoUseAfterFree
  <2>2. call.at # "idle" => conn'[call.param] = conn[call.param]
    BY <1>3, <1>8 DEF CallMeans
  <2> QED BY <1>1, <2>1, <2>2 DEF NoUseAfterFree
<1>10. PlannedIsListed'
  BY <1>4, <1>7 DEF PlannedIsListed
<1>11. OnlyInContact'
  BY <1>7 DEF OnlyInContact
<1>12. StateTells'
  BY <1>5 DEF StateTells, Sound
<1>13. TableHeld'
  <2>1. call.at \in {"table", "queue"} => call.param = param_htab'[call.eid]
    BY <1>4, <1>8 DEF TableHeld, CallMeans
  <2>2. \A d \in Connections : conn'[d].at = "meet" => conn[d].at = "meet" /\ conn'[d] = conn[d]
    BY <1>3 DEF Unused
  <2>3. ASSUME NEW d \in Connections, conn'[d].at = "meet"
        PROVE  Other(d)' \notin {d, Nobody}
    <3>1. conn[d].at = "meet" /\ conn'[d] = conn[d] /\ conn[d].eid \in Eids
      BY <2>2, <2>3 DEF StateTells
    <3>2. conn[c].eid = NoEid
      BY <1>1, <3>1 DEF TableFree
    <3>3. param_htab[conn[d].eid] \notin {c, d, Nobody}
      BY <3>1, <3>2 DEF TableHeld, Other, NoUseAfterFree
    <3> QED BY <1>4, <3>1, <3>3 DEF Other
  <2> QED BY <1>1, <2>1, <2>2, <2>3 DEF TableHeld
<1>14. CallMeans'
  BY <1>1 DEF CallMeans
<1> QED BY <1>6, <1>9, <1>10, <1>11, <1>12, <1>13, <1>14

\* New parameters, for a contact (and then in the table) or for an accepted connection.
LEMMA LaunchStep ==
  ASSUME SessionsInvariant, TableFree, NEW c \in Connections, conn[c].at = "free",
         NEW k, Sound(k), k.at = "start",
         conn' = [conn EXCEPT ![c] = k],
         \/ k.opportunistic /\ UNCHANGED param_htab
         \/ /\ k.eid \in Eids /\ param_htab[k.eid] = Nobody /\ k.eid \in contacts'
            /\ param_htab' = [param_htab EXCEPT ![k.eid] = c],
         contacts \subseteq contacts', contacts' \subseteq Eids,
         UNCHANGED call, calls' \in Nat, accepts' \in Nat, losses' \in Nat
  PROVE  SessionsInvariant'
<1> USE TcpclAssumption DEF SessionsInvariant
<1>1. /\ conn' \in [Connections -> ContactParameters]
      /\ conn'[c] = k /\ \A d \in Connections : d # c => conn'[d] = conn[d]
  BY DEF TypeOK, Sound
<1>2. \A d \in Connections : Sound(conn'[d]) /\ conn'[d].at # "meet"
  BY <1>1, AllSound DEF TableFree
<1>3. \A e \in Eids : param_htab[e] # c
  BY DEF NoUseAfterFree
<1>4. /\ param_htab' \in [Eids -> Connections \cup {Nobody}]
      /\ \A e \in Eids : \/ param_htab'[e] = param_htab[e]
                         \/ e = k.eid /\ param_htab[e] = Nobody /\ param_htab'[e] = c
  BY DEF TypeOK
<1>5. /\ call.at \notin {"table", "queue"}
      /\ call.at # "idle" => conn'[call.param] = conn[call.param]
  BY <1>1 DEF TableFree, TypeOK, Call, CallMeans, NoUseAfterFree
<1>6. TypeOK'
  BY <1>1, <1>2, <1>4 DEF TypeOK, Sound
<1>7. NoUseAfterFree'
  <2>1. ASSUME NEW e \in Eids, param_htab'[e] # Nobody
        PROVE  conn'[param_htab'[e]].at # "free" /\ conn'[param_htab'[e]].eid = e
    <3>1. CASE param_htab'[e] = param_htab[e]
      <4>1. conn'[param_htab[e]] = conn[param_htab[e]]
        BY <1>1, <1>3, <2>1, <3>1 DEF TypeOK
      <4> QED BY <2>1, <3>1, <4>1 DEF NoUseAfterFree
    <3>2. CASE param_htab'[e] # param_htab[e]
      BY <1>1, <1>4, <3>2
    <3> QED BY <3>1, <3>2
  <2> QED BY <1>5, <2>1 DEF NoUseAfterFree
<1>8. ASSUME NEW d \in Connections, Planned(d)'
      PROVE  conn'[d].eid \in Eids /\ conn'[d].eid \in contacts' /\ param_htab'[conn'[d].eid] = d
  <2>1. CASE d = c
    <3>1. ~k.opportunistic
      BY <1>1, <1>8, <2>1 DEF Planned
    <3> QED BY <1>1, <2>1, <3>1 DEF TypeOK
  <2>2. CASE d # c
    <3>1. conn'[d] = conn[d] /\ Planned(d)
      BY <1>1, <1>8, <2>2 DEF Planned
    <3>2. conn[d].eid \in Eids /\ param_htab[conn[d].eid] = d /\ conn[d].eid \in contacts
      BY <3>1 DEF PlannedIsListed, OnlyInContact
    <3> QED BY <1>4, <3>1, <3>2
  <2> QED BY <2>1, <2>2
<1>9. PlannedIsListed' /\ OnlyInContact'
  BY <1>8 DEF PlannedIsListed, OnlyInContact
<1>10. StateTells'
  BY <1>2 DEF StateTells, Sound
<1>11. TableHeld' /\ CallMeans'
  BY <1>2, <1>5 DEF TableHeld, CallMeans
<1> QED BY <1>6, <1>7, <1>9, <1>10, <1>11

LEMMA AcceptStep ==
  ASSUME SessionsInvariant, PeerConnects
  PROVE  SessionsInvariant'
<1>1. PICK c \in Connections :
        /\ conn[c].at = "free"
        /\ conn' = [conn EXCEPT ![c] = [Unused EXCEPT !.at = "start", !.state = "connected"]]
  BY DEF PeerConnects, Accept
<1> DEFINE k == [Unused EXCEPT !.at = "start", !.state = "connected"]
<1>2. Sound(k) /\ k.at = "start" /\ k.opportunistic
  BY DEF Sound, Unused, ContactParameters, Places, States
<1>3. TableFree /\ UNCHANGED <<param_htab, call, contacts>>
  BY DEF PeerConnects, Accept
<1>4. accepts' \in Nat /\ calls' \in Nat /\ losses' \in Nat /\ contacts \subseteq Eids
  BY DEF PeerConnects, SessionsInvariant, TypeOK
<1> HIDE DEF k
<1>5. conn' = [conn EXCEPT ![c] = k]
  BY <1>1 DEF k
<1> QED BY <1>1, <1>2, <1>3, <1>4, <1>5, LaunchStep

\* A call is begun: it is over at once, launches a task, or has found a connection.
LEMMA NewCallStep ==
  ASSUME SessionsInvariant, NewCall
  PROVE  SessionsInvariant'
<1> USE TcpclAssumption DEF SessionsInvariant
<1>1. PICK op \in Ops, e \in Eids, a \in Addrs \cup {NoAddr} :
        \/ CallUnlisted(op, e, a) /\ contacts' = After(op, e)
        \/ CallListed(op, e, a) /\ UNCHANGED contacts
  BY DEF NewCall
<1>2. /\ calls' \in Nat /\ accepts' \in Nat /\ losses' \in Nat
      /\ contacts \subseteq Eids
  BY DEF NewCall, TypeOK
<1>3. CASE CallUnlisted(op, e, a) /\ op = "start" /\ contacts' = After(op, e)
  <2>1. PICK c \in Connections :
          /\ conn[c].at = "free"
          /\ conn' = [conn EXCEPT ![c] = [at |-> "start", state |-> "connecting", eid |-> e,
                                          cla_addr |-> a, opportunistic |-> FALSE]]
          /\ param_htab' = [param_htab EXCEPT ![e] = c]
    BY <1>3 DEF CallUnlisted, Launch
  <2> DEFINE k == [at |-> "start", state |-> "connecting", eid |-> e, cla_addr |-> a,
                   opportunistic |-> FALSE]
  <2>2. Sound(k) /\ k.at = "start" /\ k.eid = e
    BY DEF Sound, ContactParameters, Places, States
  <2>3. TableFree /\ param_htab[e] = Nobody /\ UNCHANGED call
    BY <1>3 DEF CallUnlisted
  <2>4. contacts' = contacts \cup {e}
    BY <1>3 DEF After
  <2> HIDE DEF k
  <2>5. conn' = [conn EXCEPT ![c] = k]
    BY <2>1 DEF k
  <2> QED BY <1>2, <2>1, <2>2, <2>3, <2>4, <2>5, LaunchStep, ZenonT(60)
<1>4. CASE CallUnlisted(op, e, a) /\ op # "start" /\ contacts' = After(op, e)
  <2>1. param_htab[e] = Nobody /\ UNCHANGED <<param_htab, conn, call>>
    BY <1>4 DEF CallUnlisted
  <2>2. contacts \ {e} \subseteq contacts' /\ contacts' \subseteq contacts
    BY <1>4 DEF After, Ops
  <2>3. \A c \in Connections : Planned(c) => conn[c].eid # e
    BY <2>1 DEF PlannedIsListed
  <2>4. OnlyInContact'
    BY <2>1, <2>2, <2>3 DEF OnlyInContact, Planned
  <2>5. TypeOK'
    BY <1>2, <2>1, <2>2 DEF TypeOK
  <2> QED BY <2>1, <2>4, <2>5
          DEF NoUseAfterFree, PlannedIsListed, Planned, StateTells, TableHeld, Other, CallMeans
<1>5. CASE CallListed(op, e, a) /\ UNCHANGED contacts
  <2>1. /\ UNCHANGED <<param_htab, conn, contacts>>
        /\ call' = [at |-> "table", op |-> op, eid |-> e, cla_addr |-> a, param |-> param_htab[e]]
        /\ TableFree /\ param_htab[e] \in Connections
    BY <1>5 DEF CallListed, TypeOK
  <2>2. TypeOK'
    BY <1>2, <2>1 DEF TypeOK, Call
  <2>3. NoUseAfterFree'
    BY <2>1 DEF NoUseAfterFree
  <2>4. PlannedIsListed' /\ OnlyInContact' /\ StateTells'
    BY <2>1 DEF PlannedIsListed, OnlyInContact, Planned, StateTells
  <2>5. TableHeld'
    BY <2>1 DEF TableHeld, Other, TableFree
  <2>6. CallMeans'
    BY <2>1 DEF CallMeans
  <2> QED BY <2>2, <2>3, <2>4, <2>5, <2>6
<1> QED BY <1>1, <1>3, <1>4, <1>5

\* A call that ends, or goes on, without a change to connections or contacts.
LEMMA CallMovesStep ==
  ASSUME SessionsInvariant, UNCHANGED <<param_htab, conn, contacts, counters>>,
         \/ call' = NoCall
         \/ /\ call.at = "table" /\ call.op = "send"
            /\ call' = [call EXCEPT !.at = "queue"]
         \/ /\ call.at = "queue" /\ conn[call.param].at \in {"linked", "ending"}
            /\ call' = [call EXCEPT !.at = "push"]
  PROVE  SessionsInvariant'
<1> USE TcpclAssumption DEF SessionsInvariant
<1>1. call \in Call
  BY DEF TypeOK
<1>2. TypeOK'
  BY <1>1 DEF TypeOK, Call, NoCall, counters
<1>3. /\ call'.at # "idle" => call'.param = call.param /\ call'.eid = call.eid /\ call.at # "idle"
      /\ call'.at \in {"table", "queue"} => call.at \in {"table", "queue"}
      /\ call'.at = "push" => conn[call.param].at \in {"linked", "ending"}
  BY <1>1 DEF Call, NoCall
<1>4. NoUseAfterFree'
  BY <1>3 DEF NoUseAfterFree
<1>5. PlannedIsListed' /\ OnlyInContact' /\ StateTells'
  BY DEF PlannedIsListed, OnlyInContact, Planned, StateTells
<1>6. TableHeld'
  BY <1>3 DEF TableHeld, Other
<1>7. CallMeans'
  BY <1>1, <1>3 DEF CallMeans, Call, NoCall
<1> QED BY <1>2, <1>4, <1>5, <1>6, <1>7

\* The end of a call that marks the connection it holds as planned, or as not.
LEMMA MarkStep ==
  ASSUME SessionsInvariant, call.at = "table", NEW k, Sound(k),
         k.at = conn[call.param].at, k.eid = conn[call.param].eid,
         conn' = [conn EXCEPT ![call.param] = k],
         call' = NoCall, UNCHANGED <<param_htab, counters>>,
         contacts' \subseteq Eids,
         contacts \ {call.eid} \subseteq contacts',
         k.opportunistic \/ call.eid \in contacts'
  PROVE  SessionsInvariant'
<1> USE TcpclAssumption DEF SessionsInvariant
<1> DEFINE c == call.param
<1>1. /\ c \in Connections /\ call.eid \in Eids
      /\ param_htab[call.eid] = c /\ conn[c].eid = call.eid
  BY DEF CallMeans, TableHeld, NoUseAfterFree
<1>2. /\ conn' \in [Connections -> ContactParameters]
      /\ conn'[c] = k /\ \A d \in Connections : d # c => conn'[d] = conn[d]
  BY <1>1 DEF TypeOK, Sound
<1>3. \A d \in Connections : /\ Sound(conn'[d])
                             /\ conn'[d].at = conn[d].at /\ conn'[d].eid = conn[d].eid
  BY <1>2, AllSound
<1>4. TypeOK'
  BY <1>2, <1>3 DEF TypeOK, Call, NoCall, Sound, counters
<1>5. NoUseAfterFree'
  BY <1>3 DEF NoUseAfterFree, NoCall, TypeOK
<1>6. ASSUME NEW d \in Connections, Planned(d)'
      PROVE  conn'[d].eid \in Eids /\ param_htab[conn'[d].eid] = d /\ conn'[d].eid \in contacts'
  <2>1. CASE d = c
    BY <1>1, <1>2, <1>3, <1>6, <2>1 DEF Planned
  <2>2. CASE d # c
    <3>1. Planned(d)
      BY <1>2, <1>6, <2>2 DEF Planned
    <3>2. conn[d].eid \in Eids /\ param_htab[conn[d].eid] = d /\ conn[d].eid \in contacts
      BY <3>1 DEF PlannedIsListed, OnlyInContact
    <3> QED BY <1>1, <1>3, <2>2, <3>2
  <2> QED BY <2>1, <2>2
<1>7. PlannedIsListed' /\ OnlyInContact'
  BY <1>6 DEF PlannedIsListed, OnlyInContact
<1>8. StateTells'
  BY <1>3 DEF StateTells, Sound
<1>9. TableHeld' /\ CallMeans'
  BY <1>3 DEF TableHeld, CallMeans, NoCall
<1> QED BY <1>4, <1>5, <1>7, <1>8, <1>9

LEMMA CallStep ==
  ASSUME SessionsInvariant, CallGoesOn
  PROVE  SessionsInvariant'
<1> DEFINE c == call.param
<1>1. UNCHANGED counters /\ contacts' = IF call'.at = "idle" THEN After(call.op, call.eid) ELSE contacts
  BY DEF CallGoesOn
<1>2. call \in Call /\ contacts \subseteq Eids /\ conn \in [Connections -> ContactParameters]
  BY DEF SessionsInvariant, TypeOK
<1>3. call.at = "table" => /\ c \in Connections /\ Sound(conn[c]) /\ call.eid \in Eids
                           /\ conn[c].at # "free"
  BY AllSound DEF SessionsInvariant, CallMeans, NoUseAfterFree
<1>4. CASE StartListed
  <2>1. call.at = "table" /\ call.op = "start" /\ call' = NoCall /\ UNCHANGED param_htab
    BY <1>4 DEF StartListed, AtParam
  <2>2. contacts' = contacts \cup {call.eid}
    BY <1>1, <2>1 DEF After, NoCall
  <2>3. CASE conn[c].state # "inactive"
    <3> DEFINE k == [conn[c] EXCEPT !.opportunistic = FALSE, !.cla_addr = call.cla_addr]
    <3>1. conn' = [conn EXCEPT ![c] = k]
      BY <1>2, <1>3, <1>4, <2>1, <2>3 DEF StartListed, ContactParameters
    <3>2. Sound(k) /\ k.at = conn[c].at /\ k.eid = conn[c].eid
      BY <1>2, <1>3, <2>1 DEF Sound, ContactParameters, Call
    <3> HIDE DEF k
    <3> QED BY <1>1, <1>2, <1>3, <2>1, <2>2, <3>1, <3>2, MarkStep
  <2>4. CASE conn[c].state = "inactive"
    <3> DEFINE k == conn[c]
    <3>1. conn' = [conn EXCEPT ![c] = k]
      BY <1>2, <1>3, <1>4, <2>1, <2>4 DEF StartListed
    <3>2. Sound(k) /\ k.at = conn[c].at /\ k.eid = conn[c].eid
      BY <1>3, <2>1
    <3> HIDE DEF k
    <3> QED BY <1>1, <1>2, <1>3, <2>1, <2>2, <3>1, <3>2, MarkStep
  <2> QED BY <2>3, <2>4
<1>5. CASE EndListed
  <2>1. call.at = "table" /\ call.op = "end" /\ call' = NoCall /\ UNCHANGED param_htab
    BY <1>5 DEF EndListed, AtParam
  <2>2. contacts' = contacts \ {call.eid}
    BY <1>1, <2>1 DEF After, NoCall
  <2> DEFINE k == [conn[c] EXCEPT !.opportunistic = TRUE]
  <2>3. conn' = [conn EXCEPT ![c] = k]
    BY <1>2, <1>3, <1>5, <2>1 DEF EndListed, ContactParameters
  <2>4. Sound(k) /\ k.at = conn[c].at /\ k.eid = conn[c].eid /\ k.opportunistic
    BY <1>3, <2>1 DEF Sound, ContactParameters
  <2> HIDE DEF k
  <2> QED BY <1>1, <1>2, <1>3, <2>1, <2>2, <2>3, <2>4, MarkStep
<1>6. CASE SendUnlinked \/ Push
  <2>1. call' = NoCall /\ UNCHANGED <<param_htab, conn>> /\ call.op = "send"
    BY <1>6 DEF SendUnlinked, Push, AtParam, SessionsInvariant, CallMeans
  <2>2. UNCHANGED contacts
    BY <1>1, <2>1 DEF After, NoCall
  <2> QED BY <1>1, <2>1, <2>2, CallMovesStep
<1>7. CASE SendLinked
  <2>1. /\ call.at = "table" /\ call.op = "send"
        /\ call' = [call EXCEPT !.at = "queue"] /\ UNCHANGED <<param_htab, conn>>
    BY <1>7 DEF SendLinked, AtParam
  <2>2. UNCHANGED contacts
    BY <1>1, <1>2, <2>1 DEF Call
  <2> QED BY <1>1, <2>1, <2>2, CallMovesStep
<1>8. CASE GetQueue
  <2>1. /\ call.at = "queue" /\ conn[call.param].at \in {"linked", "ending"}
        /\ call' = [call EXCEPT !.at = "push"] /\ UNCHANGED <<param_htab, conn>>
    BY <1>8 DEF GetQueue, QueueFree
  <2>2. UNCHANGED contacts
    BY <1>1, <1>2, <2>1 DEF Call
  <2> QED BY <1>1, <2>1, <2>2, CallMovesStep
<1> QED BY <1>4, <1>5, <1>6, <1>7, <1>8 DEF CallGoesOn, InCall

LEMMA ManagerStep ==
  ASSUME SessionsInvariant, NEW c \in Connections, ManagerMoves(c)
  PROVE  SessionsInvariant'
<1>1. UNCHANGED <<contacts, counters>> /\ Manager(c)
  BY DEF ManagerMoves
<1>2. CASE Begin(c)
  <2>1. conn[c].at = "start" /\ UNCHANGED <<param_htab, call>>
    BY <1>2 DEF Begin
  <2>2. CASE conn[c].state = "connected"
    <3> DEFINE k == [conn[c] EXCEPT !.at = "shake"]
    <3>1. Sound(conn[c])
      BY AllSound
    <3>2. /\ Sound(k) /\ k.at = "shake" /\ k.eid = conn[c].eid
          /\ k.opportunistic = conn[c].opportunistic
      BY <2>1, <2>2, <3>1 DEF Sound, ContactParameters, Places, States
    <3>3. conn' = [conn EXCEPT ![c] = k]
      BY <1>2, <2>2 DEF Begin, SessionsInvariant, TypeOK, ContactParameters
    <3>4. ~(call.at = "push" /\ call.param = c)
      BY <2>1 DEF SessionsInvariant, NoUseAfterFree
    <3>5. calls' \in Nat /\ accepts' \in Nat /\ losses' \in Nat
      BY <1>1 DEF SessionsInvariant, TypeOK, counters
    <3> HIDE DEF k
    <3> QED BY <1>1, <2>1, <3>2, <3>3, <3>4, <3>5, PlaceStep
  <2>3. CASE conn[c].state # "connected"
    <3>1. conn' = [conn EXCEPT ![c] = NextTry(@)]
      BY <1>2, <2>3 DEF Begin, SessionsInvariant, TypeOK
    <3> QED BY <1>1, <2>1, <3>1, NextTryStep
  <2> QED BY <2>2, <2>3
<1>3. CASE DialFails(c) \/ HandshakeFails(c) \/ CleanUp(c)
  <2>1. /\ conn[c].at \in {"start", "dial", "shake", "ended"}
        /\ conn' = [conn EXCEPT ![c] = NextTry(@)] /\ UNCHANGED <<param_htab, call>>
    BY <1>3 DEF DialFails, HandshakeFails, CleanUp
  <2> QED BY <1>1, <2>1, NextTryStep
<1>4. CASE Dial(c)
  BY <1>1, <1>4, DialStep
<1>5. CASE \E e \in Eids : Handshake(c, e)
  BY <1>1, <1>5, HandshakeStep
<1>6. CASE Join(c)
  BY <1>1, <1>6, JoinStep
<1>7. CASE Meet(c)
  BY <1>1, <1>7, MeetStep
<1>8. CASE TasksEnd(c)
  <2>1. calls' \in Nat /\ accepts' \in Nat /\ losses' \in Nat
    BY <1>1 DEF SessionsInvariant, TypeOK, counters
  <2> QED BY <1>1, <1>8, <2>1, EndingStep
<1>9. CASE Leave(c)
  BY <1>1, <1>9, SessionLeaves
<1> QED BY <1>1, <1>2, <1>3, <1>4, <1>5, <1>6, <1>7, <1>8, <1>9 DEF Manager

LEMMA Inductive == SessionsInvariant /\ [Next]_vars => SessionsInvariant'
<1> SUFFICES ASSUME SessionsInvariant, [Next]_vars PROVE SessionsInvariant'
  OBVIOUS
<1>1. CASE NewCall
  BY <1>1, NewCallStep
<1>2. CASE CallGoesOn
  BY <1>2, CallStep
<1>3. CASE PeerConnects
  BY <1>3, AcceptStep
<1>4. CASE ConnectionLost
  <2>1. /\ calls' \in Nat /\ accepts' \in Nat /\ losses' \in Nat /\ UNCHANGED contacts
        /\ \E c \in Connections : Disconnect(c)
    BY <1>4 DEF ConnectionLost, SessionsInvariant, TypeOK
  <2> QED BY <2>1, EndingStep
<1>5. CASE \E c \in Connections : ManagerMoves(c)
  BY <1>5, ManagerStep
<1>6. CASE UNCHANGED vars
  <2>1. UNCHANGED <<param_htab, conn, call, contacts, calls, accepts, losses>>
    BY <1>6 DEF vars, claVars, counters
  <2> QED BY <2>1 DEF SessionsInvariant, TypeOK, NoUseAfterFree, PlannedIsListed, OnlyInContact, Planned,
                      StateTells, TableHeld, Other, CallMeans
<1> QED BY <1>1, <1>2, <1>3, <1>4, <1>5, <1>6 DEF Next

\* The inductive invariant holds in every state.
THEOREM Invariant == Spec => []SessionsInvariant
BY Initial, Inductive, PTL DEF Spec

\* Every variable keeps its type, and a link exists in the state that says so.
THEOREM TcpclTypeCorrect == Spec => []TypeOK
<1>1. SessionsInvariant => TypeOK
  BY DEF SessionsInvariant
<1> QED BY Invariant, <1>1, PTL

\* The table and the bundle processor never point to parameters that were freed, or
\* that belong to another node (tcpclv3_link_management_task, cla_link_cleanup).
THEOREM NothingFreedIsUsed == Spec => []NoUseAfterFree
<1>1. SessionsInvariant => NoUseAfterFree
  BY DEF SessionsInvariant
<1> QED BY Invariant, <1>1, PTL

\* However connections replace each other, the planned one is the one in the table
\* (handle_established_connection).
THEOREM PlannedAreListed == Spec => []PlannedIsListed
<1>1. SessionsInvariant => PlannedIsListed
  BY DEF SessionsInvariant
<1> QED BY Invariant, <1>1, PTL

\* A connection outlives its contact as opportunistic only, also when it has taken
\* over from another one (tcpclv3_end_scheduled_contact).
THEOREM PlannedOnlyInContact == Spec => []OnlyInContact
<1>1. SessionsInvariant => OnlyInContact
  BY DEF SessionsInvariant
<1> QED BY Invariant, <1>1, PTL

-----------------------------------------------------------------------------
(***************************************************************************)
(* The bundles for the node itself.  The list of known bundles remembers   *)
(* each fragment that is kept, so that no two of them are the same, and    *)
(* the ADU once it is delivered; kept in the order of their offsets,       *)
(* fragments that do not lie within each other end in that order too,      *)
(* and then the loop of bundle_attempt_reassembly misses no gap and sees   *)
(* none where there is none.                                               *)
(***************************************************************************)

\* A set of natural numbers has a least one.
LEMMA LeastNat ==
  ASSUME NEW T \in SUBSET Nat, T # {}
  PROVE  \E x \in T : \A y \in T : x <= y
<1> DEFINE R == {ss \in Nat \X Nat : ss[1] < ss[2]}
<1>1. IsWellFoundedOn(R, Nat)
  BY NatLessThanWellFounded DEF OpToRel
<1>2. \E x \in T : \A y \in T : ~ (<<y, x>> \in R)
  <2> HIDE DEF R
  <2> QED BY <1>1, WFMin
<1>3. \A x, y \in Nat : ~ (<<y, x>> \in R) => x <= y
  OBVIOUS
<1> HIDE DEF R
<1> QED BY <1>2, <1>3

\* Identifiers of known bundles, and a list that has one of them.
Ids == [from : Nat, length : Nat, deadline : Nat]
Lists(list, i) == \E n \in 1 .. Len(list) : SameId(list[n], i)

LEMMA SubSeqGrows ==
  ASSUME NEW S, NEW s \in Seq(S), NEW i \in 1 .. Len(s)
  PROVE  SubSeq(s, 1, i) = Append(SubSeq(s, 1, i - 1), s[i])
<1>1. SubSeq(s, 1, i) = SubSeq(s, 1, i - 1) \o <<s[i]>>
  BY SubSeqRecursiveSecond
<1>2. SubSeq(s, 1, i - 1) \in Seq(S) /\ s[i] \in S
  BY SubSeqProperties
<1> QED BY <1>1, <1>2

LEMMA Rejoined ==
  ASSUME NEW S, NEW s \in Seq(S), NEW at \in 1 .. Len(s) + 1
  PROVE  SubSeq(s, 1, at - 1) \o SubSeq(s, at, Len(s)) = s
<1>1. SubSeq(s, 1, at - 1) \o SubSeq(s, (at - 1) + 1, Len(s)) = SubSeq(s, 1, Len(s))
  <2>1. /\ 1 \in 1 .. Len(s) + 1 /\ at - 1 \in 1 - 1 .. Len(s) /\ Len(s) \in at - 1 .. Len(s)
    OBVIOUS
  <2> QED BY <2>1, ConcatAdjacentSubSeq
<1>2. (at - 1) + 1 = at /\ SubSeq(s, 1, Len(s)) = s
  BY SubSeqFull
<1> QED BY <1>1, <1>2

\* The sweep of the list leaves it alone while nothing in it has expired.
LEMMA UnexpiredAll ==
  ASSUME NEW S, NEW s \in Seq(S), \A n \in 1 .. Len(s) : s[n].deadline >= clock
  PROVE  Unexpired(s) = s
<1> DEFINE Is(f) == f = [i \in 0 .. Len(s) |-> IF i = 0 THEN <<>>
                                 ELSE IF s[i].deadline >= clock THEN Append(f[i - 1], s[i])
                                 ELSE f[i - 1]]
           g == [i \in 0 .. Len(s) |-> SubSeq(s, 1, i)]
           h == CHOOSE f : Is(f)
<1>1. Is(g)
  <2>1. ASSUME NEW i \in 0 .. Len(s)
        PROVE  SubSeq(s, 1, i) = IF i = 0 THEN <<>>
                                 ELSE IF s[i].deadline >= clock THEN Append(g[i - 1], s[i])
                                 ELSE g[i - 1]
    <3>1. CASE i = 0
      BY <3>1
    <3>2. CASE i # 0
      <4>1. i - 1 \in 0 .. Len(s) /\ i \in 1 .. Len(s)
        BY <3>2
      <4>2. g[i - 1] = SubSeq(s, 1, i - 1)
        BY <4>1
      <4>3. s[i].deadline >= clock
        BY <4>1
      <4>4. SubSeq(s, 1, i) = Append(SubSeq(s, 1, i - 1), s[i])
        BY <4>1, SubSeqGrows
      <4> QED BY <3>2, <4>2, <4>3, <4>4
    <3> QED BY <3>1, <3>2
  <2> QED BY <2>1, Zenon
<1>2. Is(h)
  BY <1>1, Zenon
<1>3. Unexpired(s) = h[Len(s)]
  BY DEF Unexpired
<1> HIDE DEF h, g
<1>4. \A n \in 0 .. Len(s) : h[n] = SubSeq(s, 1, n)
  <2> SUFFICES ASSUME {n \in 0 .. Len(s) : h[n] # SubSeq(s, 1, n)} # {} PROVE FALSE
    OBVIOUS
  <2>1. PICK x \in 0 .. Len(s) : /\ h[x] # SubSeq(s, 1, x)
                                 /\ \A y \in 0 .. Len(s) : h[y] # SubSeq(s, 1, y) => x <= y
    <3> DEFINE T == {n \in 0 .. Len(s) : h[n] # SubSeq(s, 1, n)}
    <3>1. T \in SUBSET Nat /\ T # {}
      OBVIOUS
    <3>2. \E x \in T : \A y \in T : x <= y
      <4> HIDE DEF T
      <4> QED BY <3>1, LeastNat
    <3> QED BY <3>2
  <2>2. x # 0
    <3>1. h[0] = <<>>
      BY <1>2
    <3>2. SubSeq(s, 1, 0) = <<>>
      BY SubSeqEmpty
    <3> QED BY <2>1, <3>1, <3>2
  <2>3. x \in 1 .. Len(s) /\ x - 1 \in 0 .. Len(s) /\ h[x - 1] = SubSeq(s, 1, x - 1)
    BY <2>1, <2>2
  <2>4. h[x] = Append(h[x - 1], s[x])
    <3>1. h[x] = IF x = 0 THEN <<>> ELSE IF s[x].deadline >= clock THEN Append(h[x - 1], s[x])
                                    ELSE h[x - 1]
      BY <1>2
    <3>2. s[x].deadline >= clock
      BY <2>3
    <3> QED BY <3>1, <3>2, <2>2
  <2>5. SubSeq(s, 1, x) = Append(SubSeq(s, 1, x - 1), s[x])
    BY <2>3, SubSeqGrows
  <2> QED BY <2>1, <2>3, <2>4, <2>5
<1>5. h[Len(s)] = SubSeq(s, 1, Len(s))
  BY <1>4
<1>6. SubSeq(s, 1, Len(s)) = s
  OBVIOUS
<1> QED BY <1>3, <1>5, <1>6

\* Among identifiers of one deadline the search finds what there is, or comes to the end.
LEMMA StopIs ==
  ASSUME NEW list \in Seq(Ids), NEW i \in Ids, \A n \in 1 .. Len(list) : list[n].deadline = i.deadline
  PROVE  /\ Knows(list, i) <=> Lists(list, i)
         /\ Stop(list, i) \in 1 .. Len(list) + 1
         /\ ~ Lists(list, i) => Stop(list, i) = Len(list) + 1
<1> DEFINE ends == {n \in DOMAIN list : SameId(list[n], i) \/ list[n].deadline > i.deadline}
           stop == CHOOSE n \in ends : \A k \in ends : n <= k
<1>1. ends = {n \in 1 .. Len(list) : SameId(list[n], i)}
  BY DEF Ids
<1>2. CASE ends = {}
  <2>1. Stop(list, i) = Len(list) + 1
    BY <1>2 DEF Stop
  <2>2. ~ Lists(list, i)
    <3> HIDE DEF ends
    <3> QED BY <1>1, <1>2 DEF Lists
  <2> QED BY <2>1, <2>2 DEF Knows
<1>3. CASE ends # {}
  <2>1. Stop(list, i) = stop
    BY <1>3, Zenon DEF Stop
  <2>2. ends \in SUBSET Nat
    OBVIOUS
  <2> HIDE DEF ends
  <2>3. \E n \in ends : \A k \in ends : n <= k
    BY <1>3, <2>2, LeastNat
  <2>4. stop \in ends
    BY <2>3
  <2> HIDE DEF stop
  <2>5. stop \in 1 .. Len(list) /\ SameId(list[stop], i)
    BY <1>1, <2>4
  <2> QED BY <2>1, <2>5 DEF Knows, Lists
<1> QED BY <1>2, <1>3

LEMMA InsertedLast ==
  ASSUME NEW S, NEW list \in Seq(S), NEW i \in S
  PROVE  InsertedAt(list, i, Len(list) + 1) = Append(list, i)
<1>1. SubSeq(list, 1, (Len(list) + 1) - 1) = list
  BY SubSeqFull
<1>2. SubSeq(list, Len(list) + 1, Len(list)) = <<>>
  BY SubSeqEmpty
<1>3. (list \o <<i>>) \o <<>> = Append(list, i)
  OBVIOUS
<1> QED BY <1>1, <1>2, <1>3 DEF InsertedAt

LEMMA AppendLists ==
  ASSUME NEW S, NEW list \in Seq(S), NEW i \in S
  PROVE  /\ Append(list, i) \in Seq(S)
         /\ \A j : Lists(Append(list, i), j) <=> Lists(list, j) \/ SameId(i, j)
<1>1. /\ Append(list, i) \in Seq(S) /\ Len(Append(list, i)) = Len(list) + 1
      /\ \A n \in 1 .. Len(list) : Append(list, i)[n] = list[n]
      /\ Append(list, i)[Len(list) + 1] = i
  OBVIOUS
<1> DEFINE l == Append(list, i)
<1> HIDE DEF l
<1>2. l \in Seq(S) /\ Len(l) = Len(list) + 1 /\ (\A n \in 1 .. Len(list) : l[n] = list[n])
      /\ l[Len(list) + 1] = i
  BY <1>1 DEF l
<1>3. \A n \in 1 .. Len(l) : n \in 1 .. Len(list) \/ n = Len(list) + 1
  BY <1>2
<1>4. ASSUME NEW j
      PROVE  Lists(l, j) <=> Lists(list, j) \/ SameId(i, j)
  <2>1. ASSUME Lists(l, j) PROVE Lists(list, j) \/ SameId(i, j)
    BY <1>2, <1>3, <2>1 DEF Lists
  <2>2. ASSUME Lists(list, j) PROVE Lists(l, j)
    <3>1. PICK n \in 1 .. Len(list) : SameId(list[n], j)
      BY <2>2 DEF Lists
    <3>2. n \in 1 .. Len(l) /\ l[n] = list[n]
      BY <1>2
    <3> QED BY <3>1, <3>2 DEF Lists
  <2>3. ASSUME SameId(i, j) PROVE Lists(l, j)
    <3>1. Len(list) + 1 \in 1 .. Len(l)
      BY <1>2
    <3> QED BY <1>2, <2>3, <3>1 DEF Lists
  <2> QED BY <2>1, <2>2, <2>3
<1> QED BY <1>2, <1>4 DEF l

\* So that what is recorded is appended, once.
LEMMA RecordedIs ==
  ASSUME known \in Seq(Ids), NEW i \in Ids, \A n \in 1 .. Len(known) : known[n].deadline = i.deadline,
         i.deadline >= clock
  PROVE  Recorded(i) = IF Lists(known, i) THEN known ELSE Append(known, i)
<1>1. \A n \in 1 .. Len(known) : known[n].deadline >= clock
  OBVIOUS
<1> DEFINE stop == Stop(known, i)
           head == SubSeq(known, 1, stop - 1)
<1>2. stop \in 1 .. Len(known) + 1
  BY StopIs
<1>3. Swept(known, i) = known
  <2> HIDE DEF stop
  <2>1. head \in Seq(Ids) /\ \A n \in 1 .. Len(head) : head[n].deadline >= clock
    BY <1>1, <1>2
  <2>2. Unexpired(head) = head
    <3> HIDE DEF head
    <3> QED BY <2>1, UnexpiredAll
  <2>3. head \o SubSeq(known, stop, Len(known)) = known
    BY <1>2, Rejoined
  <2> QED BY <2>2, <2>3 DEF Swept, stop
<1> QED BY <1>3, StopIs, InsertedLast DEF Recorded

LEMMA BehindLast ==
  ASSUME NEW list \in Seq(Ids), NEW i \in Ids, \A n \in 1 .. Len(list) : list[n].deadline = i.deadline
  PROVE  Behind(list, i) = Len(list) + 1
<1>1. {n \in DOMAIN list : list[n].deadline <= i.deadline} = 1 .. Len(list)
  <2>1. DOMAIN list = 1 .. Len(list) /\ i.deadline \in Nat
    BY DEF Ids
  <2> QED BY <2>1
<1>2. Cardinality(1 .. Len(list)) = Len(list)
  <2>1. \A n \in Nat : Cardinality(1 .. n) = n
    BY FS_Interval
  <2> QED BY <2>1
<1> QED BY <1>1, <1>2 DEF Behind

-----------------------------------------------------------------------------
\* Lists of fragments: in order, without doubles, and with all bytes.
Sorted(list) == \A i, j \in 1 .. Len(list) : i < j => list[i].from <= list[j].from
Apart(list) == \A i, j \in 1 .. Len(list) : i < j => ~ SameId(list[i], list[j])

\* Places that come before all others are counted by the last of them.
LEMMA Prefix ==
  ASSUME NEW L \in Nat, NEW D \in SUBSET (1 .. L), \A i \in D : \A j \in 1 .. i : j \in D
  PROVE  Cardinality(D) \in 0 .. L /\ D = 1 .. Cardinality(D)
<1> DEFINE T == {m \in 1 .. L + 1 : m \notin D}
<1>1. T \in SUBSET Nat /\ L + 1 \in T
  OBVIOUS
<1>2. PICK m \in T : \A y \in T : m <= y
  <2> HIDE DEF T
  <2> QED BY <1>1, LeastNat
<1>3. m \in 1 .. L + 1 /\ m \notin D
  OBVIOUS
<1>4. \A i \in 1 .. L : i < m => i \in D
  BY <1>2
<1>5. \A i \in D : i < m
  BY <1>3
<1>6. D = 1 .. m - 1
  <2>1. \A i \in 1 .. m - 1 : i \in 1 .. L /\ i < m
    BY <1>3
  <2>2. \A i \in D : i \in 1 .. m - 1
    BY <1>3, <1>5
  <2> HIDE DEF T
  <2> QED BY <1>4, <2>1, <2>2
<1>7. Cardinality(1 .. m - 1) = m - 1
  BY <1>3, FS_Interval
<1> QED BY <1>3, <1>6, <1>7

\* A sequence with an element placed behind the first n.
Placing(s, n, c) == SubSeq(s, 1, n) \o <<c>> \o SubSeq(s, n + 1, Len(s))

IsPlaced(r, S, s, n, c) ==
  /\ r \in Seq(S) /\ Len(r) = Len(s) + 1
  /\ \A i \in 1 .. n : r[i] = s[i]
  /\ r[n + 1] = c
  /\ \A i \in n + 2 .. Len(s) + 1 : r[i] = s[i - 1]

LEMMA Placed ==
  ASSUME NEW S, NEW s \in Seq(S), NEW c \in S, NEW n \in 0 .. Len(s)
  PROVE  IsPlaced(Placing(s, n, c), S, s, n, c)
<1> DEFINE a == SubSeq(s, 1, n)
           b == SubSeq(s, n + 1, Len(s))
           m == a \o <<c>>
<1>1. a \in Seq(S) /\ Len(a) = n /\ \A i \in 1 .. n : a[i] = s[i]
  BY SubSeqProperties
<1>2. b \in Seq(S) /\ Len(b) = Len(s) - n /\ \A i \in 1 .. Len(s) - n : b[i] = s[n + i]
  <2>1. \A i \in n + 1 .. Len(s) : s[i] \in S
    OBVIOUS
  <2>2. /\ b \in Seq(S) /\ Len(b) = IF n + 1 <= Len(s) THEN Len(s) - (n + 1) + 1 ELSE 0
        /\ \A i \in 1 .. Len(s) - (n + 1) + 1 : b[i] = s[(n + 1) + i - 1]
    BY <2>1, SubSeqProperties
  <2> HIDE DEF b
  <2> QED BY <2>2
<1> HIDE DEF a, b
<1>3. m \in Seq(S) /\ Len(m) = n + 1 /\ m[n + 1] = c /\ \A i \in 1 .. n : m[i] = a[i]
  BY <1>1
<1> HIDE DEF m
<1>4. /\ m \o b \in Seq(S) /\ Len(m \o b) = Len(s) + 1
      /\ \A i \in 1 .. n + 1 : (m \o b)[i] = m[i]
      /\ \A i \in n + 2 .. Len(s) + 1 : (m \o b)[i] = b[i - (n + 1)]
  BY <1>2, <1>3
<1>5. \A i \in n + 2 .. Len(s) + 1 : b[i - (n + 1)] = s[i - 1]
  BY <1>2
<1>6. (m \o b)[n + 1] = c /\ \A i \in 1 .. n : (m \o b)[i] = s[i]
  BY <1>1, <1>3, <1>4
<1>7. Placing(s, n, c) = m \o b
  BY DEF Placing, m, a, b
<1> QED BY <1>4, <1>5, <1>6, <1>7 DEF IsPlaced

\* The list of fragments stays in the order of the offsets, with one of each.
LEMMA InsertedFits ==
  ASSUME CopiesAssumption, copies \in Copies, fragments \in Seq(copies), Sorted(fragments),
         NEW c \in copies
  PROVE  /\ Inserted(c) \in Seq(copies) /\ Len(Inserted(c)) = Len(fragments) + 1
         /\ Sorted(Inserted(c))
         /\ \A i \in 1 .. Len(Inserted(c)) :
              Inserted(c)[i] = c \/ \E j \in 1 .. Len(fragments) : Inserted(c)[i] = fragments[j]
         /\ Apart(fragments) /\ ~ Lists(fragments, c) => Apart(Inserted(c))
<1> DEFINE L == Len(fragments)
           D == {i \in DOMAIN fragments : fragments[i].from <= c.from}
           n == Cardinality(D)
           r == Placing(fragments, n, c)
<1>0. L \in Nat /\ (\A i \in 1 .. L : fragments[i] \in copies /\ fragments[i].from \in Nat) /\ c.from \in Nat
  BY DEF CopiesAssumption
<1>1. D \in SUBSET (1 .. L) /\ \A i \in D : \A j \in 1 .. i : j \in D
  <2>1. D \in SUBSET (1 .. L)
    OBVIOUS
  <2>2. ASSUME NEW i \in D, NEW j \in 1 .. i PROVE j \in D
    <3>1. i \in 1 .. L /\ j \in 1 .. L /\ fragments[i].from <= c.from /\ (j = i \/ j < i)
      OBVIOUS
    <3>2. fragments[j].from <= fragments[i].from
      BY <1>0, <3>1 DEF Sorted
    <3> QED BY <1>0, <3>1, <3>2
  <2> QED BY <2>1, <2>2
<1>2. n \in 0 .. L /\ D = 1 .. n
  <2> HIDE DEF D, L
  <2> QED BY <1>0, <1>1, Prefix
<1>3. /\ \A i \in 1 .. n : fragments[i].from <= c.from
      /\ \A i \in n + 1 .. L : c.from <= fragments[i].from
  <2>1. \A i \in 1 .. L : i \in D <=> fragments[i].from <= c.from
    OBVIOUS
  <2> HIDE DEF D, n
  <2> QED BY <1>0, <1>2, <2>1
<1>4. Inserted(c) = r
  BY DEF Inserted, Placing
<1> HIDE DEF D, n
<1>5. /\ r \in Seq(copies) /\ Len(r) = L + 1
      /\ \A i \in 1 .. n : r[i] = fragments[i]
      /\ r[n + 1] = c
      /\ \A i \in n + 2 .. L + 1 : r[i] = fragments[i - 1]
  <2>1. n \in 0 .. Len(fragments)
    BY <1>2
  <2> HIDE DEF L, r
  <2>2. IsPlaced(Placing(fragments, n, c), copies, fragments, n, c)
    BY <2>1, Placed
  <2> QED BY <2>2 DEF L, r, IsPlaced
<1> HIDE DEF r, L
<1>6. \A i \in 1 .. L + 1 : i \in 1 .. n \/ i = n + 1 \/ i \in n + 2 .. L + 1
  BY <1>0, <1>2
<1>7. ASSUME NEW i \in 1 .. L + 1
      PROVE  r[i] = c \/ \E j \in 1 .. L : r[i] = fragments[j]
  <2>1. CASE i \in 1 .. n
    <3>1. i \in 1 .. L
      BY <1>0, <1>2, <2>1
    <3> QED BY <1>5, <2>1, <3>1
  <2>2. CASE i = n + 1
    BY <1>5, <2>2
  <2>3. CASE i \in n + 2 .. L + 1
    <3>1. i - 1 \in 1 .. L
      BY <1>0, <1>2, <2>3
    <3> QED BY <1>5, <2>3, <3>1
  <2> QED BY <1>6, <2>1, <2>2, <2>3
<1>8. ASSUME NEW i \in 1 .. L + 1, NEW j \in 1 .. L + 1, i < j
      PROVE  \/ \E k, l \in 1 .. L : k < l /\ r[i] = fragments[k] /\ r[j] = fragments[l]
             \/ r[i] = c /\ \E l \in n + 1 .. L : r[j] = fragments[l]
             \/ r[j] = c /\ \E k \in 1 .. n : r[i] = fragments[k]
  <2>1. CASE i \in 1 .. n /\ j \in 1 .. n
    <3>1. i \in 1 .. L /\ j \in 1 .. L
      BY <1>0, <1>2, <2>1
    <3> QED BY <1>5, <1>8, <2>1, <3>1
  <2>2. CASE i \in 1 .. n /\ j = n + 1
    BY <1>5, <2>2
  <2>3. CASE i \in 1 .. n /\ j \in n + 2 .. L + 1
    <3>1. i \in 1 .. L /\ j - 1 \in 1 .. L /\ i < j - 1
      BY <1>0, <1>2, <2>3
    <3> QED BY <1>5, <2>3, <3>1
  <2>4. CASE i = n + 1 /\ j \in n + 2 .. L + 1
    <3>1. j - 1 \in n + 1 .. L
      BY <1>0, <1>2, <2>4
    <3> QED BY <1>5, <2>4, <3>1
  <2>5. CASE i \in n + 2 .. L + 1 /\ j \in n + 2 .. L + 1
    <3>1. i - 1 \in 1 .. L /\ j - 1 \in 1 .. L /\ i - 1 < j - 1
      BY <1>0, <1>2, <1>8, <2>5
    <3> QED BY <1>5, <2>5, <3>1
  <2> QED BY <1>0, <1>2, <1>6, <1>8, <2>1, <2>2, <2>3, <2>4, <2>5
<1>9. Sorted(r)
  <2> SUFFICES ASSUME NEW i \in 1 .. L + 1, NEW j \in 1 .. L + 1, i < j PROVE r[i].from <= r[j].from
    BY <1>5 DEF Sorted
  <2>1. ASSUME NEW k \in 1 .. L, NEW l \in 1 .. L, k < l
        PROVE  fragments[k].from <= fragments[l].from
    BY <2>1 DEF Sorted, L
  <2> QED BY <1>3, <1>8, <2>1
<1>10. ASSUME Apart(fragments), ~ Lists(fragments, c) PROVE Apart(r)
  <2> SUFFICES ASSUME NEW i \in 1 .. L + 1, NEW j \in 1 .. L + 1, i < j PROVE ~ SameId(r[i], r[j])
    BY <1>5 DEF Apart
  <2>1. ASSUME NEW k \in 1 .. L, NEW l \in 1 .. L, k < l
        PROVE  ~ SameId(fragments[k], fragments[l])
    BY <1>10, <2>1 DEF Apart, L
  <2>2. \A l \in 1 .. L : ~ SameId(fragments[l], c) /\ ~ SameId(c, fragments[l])
    BY <1>10 DEF Lists, SameId, L
  <2>3. (1 .. n) \subseteq 1 .. L /\ (n + 1 .. L) \subseteq 1 .. L
    BY <1>0, <1>2
  <2> QED BY <1>8, <2>1, <2>2, <2>3
<1> QED BY <1>4, <1>5, <1>7, <1>9, <1>10 DEF L

Covered(list) == \A b \in 0 .. AduLength - 1 : \E i \in 1 .. Len(list) : b \in Bytes(list[i])

\* A list that is found complete has all bytes of the ADU: the first fragment that reaches
\* beyond a byte starts at it or before.
LEMMA CompleteCovers ==
  ASSUME CopiesAssumption, copies \in Copies, NEW list \in Seq(copies), Complete(list)
  PROVE  Covered(list)
<1> DEFINE End(k) == list[k].from + list[k].length
<1>0. /\ AduLength \in Nat
      /\ \A i \in 1 .. Len(list) : list[i].from \in Nat /\ list[i].length \in Nat
  BY DEF CopiesAssumption
<1>1. PICK n \in 1 .. Len(list) : End(n) >= AduLength /\ \A k \in 1 .. n : list[k].from <= EndBefore(list, k)
  BY DEF Complete
<1> SUFFICES ASSUME NEW b \in 0 .. AduLength - 1 PROVE \E i \in 1 .. Len(list) : b \in Bytes(list[i])
  BY DEF Covered
<1> DEFINE T == {k \in 1 .. n : b < End(k)}
<1>2. T \in SUBSET Nat /\ n \in T
  BY <1>0, <1>1
<1>3. PICK k \in T : \A y \in T : k <= y
  <2> HIDE DEF T
  <2> QED BY <1>2, LeastNat
<1>4. k \in 1 .. n /\ k \in 1 .. Len(list) /\ b < End(k)
  OBVIOUS
<1>5. list[k].from <= b
  <2>1. CASE k = 1
    <3>1. EndBefore(list, k) = 0
      BY <2>1 DEF EndBefore
    <3> QED BY <1>0, <1>1, <1>4, <3>1
  <2>2. CASE k # 1
    <3>1. k - 1 \in 1 .. n /\ k - 1 \in 1 .. Len(list) /\ k - 1 \notin T
      BY <1>3, <1>4, <2>2
    <3>2. End(k - 1) <= b
      BY <1>0, <3>1
    <3>3. EndBefore(list, k) = End(k - 1)
      BY <2>2 DEF EndBefore
    <3>4. list[k].from <= EndBefore(list, k)
      BY <1>1, <1>4
    <3>5. list[k].from \in Nat /\ End(k - 1) \in Nat
      BY <1>0, <1>4, <3>1
    <3> HIDE DEF End
    <3> QED BY <3>2, <3>3, <3>4, <3>5
  <2> QED BY <2>1, <2>2
<1>6. b \in Bytes(list[k])
  BY <1>0, <1>4, <1>5 DEF Bytes
<1> QED BY <1>4, <1>6

\* The ends are in the order of the offsets when no fragment lies within another.
LEMMA CoveredCompletes ==
  ASSUME CopiesAssumption, copies \in Copies, NEW list \in Seq(copies), Sorted(list), Covered(list),
         \A i, j \in 1 .. Len(list) : i < j => ~ (Bytes(list[j]) \subseteq Bytes(list[i]))
  PROVE  Complete(list)
<1> DEFINE End(k) == list[k].from + list[k].length
           n == Len(list)
           Bs(k) == list[k].from .. list[k].from + list[k].length - 1
<1>bytes. \A k : Bytes(list[k]) = Bs(k)
  BY DEF Bytes
<1>0. /\ AduLength \in Nat \ {0} /\ n \in Nat
      /\ \A i \in 1 .. n : list[i].from \in Nat /\ list[i].length \in Nat
                           /\ End(i) \in Nat /\ End(i) <= AduLength
  BY DEF CopiesAssumption
<1>1. ASSUME NEW i \in 1 .. n, NEW j \in 1 .. n, i < j PROVE End(i) < End(j)
  <2>1. list[i].from <= list[j].from
    BY <1>1 DEF Sorted
  <2>2. ~ (Bytes(list[j]) \subseteq Bytes(list[i]))
    BY <1>1
  <2>3. PICK b \in Bytes(list[j]) : b \notin Bytes(list[i])
    BY <2>2
  <2>a. /\ list[i].from \in Nat /\ list[i].length \in Nat
        /\ list[j].from \in Nat /\ list[j].length \in Nat
    BY <1>0
  <2>b. b \in Bs(j) /\ b \notin Bs(i)
    BY <1>bytes, <2>3
  <2> HIDE DEF n
  <2>4. b \in Int /\ list[j].from <= b /\ b < End(j)
    BY <2>a, <2>b
  <2>5. End(i) <= b
    <3>1. PICK from \in Nat, length \in Nat : from = list[i].from /\ length = list[i].length
      BY <2>a
    <3>2. from <= b
      BY <2>a, <2>1, <2>4, <3>1
    <3>3. b \notin from .. from + length - 1
      BY <2>b, <3>1
    <3>4. from + length <= b
      BY <2>4, <3>1, <3>2, <3>3
    <3> QED BY <3>1, <3>4
  <2> HIDE DEF End
  <2> QED BY <1>0, <2>4, <2>5
<1>2. n \in 1 .. n /\ End(n) >= AduLength
  <2>1. AduLength - 1 \in 0 .. AduLength - 1
    BY <1>0
  <2>2. PICK i \in 1 .. n : AduLength - 1 \in Bytes(list[i])
    BY <2>1 DEF Covered
  <2>3. End(i) >= AduLength
    BY <1>0, <2>2 DEF Bytes
  <2>4. n \in 1 .. n /\ (i = n \/ i < n)
    BY <1>0
  <2>5. End(i) <= End(n)
    <3>1. CASE i = n
      BY <1>0, <3>1
    <3>2. CASE i < n
      <4>1. End(i) < End(n)
        BY <1>1, <2>4, <3>2
      <4> HIDE DEF End, n
      <4> QED BY <1>0, <2>4, <4>1
    <3> QED BY <2>4, <3>1, <3>2
  <2> HIDE DEF End, n
  <2> QED BY <1>0, <2>3, <2>4, <2>5
<1>3. ASSUME NEW k \in 1 .. n PROVE list[k].from <= EndBefore(list, k)
  <2> DEFINE e == EndBefore(list, k)
  <2>1. e \in Nat /\ e = IF k = 1 THEN 0 ELSE End(k - 1)
    BY <1>0 DEF EndBefore
  <2> HIDE DEF e
  <2> SUFFICES ASSUME e < list[k].from PROVE FALSE
    BY <1>0, <2>1 DEF e
  <2>2. e \in 0 .. AduLength - 1
    <3>1. list[k].from <= AduLength /\ list[k].from \in Nat
      BY <1>0
    <3> QED BY <1>0, <2>1, <3>1
  <2>3. PICK i \in 1 .. n : e \in Bytes(list[i])
    BY <2>2 DEF Covered
  <2>4. list[i].from <= e /\ e < End(i)
    <3>1. list[i].from \in Nat /\ list[i].length \in Nat /\ e \in Bs(i)
      BY <1>0, <1>bytes, <2>3
    <3> HIDE DEF n
    <3> QED BY <3>1
  <2>5. CASE i < k
    <3>1. k # 1 /\ k - 1 \in 1 .. n /\ (i = k - 1 \/ i < k - 1)
      BY <1>0, <2>5
    <3>2. e = End(k - 1)
      BY <2>1, <3>1
    <3>3. CASE i = k - 1
      <4> HIDE DEF End
      <4> QED BY <1>0, <2>4, <3>1, <3>2, <3>3
    <3>4. CASE i < k - 1
      <4>1. End(i) < End(k - 1)
        BY <1>1, <3>1, <3>4
      <4> HIDE DEF End
      <4> QED BY <1>0, <2>4, <3>1, <3>2, <4>1
    <3> QED BY <3>1, <3>3, <3>4
  <2>6. CASE k <= i
    <3>1. list[k].from <= list[i].from
      BY <1>0, <2>6 DEF Sorted
    <3> QED BY <1>0, <2>1, <2>4, <3>1
  <2> QED BY <1>0, <2>5, <2>6
<1> QED BY <1>2, <1>3 DEF Complete

-----------------------------------------------------------------------------
TheWhole == [from |-> 0, length |-> AduLength]

LocalTypes ==
  /\ copies \in Copies /\ arrived \in [UNION Copies -> 0 .. MaxCopies] /\ clock \in 0 .. MaxClock
  /\ late \in Nat /\ outcome \in [given : Nat, dropped : Nat]
  /\ fragments \in Seq(copies) /\ Sorted(fragments)
  /\ \A n \in 1 .. Len(fragments) : arrived[fragments[n]] > 0

\* Of copies with one deadline, those in the list are known, and the ADU once it is delivered.
Remembered ==
  OneDeadline =>
    /\ known \in Seq(Ids)
    /\ \A n \in 1 .. Len(known) : \A c \in copies : known[n].deadline = c.deadline
    /\ \A n \in 1 .. Len(fragments) : Lists(known, fragments[n])
    /\ Apart(fragments)
    /\ Deliveries <= 1 + late /\ (Deliveries > 0 => Lists(known, TheWhole))

\* The inductive invariant.
LocalIInv == LocalTypes /\ Remembered /\ DeliveredWhole /\ NothingMissing

LEMMA BytesOfAdu ==
  ASSUME CopiesAssumption, copies \in Copies, NEW c \in copies
  PROVE  Bytes(c) \subseteq 0 .. AduLength - 1 /\ (~ c.fragment => Bytes(c) = 0 .. AduLength - 1)
BY DEF CopiesAssumption, Bytes

\* The identifier of a copy is added to the known ones unless it is there.
LEMMA RecordedOnce ==
  ASSUME CopiesAssumption, LocalTypes, Remembered, OneDeadline, NEW c \in copies, c.deadline >= clock
  PROVE  /\ Id(c) \in Ids
         /\ Recorded(Id(c)) \in Seq(Ids)
         /\ \A n \in 1 .. Len(Recorded(Id(c))) : \A d \in copies : Recorded(Id(c))[n].deadline = d.deadline
         /\ \A j : Lists(Recorded(Id(c)), j) <=> Lists(known, j) \/ SameId(c, j)
         /\ Knows(known, Id(c)) <=> Lists(known, c)
         /\ Lists(known, c) => Recorded(Id(c)) = known
<1>1. Id(c) \in Ids /\ Id(c).deadline = c.deadline /\ (\A j : SameId(Id(c), j) <=> SameId(c, j))
      /\ \A j : SameId(j, Id(c)) <=> SameId(j, c)
  BY DEF CopiesAssumption, LocalTypes, Ids, Id, SameId
<1>2. Lists(known, Id(c)) <=> Lists(known, c)
  BY <1>1 DEF Lists
<1>3. known \in Seq(Ids) /\ \A n \in 1 .. Len(known) : \A d \in copies : known[n].deadline = d.deadline
  BY DEF Remembered
<1>4. /\ Knows(known, Id(c)) <=> Lists(known, Id(c))
      /\ Recorded(Id(c)) = IF Lists(known, Id(c)) THEN known ELSE Append(known, Id(c))
  BY <1>1, <1>3, StopIs, RecordedIs
<1>5. CASE Lists(known, c)
  <2>1. Recorded(Id(c)) = known
    BY <1>2, <1>4, <1>5
  <2>2. ASSUME NEW j, SameId(c, j) PROVE Lists(known, j)
    BY <1>5, <2>2 DEF Lists, SameId
  <2> QED BY <1>1, <1>2, <1>3, <1>4, <2>1, <2>2
<1>6. CASE ~ Lists(known, c)
  <2> DEFINE l == Append(known, Id(c))
  <2>1. Recorded(Id(c)) = l
    BY <1>2, <1>4, <1>6
  <2>2. l \in Seq(Ids) /\ \A j : Lists(l, j) <=> Lists(known, j) \/ SameId(Id(c), j)
    BY <1>1, <1>3, AppendLists
  <2>3. ASSUME NEW n \in 1 .. Len(l), NEW d \in copies PROVE l[n].deadline = d.deadline
    <3>1. Len(l) = Len(known) + 1 /\ (\A k \in 1 .. Len(known) : l[k] = known[k])
          /\ l[Len(known) + 1] = Id(c)
      BY <1>1, <1>3
    <3>2. c.deadline = d.deadline
      BY DEF OneDeadline
    <3>3. n \in 1 .. Len(known) \/ n = Len(known) + 1
      BY <1>3, <3>1
    <3> HIDE DEF l
    <3> QED BY <1>1, <1>3, <3>1, <3>2, <3>3
  <2> HIDE DEF l
  <2> QED BY <1>1, <1>2, <1>4, <1>6, <2>1, <2>2, <2>3
<1> QED BY <1>5, <1>6

\* Then the ADU as a whole.
LEMMA WholeRecorded ==
  ASSUME CopiesAssumption, LocalTypes, Remembered, OneDeadline, NEW c \in copies, c.deadline >= clock,
         NEW d \in copies
  PROVE  LET list == Recorded(Id(c))
             more == InsertedAt(list, WholeId(d), Behind(list, WholeId(d)))
         IN  /\ Knows(list, WholeId(d)) <=> Lists(list, TheWhole)
             /\ more \in Seq(Ids)
             /\ \A n \in 1 .. Len(more) : \A e \in copies : more[n].deadline = e.deadline
             /\ \A j : Lists(more, j) <=> Lists(list, j) \/ SameId(TheWhole, j)
<1> DEFINE list == Recorded(Id(c))
           more == InsertedAt(list, WholeId(d), Behind(list, WholeId(d)))
<1>1. list \in Seq(Ids) /\ \A n \in 1 .. Len(list) : \A e \in copies : list[n].deadline = e.deadline
  BY RecordedOnce
<1>2. /\ WholeId(d) \in Ids /\ WholeId(d).deadline = d.deadline
      /\ \A j : SameId(WholeId(d), j) <=> SameId(TheWhole, j)
      /\ \A j : SameId(j, WholeId(d)) <=> SameId(j, TheWhole)
  BY DEF CopiesAssumption, LocalTypes, Ids, WholeId, TheWhole, SameId
<1> HIDE DEF list
<1>3. \A n \in 1 .. Len(list) : list[n].deadline = WholeId(d).deadline
  BY <1>1, <1>2
<1>4. Knows(list, WholeId(d)) <=> Lists(list, WholeId(d))
  BY <1>1, <1>2, <1>3, StopIs
<1>5. Lists(list, WholeId(d)) <=> Lists(list, TheWhole)
  BY <1>2 DEF Lists
<1>6. more = Append(list, WholeId(d))
  BY <1>1, <1>2, <1>3, BehindLast, InsertedLast
<1> HIDE DEF more
<1>7. more \in Seq(Ids) /\ \A j : Lists(more, j) <=> Lists(list, j) \/ SameId(WholeId(d), j)
  BY <1>1, <1>2, <1>6, AppendLists
<1>8. ASSUME NEW n \in 1 .. Len(more), NEW e \in copies PROVE more[n].deadline = e.deadline
  <2>1. Len(more) = Len(list) + 1 /\ (\A k \in 1 .. Len(list) : more[k] = list[k])
        /\ more[Len(list) + 1] = WholeId(d)
    BY <1>1, <1>2, <1>6
  <2>2. d.deadline = e.deadline
    BY DEF OneDeadline
  <2>3. n \in 1 .. Len(list) \/ n = Len(list) + 1
    BY <1>1, <2>1
  <2> QED BY <1>1, <1>2, <2>1, <2>2, <2>3
<1> QED BY <1>2, <1>4, <1>5, <1>7, <1>8 DEF list, more

\* What has been delivered was there, when more copies have come than then.
More == copies' = copies /\ \A d \in copies : arrived[d] > 0 => arrived'[d] > 0

LEMMA StillAllThere ==
  ASSUME CopiesAssumption, copies \in Copies, NothingMissing, More, outcome' = outcome
  PROVE  NothingMissing'
<1> SUFFICES ASSUME Deliveries > 0
             PROVE  0 .. AduLength - 1 = UNION {Bytes(c) : c \in {d \in copies : arrived'[d] > 0}}
  BY DEF NothingMissing, More, Deliveries, Bytes
<1>1. 0 .. AduLength - 1 = UNION {Bytes(c) : c \in {d \in copies : arrived[d] > 0}}
  BY DEF NothingMissing, Deliveries
<1>2. \A d \in copies : Bytes(d) \subseteq 0 .. AduLength - 1
  BY BytesOfAdu
<1> QED BY <1>1, <1>2 DEF More

\* A delivery misses nothing when each byte is in a copy that has come.
LEMMA AllThere ==
  ASSUME CopiesAssumption, copies \in Copies, copies' = copies,
         \A b \in 0 .. AduLength - 1 : \E d \in copies : arrived'[d] > 0 /\ b \in Bytes(d)
  PROVE  NothingMissing'
<1>2. \A d \in copies : Bytes(d) \subseteq 0 .. AduLength - 1
  BY BytesOfAdu
<1>3. 0 .. AduLength - 1 = UNION {Bytes(c) : c \in {d \in copies : arrived'[d] > 0}}
  BY <1>2
<1> QED BY <1>3 DEF NothingMissing, Bytes

LEMMA StillWhole ==
  ASSUME DeliveredWhole, More, UNCHANGED <<fragments, outcome>>
  PROVE  DeliveredWhole'
<1>1. NoneNested' => NoneNested
  BY DEF NoneNested, More, Bytes
<1>2. OneDeadline' => OneDeadline
  BY DEF OneDeadline, More
<1>3. (0 .. AduLength - 1 = UNION {Bytes(c) : c \in ToSet(fragments)})' =>
        0 .. AduLength - 1 = UNION {Bytes(c) : c \in ToSet(fragments)}
  BY DEF Bytes
<1>4. Deliveries' = Deliveries
  BY DEF Deliveries
<1> QED BY <1>1, <1>2, <1>3, <1>4 DEF DeliveredWhole

LEMMA LateCounts ==
  ASSUME NEW n \in Nat, NEW l \in Nat, NEW m \in {l, l + 1}, n <= 1 + l
  PROVE  n <= 1 + m
<1>1. m = l \/ m = l + 1
  OBVIOUS
<1>2. CASE m = l
  BY <1>2
<1>3. CASE m = l + 1
  BY <1>3
<1> QED BY <1>1, <1>2, <1>3

LEMMA StillRemembered ==
  ASSUME Remembered, UNCHANGED <<copies, known, fragments, outcome, late>>
  PROVE  Remembered'
BY DEF Remembered, OneDeadline, Deliveries, Lists, Apart, SameId

\* What arrives is counted.
LEMMA ReceiveCounts ==
  ASSUME CopiesAssumption, LocalTypes, NEW c \in copies, Receive(c)
  PROVE  /\ More /\ arrived' \in [UNION Copies -> 0 .. MaxCopies] /\ arrived'[c] > 0
         /\ clock' = clock
<1>1. c \in UNION Copies /\ arrived[c] \in 0 .. MaxCopies /\ arrived[c] < MaxCopies
      /\ arrived' = [arrived EXCEPT ![c] = @ + 1] /\ copies' = copies /\ clock' = clock
  BY DEF LocalTypes, Receive
<1>2. arrived' \in [UNION Copies -> 0 .. MaxCopies] /\ arrived'[c] = arrived[c] + 1
  BY <1>1 DEF CopiesAssumption, LocalTypes
<1>3. ASSUME NEW d \in copies, arrived[d] > 0 PROVE arrived'[d] > 0
  <2>1. CASE d = c
    BY <1>1, <1>2, <2>1
  <2>2. CASE d # c
    BY <1>1, <1>3, <2>2 DEF LocalTypes
  <2> QED BY <2>1, <2>2
<1>4. arrived'[c] > 0
  BY <1>1, <1>2
<1> QED BY <1>1, <1>2, <1>3, <1>4 DEF More

\* What is dropped.
LEMMA DropKeeps ==
  ASSUME CopiesAssumption, LocalIInv, NEW c \in copies, Receive(c),
         UNCHANGED <<fragments, outcome, late>>,
         \/ known' = known
         \/ c.deadline >= clock /\ Knows(known, Id(c)) /\ known' = Recorded(Id(c))
  PROVE  LocalIInv'
<1>1. LocalTypes' /\ More
  <2>1. /\ More /\ arrived' \in [UNION Copies -> 0 .. MaxCopies] /\ clock' = clock
    BY ReceiveCounts DEF LocalIInv
  <2>2. \A n \in 1 .. Len(fragments) : fragments[n] \in copies
    BY DEF LocalIInv, LocalTypes
  <2> QED BY <2>1, <2>2 DEF LocalIInv, LocalTypes, More, Sorted
<1>2. Remembered'
  <2>1. OneDeadline' => OneDeadline
    BY <1>1 DEF OneDeadline, More
  <2>2. OneDeadline => known' = known
    BY RecordedOnce DEF LocalIInv
  <2>3. CASE known' = known
    BY <1>1, <2>3, StillRemembered DEF LocalIInv, More
  <2>4. CASE known' # known
    BY <2>1, <2>2, <2>4 DEF Remembered
  <2> QED BY <2>3, <2>4
<1>3. DeliveredWhole' /\ NothingMissing'
  BY <1>1, StillWhole, StillAllThere DEF LocalIInv, LocalTypes
<1> QED BY <1>1, <1>2, <1>3 DEF LocalIInv

LEMMA GiveCounts ==
  ASSUME LocalTypes, Give
  PROVE  outcome' \in [given : Nat, dropped : Nat] /\ Deliveries' = Deliveries + 1 /\ Deliveries \in Nat /\ Deliveries' > 0
<1>1. outcome.given \in Nat /\ outcome.dropped \in Nat
  BY DEF LocalTypes
<1>2. CASE subscribed
  <2>1. outcome' = [outcome EXCEPT !.given = @ + 1]
    BY <1>2 DEF Give
  <2>2. outcome' \in [given : Nat, dropped : Nat] /\ outcome'.given = outcome.given + 1
        /\ outcome'.dropped = outcome.dropped
    BY <1>1, <2>1 DEF LocalTypes
  <2> QED BY <1>1, <2>2 DEF Deliveries
<1>3. CASE ~ subscribed
  <2>1. outcome' = [outcome EXCEPT !.dropped = @ + 1]
    BY <1>3 DEF Give
  <2>2. outcome' \in [given : Nat, dropped : Nat] /\ outcome'.dropped = outcome.dropped + 1
        /\ outcome'.given = outcome.given
    BY <1>1, <2>1 DEF LocalTypes
  <2> QED BY <1>1, <2>2 DEF Deliveries
<1> QED BY <1>2, <1>3

\* A bundle that is not a fragment.
LEMMA WholeKeeps ==
  ASSUME CopiesAssumption, LocalIInv, NEW c \in copies, Receive(c), c.deadline >= clock,
         ~ Knows(known, Id(c)), ~ c.fragment, known' = Recorded(Id(c)), Give,
         UNCHANGED <<fragments, late>>
  PROVE  LocalIInv'
<1>1. /\ More /\ arrived' \in [UNION Copies -> 0 .. MaxCopies] /\ arrived'[c] > 0 /\ clock' = clock
      /\ outcome' \in [given : Nat, dropped : Nat] /\ Deliveries' = Deliveries + 1 /\ Deliveries \in Nat /\ Deliveries' > 0
  BY ReceiveCounts, GiveCounts DEF LocalIInv
<1>2. LocalTypes'
  <2>1. \A n \in 1 .. Len(fragments) : fragments[n] \in copies
    BY DEF LocalIInv, LocalTypes
  <2> QED BY <1>1, <2>1 DEF LocalIInv, LocalTypes, More, Sorted
<1>3. Remembered'
  <2> SUFFICES ASSUME OneDeadline'
               PROVE  /\ known' \in Seq(Ids)
                      /\ \A n \in 1 .. Len(known') : \A d \in copies' : known'[n].deadline = d.deadline
                      /\ \A n \in 1 .. Len(fragments') : Lists(known', fragments'[n])
                      /\ Apart(fragments')
                      /\ Deliveries' <= 1 + late' /\ (Deliveries' > 0 => Lists(known', TheWhole))
    BY DEF Remembered, Lists, Apart, TheWhole, SameId
  <2>1. OneDeadline /\ copies' = copies
    BY <1>1 DEF OneDeadline, More
  <2>2. /\ known' \in Seq(Ids)
        /\ \A n \in 1 .. Len(known') : \A d \in copies : known'[n].deadline = d.deadline
        /\ \A j : Lists(known', j) <=> Lists(known, j) \/ SameId(c, j)
        /\ ~ Lists(known, c)
    BY <2>1, RecordedOnce DEF LocalIInv
  <2>3. SameId(c, TheWhole) /\ \A k : SameId(k, TheWhole) => SameId(k, c)
    BY DEF CopiesAssumption, LocalIInv, LocalTypes, SameId, TheWhole
  <2>4. ~ Lists(known, TheWhole)
    BY <2>2, <2>3 DEF Lists
  <2>5. Deliveries = 0
    BY <1>1, <2>1, <2>4 DEF LocalIInv, Remembered
  <2>6. Deliveries' <= 1 + late'
    <3> DEFINE n == Deliveries'
    <3>1. n = 1 /\ late \in Nat /\ late' = late
      BY <1>1, <2>5 DEF LocalIInv, LocalTypes
    <3> HIDE DEF n
    <3>2. n <= 1 + late'
      BY <3>1
    <3> QED BY <3>2 DEF n
  <2> QED BY <1>1, <2>1, <2>2, <2>3, <2>6 DEF LocalIInv, Remembered
<1>4. DeliveredWhole'
  BY <1>1 DEF DeliveredWhole, Deliveries
<1>5. NothingMissing'
  <2>1. Bytes(c) = 0 .. AduLength - 1
    BY BytesOfAdu DEF LocalIInv, LocalTypes
  <2> QED BY <1>1, <2>1, AllThere DEF LocalIInv, LocalTypes, More
<1> QED BY <1>2, <1>3, <1>4, <1>5 DEF LocalIInv

\* A fragment that is taken for one of another ADU.
LEMMA LateKeeps ==
  ASSUME CopiesAssumption, LocalIInv, NEW c \in copies, Receive(c), c.deadline >= clock,
         known' = Recorded(Id(c)), late' \in {late, late + 1}, UNCHANGED <<fragments, outcome>>
  PROVE  LocalIInv'
<1>1. More /\ arrived' \in [UNION Copies -> 0 .. MaxCopies] /\ clock' = clock
  BY ReceiveCounts DEF LocalIInv
<1>0. late \in Nat /\ late' \in Nat /\ late' >= late
  BY DEF LocalIInv, LocalTypes
<1>2. LocalTypes'
  <2>1. \A n \in 1 .. Len(fragments) : fragments[n] \in copies
    BY DEF LocalIInv, LocalTypes
  <2> QED BY <1>0, <1>1, <2>1 DEF LocalIInv, LocalTypes, More, Sorted
<1>3. Remembered'
  <2> SUFFICES ASSUME OneDeadline'
               PROVE  /\ known' \in Seq(Ids)
                      /\ \A n \in 1 .. Len(known') : \A d \in copies' : known'[n].deadline = d.deadline
                      /\ \A n \in 1 .. Len(fragments') : Lists(known', fragments'[n])
                      /\ Apart(fragments')
                      /\ Deliveries' <= 1 + late' /\ (Deliveries' > 0 => Lists(known', TheWhole))
    BY DEF Remembered, Lists, Apart, TheWhole, SameId
  <2>1. OneDeadline /\ copies' = copies
    BY <1>1 DEF OneDeadline, More
  <2>2. /\ known' \in Seq(Ids)
        /\ \A n \in 1 .. Len(known') : \A d \in copies : known'[n].deadline = d.deadline
        /\ \A j : Lists(known, j) => Lists(known', j)
    BY <2>1, RecordedOnce DEF LocalIInv
  <2>3. Deliveries' = Deliveries /\ Deliveries \in Nat
    BY DEF Deliveries, LocalIInv, LocalTypes
  <2>4. Deliveries <= 1 + late
    BY <2>1 DEF LocalIInv, Remembered
  <2>5. Deliveries' <= 1 + late'
    <3> DEFINE n == Deliveries
    <3>1. n \in Nat /\ n <= 1 + late /\ Deliveries' = n
      BY <2>3, <2>4
    <3> HIDE DEF n
    <3>2. n <= 1 + late'
      BY <1>0, <3>1, LateCounts
    <3> QED BY <3>1, <3>2
  <2> QED BY <2>1, <2>2, <2>3, <2>5 DEF LocalIInv, Remembered
<1>4. DeliveredWhole' /\ NothingMissing'
  BY <1>1, StillWhole, StillAllThere DEF LocalIInv, LocalTypes
<1> QED BY <1>2, <1>3, <1>4 DEF LocalIInv

\* The fragment that completes the ADU.
LEMMA ReassembledKeeps ==
  ASSUME CopiesAssumption, LocalIInv, NEW c \in copies, Receive(c), c.deadline >= clock,
         NEW d \in copies, Complete(Inserted(c)),
         known' = InsertedAt(Recorded(Id(c)), WholeId(d), Behind(Recorded(Id(c)), WholeId(d))),
         late' = IF Knows(Recorded(Id(c)), WholeId(c)) THEN late + 1 ELSE late,
         fragments' = <<>>, Give
  PROVE  LocalIInv'
<1>1. /\ More /\ arrived' \in [UNION Copies -> 0 .. MaxCopies] /\ arrived'[c] > 0 /\ clock' = clock
      /\ outcome' \in [given : Nat, dropped : Nat] /\ Deliveries' = Deliveries + 1 /\ Deliveries \in Nat /\ Deliveries' > 0
  BY ReceiveCounts, GiveCounts DEF LocalIInv
<1>0. late \in Nat /\ late' \in Nat
  BY DEF LocalIInv, LocalTypes
<1>2. LocalTypes'
  BY <1>0, <1>1 DEF LocalIInv, LocalTypes, More, Sorted
<1>3. Remembered'
  <2> SUFFICES ASSUME OneDeadline'
               PROVE  /\ known' \in Seq(Ids)
                      /\ \A n \in 1 .. Len(known') : \A e \in copies' : known'[n].deadline = e.deadline
                      /\ \A n \in 1 .. Len(fragments') : Lists(known', fragments'[n])
                      /\ Apart(fragments')
                      /\ Deliveries' <= 1 + late' /\ (Deliveries' > 0 => Lists(known', TheWhole))
    BY DEF Remembered, Lists, Apart, TheWhole, SameId
  <2>1. OneDeadline /\ copies' = copies
    BY <1>1 DEF OneDeadline, More
  <2>2. /\ \A j : Lists(known, j) => Lists(Recorded(Id(c)), j)
    BY <2>1, RecordedOnce DEF LocalIInv
  <2>3. Knows(Recorded(Id(c)), WholeId(c)) <=> Lists(Recorded(Id(c)), TheWhole)
    BY <2>1, WholeRecorded DEF LocalIInv
  <2>4. Deliveries' <= 1 + late'
    <3>1. CASE Lists(Recorded(Id(c)), TheWhole)
      <4>1. late' = late + 1 /\ Deliveries <= 1 + late
        BY <2>1, <2>3, <3>1 DEF LocalIInv, Remembered
      <4> QED BY <1>0, <1>1, <4>1
    <3>2. CASE ~ Lists(Recorded(Id(c)), TheWhole)
      <4>1. late' = late /\ Deliveries = 0
        BY <1>1, <2>1, <2>2, <2>3, <3>2 DEF LocalIInv, Remembered
      <4> QED BY <1>0, <1>1, <4>1
    <3> QED BY <3>1, <3>2
  <2>5. /\ known' \in Seq(Ids)
        /\ \A n \in 1 .. Len(known') : \A e \in copies : known'[n].deadline = e.deadline
        /\ \A j : Lists(known', j) <=> Lists(Recorded(Id(c)), j) \/ SameId(TheWhole, j)
    BY <2>1, WholeRecorded DEF LocalIInv
  <2>6. SameId(TheWhole, TheWhole)
    BY DEF SameId
  <2>7. Len(fragments') = 0 /\ Apart(fragments')
    BY DEF Apart
  <2> QED BY <1>1, <2>1, <2>4, <2>5, <2>6, <2>7
<1>4. DeliveredWhole'
  BY <1>1 DEF DeliveredWhole, Deliveries
<1>5. NothingMissing'
  <2> DEFINE list == Inserted(c)
  <2>1. /\ list \in Seq(copies)
        /\ \A i \in 1 .. Len(list) : list[i] = c \/ \E j \in 1 .. Len(fragments) : list[i] = fragments[j]
    BY InsertedFits DEF LocalIInv, LocalTypes
  <2>2. Covered(list)
    BY <2>1, CompleteCovers DEF LocalIInv, LocalTypes
  <2> HIDE DEF list
  <2>3. \A i \in 1 .. Len(list) : list[i] \in copies /\ arrived'[list[i]] > 0
    <3> SUFFICES ASSUME NEW i \in 1 .. Len(list) PROVE list[i] \in copies /\ arrived'[list[i]] > 0
      OBVIOUS
    <3>1. CASE list[i] = c
      BY <1>1, <3>1
    <3>2. CASE \E j \in 1 .. Len(fragments) : list[i] = fragments[j]
      <4>1. PICK j \in 1 .. Len(fragments) : list[i] = fragments[j]
        BY <3>2
      <4>2. fragments[j] \in copies /\ arrived[fragments[j]] > 0
        BY DEF LocalIInv, LocalTypes
      <4> QED BY <1>1, <4>1, <4>2 DEF More
    <3> QED BY <2>1, <3>1, <3>2
  <2>4. \A b \in 0 .. AduLength - 1 : \E e \in copies : arrived'[e] > 0 /\ b \in Bytes(e)
    BY <2>2, <2>3 DEF Covered
  <2> QED BY <1>1, <2>4, AllThere DEF LocalIInv, LocalTypes, More
<1> QED BY <1>2, <1>3, <1>4, <1>5 DEF LocalIInv

\* A fragment that leaves it incomplete.
LEMMA KeptKeeps ==
  ASSUME CopiesAssumption, LocalIInv, NEW c \in copies, Receive(c), c.deadline >= clock,
         ~ Knows(known, Id(c)), ~ Complete(Inserted(c)),
         known' = Recorded(Id(c)), fragments' = Inserted(c), late' \in {late, late + 1}, UNCHANGED outcome
  PROVE  LocalIInv'
<1>1. More /\ arrived' \in [UNION Copies -> 0 .. MaxCopies] /\ arrived'[c] > 0 /\ clock' = clock
  BY ReceiveCounts DEF LocalIInv
<1>0. late \in Nat /\ late' \in Nat /\ late' >= late
  BY DEF LocalIInv, LocalTypes
<1> DEFINE list == Inserted(c)
<1>2. /\ list \in Seq(copies) /\ Sorted(list)
      /\ \A i \in 1 .. Len(list) : list[i] = c \/ \E j \in 1 .. Len(fragments) : list[i] = fragments[j]
      /\ Apart(fragments) /\ ~ Lists(fragments, c) => Apart(list)
  BY InsertedFits DEF LocalIInv, LocalTypes
<1>3. fragments' = list /\ ~ Complete(list)
  OBVIOUS
<1> HIDE DEF list
<1>4. \A i \in 1 .. Len(list) : list[i] \in copies /\ arrived'[list[i]] > 0
  <2> SUFFICES ASSUME NEW i \in 1 .. Len(list) PROVE list[i] \in copies /\ arrived'[list[i]] > 0
    OBVIOUS
  <2>1. CASE list[i] = c
    BY <1>1, <2>1
  <2>2. CASE \E j \in 1 .. Len(fragments) : list[i] = fragments[j]
    <3>1. PICK j \in 1 .. Len(fragments) : list[i] = fragments[j]
      BY <2>2
    <3>2. fragments[j] \in copies /\ arrived[fragments[j]] > 0
      BY DEF LocalIInv, LocalTypes
    <3> QED BY <1>1, <3>1, <3>2 DEF More
  <2> QED BY <1>2, <2>1, <2>2
<1>5. LocalTypes'
  BY <1>0, <1>1, <1>2, <1>3, <1>4 DEF LocalIInv, LocalTypes, More, Sorted
<1>6. OneDeadline' =>
        /\ known' \in Seq(Ids)
        /\ \A n \in 1 .. Len(known') : \A d \in copies' : known'[n].deadline = d.deadline
        /\ \A n \in 1 .. Len(fragments') : Lists(known', fragments'[n])
        /\ Apart(fragments')
        /\ Deliveries' <= 1 + late' /\ (Deliveries' > 0 => Lists(known', TheWhole))
  <2> SUFFICES ASSUME OneDeadline' PROVE
        /\ known' \in Seq(Ids)
        /\ \A n \in 1 .. Len(known') : \A d \in copies' : known'[n].deadline = d.deadline
        /\ \A n \in 1 .. Len(fragments') : Lists(known', fragments'[n])
        /\ Apart(fragments')
        /\ Deliveries' <= 1 + late' /\ (Deliveries' > 0 => Lists(known', TheWhole))
    OBVIOUS
  <2>1. OneDeadline /\ copies' = copies
    BY <1>1 DEF OneDeadline, More
  <2>2. /\ known' \in Seq(Ids)
        /\ \A n \in 1 .. Len(known') : \A d \in copies : known'[n].deadline = d.deadline
        /\ \A j : Lists(known', j) <=> Lists(known, j) \/ SameId(c, j)
        /\ ~ Lists(known, c)
    BY <2>1, RecordedOnce DEF LocalIInv
  <2>3. ~ Lists(fragments, c)
    <3> SUFFICES ASSUME Lists(fragments, c) PROVE FALSE
      OBVIOUS
    <3>1. PICK n \in 1 .. Len(fragments) : SameId(fragments[n], c)
      BY DEF Lists
    <3>2. Lists(known, fragments[n])
      BY <2>1 DEF LocalIInv, Remembered
    <3> QED BY <2>2, <3>1, <3>2 DEF Lists, SameId
  <2>4. Apart(list)
    BY <1>2, <2>1, <2>3 DEF LocalIInv, Remembered
  <2>5. \A n \in 1 .. Len(list) : Lists(known', list[n])
    <3> SUFFICES ASSUME NEW n \in 1 .. Len(list) PROVE Lists(known', list[n])
      OBVIOUS
    <3>1. CASE list[n] = c
      BY <2>2, <3>1 DEF SameId
    <3>2. CASE \E j \in 1 .. Len(fragments) : list[n] = fragments[j]
      BY <2>1, <2>2, <3>2 DEF LocalIInv, Remembered
    <3> QED BY <1>2, <3>1, <3>2
  <2>6. Deliveries' = Deliveries /\ Deliveries \in Nat
    BY DEF Deliveries, LocalIInv, LocalTypes
  <2>7. Deliveries <= 1 + late
    BY <2>1 DEF LocalIInv, Remembered
  <2>8. Deliveries' <= 1 + late'
    <3> DEFINE n == Deliveries
    <3>1. n \in Nat /\ n <= 1 + late /\ Deliveries' = n
      BY <2>6, <2>7
    <3> HIDE DEF n
    <3>2. n <= 1 + late'
      BY <1>0, <3>1, LateCounts
    <3> QED BY <3>1, <3>2
  <2> QED BY <1>3, <2>1, <2>2, <2>4, <2>5, <2>6, <2>8 DEF LocalIInv, Remembered
<1>7. Remembered'
  BY <1>6 DEF Remembered, Lists, Apart, TheWhole, SameId
<1>8. DeliveredWhole'
  <2> SUFFICES ASSUME NoneNested', OneDeadline',
                      0 .. AduLength - 1 = UNION {Bytes(d) : d \in ToSet(list)}
               PROVE  FALSE
    BY <1>3 DEF DeliveredWhole, Bytes
  <2>1. Covered(list)
    BY <1>2 DEF Covered, ToSet
  <2>2. ASSUME NEW i \in 1 .. Len(list), NEW j \in 1 .. Len(list), i < j
        PROVE  ~ (Bytes(list[j]) \subseteq Bytes(list[i]))
    <3>1. ~ SameId(list[i], list[j])
      BY <1>3, <1>6, <2>2 DEF Apart
    <3>2. list[j] # list[i]
      BY <3>1 DEF SameId
    <3> QED BY <1>1, <1>4, <3>2 DEF NoneNested, Bytes, More
  <2>3. Complete(list)
    BY <1>2, <2>1, <2>2, CoveredCompletes DEF LocalIInv, LocalTypes
  <2> QED BY <1>3, <2>3
<1>9. NothingMissing'
  BY <1>1, StillAllThere DEF LocalIInv, LocalTypes
<1> QED BY <1>5, <1>7, <1>8, <1>9 DEF LocalIInv

LEMMA ReceiveKeeps ==
  ASSUME CopiesAssumption, LocalIInv, NEW c \in copies, Receive(c)
  PROVE  LocalIInv'
<1>1. CASE c.deadline < clock /\ UNCHANGED <<known, fragments, outcome, late>>
  BY <1>1, DropKeeps
<1>2. CASE /\ c.deadline >= clock /\ Knows(known, Id(c))
           /\ known' = Recorded(Id(c)) /\ UNCHANGED <<fragments, outcome, late>>
  BY <1>2, DropKeeps
<1>3. CASE /\ c.deadline >= clock /\ ~ Knows(known, Id(c)) /\ ~ c.fragment
           /\ known' = Recorded(Id(c)) /\ Give /\ UNCHANGED <<fragments, late>>
  BY <1>3, WholeKeeps
<1>4. CASE c.deadline >= clock /\ ~ Knows(known, Id(c)) /\ c.fragment /\ Attempt(c)
  <2> DEFINE list == Recorded(Id(c))
             first == Inserted(c)[1]
  <2>1. /\ late' = IF Knows(list, WholeId(c)) THEN late + 1 ELSE late
        /\ \/ known' = list /\ UNCHANGED <<fragments, outcome>>
           \/ /\ Complete(Inserted(c))
              /\ known' = InsertedAt(list, WholeId(first), Behind(list, WholeId(first)))
              /\ fragments' = <<>> /\ Give
           \/ /\ ~ Complete(Inserted(c))
              /\ known' = list /\ fragments' = Inserted(c) /\ UNCHANGED outcome
    BY <1>4, Zenon DEF Attempt, TryReassemble
  <2>0. late' \in {late, late + 1}
    BY <2>1
  <2>2. first \in copies
    <3>1. Inserted(c) \in Seq(copies) /\ Len(Inserted(c)) = Len(fragments) + 1
      BY InsertedFits DEF LocalIInv, LocalTypes
    <3>2. Len(fragments) \in Nat
      BY DEF LocalIInv, LocalTypes
    <3> QED BY <3>1, <3>2
  <2> HIDE DEF first
  <2>3. CASE known' = list /\ UNCHANGED <<fragments, outcome>>
    BY <1>4, <2>0, <2>3, LateKeeps
  <2>4. CASE /\ Complete(Inserted(c))
             /\ known' = InsertedAt(list, WholeId(first), Behind(list, WholeId(first)))
             /\ fragments' = <<>> /\ Give
    BY <1>4, <2>1, <2>2, <2>4, ReassembledKeeps
  <2>5. CASE /\ ~ Complete(Inserted(c))
             /\ known' = list /\ fragments' = Inserted(c) /\ UNCHANGED outcome
    BY <1>4, <2>0, <2>5, KeptKeeps
  <2> QED BY <2>1, <2>3, <2>4, <2>5
<1> QED BY <1>1, <1>2, <1>3, <1>4, Zenon DEF Receive

LEMMA LocalStarts ==
  ASSUME CopiesAssumption, InitLocal
  PROVE  LocalIInv
<1>1. LocalTypes
  <2>1. MaxCopies \in Nat /\ MaxClock \in Nat
    BY DEF CopiesAssumption
  <2>2. arrived \in [UNION Copies -> 0 .. MaxCopies] /\ clock \in 0 .. MaxClock
    BY <2>1 DEF InitLocal
  <2>3. fragments \in Seq(copies) /\ Len(fragments) = 0
    BY DEF InitLocal
  <2>4. /\ outcome \in [given : Nat, dropped : Nat] /\ late \in Nat /\ copies \in Copies
    BY DEF InitLocal
  <2> QED BY <2>2, <2>3, <2>4 DEF LocalTypes, Sorted
<1>2. Remembered
  BY DEF InitLocal, Remembered, Apart, Deliveries, Lists
<1>3. DeliveredWhole
  <2>1. ToSet(fragments) = {} /\ 0 \in 0 .. AduLength - 1
    BY DEF InitLocal, ToSet, CopiesAssumption
  <2>2. UNION {Bytes(c) : c \in ToSet(fragments)} = {}
    BY <2>1
  <2> QED BY <2>1, <2>2 DEF DeliveredWhole
<1>4. NothingMissing
  BY DEF InitLocal, NothingMissing, Deliveries
<1> QED BY <1>1, <1>2, <1>3, <1>4 DEF LocalIInv

LEMMA LocalSteps ==
  ASSUME CopiesAssumption, LocalIInv, [NextLocal]_localVars
  PROVE  LocalIInv'
<1>1. CASE Tick
  <2>1. More /\ UNCHANGED <<copies, arrived, known, fragments, outcome, late>>
        /\ clock' \in 0 .. MaxClock
    BY <1>1 DEF Tick, More, LocalIInv, LocalTypes, CopiesAssumption
  <2> QED BY <2>1, StillRemembered, StillWhole, StillAllThere
          DEF LocalIInv, LocalTypes, Sorted
<1>2. CASE Resubscribe \/ UNCHANGED localVars
  <2>1. More /\ UNCHANGED <<copies, arrived, clock, known, fragments, outcome, late>>
    BY <1>2 DEF Resubscribe, localVars, More
  <2> QED BY <2>1, StillRemembered, StillWhole, StillAllThere
          DEF LocalIInv, LocalTypes, Sorted
<1>3. CASE \E c \in copies : Receive(c)
  BY <1>3, ReceiveKeeps
<1> QED BY <1>1, <1>2, <1>3 DEF NextLocal

LEMMA LocalRight ==
  ASSUME CopiesAssumption, LocalIInv
  PROVE  LocalInv
<1>1. LocalTypeOK
  BY DEF LocalIInv, LocalTypes, LocalTypeOK
<1>2. OncePerLate
  BY DEF LocalIInv, Remembered, OncePerLate
<1> QED BY <1>1, <1>2 DEF LocalIInv, LocalInv

\* However often and in whatever pieces an ADU arrives, it is delivered when all of it has come,
\* not before, and again only for a fragment each time that came after it, was freed and was used
\* all the same (bundle_deliver_local, bundle_attempt_reassembly, whose first branch does not
\* return): for all ADUs, ways to cut them, orders of arrival and clocks.
THEOREM LocalInvariant ==
  ASSUME CopiesAssumption
  PROVE  SpecLocal => []LocalInv
<1>1. InitLocal => LocalIInv
  BY LocalStarts
<1>2. LocalIInv /\ [NextLocal]_localVars => LocalIInv'
  BY LocalSteps
<1>3. LocalIInv => LocalInv
  BY LocalRight
<1> QED BY <1>1, <1>2, <1>3, PTL DEF SpecLocal
=============================================================================
