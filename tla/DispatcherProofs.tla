-------------------------- MODULE DispatcherProofs --------------------------
(***************************************************************************)
(* What the run of the bundle dispatcher checks on small instances, proved *)
(* for all bundles, sizes and contact plans: a schedule fits its contacts, *)
(* by an induction over the loop that makes it; what is planned for a      *)
(* contact has a queue; and a bundle is deleted when all of it was sent.   *)
(* Then, from the same lemmas about sequences, three other programs that   *)
(* keep what they are to use in order: the client of node A, its messages, *)
(* the transports of aiocoap over datagrams, their pools, and those over   *)
(* streams, what they have been sent.                                      *)
(***************************************************************************)
EXTENDS BundleDispatcher, ClientService, DatagramTransport, StreamTransport, FiniteSetTheorems,
        SequenceTheorems, WellFoundedInduction, TLAPS

LEMMA LeastNat ==
  ASSUME NEW T \in SUBSET Nat, T # {}
  PROVE  \E x \in T : \A y \in T : x <= y
<1> DEFINE R == {ss \in Nat \X Nat : ss[1] < ss[2]}
<1>1. IsWellFoundedOn(R, Nat)
  BY NatLessThanWellFounded DEF OpToRel
<1>2. \E x \in T : \A y \in T : ~ (<<y, x>> \in R)
  <2> HIDE DEF R
  <2> QED BY <1>1, WFMin
<1>3. \A x, y \in Nat : ~ (<<y, x>> \in R) => x <= y
  OBVIOUS
<1> HIDE DEF R
<1> QED BY <1>2, <1>3

\* Induction over the natural numbers, for the set of those that have a property.
LEMMA NatSets ==
  ASSUME NEW P, 0 \in P, \A n \in Nat : n \in P => n + 1 \in P
  PROVE  Nat \subseteq P
<1> SUFFICES ASSUME Nat \ P # {} PROVE FALSE
  OBVIOUS
<1>1. PICK x \in Nat \ P : \A y \in Nat \ P : x <= y
  BY LeastNat
<1>2. x # 0 /\ x - 1 \in Nat /\ x - 1 \notin Nat \ P
  BY <1>1
<1> QED BY <1>1, <1>2

\* A fold over a finite set, as the community modules define it, exists and has its type.
Folds(S, choose, base, step, T) ==
  {g \in [SUBSET S -> T] :
     \A s \in SUBSET S : g[s] = IF s = {} THEN base ELSE step[choose[s], g[s \ {choose[s]}]]}

LEMMA FoldExists ==
  ASSUME NEW S, IsFiniteSet(S), NEW T, NEW base \in T, NEW step \in [S \X T -> T],
         NEW choose, \A s \in SUBSET S : s # {} => choose[s] \in s
  PROVE  Folds(S, choose, base, step, T) # {}
<1> DEFINE Sub(n) == {s \in SUBSET S : Cardinality(s) <= n}
           Good(n, g) == /\ g \in [Sub(n) -> T]
                         /\ \A s \in Sub(n) : g[s] = IF s = {} THEN base ELSE step[choose[s], g[s \ {choose[s]}]]
           P == {n \in Nat : \E g : Good(n, g)}
<1>fin. \A s \in SUBSET S : IsFiniteSet(s) /\ Cardinality(s) \in Nat
  BY FS_Subset, FS_CardinalityType
<1>less. \A s \in SUBSET S : s # {} => Cardinality(s \ {choose[s]}) = Cardinality(s) - 1
  BY <1>fin, FS_RemoveElement
<1>1. 0 \in P
  <2> DEFINE g == [s \in Sub(0) |-> base]
  <2>1. \A s \in Sub(0) : s = {}
    BY <1>fin, FS_EmptySet
  <2>2. Good(0, g)
    BY <2>1
  <2> QED BY <2>2
<1>2. ASSUME NEW n \in Nat, n \in P PROVE n + 1 \in P
  <2>1. PICK g : Good(n, g)
    BY <1>2
  <2> DEFINE h == [s \in Sub(n + 1) |-> IF s = {} THEN base ELSE step[choose[s], g[s \ {choose[s]}]]]
  <2>2. \A s \in Sub(n + 1) : s # {} => s \ {choose[s]} \in Sub(n)
    BY <1>fin, <1>less
  <2>3. Sub(n) \subseteq Sub(n + 1)
    BY <1>fin
  <2>4. \A s \in Sub(n) : h[s] = g[s]
    BY <2>1, <2>3
  <2>5. h \in [Sub(n + 1) -> T]
    BY <2>1, <2>2
  <2>6. Good(n + 1, h)
    BY <2>2, <2>4, <2>5
  <2>7. \E k : Good(n + 1, k)
    BY <2>6
  <2> HIDE DEF Good
  <2> QED BY <2>7
<1>3. Nat \subseteq P
  <2> HIDE DEF P
  <2> QED BY <1>1, <1>2, NatSets
<1>4. PICK g : Good(Cardinality(S), g)
  BY <1>3, FS_CardinalityType
<1>5. Sub(Cardinality(S)) = SUBSET S
  BY FS_Subset
<1> QED BY <1>4, <1>5 DEF Folds

\* The sum of the values of a function is an integer.
LEMMA SumIsInt ==
  ASSUME NEW f, IsFiniteSet(DOMAIN f), \A x \in DOMAIN f : f[x] \in Int
  PROVE  SumFunction(f) \in Int
<1> DEFINE S == DOMAIN f
           pick(s) == CHOOSE x \in s : TRUE
           Sums(it) == it = [s \in SUBSET S |-> IF s = {} THEN 0 ELSE f[pick(s)] + it[s \ {pick(s)}]]
           choose == [s \in SUBSET S |-> pick(s)]
           step == [p \in S \X Int |-> f[p[1]] + p[2]]
<1>1. \A s \in SUBSET S : s # {} => pick(s) \in s
  OBVIOUS
<1>2. PICK g \in [SUBSET S -> Int] :
        \A s \in SUBSET S : g[s] = IF s = {} THEN 0 ELSE step[choose[s], g[s \ {choose[s]}]]
  <2>1. step \in [S \X Int -> Int]
    OBVIOUS
  <2>2. \A s \in SUBSET S : s # {} => choose[s] \in s
    BY <1>1
  <2>0. IsFiniteSet(S)
    OBVIOUS
  <2> HIDE DEF S, step, choose
  <2>z. 0 \in Int
    OBVIOUS
  <2>3. Folds(S, choose, 0, step, Int) # {}
    BY <2>z, <2>0, <2>1, <2>2, FoldExists, Zenon
  <2> QED BY <2>3 DEF Folds
<1>3. Sums(g)
  <2>1. ASSUME NEW s \in SUBSET S, s # {}
        PROVE  step[choose[s], g[s \ {choose[s]}]] = f[pick(s)] + g[s \ {pick(s)}]
    <3>1. choose[s] = pick(s) /\ pick(s) \in S
      BY <1>1, <2>1
    <3>2. g[s \ {pick(s)}] \in Int
      BY <1>2
    <3> HIDE DEF choose, pick
    <3>3. <<pick(s), g[s \ {pick(s)}]>> \in S \X Int
      BY <3>1, <3>2
    <3> QED BY <3>1, <3>3
  <2> QED BY <1>2, <2>1
<1> DEFINE it == CHOOSE h : Sums(h)
<1>4. Sums(it)
  BY <1>3
<1>5. SumFunction(f) = it[S]
  BY DEF SumFunction, SumFunctionOnSet, FoldFunctionOnSet, MapThenFoldSet
<1>s. IsFiniteSet(S) /\ \A x \in S : f[x] \in Int
  OBVIOUS
<1> HIDE DEF it, S, pick
<1>6. \A s \in SUBSET S : it[s] = IF s = {} THEN 0 ELSE f[pick(s)] + it[s \ {pick(s)}]
  BY <1>4
<1> DEFINE P == {n \in Nat : \A s \in SUBSET S : Cardinality(s) <= n => it[s] \in Int}
<1>7. \A s \in SUBSET S : /\ IsFiniteSet(s) /\ Cardinality(s) \in Nat
                          /\ s # {} => Cardinality(s \ {pick(s)}) = Cardinality(s) - 1
  BY <1>1, <1>s, FS_Subset, FS_CardinalityType, FS_RemoveElement
<1>8. 0 \in P
  <2>1. ASSUME NEW s \in SUBSET S, Cardinality(s) <= 0 PROVE it[s] \in Int
    <3>a. IsFiniteSet(s) /\ Cardinality(s) \in Nat
      BY <1>7
    <3>0. Cardinality(s) = 0
      BY <3>a, <2>1
    <3>1. s = {}
      BY <3>a, <3>0, FS_EmptySet
    <3>2. it[s] = 0
      BY <1>6, <3>1
    <3> QED BY <3>2
  <2> QED BY <2>1
<1>9. ASSUME NEW n \in Nat, n \in P PROVE n + 1 \in P
  <2>1. ASSUME NEW s \in SUBSET S, Cardinality(s) <= n + 1 PROVE it[s] \in Int
    <3>1. CASE s = {}
      <4>1. it[s] = 0
        BY <1>6, <3>1
      <4> QED BY <4>1
    <3>2. CASE s # {}
      <4>1. it[s] = f[pick(s)] + it[s \ {pick(s)}]
        BY <1>6, <3>2
      <4>2. pick(s) \in S
        BY <1>1, <3>2
      <4>3. it[s \ {pick(s)}] \in Int
        BY <1>7, <1>9, <2>1, <3>2
      <4> QED BY <4>1, <4>2, <4>3, <1>s
    <3> QED BY <3>1, <3>2
  <2> QED BY <2>1
<1>10. Nat \subseteq P
  <2> HIDE DEF P
  <2> QED BY <1>8, <1>9, NatSets
<1>11. it[S] \in Int
  <2>1. Cardinality(S) \in P
    <3> HIDE DEF P
    <3> QED BY <1>7, <1>10
  <2> QED BY <1>7, <2>1
<1> QED BY <1>5, <1>11

-----------------------------------------------------------------------------
(* _calc_bundle_schedule. *)

\* The books are in order: what is promised on a contact can be added up.
Booked(capacities) ==
  \A c \in DOMAIN capacities : /\ IsFiniteSet(DOMAIN capacities[c])
                              /\ \A x \in DOMAIN capacities[c] : capacities[c][x] \in Int

LEMMA CapacityIsInt ==
  ASSUME NEW c \in Contacts, NEW t \in Nat, NEW capacities, Booked(capacities)
  PROVE  RemainingCapacity(c, t, capacities) \in Int
<1>1. Promised(capacities, c) \in Int
  <2>1. CASE c \in DOMAIN capacities
    <3>1. SumFunction(capacities[c]) \in Int
      BY <2>1, SumIsInt DEF Booked
    <3> QED BY <2>1, <3>1 DEF Promised
  <2>2. CASE c \notin DOMAIN capacities
    BY <2>2 DEF Promised
  <2> QED BY <2>1, <2>2
<1>2. \A from \in Nat : Volume(c, from) \in Int
  BY ContactAssumption DEF Volume
<1>3. c.start \in Nat /\ c.end \in Nat
  BY ContactAssumption
<1>4. (IF t > c.start THEN t ELSE c.start) \in Nat
  BY <1>3
<1> HIDE DEF Volume
<1> QED BY <1>1, <1>2, <1>3, <1>4 DEF RemainingCapacity

\* The fragments of a schedule, and what the loop carries from one contact to the next.
Pieces == [contact : Contacts, fo : Int, fps : Int, fs : Int]
Gots == [offset : Int, rest : Int, frags : SUBSET Pieces]

\* What one round of the loop adds, if anything.
Added(got, c, b, offset, pay, size) ==
  [offset |-> got.offset + pay, rest |-> got.rest - pay,
   frags |-> got.frags \cup {FragmentTuple(c, offset, pay, size)}]

LEMMA AssignCases ==
  ASSUME NEW got \in Gots, NEW c \in Contacts, NEW b \in Bids, NEW mbs \in Int, NEW t, NEW capacities,
         RemainingCapacity(c, t, capacities) \in Int
  PROVE  \/ AssignTo(got, c, b, mbs, t, capacities) = got
         \/ \E size, pay, offset \in Int :
              /\ AssignTo(got, c, b, mbs, t, capacities) = Added(got, c, b, offset, pay, size)
              /\ got.rest > 0
              /\ size <= RemainingCapacity(c, t, capacities) /\ (mbs # 0 => size <= mbs)
              /\ IF b.min_frag_size_last = 0 THEN pay = b.min_frag_size_first ELSE pay \in 1..got.rest
              /\ offset = IF pay = b.payload_length THEN b.fragment_offset ELSE got.offset
<1>1. /\ b.payload_length \in Nat /\ b.fragment_offset \in Nat
      /\ b.min_frag_size_first \in Nat /\ b.min_frag_size_last \in Nat
  BY BundleAssumption
<1>2. got.offset \in Int /\ got.rest \in Int
  BY DEF Gots
<1> DEFINE cap    == RemainingCapacity(c, t, capacities)
           room   == IF mbs = 0 THEN cap ELSE Least(cap, mbs)
           single == b.min_frag_size_last = 0
           header == IF single THEN 0
                     ELSE IF got.frags = {} THEN b.min_frag_size_first ELSE b.min_frag_size_last
           least  == IF single THEN b.min_frag_size_first ELSE header + 1
           most   == IF single THEN b.min_frag_size_first ELSE header + got.rest
           size   == Least(most, room)
           pay    == size - header
           offset == IF pay = b.payload_length THEN b.fragment_offset ELSE got.offset
<1>3. AssignTo(got, c, b, mbs, t, capacities) =
        IF got.rest <= 0 \/ room < least THEN got ELSE Added(got, c, b, offset, pay, size)
  BY DEF AssignTo, Added
<1>4. /\ room \in Int /\ room <= cap /\ (mbs # 0 => room <= mbs)
  BY DEF Least
<1>5. header \in Nat /\ (single => header = 0)
  BY <1>1
<1> HIDE DEF cap, room
<1>6. CASE got.rest <= 0 \/ room < least
  BY <1>3, <1>6
<1>7. CASE ~(got.rest <= 0 \/ room < least)
  <2>1. AssignTo(got, c, b, mbs, t, capacities) = Added(got, c, b, offset, pay, size)
    BY <1>3, <1>7
  <2>2. got.rest > 0
    BY <1>2, <1>7
  <2> HIDE DEF header
  <2>3. size \in Int /\ size <= room /\ pay \in Int
    BY <1>1, <1>2, <1>4, <1>5 DEF Least
  <2>4. size <= cap /\ (mbs # 0 => size <= mbs)
    BY <1>4, <2>3 DEF cap
  <2>5. IF b.min_frag_size_last = 0 THEN pay = b.min_frag_size_first ELSE pay \in 1..got.rest
    BY <1>1, <1>2, <1>4, <1>5, <1>7, <2>2 DEF Least
  <2>6. offset \in Int
    BY <1>1, <1>2
  <2> HIDE DEF size, pay, offset
  <2>7. offset = IF pay = b.payload_length THEN b.fragment_offset ELSE got.offset
    BY DEF offset
  <2> QED BY <2>1, <2>2, <2>3, <2>4, <2>5, <2>6, <2>7 DEF cap
<1> QED BY <1>6, <1>7

LEMMA AddedType ==
  ASSUME NEW got \in Gots, NEW c \in Contacts, NEW b,
         NEW offset \in Int, NEW pay \in Int, NEW size \in Int
  PROVE  /\ Added(got, c, b, offset, pay, size) \in Gots
         /\ FragmentTuple(c, offset, pay, size) \in Pieces
<1>1. got.offset \in Int /\ got.rest \in Int /\ got.frags \subseteq Pieces
  BY DEF Gots
<1>2. FragmentTuple(c, offset, pay, size) \in Pieces
  BY DEF Pieces, FragmentTuple
<1> QED BY <1>1, <1>2 DEF Gots, Added

LEMMA AssignType ==
  ASSUME NEW got \in Gots, NEW c \in Contacts, NEW b \in Bids, NEW mbs \in Int, NEW t, NEW capacities,
         RemainingCapacity(c, t, capacities) \in Int
  PROVE  AssignTo(got, c, b, mbs, t, capacities) \in Gots
BY AssignCases, AddedType

LEMMA GreatestIn ==
  ASSUME NEW n \in Nat, NEW T \in SUBSET (1..n), T # {}
  PROVE  Max(T) \in T /\ \A y \in T : Max(T) >= y
<1> DEFINE Flipped == {n - x : x \in T}
<1>0. \A x \in T : x \in Nat /\ n - x \in Nat
  OBVIOUS
<1>1. Flipped \in SUBSET Nat /\ Flipped # {}
  BY <1>0
<1>2. PICK m \in Flipped : \A y \in Flipped : m <= y
  <2> HIDE DEF Flipped
  <2> QED BY <1>1, LeastNat
<1>3. PICK x \in T : m = n - x
  BY <1>2
<1>4. ASSUME NEW y \in T PROVE x >= y
  <2>1. n - x <= n - y
    BY <1>2, <1>3
  <2> QED BY <1>0, <2>1
<1>5. \E z \in T : \A y \in T : z >= y
  BY <1>3, <1>4
<1> QED BY <1>5 DEF Max

\* The loop over the contacts s, round by round.
Rounds(s, b, mbs, t, capacities, from) ==
  { got \in [0..Len(s) -> Gots] :
      /\ got[0] = from
      /\ \A k \in 1..Len(s) : got[k] = AssignTo(got[k - 1], s[k], b, mbs, t, capacities) }

Ran(s, b, mbs, t, capacities, from) ==
  FoldLeft(LAMBDA got, c : AssignTo(got, c, b, mbs, t, capacities), from, s)

LEMMA LoopIsRounds ==
  ASSUME NEW s \in Seq(Contacts), NEW b \in Bids, NEW mbs \in Int, NEW t \in Nat, NEW capacities,
         Booked(capacities), NEW from \in Gots
  PROVE  \E got \in Rounds(s, b, mbs, t, capacities, from) :
           Ran(s, b, mbs, t, capacities, from) = got[Len(s)]
<1> DEFINE n == Len(s)
           D == 1..n
           next(g, k) == AssignTo(g, s[k], b, mbs, t, capacities)
           Folded(it) == it = [ss \in SUBSET D |-> IF ss = {} THEN from ELSE next(it[ss \ {Max(ss)}], Max(ss))]
           choose == [ss \in SUBSET D |-> Max(ss)]
           step == [p \in D \X Gots |-> next(p[2], p[1])]
<1>0. n \in Nat /\ DOMAIN s = D /\ \A k \in D : s[k] \in Contacts
  OBVIOUS
<1>1. \A ss \in SUBSET D : ss # {} => Max(ss) \in ss
  BY <1>0, GreatestIn
<1>2. \A k \in D : \A g \in Gots : next(g, k) \in Gots
  BY <1>0, CapacityIsInt, AssignType
<1> HIDE DEF next
<1>3. PICK g \in [SUBSET D -> Gots] :
        \A ss \in SUBSET D : g[ss] = IF ss = {} THEN from ELSE step[choose[ss], g[ss \ {choose[ss]}]]
  <2>1. step \in [D \X Gots -> Gots]
    BY <1>2
  <2>2. \A ss \in SUBSET D : ss # {} => choose[ss] \in ss
    BY <1>1
  <2>3. IsFiniteSet(D)
    BY <1>0, FS_Interval
  <2> HIDE DEF D, step, choose
  <2>4. Folds(D, choose, from, step, Gots) # {}
    BY <2>1, <2>2, <2>3, FoldExists, Zenon
  <2> QED BY <2>4 DEF Folds
<1>4. Folded(g)
  <2>1. ASSUME NEW ss \in SUBSET D, ss # {}
        PROVE  step[choose[ss], g[ss \ {choose[ss]}]] = next(g[ss \ {Max(ss)}], Max(ss))
    <3>1. choose[ss] = Max(ss) /\ Max(ss) \in D
      BY <1>1, <2>1
    <3>2. g[ss \ {Max(ss)}] \in Gots
      BY <1>3
    <3> HIDE DEF choose, D
    <3>3. <<Max(ss), g[ss \ {Max(ss)}]>> \in D \X Gots
      BY <3>1, <3>2
    <3> QED BY <3>1, <3>3
  <2> QED BY <1>3, <2>1
<1> DEFINE it == CHOOSE h : Folded(h)
<1>5. Folded(it)
  BY <1>4
<1>6. Ran(s, b, mbs, t, capacities, from) = it[D]
  BY <1>0 DEF Ran, FoldLeft, MapThenFoldSet, next
<1> HIDE DEF it
<1> DEFINE got == [k \in 0..n |-> it[1..k]]
           P == {m \in Nat : m <= n => got[m] \in Gots}
<1>7. got[0] = from
  BY <1>0, <1>5
<1>8. ASSUME NEW k \in D PROVE got[k] = next(got[k - 1], k)
  <2>1. (1..k) \in SUBSET D /\ 1..k # {} /\ k \in Nat
    BY <1>0
  <2>2. Max(1..k) = k
    <3>1. Max(1..k) \in 1..k /\ \A y \in 1..k : Max(1..k) >= y
      BY <2>1, GreatestIn
    <3>2. k \in 1..k
      BY <2>1
    <3> QED BY <2>1, <3>1, <3>2
  <2>3. (1..k) \ {k} = 1..(k - 1)
    BY <2>1
  <2>4. it[1..k] = next(it[1..(k - 1)], k)
    BY <1>5, <2>1, <2>2, <2>3
  <2> QED BY <1>0, <2>4
<1> HIDE DEF got
<1>9. 0 \in P
  BY <1>7
<1>10. ASSUME NEW m \in Nat, m \in P PROVE m + 1 \in P
  <2>1. CASE m + 1 <= n
    <3>1. m + 1 \in D /\ got[m] \in Gots /\ (m + 1) - 1 = m
      BY <1>0, <1>10, <2>1
    <3>2. got[m + 1] = next(got[m], m + 1)
      BY <1>8, <3>1
    <3> QED BY <1>2, <3>1, <3>2
  <2> QED BY <1>0, <2>1
<1>11. Nat \subseteq P
  <2> HIDE DEF P
  <2> QED BY <1>9, <1>10, NatSets
<1>12. got \in [0..n -> Gots]
  <2>1. \A k \in 0..n : got[k] \in Gots
    BY <1>0, <1>11
  <2> QED BY <2>1 DEF got
<1>13. got[n] = it[D]
  BY <1>0 DEF got
<1>14. got \in Rounds(s, b, mbs, t, capacities, from)
  BY <1>7, <1>8, <1>12 DEF Rounds, next
<1> QED BY <1>6, <1>13, <1>14

LEMMA BytesParts ==
  /\ Bytes({}) = {}
  /\ \A f : Bytes({f}) = f.fo .. (f.fo + f.fps - 1)
  /\ \A F, G : Bytes(F \cup G) = Bytes(F) \cup Bytes(G)
  /\ \A F : \A f \in F : Bytes({f}) \subseteq Bytes(F)
BY DEF Bytes

\* What holds of the loop after k contacts, when the part of the bundle b to be placed is
\* the total bytes from start on: the bytes up to the offset are placed and no others.
Placed(g, s, k, b, mbs, t, capacities, start, total) ==
  /\ g.offset + g.rest = start + total /\ g.offset >= start
  /\ IF b.min_frag_size_last = 0
       THEN g.offset = start \/ g.offset >= start + b.min_frag_size_first
       ELSE g.rest >= 0
  /\ \A f \in g.frags : /\ \E i \in 1..k : f.contact = s[i]
                        /\ f.fs <= RemainingCapacity(f.contact, t, capacities)
                        /\ mbs # 0 => f.fs <= mbs
  /\ \A f, h \in g.frags :
       f = h \/ (f.contact # h.contact /\ Bytes({f}) \cap Bytes({h}) = {})
  /\ Bytes(g.frags) = start .. (g.offset - 1)

LEMMA PlacedStep ==
  ASSUME NEW g \in Gots, NEW s \in Seq(Contacts), \A i, j \in DOMAIN s : i # j => s[i] # s[j],
         NEW k \in Nat, k + 1 \in DOMAIN s,
         NEW b \in Bids, NEW mbs \in Int, NEW t \in Nat, NEW capacities, Booked(capacities),
         NEW start \in Int, NEW total \in 1..b.payload_length,
         b.min_frag_size_last = 0 => total = b.payload_length,
         total = b.payload_length => start = b.fragment_offset,
         Placed(g, s, k, b, mbs, t, capacities, start, total)
  PROVE  Placed(AssignTo(g, s[k + 1], b, mbs, t, capacities), s, k + 1, b, mbs, t, capacities, start, total)
<1> DEFINE c == s[k + 1]
           new == AssignTo(g, c, b, mbs, t, capacities)
<1>0. /\ b.payload_length \in Nat /\ b.fragment_offset \in Nat
      /\ b.min_frag_size_first \in Nat /\ b.min_frag_size_last \in Nat
  BY BundleAssumption
<1>1. c \in Contacts /\ RemainingCapacity(c, t, capacities) \in Int
  BY CapacityIsInt
<1>2. g.offset \in Int /\ g.rest \in Int /\ g.frags \subseteq Pieces
  BY DEF Gots
<1>3. \A i \in 1..k : i \in 1..(k + 1) /\ i \in DOMAIN s /\ i # k + 1
  <2>1. DOMAIN s = 1..Len(s)
    OBVIOUS
  <2> QED BY <2>1
<1>4. CASE new = g
  BY <1>3, <1>4 DEF Placed
<1>5. CASE \E size, pay, offset \in Int :
              /\ new = Added(g, c, b, offset, pay, size)
              /\ g.rest > 0
              /\ size <= RemainingCapacity(c, t, capacities) /\ (mbs # 0 => size <= mbs)
              /\ IF b.min_frag_size_last = 0 THEN pay = b.min_frag_size_first ELSE pay \in 1..g.rest
              /\ offset = IF pay = b.payload_length THEN b.fragment_offset ELSE g.offset
  <2>1. PICK size, pay, offset \in Int :
              /\ new = Added(g, c, b, offset, pay, size)
              /\ g.rest > 0
              /\ size <= RemainingCapacity(c, t, capacities) /\ (mbs # 0 => size <= mbs)
              /\ IF b.min_frag_size_last = 0 THEN pay = b.min_frag_size_first ELSE pay \in 1..g.rest
              /\ offset = IF pay = b.payload_length THEN b.fragment_offset ELSE g.offset
    BY <1>5
  <2>2. g.offset + g.rest = start + total /\ g.offset >= start
    BY DEF Placed
  <2>3. offset = g.offset
    <3>0. total \in Int /\ total <= b.payload_length /\ total >= 1
      BY <1>0
    <3>1. CASE pay = b.payload_length /\ b.min_frag_size_last = 0
      <4>1. g.offset = start \/ g.offset >= start + total
        BY <1>0, <2>1, <3>1 DEF Placed
      <4>2. g.offset = start
        BY <1>2, <2>1, <2>2, <3>0, <4>1
      <4> QED BY <2>1, <3>1, <4>2
    <3>2. CASE pay = b.payload_length /\ b.min_frag_size_last # 0
      <4>1. pay <= g.rest
        BY <1>2, <2>1, <3>2
      <4>2. g.offset = start /\ total = b.payload_length
        <5>1. /\ g.offset \in Int /\ g.rest \in Int /\ start \in Int /\ b.payload_length \in Nat
              /\ g.offset + g.rest = start + total /\ g.offset >= start
              /\ b.payload_length <= g.rest
          BY <1>0, <1>2, <2>2, <3>2, <4>1
        <5> QED BY ONLY <3>0, <5>1
      <4> QED BY <2>1, <3>2, <4>2
    <3>3. CASE pay # b.payload_length
      BY <2>1, <3>3
    <3> QED BY <3>1, <3>2, <3>3
  <2> DEFINE f == FragmentTuple(c, g.offset, pay, size)
  <2>4. /\ new.offset = g.offset + pay /\ new.rest = g.rest - pay
        /\ new.frags = g.frags \cup {f}
    BY <2>1, <2>3 DEF Added
  <2>5. pay \in Nat
    BY <1>0, <1>2, <2>1
  <2>6. f.contact = c /\ f.fs = size /\ Bytes({f}) = g.offset .. (g.offset + pay - 1)
    <3>1. f.contact = c /\ f.fs = size /\ f.fo = g.offset /\ f.fps = pay
      BY DEF FragmentTuple
    <3> HIDE DEF f
    <3>2. Bytes({f}) = f.fo .. (f.fo + f.fps - 1)
      BY BytesParts
    <3> QED BY <3>1, <3>2
  <2>7. Bytes(g.frags) = start .. (g.offset - 1)
    BY DEF Placed
  <2> HIDE DEF c, new, f
  <2>8. new.offset + new.rest = start + total /\ new.offset >= start
    BY <1>2, <2>2, <2>4, <2>5
  <2>9. IF b.min_frag_size_last = 0
          THEN new.offset = start \/ new.offset >= start + b.min_frag_size_first
          ELSE new.rest >= 0
    <3>1. CASE b.min_frag_size_last = 0
      <4>1. new.offset = g.offset + b.min_frag_size_first
        BY <2>1, <2>4, <3>1
      <4>2. new.offset >= start + b.min_frag_size_first
        BY <1>0, <1>2, <2>2, <4>1
      <4> QED BY <3>1, <4>2
    <3>2. CASE b.min_frag_size_last # 0
      <4>1. pay <= g.rest
        BY <1>2, <2>1, <3>2
      <4>2. new.rest >= 0
        BY <1>2, <2>4, <2>5, <4>1
      <4> QED BY <3>2, <4>2
    <3> QED BY <3>1, <3>2
  <2>10. \A h \in new.frags :
           /\ \E i \in 1..(k + 1) : h.contact = s[i]
           /\ h.fs <= RemainingCapacity(h.contact, t, capacities)
           /\ mbs # 0 => h.fs <= mbs
    <3>1. ASSUME NEW h \in g.frags
          PROVE  /\ \E i \in 1..(k + 1) : h.contact = s[i]
                 /\ h.fs <= RemainingCapacity(h.contact, t, capacities)
                 /\ mbs # 0 => h.fs <= mbs
      BY <1>3 DEF Placed
    <3>2. /\ \E i \in 1..(k + 1) : f.contact = s[i]
          /\ f.fs <= RemainingCapacity(f.contact, t, capacities)
          /\ mbs # 0 => f.fs <= mbs
      <4>1. k + 1 \in 1..(k + 1) /\ f.contact = s[k + 1]
        BY <2>6 DEF c
      <4> QED BY <2>1, <2>6, <4>1
    <3> QED BY <2>4, <3>1, <3>2
  <2>11. ASSUME NEW h \in g.frags
         PROVE  f.contact # h.contact /\ Bytes({f}) \cap Bytes({h}) = {}
    <3>1. PICK i \in 1..k : h.contact = s[i]
      BY DEF Placed
    <3>2. f.contact # h.contact
      BY <1>3, <2>6, <3>1 DEF c
    <3>3. Bytes({h}) \subseteq start .. (g.offset - 1)
      BY <2>7, BytesParts
    <3>4. (start .. (g.offset - 1)) \cap (g.offset .. (g.offset + pay - 1)) = {}
      BY <1>2
    <3> QED BY <2>6, <3>2, <3>3, <3>4
  <2>12. \A h, i \in new.frags :
           h = i \/ (h.contact # i.contact /\ Bytes({h}) \cap Bytes({i}) = {})
    <3>1. \A h, i \in g.frags :
            h = i \/ (h.contact # i.contact /\ Bytes({h}) \cap Bytes({i}) = {})
      BY DEF Placed
    <3> QED BY <2>4, <2>11, <3>1
  <2>13. Bytes(new.frags) = start .. (new.offset - 1)
    <3>0. Bytes(new.frags) = Bytes(g.frags) \cup Bytes({f})
      <4>1. new.frags = g.frags \cup {f}
        BY <2>4, Zenon
      <4> HIDE DEF f
      <4> QED BY <4>1, BytesParts, Zenon
    <3>1. Bytes(new.frags) = (start .. (g.offset - 1)) \cup (g.offset .. (g.offset + pay - 1))
      BY <2>6, <2>7, <3>0
    <3>2. (start .. (g.offset - 1)) \cup (g.offset .. (g.offset + pay - 1)) = start .. (g.offset + pay - 1)
      BY <1>2, <2>2, <2>5
    <3>3. new.offset - 1 = g.offset + pay - 1
      <4>1. new.offset = g.offset + pay /\ g.offset \in Int /\ pay \in Nat
        BY <1>2, <2>4, <2>5
      <4> QED BY ONLY <4>1
    <3> QED BY <3>1, <3>2, <3>3
  <2>14. Placed(new, s, k + 1, b, mbs, t, capacities, start, total)
    <3>1. /\ new.offset + new.rest = start + total /\ new.offset >= start
          /\ IF b.min_frag_size_last = 0
               THEN new.offset = start \/ new.offset >= start + b.min_frag_size_first
               ELSE new.rest >= 0
      BY <2>8, <2>9
    <3> QED BY <2>10, <2>12, <2>13, <3>1, Zenon DEF Placed
  <2> QED BY <2>14 DEF new, c
<1> QED BY <1>1, <1>4, <1>5, AssignCases

LEMMA OrdersOf ==
  ASSUME NEW contacts \in SUBSET Contacts, NEW s \in ByStart(contacts)
  PROVE  /\ s \in Seq(Contacts) /\ \A i, j \in DOMAIN s : i # j => s[i] # s[j]
         /\ \A i \in DOMAIN s : s[i] \in contacts
<1>1. IsFiniteSet(contacts) /\ Cardinality(contacts) \in Nat
  BY ContactAssumption, FS_Subset, FS_CardinalityType
<1>2. /\ s \in [1..Cardinality(contacts) -> contacts]
      /\ \A i, j \in 1..Cardinality(contacts) : i # j => s[i] # s[j]
  BY DEF ByStart, SetToSeqs
<1> QED BY <1>1, <1>2

LEMMA RoundsType ==
  ASSUME NEW s \in Seq(Contacts), NEW b, NEW mbs, NEW t, NEW capacities, NEW from,
         NEW got \in Rounds(s, b, mbs, t, capacities, from), NEW k \in 0..Len(s)
  PROVE  /\ got[k] \in Gots /\ got[k].offset \in Int /\ got[k].rest \in Int
         /\ got[k].frags \subseteq Pieces
<1>1. got \in [0..Len(s) -> Gots]
  BY DEF Rounds
<1>2. got[k] \in Gots
  BY <1>1
<1> QED BY <1>2 DEF Gots

\* What the loop of _calc_bundle_schedule starts from.
From(b, fo, fl) == [offset |-> IF fo = 0 THEN b.fragment_offset ELSE fo,
                    rest |-> IF fl = 0 THEN b.payload_length ELSE fl, frags |-> {}]

\* What _calc_bundle_schedule is asked with.
Asked(fwd, capacities, b, mbs, fo, fl, t) ==
  /\ \A n \in NodeId : fwd[n] \subseteq Contacts
  /\ Booked(capacities) /\ b \in Bids
  /\ mbs \in Int /\ fo \in Int /\ fl \in Int /\ t \in Nat

RunsTo(frags, b, mbs, t, capacities, from) ==
  \E s \in Seq(Contacts) : \E got \in Rounds(s, b, mbs, t, capacities, from) :
    /\ \A i, j \in DOMAIN s : i # j => s[i] # s[j]
    /\ got[Len(s)].rest <= 0 /\ frags = got[Len(s)].frags

\* A schedule is what the loop has when it has run through the contacts in some order.
LEMMA ScheduleRounds ==
  ASSUME NEW fwd, NEW capacities, NEW b, NEW mbs, NEW fo, NEW fl, NEW t,
         Asked(fwd, capacities, b, mbs, fo, fl, t),
         NEW frags \in CalcSchedule(fwd, capacities, b, mbs, fo, fl, t), frags # {}
  PROVE  RunsTo(frags, b, mbs, t, capacities, From(b, fo, fl))
<1>0. /\ \A n \in NodeId : fwd[n] \subseteq Contacts
      /\ Booked(capacities) /\ b \in Bids /\ mbs \in Int /\ fo \in Int /\ fl \in Int /\ t \in Nat
  BY DEF Asked
<1> DEFINE contacts == IF get_node_id[b.dst_eid] = NoNode THEN {} ELSE fwd[get_node_id[b.dst_eid]]
           from == From(b, fo, fl)
           place(s) == Ran(s, b, mbs, t, capacities, from)
<1>1. from \in Gots
  BY <1>0, BundleAssumption DEF Gots, From
<1>2. contacts \in SUBSET Contacts
  BY <1>0, EidAssumption, BundleAssumption
<1>3. PICK s \in ByStart(contacts) : frags = IF place(s).rest > 0 THEN {} ELSE place(s).frags
  BY DEF CalcSchedule, Ran, From
<1>4. ~(place(s).rest > 0) /\ frags = place(s).frags
  BY <1>3
<1>5. s \in Seq(Contacts) /\ \A i, j \in DOMAIN s : i # j => s[i] # s[j]
  BY <1>2, <1>3, OrdersOf
<1> HIDE DEF from
<1>6. PICK got \in Rounds(s, b, mbs, t, capacities, from) : place(s) = got[Len(s)]
  BY <1>0, <1>1, <1>5, LoopIsRounds
<1>7. got[Len(s)].rest \in Int
  <2>1. Len(s) \in 0..Len(s)
    BY <1>5
  <2> QED BY <1>5, <1>6, <2>1, RoundsType
<1>8. got[Len(s)].rest <= 0 /\ frags = got[Len(s)].frags
  BY <1>4, <1>6, <1>7
<1> HIDE DEF contacts
<1> QED BY <1>5, <1>6, <1>8 DEF from, RunsTo

\* _calc_bundle_schedule returns fragments on contacts.
LEMMA ScheduleType ==
  ASSUME NEW fwd, NEW capacities, NEW b, NEW mbs, NEW fo, NEW fl, NEW t,
         Asked(fwd, capacities, b, mbs, fo, fl, t),
         NEW frags \in CalcSchedule(fwd, capacities, b, mbs, fo, fl, t)
  PROVE  frags \subseteq Pieces
<1>1. CASE frags # {}
  <2>1. PICK s \in Seq(Contacts) : \E got \in Rounds(s, b, mbs, t, capacities, From(b, fo, fl)) :
          /\ \A i, j \in DOMAIN s : i # j => s[i] # s[j]
          /\ got[Len(s)].rest <= 0 /\ frags = got[Len(s)].frags
    <3>1. RunsTo(frags, b, mbs, t, capacities, From(b, fo, fl))
      BY <1>1, ScheduleRounds
    <3> QED BY <3>1 DEF RunsTo
  <2>2. Len(s) \in 0..Len(s)
    OBVIOUS
  <2> QED BY <2>1, <2>2, RoundsType
<1> QED BY <1>1

Reaches(frags, b, start, total, to) ==
  /\ Bytes(frags) = start .. to
  /\ to >= start + total - 1
  /\ b.min_frag_size_last # 0 => to = start + total - 1

\* What a schedule is good for: each fragment fits, no two overlap, and what was to be placed is.
LEMMA ScheduleFits ==
  ASSUME NEW fwd, NEW capacities, NEW b, NEW mbs, NEW fo, NEW fl, NEW t,
         Asked(fwd, capacities, b, mbs, fo, fl, t),
         NEW start \in Int, start = IF fo = 0 THEN b.fragment_offset ELSE fo,
         NEW total \in 1..b.payload_length, total = IF fl = 0 THEN b.payload_length ELSE fl,
         b.min_frag_size_last = 0 => total = b.payload_length,
         total = b.payload_length => start = b.fragment_offset,
         NEW frags \in CalcSchedule(fwd, capacities, b, mbs, fo, fl, t), frags # {}
  PROVE  /\ \A f \in frags : /\ f.fs <= RemainingCapacity(f.contact, t, capacities)
                             /\ mbs # 0 => f.fs <= mbs
         /\ \A f, h \in frags :
              f = h \/ (f.contact # h.contact /\ Bytes({f}) \cap Bytes({h}) = {})
         /\ \E to \in Int : Reaches(frags, b, start, total, to)
<1>b. Booked(capacities) /\ b \in Bids /\ mbs \in Int /\ t \in Nat
  BY DEF Asked
<1> DEFINE from == From(b, fo, fl)
<1>1. from.offset = start /\ from.rest = total /\ from.frags = {}
  BY DEF From
<1>2. PICK s \in Seq(Contacts) : \E got \in Rounds(s, b, mbs, t, capacities, from) :
        /\ \A i, j \in DOMAIN s : i # j => s[i] # s[j]
        /\ got[Len(s)].rest <= 0 /\ frags = got[Len(s)].frags
  <2>1. RunsTo(frags, b, mbs, t, capacities, From(b, fo, fl))
    BY ScheduleRounds
  <2> QED BY <2>1 DEF RunsTo
<1>a. PICK got \in Rounds(s, b, mbs, t, capacities, from) :
        /\ \A i, j \in DOMAIN s : i # j => s[i] # s[j]
        /\ got[Len(s)].rest <= 0 /\ frags = got[Len(s)].frags
  BY <1>2
<1> DEFINE Good(k) == Placed(got[k], s, k, b, mbs, t, capacities, start, total)
           P == {k \in Nat : k <= Len(s) => Good(k)}
<1>3. Len(s) \in Nat /\ DOMAIN s = 1..Len(s)
  BY <1>2
<1>0. total \in Int /\ total >= 1
  BY <1>b, BundleAssumption
<1>4. 0 \in P
  <2>1. got[0] = from
    BY <1>a DEF Rounds
  <2>2. start .. (start - 1) = {} /\ total >= 0
    BY <1>0
  <2>3. got[0].offset = start /\ got[0].rest = total /\ got[0].frags = {}
    BY <1>1, <2>1
  <2>4. /\ got[0].offset + got[0].rest = start + total /\ got[0].offset >= start
        /\ IF b.min_frag_size_last = 0
             THEN got[0].offset = start \/ got[0].offset >= start + b.min_frag_size_first
             ELSE got[0].rest >= 0
    BY <1>0, <2>3
  <2>5. Bytes(got[0].frags) = start .. (got[0].offset - 1)
    BY <2>2, <2>3, BytesParts
  <2>6. Good(0)
    BY <2>3, <2>4, <2>5 DEF Placed
  <2> QED BY <2>6
<1>5. ASSUME NEW k \in Nat, k \in P PROVE k + 1 \in P
  <2>1. ASSUME k + 1 <= Len(s) PROVE Good(k + 1)
    <3>1. k + 1 \in DOMAIN s /\ k \in 0..Len(s) /\ (k + 1) - 1 = k
      BY <1>3, <2>1
    <3>2. got[k] \in Gots /\ got[k + 1] = AssignTo(got[k], s[k + 1], b, mbs, t, capacities)
      BY <1>3, <1>a, <3>1 DEF Rounds
    <3>3. Good(k)
      BY <1>3, <1>5, <2>1
    <3> QED BY <1>a, <1>b, <3>1, <3>2, <3>3, PlacedStep
  <2> HIDE DEF Good
  <2> QED BY <2>1
<1>6. Good(Len(s))
  <2> HIDE DEF P
  <2>1. Len(s) \in P
    BY <1>3, <1>4, <1>5, NatSets
  <2> HIDE DEF Good
  <2> QED BY <1>3, <2>1 DEF P
<1> DEFINE end == got[Len(s)]
<1>7. end.offset \in Int /\ end.rest \in Int
  BY <1>3, <1>a, RoundsType
<1> HIDE DEF end
<1>8. /\ Bytes(frags) = start .. (end.offset - 1)
      /\ end.offset - 1 \in Int
      /\ end.offset - 1 >= start + total - 1
      /\ b.min_frag_size_last # 0 => end.offset - 1 = start + total - 1
  <2>1. /\ end.offset + end.rest = start + total /\ end.rest <= 0
        /\ b.min_frag_size_last # 0 => end.rest >= 0
        /\ Bytes(frags) = start .. (end.offset - 1)
    BY <1>6, <1>a DEF end, Placed
  <2>2. PICK o : o = end.offset
    OBVIOUS
  <2>3. PICK r : r = end.rest
    OBVIOUS
  <2>4. o \in Int /\ r \in Int /\ o + r = start + total /\ r <= 0
    BY <1>7, <2>1, <2>2, <2>3
  <2>5. start \in Int /\ total \in Int
    BY <1>0
  <2>6. o >= start + total /\ (r >= 0 => o = start + total)
    BY <2>4, <2>5
  <2>7. o - 1 \in Int /\ o - 1 >= start + total - 1
    BY <2>4, <2>5, <2>6
  <2>8. r >= 0 => o - 1 = start + total - 1
    BY <2>6
  <2> QED BY <2>1, <2>2, <2>3, <2>7, <2>8
<1>9. /\ \A f \in frags : /\ f.fs <= RemainingCapacity(f.contact, t, capacities)
                          /\ mbs # 0 => f.fs <= mbs
      /\ \A f, h \in frags :
           f = h \/ (f.contact # h.contact /\ Bytes({f}) \cap Bytes({h}) = {})
  BY <1>6, <1>a DEF Placed
<1>10. \E to \in Int : Reaches(frags, b, start, total, to)
  BY <1>8 DEF Reaches
<1> QED BY <1>9, <1>10

LEMMA SchedulesAlwaysFit == SchedulesFit
<1> SUFFICES
      \A b \in Bids, P \in SUBSET Contacts, promised \in [Contacts -> 0..MaxTime],
         mbs, t \in 0..MaxTime : \A fo \in Payload(b), fl \in 1..b.payload_length :
        /\ (fo .. (fo + fl - 1)) \subseteq Payload(b)
        /\ b.min_frag_size_last = 0 => fo .. (fo + fl - 1) = Payload(b)
        => \A frags \in CalcSchedule([n \in NodeId |-> P], [c \in Contacts |-> [x \in {b} |-> promised[c]]],
                                     b, mbs, fo, fl, t) \ {{}} :
             Fits(frags, b, fo .. (fo + fl - 1), [c \in Contacts |-> [x \in {b} |-> promised[c]]], mbs, t)
  BY DEF SchedulesFit
<1> TAKE b \in Bids, P \in SUBSET Contacts, promised \in [Contacts -> 0..MaxTime],
         mbs, t \in 0..MaxTime
<1> TAKE fo \in Payload(b), fl \in 1..b.payload_length
<1> HAVE /\ (fo .. (fo + fl - 1)) \subseteq Payload(b)
         /\ b.min_frag_size_last = 0 => fo .. (fo + fl - 1) = Payload(b)
<1> TAKE frags \in CalcSchedule([n \in NodeId |-> P], [c \in Contacts |-> [x \in {b} |-> promised[c]]],
                                b, mbs, fo, fl, t) \ {{}}
<1> DEFINE cap == [c \in Contacts |-> [x \in {b} |-> promised[c]]]
           fwd == [n \in NodeId |-> P]
           first == b.fragment_offset
           length == b.payload_length
<1>1. first \in Nat /\ length \in Nat /\ length >= 1
  BY BundleAssumption
<1>2. fo \in Int /\ fl \in Int /\ fl >= 1 /\ fl <= length /\ first <= fo /\ fo <= first + length - 1
  BY <1>1 DEF Payload
<1>3. fo + fl - 1 <= first + length - 1
  <2>1. fo + fl - 1 \in Payload(b)
    BY <1>2
  <2> QED BY <1>1, <2>1 DEF Payload
<1>4. fl = length => fo = first
  BY <1>1, <1>2, <1>3
<1>5. b.min_frag_size_last = 0 => fl = length
  <2> SUFFICES ASSUME b.min_frag_size_last = 0 PROVE fl = length
    OBVIOUS
  <2>1. first \in Payload(b) /\ first + length - 1 \in Payload(b)
    BY <1>1 DEF Payload
  <2>2. first \in fo .. (fo + fl - 1) /\ first + length - 1 \in fo .. (fo + fl - 1)
    BY <2>1
  <2> QED BY <1>1, <1>2, <1>3, <2>2
<1>6. Booked(cap)
  <2>1. \A c \in Contacts : DOMAIN cap[c] = {b} /\ cap[c][b] = promised[c] /\ promised[c] \in Int
    BY ContactAssumption
  <2>2. DOMAIN cap = Contacts
    OBVIOUS
  <2>3. IsFiniteSet({b})
    BY FS_Singleton
  <2> HIDE DEF cap
  <2>4. ASSUME NEW c \in DOMAIN cap
        PROVE  IsFiniteSet(DOMAIN cap[c]) /\ \A x \in DOMAIN cap[c] : x = b
    <3>1. DOMAIN cap[c] = {b}
      BY <2>1, <2>2
    <3> QED BY <2>3, <3>1
  <2>5. \A c \in DOMAIN cap : \A x \in DOMAIN cap[c] : cap[c][x] \in Int
    <3>1. \A c \in DOMAIN cap : cap[c][b] \in Int
      BY <2>1, <2>2
    <3> QED BY <2>4, <3>1
  <2> QED BY <2>4, <2>5 DEF Booked
<1>7. Asked(fwd, cap, b, mbs, fo, fl, t)
  <2>1. \A n \in NodeId : fwd[n] \subseteq Contacts
    OBVIOUS
  <2>2. mbs \in Int /\ t \in Nat
    BY ContactAssumption
  <2> HIDE DEF fwd, cap
  <2> QED BY <1>2, <1>6, <2>1, <2>2 DEF Asked
<1>8. fo = (IF fo = 0 THEN first ELSE fo) /\ fl = IF fl = 0 THEN length ELSE fl
  BY <1>1, <1>2
<1> HIDE DEF cap, fwd
<1>9. /\ \A f \in frags : /\ f.fs <= RemainingCapacity(f.contact, t, cap)
                          /\ mbs # 0 => f.fs <= mbs
      /\ \A f, h \in frags :
           f = h \/ (f.contact # h.contact /\ Bytes({f}) \cap Bytes({h}) = {})
      /\ \E to \in Int : Reaches(frags, b, fo, fl, to)
  <2>1. frags \in CalcSchedule(fwd, cap, b, mbs, fo, fl, t) /\ frags # {}
    BY DEF cap, fwd
  <2> QED BY <1>2, <1>4, <1>5, <1>7, <1>8, <2>1, ScheduleFits
<1>10. Bytes(frags) \cap Payload(b) = fo .. (fo + fl - 1)
  <2>0. PICK to \in Int : Reaches(frags, b, fo, fl, to)
    BY <1>9
  <2>1. /\ Bytes(frags) = fo .. to
        /\ to >= fo + fl - 1
        /\ b.min_frag_size_last # 0 => to = fo + fl - 1
    BY <2>0 DEF Reaches
  <2>2. CASE b.min_frag_size_last # 0
    BY <2>1, <2>2
  <2>3. CASE b.min_frag_size_last = 0
    <3>1. fo .. (fo + fl - 1) = Payload(b)
      BY <2>3
    <3>2. fo .. (fo + fl - 1) \subseteq fo .. to
      BY <1>2, <2>1
    <3> QED BY <2>1, <3>1, <3>2
  <2> QED BY <2>2, <2>3
<1> QED BY <1>9, <1>10 DEF cap, Fits

-----------------------------------------------------------------------------
(* The inductive invariant. *)

\* The tables have their types.
PlanTyped ==
  /\ now \in Nat /\ now <= MaxTime
  /\ contact_set \subseteq Contacts /\ DOMAIN reachable_eids = contact_set
  /\ fwd_dict \in [NodeId -> SUBSET Contacts]
  /\ active_contacts \subseteq Contacts /\ links \subseteq Addrs

BooksTyped ==
  /\ DOMAIN scheduled_bundles \subseteq Bids
  /\ \A b \in DOMAIN scheduled_bundles : scheduled_bundles[b] \subseteq Pieces
  /\ stored_bundles \subseteq Bids /\ capmap \in [Contacts -> [Bids -> Int]]
  /\ sent \in [Bids -> SUBSET Pieces]

StoreTyped ==
  /\ to_store \subseteq Bids /\ storage \subseteq Bids /\ recalled \subseteq Bids /\ on_air \subseteq Bids
  /\ \A e \in events : e.bid \in Bids

MainTyped ==
  /\ main.at \in {"idle", "delete", "dead"} /\ main.bid \in Bids \cup {NoBundle}
  /\ main.at = "delete" => main.bid \in Bids

\* What sched_db holds for a contact: its queue, and the fragment of every bundle in it.
Queued(entry) ==
  /\ entry = [queue |-> entry.queue, frags |-> entry.frags]
  /\ entry.queue \in Seq(Bids) /\ DOMAIN entry.frags \subseteq Bids
  /\ \A b \in DOMAIN entry.frags : entry.frags[b] \in Pieces
  /\ ToSet(entry.queue) \subseteq DOMAIN entry.frags

\* A task that exists has its entry, and the entry has the fragments of the bundle the
\* task has in hand and of those it is about to re-schedule.
TaskTyped(c) ==
  /\ task[c].at \in TaskStates /\ task[c].todo \subseteq Bids
  /\ task[c].bid \in Bids \cup {NoBundle}
  /\ task[c] = [at |-> task[c].at, bid |-> task[c].bid, todo |-> task[c].todo]
  /\ task[c].at \notin {"resched", "drop"} => task[c].todo = {}
  /\ task[c].at # "none" => c \in DOMAIN sched_db
  /\ task[c].at # "none" => task[c].todo \subseteq DOMAIN sched_db[c].frags
  /\ task[c].at = "push" => task[c].bid \in DOMAIN sched_db[c].frags

QueuesTyped ==
  /\ DOMAIN sched_db \subseteq Contacts /\ \A c \in DOMAIN sched_db : Queued(sched_db[c])
  /\ DOMAIN task = Contacts /\ \A c \in Contacts : TaskTyped(c)

\* A contact of the plan gives its link up only when it is over.
EndsLate ==
  main.at # "dead" =>
    \A c \in contact_set : task[c].at \in {"end", "resched", "drop", "down"} => now >= c.end

\* No byte of a known bundle is lost: it was handed to a contact or is still scheduled.
Covered ==
  \A b \in DOMAIN scheduled_bundles : Payload(b) \subseteq Bytes(sent[b]) \cup Bytes(scheduled_bundles[b])

DispatcherInvariant ==
  /\ PlanTyped /\ BooksTyped /\ StoreTyped /\ MainTyped /\ QueuesTyped
  /\ PlannedHasQueue /\ EndsLate /\ Covered /\ DeletedWhenSent

\* What an action leaves alone stays right.
LEMMA Frames ==
  ASSUME DispatcherInvariant
  PROVE  /\ UNCHANGED <<now, plan, active_contacts, links>> => PlanTyped'
         /\ UNCHANGED <<books, sent>> => BooksTyped' /\ Covered'
         /\ UNCHANGED <<store, events>> => StoreTyped'
         /\ UNCHANGED main => MainTyped'
         /\ UNCHANGED <<sched_db, task>> => QueuesTyped'
         /\ UNCHANGED <<main, now, plan, sched_db>> => PlannedHasQueue'
         /\ UNCHANGED <<main, now, plan, task>> => EndsLate'
         /\ UNCHANGED <<main, sent>> => DeletedWhenSent'
<1>1. UNCHANGED <<now, plan, active_contacts, links>> => PlanTyped'
  BY DEF DispatcherInvariant, PlanTyped, plan
<1>2. UNCHANGED <<books, sent>> => BooksTyped' /\ Covered'
  <2> SUFFICES ASSUME UNCHANGED <<books, sent>> PROVE BooksTyped' /\ Covered'
    OBVIOUS
  <2>1. UNCHANGED <<scheduled_bundles, stored_bundles, capmap, sent>>
    BY DEF books
  <2>2. BooksTyped'
    BY <2>1 DEF DispatcherInvariant, BooksTyped
  <2>3. Covered'
    BY <2>1 DEF DispatcherInvariant, Covered
  <2> QED BY <2>2, <2>3
<1>3. UNCHANGED <<store, events>> => StoreTyped'
  BY DEF DispatcherInvariant, StoreTyped, store
<1>4. UNCHANGED main => MainTyped'
  BY DEF DispatcherInvariant, MainTyped
<1>5. UNCHANGED <<sched_db, task>> => QueuesTyped'
  BY DEF DispatcherInvariant, QueuesTyped, Queued, TaskTyped
<1>6. UNCHANGED <<main, now, plan, sched_db>> => PlannedHasQueue'
  BY DEF DispatcherInvariant, PlannedHasQueue, plan
<1>7. UNCHANGED <<main, now, plan, task>> => EndsLate'
  BY DEF DispatcherInvariant, EndsLate, plan
<1>8. UNCHANGED <<main, sent>> => DeletedWhenSent'
  BY DEF DispatcherInvariant, DeletedWhenSent
<1> QED BY <1>1, <1>2, <1>3, <1>4, <1>5, <1>6, <1>7, <1>8

-----------------------------------------------------------------------------
(* The node, its storage and the clock. *)

LEMMA InitRight == Init => DispatcherInvariant
<1> SUFFICES ASSUME Init PROVE DispatcherInvariant
  OBVIOUS
<1>1. PlanTyped
  BY ContactAssumption DEF Init, PlanTyped
<1>2. BooksTyped
  BY DEF Init, BooksTyped
<1>3. StoreTyped /\ MainTyped
  BY DEF Init, StoreTyped, MainTyped
<1>4. QueuesTyped
  <2>1. DOMAIN sched_db = {} /\ DOMAIN task = Contacts
    BY DEF Init
  <2>2. \A c \in Contacts : task[c] = [at |-> "none", bid |-> NoBundle, todo |-> {}]
    BY DEF Init, At
  <2>3. \A c \in Contacts : TaskTyped(c)
    BY <2>2 DEF TaskTyped, TaskStates
  <2> QED BY <2>1, <2>3 DEF QueuesTyped
<1>5. PlannedHasQueue /\ EndsLate /\ DeletedWhenSent
  BY DEF Init, PlannedHasQueue, EndsLate, DeletedWhenSent
<1>6. Covered
  BY DEF Init, Covered
<1> QED BY <1>1, <1>2, <1>3, <1>4, <1>5, <1>6 DEF DispatcherInvariant

LEMMA StorageRight ==
  ASSUME DispatcherInvariant, NEW b \in Bids, Receive(b) \/ StoreDone(b) \/ Recall(b) \/ Transmitted(b)
  PROVE  DispatcherInvariant'
<1>1. UNCHANGED <<now, main, plan, active_contacts, books, sched_db, task, links, sent>>
  BY DEF Receive, StoreDone, Recall, Transmitted
<1>2. \A reason : Event(b, reason).bid = b
  BY DEF Event
<1>3. StoreTyped'
  BY <1>2 DEF DispatcherInvariant, StoreTyped, Receive, StoreDone, Recall, Transmitted, store
<1> QED BY <1>1, <1>3, Frames DEF DispatcherInvariant

LEMMA TickRight ==
  ASSUME DispatcherInvariant, Tick
  PROVE  DispatcherInvariant'
<1>1. UNCHANGED <<main, plan, active_contacts, books, sched_db, task, links, events, store, count, sent>>
  BY DEF Tick
<1>2. PlanTyped' /\ now' = now + 1 /\ now \in Nat
  BY <1>1, ContactAssumption DEF DispatcherInvariant, PlanTyped, Tick, plan
<1>3. PlannedHasQueue'
  <2>1. \A c \in Contacts : now' < c.end => now < c.end
    BY <1>2, ContactAssumption
  <2> QED BY <1>1, <2>1 DEF DispatcherInvariant, PlanTyped, PlannedHasQueue, plan
<1>4. EndsLate'
  <2>1. \A c \in Contacts : now >= c.end => now' >= c.end
    BY <1>2, ContactAssumption
  <2> QED BY <1>1, <2>1 DEF DispatcherInvariant, PlanTyped, EndsLate, plan
<1> QED BY <1>1, <1>2, <1>3, <1>4, Frames DEF DispatcherInvariant

-----------------------------------------------------------------------------
(* The queues. *)

LEMMA ToSetOf ==
  /\ ToSet(<<>>) = {}
  /\ \A S : \A q \in Seq(S) : ToSet(q) \subseteq S
  /\ \A S : \A q \in Seq(S) : \A x \in S : ToSet(Append(q, x)) = ToSet(q) \cup {x}
  /\ \A S : \A q \in Seq(S) : q # <<>> => Head(q) \in ToSet(q) /\ ToSet(Tail(q)) \subseteq ToSet(q)
<1>1. ToSet(<<>>) = {}
  BY DEF ToSet
<1>2. ASSUME NEW S, NEW q \in Seq(S) PROVE ToSet(q) \subseteq S
  BY DEF ToSet
<1>3. ASSUME NEW S, NEW q \in Seq(S), NEW x \in S PROVE ToSet(Append(q, x)) = ToSet(q) \cup {x}
  <2>1. /\ DOMAIN Append(q, x) = DOMAIN q \cup {Len(q) + 1}
        /\ \A i \in DOMAIN q : Append(q, x)[i] = q[i]
        /\ Append(q, x)[Len(q) + 1] = x
    OBVIOUS
  <2> QED BY <2>1 DEF ToSet
<1>4. ASSUME NEW S, NEW q \in Seq(S), q # <<>>
      PROVE  Head(q) \in ToSet(q) /\ ToSet(Tail(q)) \subseteq ToSet(q)
  <2>1. 1 \in DOMAIN q /\ Head(q) = q[1]
    BY <1>4
  <2>2. \A i \in DOMAIN Tail(q) : i + 1 \in DOMAIN q /\ Tail(q)[i] = q[i + 1]
    BY <1>4
  <2> QED BY <2>1, <2>2 DEF ToSet
<1> QED BY <1>1, <1>2, <1>3, <1>4

LEMMA InQueuesRight ==
  ASSUME NEW db, \A c \in DOMAIN db : Queued(db[c]), NEW b \in Bids, NEW frags \in SUBSET Pieces
  PROVE  /\ DOMAIN InQueues(db, b, frags) = DOMAIN db
         /\ \A c \in DOMAIN db : /\ Queued(InQueues(db, b, frags)[c])
                                /\ DOMAIN db[c].frags \subseteq DOMAIN InQueues(db, b, frags)[c].frags
<1> DEFINE new == InQueues(db, b, frags)
<1>1. DOMAIN new = DOMAIN db
  BY DEF InQueues
<1>2. ASSUME NEW c \in DOMAIN db
      PROVE  Queued(new[c]) /\ DOMAIN db[c].frags \subseteq DOMAIN new[c].frags
  <2>1. CASE ~ \E f \in frags : f.contact = c
    <3>1. new[c] = db[c]
      BY <2>1 DEF InQueues
    <3> QED BY <3>1
  <2>2. CASE \E f \in frags : f.contact = c
    <3> DEFINE f == CHOOSE g \in frags : g.contact = c
               old == db[c].frags
    <3>1. f \in Pieces
      BY <2>2
    <3>2. new[c] = [queue |-> Append(db[c].queue, b), frags |-> Entered(old, b, f)]
      BY <2>2 DEF InQueues
    <3> HIDE DEF f, new
    <3>3. /\ db[c].queue \in Seq(Bids) /\ DOMAIN old \subseteq Bids
          /\ \A x \in DOMAIN old : old[x] \in Pieces
          /\ ToSet(db[c].queue) \subseteq DOMAIN old
      BY DEF Queued
    <3>4. /\ DOMAIN Entered(old, b, f) = DOMAIN old \cup {b}
          /\ \A x \in DOMAIN old \cup {b} : Entered(old, b, f)[x] \in Pieces
      BY <3>1, <3>3 DEF Entered
    <3>5. new[c].queue = Append(db[c].queue, b) /\ new[c].frags = Entered(old, b, f)
      BY <3>2
    <3>6. Append(db[c].queue, b) \in Seq(Bids) /\ ToSet(Append(db[c].queue, b)) = ToSet(db[c].queue) \cup {b}
      BY <3>3, ToSetOf
    <3>7. new[c] = [queue |-> new[c].queue, frags |-> new[c].frags]
      BY <3>2
    <3>8. Queued(new[c])
      BY <3>3, <3>4, <3>5, <3>6, <3>7 DEF Queued
    <3> QED BY <3>4, <3>5, <3>8
  <2> QED BY <2>1, <2>2
<1> QED BY <1>1, <1>2

\* A task keeps what it needs when the tables of its contact grow.
LEMMA TaskKept ==
  ASSUME NEW c \in Contacts, TaskTyped(c), task'[c] = task[c],
         c \in DOMAIN sched_db => /\ c \in DOMAIN sched_db'
                                 /\ DOMAIN sched_db[c].frags \subseteq DOMAIN sched_db'[c].frags
  PROVE  TaskTyped(c)'
BY DEF TaskTyped

LEMMA QueuesGrow ==
  ASSUME QueuesTyped, NEW b \in Bids, NEW frags \in SUBSET Pieces,
         sched_db' = InQueues(sched_db, b, frags)
  PROVE  /\ DOMAIN sched_db' = DOMAIN sched_db
         /\ \A c \in DOMAIN sched_db' : Queued(sched_db'[c])
         /\ \A c \in Contacts : task'[c] = task[c] => TaskTyped(c)'
<1>1. /\ DOMAIN sched_db' = DOMAIN sched_db
      /\ \A c \in DOMAIN sched_db : /\ Queued(sched_db'[c])
                                   /\ DOMAIN sched_db[c].frags \subseteq DOMAIN sched_db'[c].frags
  BY InQueuesRight DEF QueuesTyped
<1> QED BY <1>1, TaskKept DEF QueuesTyped

-----------------------------------------------------------------------------
(* The main coroutine: dispatch events. *)

LEMMA CapacitiesBooked ==
  ASSUME BooksTyped
  PROVE  Booked(capmap)
BY BundleAssumption DEF BooksTyped, Booked

LEMMA WholeCovered ==
  ASSUME DispatcherInvariant, NEW b \in Bids,
         NEW frags \in CalcSchedule(fwd_dict, capmap, b, b.max_bundle_size, 0, 0, now), frags # {}
  PROVE  Payload(b) \subseteq Bytes(frags)
<1> DEFINE start == b.fragment_offset
           total == b.payload_length
<1>1. start \in Int /\ total \in Int /\ total >= 1 /\ b.max_bundle_size \in Int
  BY BundleAssumption
<1>2. Asked(fwd_dict, capmap, b, b.max_bundle_size, 0, 0, now)
  BY <1>1, CapacitiesBooked DEF DispatcherInvariant, PlanTyped, Asked
<1>3. \E to \in Int : Reaches(frags, b, start, total, to)
  <2>1. total \in 1..b.payload_length
    BY <1>1
  <2>2. start = (IF 0 = 0 THEN b.fragment_offset ELSE 0) /\ total = IF 0 = 0 THEN b.payload_length ELSE 0
    OBVIOUS
  <2> QED BY <1>1, <1>2, <2>1, <2>2, ScheduleFits
<1>4. PICK to \in Int : Reaches(frags, b, start, total, to)
  BY <1>3
<1>5. Bytes(frags) = start .. to /\ to >= start + total - 1
  BY <1>4 DEF Reaches
<1> QED BY <1>1, <1>5 DEF Payload

\* What handling an event for b must leave right; the rest of the state it leaves alone.
Handled ==
  /\ BooksTyped' /\ Covered' /\ MainTyped' /\ DeletedWhenSent' /\ QueuesTyped'
  /\ main.at # "dead" /\ (main'.at # "dead" => DOMAIN sched_db' = DOMAIN sched_db)
  /\ to_store' \subseteq Bids /\ storage' \subseteq Bids /\ recalled' \subseteq Bids /\ on_air' \subseteq Bids

LEMMA IgnoredRight ==
  ASSUME DispatcherInvariant, Listening, UNCHANGED <<main, books, sched_db, task, store, sent>>
  PROVE  Handled
<1>1. UNCHANGED <<to_store, storage, recalled, on_air, sched_db, main>> /\ main.at # "dead"
  BY DEF store, Listening, Free
<1>2. UNCHANGED <<books, sent>> /\ UNCHANGED <<main, sent>> /\ UNCHANGED <<sched_db, task>>
  OBVIOUS
<1> QED BY <1>1, <1>2, Frames DEF Handled, DispatcherInvariant, StoreTyped

LEMMA DyingRight ==
  ASSUME DispatcherInvariant, Listening, Die, UNCHANGED <<books, sched_db, task, store, sent>>
  PROVE  Handled
<1>1. UNCHANGED <<to_store, storage, recalled, on_air>> /\ main.at # "dead" /\ main'.at = "dead" /\ main'.bid = NoBundle
  BY DEF store, Listening, Free, Die
<1>2. UNCHANGED <<books, sent>> /\ UNCHANGED <<sched_db, task>>
  OBVIOUS
<1>3. MainTyped' /\ DeletedWhenSent'
  BY <1>1 DEF MainTyped, DeletedWhenSent
<1> QED BY <1>1, <1>2, <1>3, Frames DEF Handled, DispatcherInvariant, StoreTyped

LEMMA ScheduleRight ==
  ASSUME DispatcherInvariant, Listening, NEW b \in Bids, ScheduleBundle(b), UNCHANGED task
  PROVE  Handled
<1>1. PICK frags \in CalcSchedule(fwd_dict, capmap, b, b.max_bundle_size, 0, 0, now) :
        IF frags = {} THEN UNCHANGED <<main, books, sched_db, store, sent>>
        ELSE /\ scheduled_bundles' = Entered(scheduled_bundles, b, frags)
             /\ capmap' = [c \in Contacts |->
                  IF \E f \in frags : f.contact = c
                    THEN [capmap[c] EXCEPT ![b] = (CHOOSE f \in frags : f.contact = c).fs]
                    ELSE capmap[c]]
             /\ to_store' = to_store \cup {b}
             /\ UNCHANGED <<main, stored_bundles, sched_db, storage, recalled, on_air, sent>>
  BY DEF ScheduleBundle
<1>2. CASE frags = {}
  BY <1>1, <1>2, IgnoredRight
<1>3. CASE frags # {}
  <2>1. /\ scheduled_bundles' = Entered(scheduled_bundles, b, frags)
        /\ capmap' = [c \in Contacts |->
             IF \E f \in frags : f.contact = c
               THEN [capmap[c] EXCEPT ![b] = (CHOOSE f \in frags : f.contact = c).fs]
               ELSE capmap[c]]
        /\ to_store' = to_store \cup {b}
        /\ UNCHANGED <<main, stored_bundles, sched_db, storage, recalled, on_air, sent>>
    BY <1>1, <1>3
  <2>2. frags \subseteq Pieces
    <3>1. Asked(fwd_dict, capmap, b, b.max_bundle_size, 0, 0, now)
      BY BundleAssumption, CapacitiesBooked DEF DispatcherInvariant, PlanTyped, Asked
    <3> QED BY <3>1, ScheduleType
  <2>3. Payload(b) \subseteq Bytes(frags)
    BY <1>3, WholeCovered
  <2>4. /\ DOMAIN scheduled_bundles' = DOMAIN scheduled_bundles \cup {b}
        /\ \A x \in DOMAIN scheduled_bundles' :
             scheduled_bundles'[x] = IF x = b THEN frags ELSE scheduled_bundles[x]
    BY <2>1 DEF Entered
  <2>5. capmap' \in [Contacts -> [Bids -> Int]]
    <3>1. ASSUME NEW c \in Contacts, \E f \in frags : f.contact = c
          PROVE  (CHOOSE f \in frags : f.contact = c).fs \in Int
      <4>1. (CHOOSE f \in frags : f.contact = c) \in Pieces
        BY <2>2, <3>1
      <4> QED BY <4>1 DEF Pieces
    <3> QED BY <2>1, <3>1 DEF DispatcherInvariant, BooksTyped
  <2>6. BooksTyped'
    BY <2>1, <2>2, <2>4, <2>5 DEF DispatcherInvariant, BooksTyped
  <2>7. Covered'
    BY <2>1, <2>3, <2>4 DEF DispatcherInvariant, Covered
  <2>8. UNCHANGED main /\ UNCHANGED <<sched_db, task>> /\ UNCHANGED <<main, sent>>
    BY <2>1
  <2>9. MainTyped' /\ QueuesTyped' /\ DeletedWhenSent'
    BY <2>8, Frames
  <2> QED BY <2>1, <2>6, <2>7, <2>8, <2>9 DEF Handled, DispatcherInvariant, StoreTyped, Listening, Free
<1> QED BY <1>2, <1>3

LEMMA TxSucceededRight ==
  ASSUME DispatcherInvariant, Listening, NEW b \in DOMAIN scheduled_bundles, TxSucceeded(b), UNCHANGED task
  PROVE  Handled
<1>1. CASE b \in stored_bundles
  BY <1>1, IgnoredRight DEF TxSucceeded
<1>2. CASE b \notin stored_bundles /\ ~HaveTasks(scheduled_bundles[b])
  BY <1>2, DyingRight DEF TxSucceeded
<1>3. CASE b \notin stored_bundles /\ HaveTasks(scheduled_bundles[b])
  <2>1. /\ sched_db' = InQueues(sched_db, b, scheduled_bundles[b])
        /\ stored_bundles' = stored_bundles \cup {b}
        /\ UNCHANGED <<main, scheduled_bundles, capmap, store, sent>>
    BY <1>3 DEF TxSucceeded
  <2>2. b \in Bids /\ scheduled_bundles[b] \in SUBSET Pieces
    BY DEF DispatcherInvariant, BooksTyped
  <2>3. /\ DOMAIN sched_db' = DOMAIN sched_db
        /\ \A c \in DOMAIN sched_db' : Queued(sched_db'[c])
        /\ \A c \in Contacts : task'[c] = task[c] => TaskTyped(c)'
    BY <2>1, <2>2, QueuesGrow DEF DispatcherInvariant
  <2>4. QueuesTyped'
    BY <2>3 DEF DispatcherInvariant, QueuesTyped
  <2>5. BooksTyped' /\ Covered'
    BY <2>1, <2>2 DEF DispatcherInvariant, BooksTyped, Covered
  <2>6. MainTyped' /\ DeletedWhenSent'
    BY <2>1, Frames
  <2>7. UNCHANGED <<to_store, storage, recalled, on_air>>
    BY <2>1 DEF store
  <2> QED BY <2>3, <2>4, <2>5, <2>6, <2>7 DEF Handled, DispatcherInvariant, StoreTyped, Listening, Free
<1> QED BY <1>1, <1>2, <1>3

\* _dispatch_bundle: what is handed over leaves what is scheduled, and nothing else does.
LEMMA DispatchRight ==
  ASSUME DispatcherInvariant, Listening, NEW b \in DOMAIN scheduled_bundles, DispatchBundle(b), UNCHANGED task
  PROVE  Handled
<1>1. CASE b \notin stored_bundles
  BY <1>1, IgnoredRight DEF DispatchBundle
<1>2. CASE b \in stored_bundles /\ \E f \in Due(b) : b \notin DOMAIN sched_db[f.contact].frags
  BY <1>2, DyingRight DEF DispatchBundle
<1>3. CASE b \in stored_bundles /\ \A f \in Due(b) : b \in DOMAIN sched_db[f.contact].frags
  <2> DEFINE frags == { sched_db[f.contact].frags[b] : f \in Due(b) }
             left == scheduled_bundles[b] \ frags
  <2>1. /\ scheduled_bundles' = [scheduled_bundles EXCEPT ![b] = left]
        /\ sent' = [sent EXCEPT ![b] = @ \cup frags]
        /\ on_air' = IF \E f \in frags : IsWhole(b, f) THEN on_air \cup {b} ELSE on_air
        /\ main' = IF left = {} THEN [at |-> "delete", bid |-> b] ELSE main
        /\ UNCHANGED <<stored_bundles, capmap, sched_db, to_store, storage, recalled>>
    BY <1>3 DEF DispatchBundle
  <2>2. b \in Bids /\ scheduled_bundles[b] \subseteq Pieces /\ sent \in [Bids -> SUBSET Pieces]
    BY DEF DispatcherInvariant, BooksTyped
  <2>3. frags \subseteq Pieces
    BY <1>3 DEF Due, DispatcherInvariant, QueuesTyped, Queued
  <2> HIDE DEF frags
  <2>4. /\ DOMAIN scheduled_bundles' = DOMAIN scheduled_bundles
        /\ scheduled_bundles'[b] = left
        /\ \A x \in DOMAIN scheduled_bundles : x # b => scheduled_bundles'[x] = scheduled_bundles[x]
        /\ sent'[b] = sent[b] \cup frags
        /\ \A x \in Bids : x # b => sent'[x] = sent[x]
    BY <2>1, <2>2
  <2>5. BooksTyped'
    <3>1. sent' \in [Bids -> SUBSET Pieces]
      BY <2>1, <2>2, <2>3
    <3> QED BY <2>1, <2>2, <2>4, <3>1 DEF DispatcherInvariant, BooksTyped
  <2>6. Payload(b) \subseteq Bytes(sent'[b]) \cup Bytes(left)
    <3>1. Payload(b) \subseteq Bytes(sent[b]) \cup Bytes(scheduled_bundles[b])
      BY DEF DispatcherInvariant, Covered
    <3>2. Bytes(sent'[b]) = Bytes(sent[b]) \cup Bytes(frags)
      BY <2>4, BytesParts
    <3>3. Bytes(scheduled_bundles[b]) \subseteq Bytes(left) \cup Bytes(frags)
      BY DEF Bytes
    <3> QED BY <3>1, <3>2, <3>3
  <2>7. Covered'
    <3>1. ASSUME NEW x \in DOMAIN scheduled_bundles'
          PROVE  Payload(x) \subseteq Bytes(sent'[x]) \cup Bytes(scheduled_bundles'[x])
      <4>1. CASE x = b
        BY <2>4, <2>6, <4>1
      <4>2. CASE x # b
        <5>1. x \in Bids /\ x \in DOMAIN scheduled_bundles
          BY <2>4 DEF DispatcherInvariant, BooksTyped
        <5>2. sent'[x] = sent[x] /\ scheduled_bundles'[x] = scheduled_bundles[x]
          BY <2>4, <4>2, <5>1
        <5>3. Payload(x) \subseteq Bytes(sent[x]) \cup Bytes(scheduled_bundles[x])
          BY <5>1 DEF DispatcherInvariant, Covered
        <5> QED BY <5>2, <5>3
      <4> QED BY <4>1, <4>2
    <3> QED BY <3>1 DEF Covered
  <2>8. MainTyped' /\ DeletedWhenSent'
    <3>1. CASE left = {}
      <4>1. main'.at = "delete" /\ main'.bid = b
        BY <2>1, <3>1
      <4>2. Payload(b) \subseteq Bytes(sent'[b])
        BY <2>6, <3>1, BytesParts
      <4> QED BY <2>2, <4>1, <4>2 DEF MainTyped, DeletedWhenSent
    <3>2. CASE left # {}
      <4>1. UNCHANGED main /\ main.at = "idle"
        BY <2>1, <3>2 DEF Listening
      <4>2. MainTyped'
        BY <4>1, Frames
      <4> QED BY <4>1, <4>2 DEF DeletedWhenSent
    <3> QED BY <3>1, <3>2
  <2>9. UNCHANGED <<sched_db, task>>
    BY <2>1
  <2>10. on_air' \subseteq Bids
    BY <2>1, <2>2 DEF DispatcherInvariant, StoreTyped
  <2> QED BY <2>1, <2>5, <2>7, <2>8, <2>9, <2>10, Frames
          DEF Handled, DispatcherInvariant, StoreTyped, Listening, Free
<1> QED BY <1>1, <1>2, <1>3

LEMMA EventRight ==
  ASSUME DispatcherInvariant, NEW e \in events, ProcessDispatchEvent(e)
  PROVE  DispatcherInvariant'
<1>1. /\ Listening /\ events' = events \ {e} /\ e.bid \in Bids
      /\ UNCHANGED <<now, plan, active_contacts, task, links, count>>
  BY DEF ProcessDispatchEvent, DispatcherInvariant, StoreTyped
<1>2. Handled
  <2>1. CASE e.bid \in DOMAIN scheduled_bundles
    <3>1. \/ TxSucceeded(e.bid) \/ DispatchBundle(e.bid)
          \/ UNCHANGED <<main, books, sched_db, store, sent>>
      BY <2>1 DEF ProcessDispatchEvent
    <3> QED BY <1>1, <2>1, <3>1, TxSucceededRight, DispatchRight, IgnoredRight
  <2>2. CASE e.bid \notin DOMAIN scheduled_bundles
    <3>1. ScheduleBundle(e.bid) \/ UNCHANGED <<main, books, sched_db, store, sent>>
      BY <2>2 DEF ProcessDispatchEvent
    <3> QED BY <1>1, <3>1, ScheduleRight, IgnoredRight
  <2> QED BY <2>1, <2>2
<1>3. UNCHANGED <<now, contact_set, reachable_eids, fwd_dict>>
  BY <1>1 DEF plan
<1>4. PlanTyped'
  BY <1>1, Frames
<1>5. StoreTyped'
  BY <1>1, <1>2 DEF Handled, DispatcherInvariant, StoreTyped
<1>6. PlannedHasQueue' /\ EndsLate'
  BY <1>1, <1>2, <1>3 DEF Handled, DispatcherInvariant, PlannedHasQueue, EndsLate
<1> QED BY <1>2, <1>4, <1>5, <1>6 DEF Handled, DispatcherInvariant

LEMMA DeletedRight ==
  ASSUME DispatcherInvariant, DispatchedAndDeleted
  PROVE  DispatcherInvariant'
<1>1. /\ main.at = "delete" /\ main'.at = "idle" /\ main'.bid = NoBundle /\ storage' = storage \ {main.bid}
      /\ UNCHANGED <<now, plan, active_contacts, capmap, sched_db, task, links, events,
                    to_store, recalled, on_air, count, sent>>
      /\ \/ UNCHANGED <<scheduled_bundles, stored_bundles>>
         \/ /\ scheduled_bundles' = Without(scheduled_bundles, main.bid)
            /\ stored_bundles' = stored_bundles \ {main.bid}
  BY DEF DispatchedAndDeleted
<1>2. /\ DOMAIN scheduled_bundles' \subseteq DOMAIN scheduled_bundles
      /\ \A b \in DOMAIN scheduled_bundles' : scheduled_bundles'[b] = scheduled_bundles[b]
      /\ stored_bundles' \subseteq stored_bundles
  BY <1>1 DEF Without, Restrict
<1>3. BooksTyped' /\ Covered'
  BY <1>1, <1>2 DEF DispatcherInvariant, BooksTyped, Covered
<1>4. StoreTyped' /\ MainTyped' /\ DeletedWhenSent'
  BY <1>1 DEF DispatcherInvariant, StoreTyped, MainTyped, DeletedWhenSent
<1>5. UNCHANGED <<now, plan, active_contacts, links>> /\ UNCHANGED <<sched_db, task>>
  BY <1>1
<1>6. PlannedHasQueue' /\ EndsLate'
  BY <1>1 DEF DispatcherInvariant, PlannedHasQueue, EndsLate, plan
<1> QED BY <1>3, <1>4, <1>5, <1>6, Frames DEF DispatcherInvariant

LEMMA LinkInfoRight ==
  ASSUME DispatcherInvariant, NEW a \in Addrs, NEW up \in BOOLEAN, UpdateLinkInfo(a, up)
  PROVE  DispatcherInvariant'
<1>1. /\ UNCHANGED <<now, main, plan, active_contacts, books, sched_db, events, store, count, sent>>
      /\ links' = IF up THEN links \cup {a} ELSE links \ {a}
      /\ task' = [c \in Contacts |->
           IF up /\ task[c].at = "link" /\ c.next_hop_cla_addr = a THEN At("linked") ELSE task[c]]
  BY DEF UpdateLinkInfo
<1>2. PlanTyped'
  BY <1>1 DEF DispatcherInvariant, PlanTyped, plan
<1>3. \A c \in Contacts :
        task'[c] = task[c] \/ (task[c].at = "link" /\ task'[c] = At("linked"))
  BY <1>1
<1>4. ASSUME NEW c \in Contacts PROVE TaskTyped(c)'
  <2>1. CASE task'[c] = task[c]
    BY <1>1, <2>1, TaskKept DEF DispatcherInvariant, QueuesTyped
  <2>2. CASE task[c].at = "link" /\ task'[c] = At("linked")
    BY <1>1, <2>2 DEF DispatcherInvariant, QueuesTyped, TaskTyped, At, TaskStates
  <2> QED BY <1>3, <2>1, <2>2
<1>5. QueuesTyped'
  BY <1>1, <1>4 DEF DispatcherInvariant, QueuesTyped
<1>6. PlannedHasQueue'
  BY <1>1, Frames
<1>7. EndsLate'
  BY <1>1, <1>3 DEF DispatcherInvariant, EndsLate, PlanTyped, plan, At
<1>8. UNCHANGED <<books, sent>> /\ UNCHANGED <<store, events>> /\ UNCHANGED main /\ UNCHANGED <<main, sent>>
  BY <1>1
<1> QED BY <1>2, <1>5, <1>6, <1>7, <1>8, Frames DEF DispatcherInvariant

-----------------------------------------------------------------------------
(* The main coroutine: configuration. *)

LEMMA AddedKnown ==
  ASSUME NEW m \in Configs
  PROVE  ToAdd(m) \subseteq Contacts
BY ConfigAssumption DEF ToAdd

LEMMA DeadRight ==
  ASSUME DispatcherInvariant, Die
  PROVE  MainTyped' /\ DeletedWhenSent' /\ PlannedHasQueue' /\ EndsLate'
<1>1. main'.at = "dead" /\ main'.bid = NoBundle
  BY DEF Die
<1> QED BY <1>1 DEF MainTyped, DeletedWhenSent, PlannedHasQueue, EndsLate

\* A bundle that was being asked for goes back to the queue of its contact.
LEMMA RequeuedRight ==
  ASSUME QueuesTyped, NEW c \in DOMAIN sched_db
  PROVE  /\ Queued(Requeued(c)) /\ Requeued(c).frags = sched_db[c].frags
         /\ task[c].at = "push" => task[c].bid \in Bids
<1>1. /\ Queued(sched_db[c]) /\ TaskTyped(c)
  BY DEF QueuesTyped
<1>2. task[c].at = "push" => task[c].bid \in Bids /\ task[c].bid \in DOMAIN sched_db[c].frags
  BY <1>1 DEF Queued, TaskTyped
<1>3. CASE task[c].at # "push"
  <2>1. Requeued(c) = sched_db[c]
    BY <1>3 DEF Requeued
  <2> QED BY <1>1, <1>3, <2>1
<1>4. CASE task[c].at = "push"
  <2>1. /\ sched_db[c] = [queue |-> sched_db[c].queue, frags |-> sched_db[c].frags]
        /\ Requeued(c) = [sched_db[c] EXCEPT !.queue = Append(@, task[c].bid)]
    BY <1>1, <1>4 DEF Queued, Requeued
  <2>2. Requeued(c) = [queue |-> Append(sched_db[c].queue, task[c].bid), frags |-> sched_db[c].frags]
    BY <2>1
  <2>3. /\ Append(sched_db[c].queue, task[c].bid) \in Seq(Bids)
        /\ ToSet(Append(sched_db[c].queue, task[c].bid)) = ToSet(sched_db[c].queue) \cup {task[c].bid}
    BY <1>1, <1>2, <1>4, ToSetOf DEF Queued
  <2>4. Queued(Requeued(c))
    BY <1>1, <1>2, <1>4, <2>2, <2>3 DEF Queued
  <2> QED BY <1>2, <2>2, <2>4
<1> QED BY <1>3, <1>4

\* Where a cancelled task goes.
LEMMA CancelledTask ==
  ASSUME NEW c \in Contacts, TaskTyped(c), task[c].at # "resched", NEW handed_on \in BOOLEAN
  PROVE  \E where \in {"none", "end", "rest"} : Cancelled(c, handed_on) = At(where)
BY DEF TaskTyped, TaskStates, Cancelled

LEMMA PlanChanged ==
  ASSUME DispatcherInvariant, NEW m \in Configs, ProcessConfig(m), ApplyConfig(m),
         ToAdd(m) \cap DOMAIN sched_db = {}
  PROVE  /\ QueuesTyped' /\ PlannedHasQueue' /\ EndsLate' /\ UNCHANGED main
         /\ recalled' \subseteq Bids /\ storage' \subseteq Bids /\ fwd_dict' \in [NodeId -> SUBSET Contacts]
<1> DEFINE add == ToAdd(m)
           rm == ToRemove(contact_set, m)
           stop == rm \cap DOMAIN sched_db
<1>1. /\ contact_set' = (contact_set \ rm) \cup add
      /\ DOMAIN reachable_eids' = contact_set'
      /\ fwd_dict' = RebuildFwdDict(contact_set', reachable_eids')
      /\ sched_db' = [c \in DOMAIN sched_db \cup add |->
                    IF c \in add THEN [queue |-> <<>>, frags |-> <<>>]
                    ELSE IF c \in stop THEN Requeued(c) ELSE sched_db[c]]
      /\ UNCHANGED main
      /\ \E handed_on \in [stop -> BOOLEAN], out \in SUBSET stop :
           /\ task' = [c \in Contacts |->
                IF c \in stop THEN Cancelled(c, handed_on[c])
                ELSE IF c \in add THEN At("new") ELSE task[c]]
           /\ CarriedOut(out)
  BY DEF ApplyConfig
<1>2. PICK handed_on \in [stop -> BOOLEAN], out \in SUBSET stop :
        /\ task' = [c \in Contacts |->
             IF c \in stop THEN Cancelled(c, handed_on[c])
             ELSE IF c \in add THEN At("new") ELSE task[c]]
        /\ CarriedOut(out)
  BY <1>1
<1>3. /\ now' = now /\ main.at = "idle" /\ \A c \in Contacts : task[c].at # "resched"
  BY DEF ProcessConfig, Listening, Free
<1>4. add \subseteq Contacts /\ add \cap DOMAIN sched_db = {} /\ DOMAIN sched_db \subseteq Contacts
  BY AddedKnown DEF DispatcherInvariant, QueuesTyped
<1>5. /\ contact_set \subseteq Contacts /\ \A c \in DOMAIN sched_db : Queued(sched_db[c])
      /\ \A c \in Contacts : TaskTyped(c)
  BY DEF DispatcherInvariant, PlanTyped, QueuesTyped
<1>6. ASSUME NEW c \in stop
      PROVE  /\ c \notin add /\ c \notin contact_set' /\ c \in Contacts /\ sched_db'[c] = Requeued(c)
             /\ \E where \in {"none", "end", "rest"} : task'[c] = At(where)
  <2>1. c \in Contacts /\ c \notin add /\ c \in rm
    BY <1>4
  <2>2. task'[c] = Cancelled(c, handed_on[c]) /\ handed_on[c] \in BOOLEAN
    BY <1>2, <2>1
  <2>3. \E where \in {"none", "end", "rest"} : task'[c] = At(where)
    BY <1>3, <1>5, <2>1, <2>2, CancelledTask
  <2> HIDE DEF add, rm
  <2> QED BY <1>1, <2>1, <2>3
<1>7. ASSUME NEW c \in add
      PROVE  c \in Contacts /\ task'[c] = At("new") /\ sched_db'[c] = [queue |-> <<>>, frags |-> <<>>]
  BY <1>1, <1>2, <1>4
<1>8. ASSUME NEW c \in Contacts, c \notin stop, c \notin add
      PROVE  /\ task'[c] = task[c]
             /\ c \in DOMAIN sched_db' <=> c \in DOMAIN sched_db
             /\ c \in DOMAIN sched_db => sched_db'[c] = sched_db[c]
             /\ c \in contact_set' => c \in contact_set
  <2> HIDE DEF add, rm, stop
  <2> QED BY <1>1, <1>2, <1>8
<1>9. DOMAIN sched_db' = DOMAIN sched_db \cup add
  BY <1>1
<1> HIDE DEF add, rm
<1>10. ASSUME NEW c \in DOMAIN sched_db' PROVE Queued(sched_db'[c])
  <2>1. CASE c \in add
    <3>1. sched_db'[c].queue = <<>> /\ sched_db'[c].frags = <<>> /\ sched_db'[c] = [queue |-> <<>>, frags |-> <<>>]
      BY <1>7, <2>1
    <3>2. DOMAIN <<>> = {} /\ <<>> \in Seq(Bids)
      OBVIOUS
    <3> QED BY <3>1, <3>2, ToSetOf DEF Queued
  <2>2. CASE c \in stop
    BY <1>6, <2>2, RequeuedRight DEF DispatcherInvariant
  <2>3. CASE c \notin stop /\ c \notin add
    BY <1>4, <1>5, <1>8, <1>9, <2>3
  <2> QED BY <2>1, <2>2, <2>3
<1>11. ASSUME NEW c \in Contacts PROVE TaskTyped(c)'
  <2>1. CASE c \in add
    <3>1. c \in DOMAIN sched_db' /\ task'[c] = At("new")
      BY <1>7, <1>9, <2>1
    <3> QED BY <3>1 DEF TaskTyped, TaskStates, At
  <2>2. CASE c \in stop
    <3>1. c \in DOMAIN sched_db'
      BY <1>9, <2>2
    <3>2. PICK where \in {"none", "end", "rest"} : task'[c] = At(where)
      BY <1>6, <2>2
    <3> QED BY <3>1, <3>2 DEF TaskTyped, TaskStates, At
  <2>3. CASE c \notin stop /\ c \notin add
    BY <1>5, <1>8, <2>3, TaskKept
  <2> QED BY <2>1, <2>2, <2>3
<1>12. QueuesTyped'
  <2>1. DOMAIN task' = Contacts
    BY <1>2
  <2> QED BY <1>4, <1>9, <1>10, <1>11, <2>1 DEF QueuesTyped
<1>13. \A n \in NodeId : fwd_dict'[n] \subseteq contact_set'
  BY <1>1 DEF RebuildFwdDict
<1>14. fwd_dict' \in [NodeId -> SUBSET Contacts]
  BY <1>1, <1>4, <1>5 DEF RebuildFwdDict
<1>15. PlannedHasQueue'
  <2>1. ASSUME NEW c \in contact_set', now' < c.end PROVE c \in DOMAIN sched_db'
    <3>1. CASE c \in add
      BY <1>9, <3>1
    <3>2. CASE c \notin add
      <4>1. c \in contact_set
        BY <1>1, <3>2
      <4>2. c \in DOMAIN sched_db
        BY <1>3, <2>1, <4>1 DEF DispatcherInvariant, PlannedHasQueue
      <4> QED BY <1>9, <4>2
    <3> QED BY <3>1, <3>2
  <2> QED BY <1>13, <2>1 DEF PlannedHasQueue
<1>16. EndsLate'
  <2>1. ASSUME NEW c \in contact_set', task'[c].at \in {"end", "resched", "drop", "down"} PROVE now' >= c.end
    <3>1. c \in Contacts /\ c \notin stop
      BY <1>1, <1>4, <1>5, <1>6
    <3>2. CASE c \in add
      BY <1>7, <2>1, <3>2 DEF At
    <3>3. CASE c \notin add
      <4>1. c \in contact_set /\ task'[c] = task[c]
        BY <1>8, <3>1, <3>3
      <4> QED BY <1>3, <2>1, <4>1 DEF DispatcherInvariant, EndsLate
    <3> QED BY <3>2, <3>3
  <2> QED BY <2>1 DEF EndsLate
<1>17. recalled' \subseteq Bids /\ storage' \subseteq Bids
  <2>1. \A c \in out : task[c].at = "push" => task[c].bid \in Bids
    BY RequeuedRight DEF DispatcherInvariant
  <2> QED BY <1>2, <2>1 DEF CarriedOut, DispatcherInvariant, StoreTyped
<1> QED BY <1>1, <1>12, <1>14, <1>15, <1>16, <1>17

LEMMA ConfigRight ==
  ASSUME DispatcherInvariant, NEW m \in Configs, ProcessConfig(m)
  PROVE  DispatcherInvariant'
<1>1. /\ Listening /\ (DropConfig(m) \/ ApplyConfig(m) \/ RejectConfig(m))
      /\ UNCHANGED <<now, active_contacts, books, links, events, to_store, on_air, receptions, sent>>
  BY DEF ProcessConfig
<1>2. BooksTyped' /\ Covered'
  BY <1>1, Frames
<1>3. CASE DropConfig(m)
  <2>1. /\ fwd_dict' = [n \in NodeId |-> {}]
        /\ UNCHANGED <<main, contact_set, reachable_eids, sched_db, task, recalled, storage>>
    BY <1>3 DEF DropConfig
  <2>2. PlanTyped' /\ StoreTyped'
    BY <1>1, <2>1 DEF DispatcherInvariant, PlanTyped, StoreTyped
  <2>3. PlannedHasQueue' /\ EndsLate'
    BY <1>1, <2>1 DEF DispatcherInvariant, PlannedHasQueue, EndsLate
  <2>4. MainTyped' /\ QueuesTyped' /\ DeletedWhenSent'
    BY <1>1, <2>1, Frames
  <2> QED BY <1>2, <2>2, <2>3, <2>4 DEF DispatcherInvariant
<1>4. CASE RejectConfig(m)
  <2>1. Die /\ UNCHANGED <<plan, sched_db, task, recalled, storage>>
    BY <1>4 DEF RejectConfig
  <2>2. StoreTyped'
    BY <1>1, <2>1 DEF DispatcherInvariant, StoreTyped
  <2> QED BY <1>1, <1>2, <2>1, <2>2, Frames, DeadRight DEF DispatcherInvariant
<1>5. CASE ApplyConfig(m) /\ ToAdd(m) \cap DOMAIN sched_db # {}
  <2>1. /\ Die /\ UNCHANGED <<fwd_dict, sched_db, task, recalled, storage>>
        /\ contact_set' = (contact_set \ ToRemove(contact_set, m)) \cup ToAdd(m)
        /\ DOMAIN reachable_eids' = contact_set'
    BY <1>5 DEF ApplyConfig
  <2>2. PlanTyped' /\ StoreTyped'
    BY <1>1, <2>1, AddedKnown DEF DispatcherInvariant, PlanTyped, StoreTyped
  <2> QED BY <1>1, <1>2, <2>1, <2>2, Frames, DeadRight DEF DispatcherInvariant
<1>6. CASE ApplyConfig(m) /\ ToAdd(m) \cap DOMAIN sched_db = {}
  <2>1. /\ contact_set' = (contact_set \ ToRemove(contact_set, m)) \cup ToAdd(m)
        /\ DOMAIN reachable_eids' = contact_set'
    BY <1>6 DEF ApplyConfig
  <2>2. /\ QueuesTyped' /\ PlannedHasQueue' /\ EndsLate' /\ UNCHANGED main
        /\ recalled' \subseteq Bids /\ storage' \subseteq Bids /\ fwd_dict' \in [NodeId -> SUBSET Contacts]
    BY <1>6, PlanChanged
  <2>3. PlanTyped' /\ StoreTyped'
    BY <1>1, <2>1, <2>2, AddedKnown DEF DispatcherInvariant, PlanTyped, StoreTyped
  <2>4. MainTyped' /\ DeletedWhenSent'
    BY <1>1, <2>2, Frames
  <2> QED BY <1>2, <2>2, <2>3, <2>4 DEF DispatcherInvariant
<1> QED BY <1>1, <1>3, <1>4, <1>5, <1>6

-----------------------------------------------------------------------------
(* The tasks of the contacts. *)

LEMMA TaskSet ==
  ASSUME QueuesTyped, NEW c \in Contacts, NEW new, task' = [task EXCEPT ![c] = new]
  PROVE  /\ DOMAIN task' = Contacts /\ task'[c] = new
         /\ \A d \in Contacts : d # c => task'[d] = task[d]
BY DEF QueuesTyped

\* One task moves, the queues stay.
LEMMA TaskMoves ==
  ASSUME QueuesTyped, NEW c \in Contacts, NEW new, task' = [task EXCEPT ![c] = new],
         UNCHANGED sched_db, TaskTyped(c)'
  PROVE  QueuesTyped'
<1>1. \A d \in Contacts : TaskTyped(d)'
  <2>1. ASSUME NEW d \in Contacts, d # c PROVE TaskTyped(d)'
    <3>1. task'[d] = task[d] /\ TaskTyped(d)
      BY <2>1, TaskSet DEF QueuesTyped
    <3> QED BY <3>1, TaskKept
  <2> QED BY <2>1
<1> QED BY <1>1, TaskSet DEF QueuesTyped

Ending == {"end", "resched", "drop", "down"}

LEMMA EndsLateMoves ==
  ASSUME DispatcherInvariant, NEW c \in Contacts, NEW new, task' = [task EXCEPT ![c] = new],
         UNCHANGED <<main, now, plan>>, new.at \in Ending => now >= c.end \/ task[c].at \in Ending
  PROVE  EndsLate'
<1> SUFFICES ASSUME main'.at # "dead", NEW d \in contact_set', task'[d].at \in Ending
             PROVE  now' >= d.end
  BY DEF EndsLate, Ending
<1>1. main.at # "dead" /\ d \in contact_set /\ now' = now /\ d \in Contacts
  BY DEF plan, DispatcherInvariant, PlanTyped
<1>2. task[d].at \in Ending => now >= d.end
  BY <1>1 DEF DispatcherInvariant, EndsLate, Ending
<1>3. d # c => task'[d] = task[d]
  BY <1>1, TaskSet DEF DispatcherInvariant
<1>4. task'[c] = new
  BY TaskSet DEF DispatcherInvariant
<1> QED BY <1>1, <1>2, <1>3, <1>4

\* A task goes to a place where it holds nothing.
LEMMA GoesTo ==
  ASSUME DispatcherInvariant, NEW c \in Contacts,
         NEW where \in {"none", "sleep", "up", "link", "linked", "idle", "rest", "end", "down"},
         GoTo(c, where), task[c].at # "none", UNCHANGED sched_db
  PROVE  /\ QueuesTyped'
         /\ UNCHANGED <<main, now, plan>> /\ (where \in Ending => now >= c.end \/ task[c].at \in Ending)
              => EndsLate'
<1>1. task' = [task EXCEPT ![c] = At(where)]
  BY DEF GoTo
<1>2. task'[c] = At(where)
  BY <1>1, TaskSet DEF DispatcherInvariant
<1>3. c \in DOMAIN sched_db
  BY DEF DispatcherInvariant, QueuesTyped, TaskTyped
<1>4. TaskTyped(c)'
  BY <1>2, <1>3 DEF TaskTyped, TaskStates, At
<1>5. At(where).at = where
  BY DEF At
<1> QED BY <1>1, <1>4, <1>5, TaskMoves, EndsLateMoves DEF DispatcherInvariant

LEMMA StartRight ==
  ASSUME DispatcherInvariant, NEW c \in Contacts, StartContact(c)
  PROVE  DispatcherInvariant'
<1>1. UNCHANGED <<now, main, plan, books, sched_db, links, events, store, count, sent>>
  BY DEF StartContact
<1>2. PICK where \in {"sleep", "up"} :
        GoTo(c, where) /\ task[c].at # "none" /\ active_contacts' \subseteq active_contacts \cup {c}
  BY DEF StartContact
<1>3. where \notin Ending
  BY <1>2 DEF Ending
<1>4. QueuesTyped' /\ EndsLate'
  BY <1>1, <1>2, <1>3, GoesTo
<1>5. PlanTyped'
  BY <1>1, <1>2 DEF DispatcherInvariant, PlanTyped, plan
<1> QED BY <1>1, <1>4, <1>5, Frames DEF DispatcherInvariant

LEMMA LinkRight ==
  ASSUME DispatcherInvariant, NEW c \in Contacts, LinkAsked(c) \/ LinkAwaited(c)
  PROVE  DispatcherInvariant'
<1>1. UNCHANGED <<now, main, plan, active_contacts, books, sched_db, links, events, store, count, sent>>
  BY DEF LinkAsked, LinkAwaited
<1>2. PICK where \in {"link", "idle", "end"} :
        GoTo(c, where) /\ task[c].at # "none" /\ (where = "end" => now >= c.end)
  BY DEF LinkAsked, LinkAwaited, Transmitting, Over
<1>3. where \in Ending => now >= c.end
  BY <1>2 DEF Ending
<1>4. QueuesTyped' /\ EndsLate'
  BY <1>1, <1>2, <1>3, GoesTo
<1> QED BY <1>1, <1>4, Frames DEF DispatcherInvariant

LEMMA DroppedRight ==
  ASSUME DispatcherInvariant, NEW c \in Contacts, Dropped(c)
  PROVE  DispatcherInvariant'
<1>1. /\ task[c].at = "drop" /\ storage' = storage \ {task[c].bid}
      /\ task' = [task EXCEPT ![c] = AfterDrop(task[c])]
      /\ UNCHANGED <<now, main, plan, active_contacts, books, sched_db, links, events,
                    to_store, recalled, on_air, count, sent>>
  BY DEF Dropped
<1>2. TaskTyped(c)
  BY DEF DispatcherInvariant, QueuesTyped
<1>3. AfterDrop(task[c]) = [at |-> "resched", bid |-> NoBundle, todo |-> task[c].todo]
  <2>1. task[c] = [at |-> task[c].at, bid |-> task[c].bid, todo |-> task[c].todo]
    BY <1>2 DEF TaskTyped
  <2>2. AfterDrop(task[c]) = [task[c] EXCEPT !.at = "resched", !.bid = NoBundle]
    BY DEF AfterDrop
  <2> QED BY <2>1, <2>2
<1>4. task'[c] = [at |-> "resched", bid |-> NoBundle, todo |-> task[c].todo]
  BY <1>1, <1>3, TaskSet DEF DispatcherInvariant
<1>5. TaskTyped(c)'
  BY <1>1, <1>2, <1>4 DEF TaskTyped, TaskStates
<1>6. QueuesTyped'
  BY <1>1, <1>5, TaskMoves DEF DispatcherInvariant
<1>7. EndsLate'
  BY <1>1, EndsLateMoves DEF Ending
<1>8. StoreTyped'
  BY <1>1 DEF DispatcherInvariant, StoreTyped
<1> QED BY <1>1, <1>6, <1>7, <1>8, Frames DEF DispatcherInvariant

LEMMA RescheduledRight ==
  ASSUME DispatcherInvariant, NEW c \in Contacts, Rescheduled(c)
  PROVE  DispatcherInvariant'
<1>1. /\ UNCHANGED <<now, main, plan, active_contacts, books, sched_db, links, events, store, count, sent>>
      /\ task[c].at = "resched" /\ GoTo(c, "down")
  BY DEF Rescheduled
<1>2. QueuesTyped' /\ EndsLate'
  BY <1>1, GoesTo DEF Ending
<1> QED BY <1>1, <1>2, Frames DEF DispatcherInvariant

LEMMA PushedRight ==
  ASSUME DispatcherInvariant, NEW c \in Contacts, Pushed(c)
  PROVE  DispatcherInvariant'
<1>1. /\ UNCHANGED <<now, main, plan, active_contacts, books, sched_db, links, events,
                    to_store, storage, on_air, count, sent>>
      /\ task[c].at = "push" /\ GoTo(c, "idle") /\ recalled' = recalled \cup {task[c].bid}
  BY DEF Pushed
<1>2. QueuesTyped' /\ EndsLate'
  BY <1>1, GoesTo DEF Ending
<1>3. c \in DOMAIN sched_db
  BY <1>1 DEF DispatcherInvariant, QueuesTyped, TaskTyped
<1>4. StoreTyped'
  BY <1>1, <1>3, RequeuedRight DEF DispatcherInvariant, StoreTyped
<1> QED BY <1>1, <1>2, <1>4, Frames DEF DispatcherInvariant

\* One task moves and takes or gives back bundles of its queue.
LEMMA QueueMoves ==
  ASSUME QueuesTyped, NEW c \in Contacts, c \in DOMAIN sched_db, NEW queue \in Seq(Bids),
         ToSet(queue) \subseteq DOMAIN sched_db[c].frags, NEW new,
         task' = [task EXCEPT ![c] = new],
         sched_db' = [sched_db EXCEPT ![c] = [queue |-> queue, frags |-> sched_db[c].frags]],
         /\ new.at \in TaskStates \ {"none", "drop"} /\ new.bid \in Bids \cup {NoBundle}
         /\ new.todo \subseteq Bids /\ new.todo \subseteq DOMAIN sched_db[c].frags
         /\ new = [at |-> new.at, bid |-> new.bid, todo |-> new.todo]
         /\ new.at # "resched" => new.todo = {}
         /\ new.at = "push" => new.bid \in DOMAIN sched_db[c].frags
  PROVE  QueuesTyped' /\ DOMAIN sched_db' = DOMAIN sched_db
<1> DEFINE entry == [queue |-> queue, frags |-> sched_db[c].frags]
<1>1. entry.queue = queue /\ entry.frags = sched_db[c].frags /\ entry = [queue |-> entry.queue, frags |-> entry.frags]
  OBVIOUS
<1>2. Queued(sched_db[c])
  BY DEF QueuesTyped
<1> HIDE DEF entry
<1>3. Queued(entry)
  BY <1>1, <1>2 DEF Queued
<1>4. /\ DOMAIN sched_db' = DOMAIN sched_db /\ sched_db'[c] = entry
      /\ \A d \in DOMAIN sched_db : d # c => sched_db'[d] = sched_db[d]
  BY DEF entry
<1>5. /\ DOMAIN task' = Contacts /\ task'[c] = new
      /\ \A d \in Contacts : d # c => task'[d] = task[d]
  BY TaskSet
<1>6. TaskTyped(c)'
  BY <1>1, <1>4, <1>5 DEF TaskTyped
<1>7. ASSUME NEW d \in Contacts, d # c PROVE TaskTyped(d)'
  BY <1>4, <1>5, <1>7, TaskKept DEF QueuesTyped
<1>8. \A d \in DOMAIN sched_db' : Queued(sched_db'[d])
  BY <1>3, <1>4 DEF QueuesTyped
<1> QED BY <1>4, <1>5, <1>6, <1>7, <1>8 DEF QueuesTyped

\* Which contacts have a queue stays.
LEMMA SameQueues ==
  ASSUME DispatcherInvariant, DOMAIN sched_db' = DOMAIN sched_db, UNCHANGED <<main, now, plan>>
  PROVE  PlannedHasQueue'
BY DEF DispatcherInvariant, PlannedHasQueue, plan

LEMMA NextBundleRight ==
  ASSUME DispatcherInvariant, NEW c \in Contacts, NextBundle(c)
  PROVE  DispatcherInvariant'
<1> DEFINE queue == sched_db[c].queue
           tail == Tail(queue)
           new == [at |-> "push", bid |-> Head(queue), todo |-> {}]
<1>1. /\ task[c].at = "idle" /\ queue # <<>>
      /\ task' = [task EXCEPT ![c] = [At("push") EXCEPT !.bid = Head(queue)]]
      /\ sched_db' = [sched_db EXCEPT ![c].queue = tail]
      /\ UNCHANGED <<now, main, plan, active_contacts, books, links, events, store, count, sent>>
  BY DEF NextBundle
<1>2. QueuesTyped /\ TaskTyped(c) /\ c \in DOMAIN sched_db /\ Queued(sched_db[c])
  BY <1>1 DEF DispatcherInvariant, QueuesTyped, TaskTyped
<1>3. [At("push") EXCEPT !.bid = Head(queue)] = new
  BY DEF At
<1>4. sched_db' = [sched_db EXCEPT ![c] = [queue |-> tail, frags |-> sched_db[c].frags]]
  <2>1. sched_db[c] = [queue |-> queue, frags |-> sched_db[c].frags]
    BY <1>2 DEF Queued
  <2> HIDE DEF tail
  <2>2. [sched_db[c] EXCEPT !.queue = tail] = [queue |-> tail, frags |-> sched_db[c].frags]
    BY <2>1
  <2> QED BY <1>1, <2>2
<1>5. queue \in Seq(Bids) /\ ToSet(queue) \subseteq DOMAIN sched_db[c].frags /\ DOMAIN sched_db[c].frags \subseteq Bids
  BY <1>2 DEF Queued
<1>6. tail \in Seq(Bids) /\ ToSet(tail) \subseteq DOMAIN sched_db[c].frags /\ Head(queue) \in DOMAIN sched_db[c].frags
  BY <1>1, <1>5, ToSetOf
<1>7. task' = [task EXCEPT ![c] = new]
  BY <1>1, <1>3
<1>8. new.at = "push" /\ new.bid = Head(queue) /\ new.todo = {}
  OBVIOUS
<1>9. QueuesTyped' /\ DOMAIN sched_db' = DOMAIN sched_db
  <2> HIDE DEF queue
  <2>1. new = [at |-> new.at, bid |-> new.bid, todo |-> new.todo]
    OBVIOUS
  <2>2. sched_db' = [sched_db EXCEPT ![c] = [queue |-> tail, frags |-> sched_db[c].frags]]
    BY <1>4
  <2> HIDE DEF new, tail
  <2>3. /\ new.at \in TaskStates \ {"none", "drop"} /\ new.bid \in Bids \cup {NoBundle}
        /\ new.todo \subseteq Bids /\ new.todo \subseteq DOMAIN sched_db[c].frags
        /\ new = [at |-> new.at, bid |-> new.bid, todo |-> new.todo]
        /\ new.at # "resched" => new.todo = {}
        /\ new.at = "push" => new.bid \in DOMAIN sched_db[c].frags
    BY <1>5, <1>6, <1>8, <2>1 DEF TaskStates
  <2> QED BY <1>2, <1>6, <1>7, <2>2, <2>3, QueueMoves
<1>10. EndsLate'
  <2>1. new.at \notin Ending
    BY <1>8 DEF Ending
  <2>2. UNCHANGED <<main, now, plan>>
    BY <1>1
  <2> HIDE DEF new
  <2> QED BY <1>7, <2>1, <2>2, EndsLateMoves
<1> QED BY <1>1, <1>9, <1>10, SameQueues, Frames DEF DispatcherInvariant

LEMMA ContactOverRight ==
  ASSUME DispatcherInvariant, NEW c \in Contacts, ContactOver(c)
  PROVE  DispatcherInvariant'
<1>1. /\ Over(c) /\ GoTo(c, "end")
      /\ UNCHANGED <<now, main, plan, active_contacts, books, links, events, to_store, storage, on_air, count, sent>>
  BY DEF ContactOver
<1>2. now >= c.end
  BY <1>1 DEF Over
<1>3. CASE task[c].at \in {"idle", "rest"} /\ UNCHANGED <<sched_db, recalled>>
  <2>1. QueuesTyped' /\ EndsLate'
    BY <1>1, <1>2, <1>3, GoesTo
  <2>2. UNCHANGED <<store, events>>
    BY <1>1, <1>3 DEF store
  <2> QED BY <1>1, <1>3, <2>1, <2>2, Frames DEF DispatcherInvariant
<1>4. CASE /\ task[c].at = "push" /\ sched_db' = [sched_db EXCEPT ![c] = Requeued(c)]
           /\ recalled' = recalled \cup {task[c].bid} \/ UNCHANGED recalled
  <2>1. QueuesTyped /\ c \in DOMAIN sched_db
    BY <1>4 DEF DispatcherInvariant, QueuesTyped, TaskTyped
  <2>2. Queued(Requeued(c)) /\ Requeued(c).frags = sched_db[c].frags /\ task[c].bid \in Bids
    BY <1>4, <2>1, RequeuedRight
  <2> DEFINE queue == Requeued(c).queue
             new == At("end")
  <2>3. Requeued(c) = [queue |-> queue, frags |-> sched_db[c].frags] /\ queue \in Seq(Bids)
        /\ ToSet(queue) \subseteq DOMAIN sched_db[c].frags
    BY <2>2 DEF Queued
  <2>4. new.at = "end" /\ new.bid = NoBundle /\ new.todo = {} /\ new = [at |-> new.at, bid |-> new.bid, todo |-> new.todo]
    BY DEF At
  <2>5. task' = [task EXCEPT ![c] = new]
    BY <1>1 DEF GoTo
  <2> HIDE DEF queue, new
  <2>6. sched_db' = [sched_db EXCEPT ![c] = [queue |-> queue, frags |-> sched_db[c].frags]]
    BY <1>4, <2>3
  <2>7. /\ new.at \in TaskStates \ {"none", "drop"} /\ new.bid \in Bids \cup {NoBundle}
        /\ new.todo \subseteq Bids /\ new.todo \subseteq DOMAIN sched_db[c].frags
        /\ new = [at |-> new.at, bid |-> new.bid, todo |-> new.todo]
        /\ new.at # "resched" => new.todo = {}
        /\ new.at = "push" => new.bid \in DOMAIN sched_db[c].frags
    BY <2>4 DEF TaskStates
  <2>8. QueuesTyped' /\ DOMAIN sched_db' = DOMAIN sched_db
    BY <2>1, <2>3, <2>5, <2>6, <2>7, QueueMoves
  <2>9. EndsLate'
    BY <1>1, <1>2, <2>5, EndsLateMoves
  <2>10. StoreTyped'
    BY <1>1, <1>4, <2>2 DEF DispatcherInvariant, StoreTyped
  <2> QED BY <1>1, <2>8, <2>9, <2>10, SameQueues, Frames DEF DispatcherInvariant
<1> QED BY <1>3, <1>4 DEF ContactOver

LEMMA EndContactRight ==
  ASSUME DispatcherInvariant, NEW c \in Contacts, EndContact(c)
  PROVE  DispatcherInvariant'
<1> DEFINE bids == ToSet(sched_db[c].queue)
           new == [at |-> "resched", bid |-> NoBundle, todo |-> bids]
<1>1. /\ task[c].at = "end"
      /\ task' = [task EXCEPT ![c] = [At("resched") EXCEPT !.todo = bids]]
      /\ sched_db' = [sched_db EXCEPT ![c].queue = <<>>]
      /\ UNCHANGED <<now, main, plan, active_contacts, books, links, events, store, count, sent>>
  BY DEF EndContact
<1>2. QueuesTyped /\ TaskTyped(c) /\ c \in DOMAIN sched_db /\ Queued(sched_db[c])
  BY <1>1 DEF DispatcherInvariant, QueuesTyped, TaskTyped
<1>3. [At("resched") EXCEPT !.todo = bids] = new
  BY DEF At
<1>4. sched_db' = [sched_db EXCEPT ![c] = [queue |-> <<>>, frags |-> sched_db[c].frags]]
  <2>1. sched_db[c] = [queue |-> sched_db[c].queue, frags |-> sched_db[c].frags]
    BY <1>2 DEF Queued
  <2>2. [sched_db[c] EXCEPT !.queue = <<>>] = [queue |-> <<>>, frags |-> sched_db[c].frags]
    BY <2>1
  <2> QED BY <1>1, <2>2
<1>5. bids \subseteq DOMAIN sched_db[c].frags /\ DOMAIN sched_db[c].frags \subseteq Bids
  BY <1>2 DEF Queued
<1>6. task' = [task EXCEPT ![c] = new]
  BY <1>1, <1>3
<1>7. /\ new.at = "resched" /\ new.bid = NoBundle /\ new.todo = bids
      /\ new = [at |-> new.at, bid |-> new.bid, todo |-> new.todo]
  OBVIOUS
<1> HIDE DEF bids, new
<1>8. QueuesTyped' /\ DOMAIN sched_db' = DOMAIN sched_db
  <2>1. /\ new.at \in TaskStates \ {"none", "drop"} /\ new.bid \in Bids \cup {NoBundle}
        /\ new.todo \subseteq Bids /\ new.todo \subseteq DOMAIN sched_db[c].frags
        /\ new = [at |-> new.at, bid |-> new.bid, todo |-> new.todo]
        /\ new.at # "resched" => new.todo = {}
        /\ new.at = "push" => new.bid \in DOMAIN sched_db[c].frags
    BY <1>5, <1>7 DEF TaskStates
  <2>2. <<>> \in Seq(Bids) /\ ToSet(<<>>) \subseteq DOMAIN sched_db[c].frags
    BY ToSetOf
  <2> QED BY <1>2, <1>4, <1>6, <2>1, <2>2, QueueMoves
<1>9. EndsLate'
  <2>1. task[c].at \in Ending
    BY <1>1 DEF Ending
  <2> QED BY <1>1, <1>6, <2>1, EndsLateMoves
<1> QED BY <1>1, <1>8, <1>9, SameQueues, Frames DEF DispatcherInvariant

\* A new place for a bundle: its fragments join the old ones, which are kept.
LEMMA RescheduleRight ==
  ASSUME DispatcherInvariant, NEW c \in Contacts, NEW b \in Bids, Reschedule(c, b)
  PROVE  DispatcherInvariant'
<1> DEFINE f == sched_db[c].frags[b]
<1>1. /\ task[c].at = "resched" /\ b \in task[c].todo
      /\ UNCHANGED <<now, main, plan, active_contacts, stored_bundles, capmap, links, events, store, count, sent>>
  BY DEF Reschedule
<1>2. PICK frags \in CalcSchedule(fwd_dict, capmap, b, 0, f.fo, f.fps, now) :
        IF frags = {}
          THEN /\ task' = [task EXCEPT ![c] = [at |-> "drop", bid |-> b, todo |-> @.todo \ {b}]]
               /\ UNCHANGED <<sched_db, scheduled_bundles>>
          ELSE Replace(c, b, frags)
  BY DEF Reschedule
<1>3. QueuesTyped /\ TaskTyped(c) /\ c \in DOMAIN sched_db /\ Queued(sched_db[c]) /\ BooksTyped
  BY <1>1 DEF DispatcherInvariant, QueuesTyped, TaskTyped
<1>4. frags \subseteq Pieces
  <2>1. f \in Pieces
    BY <1>1, <1>3 DEF TaskTyped, Queued
  <2>2. f.fo \in Int /\ f.fps \in Int
    BY <2>1 DEF Pieces
  <2> DEFINE fo == f.fo
             fl == f.fps
  <2> HIDE DEF fo, fl
  <2>3. Asked(fwd_dict, capmap, b, 0, fo, fl, now)
    BY <2>2, CapacitiesBooked DEF DispatcherInvariant, PlanTyped, Asked, fo, fl
  <2>4. CalcSchedule(fwd_dict, capmap, b, 0, fo, fl, now) \subseteq SUBSET Pieces
    BY <2>3, ScheduleType
  <2> QED BY <1>2, <2>4 DEF fo, fl
<1>5. task[c] = [at |-> task[c].at, bid |-> task[c].bid, todo |-> task[c].todo]
  BY <1>3 DEF TaskTyped
<1>6. task[c].at \in Ending
  BY <1>1 DEF Ending
<1>7. PlanTyped' /\ StoreTyped' /\ MainTyped' /\ DeletedWhenSent'
  BY <1>1, Frames
<1>8. CASE frags = {}
  <2> DEFINE new == [at |-> "drop", bid |-> b, todo |-> task[c].todo \ {b}]
  <2>1. task' = [task EXCEPT ![c] = new] /\ UNCHANGED <<sched_db, scheduled_bundles>>
    BY <1>2, <1>8
  <2>2. new.at = "drop" /\ new.bid = b /\ new.todo = task[c].todo \ {b}
        /\ new = [at |-> new.at, bid |-> new.bid, todo |-> new.todo]
    OBVIOUS
  <2> HIDE DEF new
  <2>3. TaskTyped(c)'
    <3>1. task'[c] = new
      BY <1>3, <2>1, TaskSet
    <3> QED BY <1>1, <1>3, <2>1, <2>2, <3>1 DEF TaskTyped, TaskStates
  <2>4. QueuesTyped'
    BY <1>3, <2>1, <2>3, TaskMoves
  <2>5. EndsLate'
    BY <1>1, <1>6, <2>1, EndsLateMoves
  <2>6. UNCHANGED <<books, sent>>
    BY <1>1, <2>1 DEF books
  <2> QED BY <1>1, <1>7, <2>1, <2>4, <2>5, <2>6, Frames DEF DispatcherInvariant
<1>9. CASE frags # {} /\ HaveTasks(frags) /\ b \in DOMAIN scheduled_bundles
  <2> DEFINE new == [at |-> "resched", bid |-> task[c].bid, todo |-> task[c].todo \ {b}]
  <2>1. /\ sched_db' = InQueues(sched_db, b, frags)
        /\ scheduled_bundles' = [scheduled_bundles EXCEPT ![b] = scheduled_bundles[b] \cup frags]
        /\ task' = [task EXCEPT ![c].todo = @ \ {b}]
    BY <1>2, <1>9 DEF Replace, Rebooked
  <2>2. task' = [task EXCEPT ![c] = new]
    <3>1. [task[c] EXCEPT !.todo = @ \ {b}] = new
      BY <1>1, <1>5
    <3> QED BY <2>1, <3>1
  <2>3. new.at = "resched" /\ new.bid = task[c].bid /\ new.todo = task[c].todo \ {b}
        /\ new = [at |-> new.at, bid |-> new.bid, todo |-> new.todo]
    OBVIOUS
  <2> HIDE DEF new
  <2>4. /\ DOMAIN sched_db' = DOMAIN sched_db
        /\ \A d \in DOMAIN sched_db' : Queued(sched_db'[d])
        /\ \A d \in Contacts : task'[d] = task[d] => TaskTyped(d)'
    BY <1>3, <1>4, <2>1, QueuesGrow
  <2>5. DOMAIN sched_db[c].frags \subseteq DOMAIN sched_db'[c].frags
    BY <1>3, <1>4, <2>1, InQueuesRight DEF QueuesTyped
  <2>6. /\ DOMAIN task' = Contacts /\ task'[c] = new
        /\ \A d \in Contacts : d # c => task'[d] = task[d]
    BY <1>3, <2>2, TaskSet
  <2>7. TaskTyped(c)'
    BY <1>1, <1>3, <2>3, <2>4, <2>5, <2>6 DEF TaskTyped, TaskStates
  <2>8. QueuesTyped'
    BY <1>3, <2>4, <2>6, <2>7 DEF QueuesTyped
  <2>9. EndsLate'
    BY <1>1, <1>6, <2>2, EndsLateMoves
  <2>10. /\ DOMAIN scheduled_bundles' = DOMAIN scheduled_bundles
         /\ \A x \in DOMAIN scheduled_bundles : scheduled_bundles[x] \subseteq scheduled_bundles'[x]
         /\ \A x \in DOMAIN scheduled_bundles : scheduled_bundles'[x] \subseteq Pieces
    BY <1>3, <1>4, <1>9, <2>1 DEF BooksTyped
  <2>11. BooksTyped'
    BY <1>1, <1>3, <2>10 DEF BooksTyped
  <2>12. Covered'
    <3>1. \A x \in DOMAIN scheduled_bundles : Bytes(scheduled_bundles[x]) \subseteq Bytes(scheduled_bundles'[x])
      BY <2>10 DEF Bytes
    <3> QED BY <1>1, <2>10, <3>1 DEF DispatcherInvariant, Covered
  <2>13. PlannedHasQueue'
    BY <1>1, <2>4, SameQueues
  <2> QED BY <1>7, <2>8, <2>9, <2>11, <2>12, <2>13 DEF DispatcherInvariant
<1>10. CASE frags # {} /\ ~(HaveTasks(frags) /\ b \in DOMAIN scheduled_bundles)
  <2>1. PICK done \in SUBSET frags : sched_db' = InQueues(sched_db, b, done)
    BY <1>2, <1>10 DEF Replace
  <2>2. GoTo(c, "none") /\ UNCHANGED scheduled_bundles
    BY <1>2, <1>10 DEF Replace
  <2>3. done \in SUBSET Pieces
    BY <1>4
  <2>4. /\ DOMAIN sched_db' = DOMAIN sched_db
        /\ \A d \in DOMAIN sched_db' : Queued(sched_db'[d])
        /\ \A d \in Contacts : task'[d] = task[d] => TaskTyped(d)'
    BY <1>3, <2>1, <2>3, QueuesGrow
  <2>5. task' = [task EXCEPT ![c] = At("none")]
    BY <2>2 DEF GoTo
  <2>6. /\ DOMAIN task' = Contacts /\ task'[c] = At("none")
        /\ \A d \in Contacts : d # c => task'[d] = task[d]
    BY <1>3, <2>5, TaskSet
  <2>7. TaskTyped(c)'
    BY <2>6 DEF TaskTyped, TaskStates, At
  <2>8. QueuesTyped'
    BY <1>3, <2>4, <2>6, <2>7 DEF QueuesTyped
  <2>9. EndsLate'
    <3>1. At("none").at \notin Ending
      BY DEF Ending, At
    <3> QED BY <1>1, <2>5, <3>1, EndsLateMoves
  <2>10. UNCHANGED <<books, sent>>
    BY <1>1, <2>2 DEF books
  <2>11. PlannedHasQueue'
    BY <1>1, <2>4, SameQueues
  <2> QED BY <1>7, <2>8, <2>9, <2>10, <2>11, Frames DEF DispatcherInvariant
<1> QED BY <1>8, <1>9, <1>10

\* A contact gives its queue up with its link: it is over or out of the plan.
LEMMA LinkDroppedRight ==
  ASSUME DispatcherInvariant, NEW c \in Contacts, LinkDropped(c)
  PROVE  DispatcherInvariant'
<1>1. /\ Free /\ task[c].at = "down" /\ active_contacts' = active_contacts \ {c} /\ GoTo(c, "none")
      /\ sched_db' = IF c \in active_contacts THEN Without(sched_db, c) ELSE sched_db
      /\ UNCHANGED <<now, main, plan, books, links, events, store, count, sent>>
  BY DEF LinkDropped
<1>2. QueuesTyped /\ main.at # "dead"
  BY <1>1 DEF DispatcherInvariant, Free
<1>3. task' = [task EXCEPT ![c] = At("none")]
  BY <1>1 DEF GoTo
<1>4. /\ DOMAIN task' = Contacts /\ task'[c] = At("none")
      /\ \A d \in Contacts : d # c => task'[d] = task[d]
  BY <1>2, <1>3, TaskSet
<1>5. /\ DOMAIN sched_db' \subseteq DOMAIN sched_db
      /\ \A d \in DOMAIN sched_db : d # c => d \in DOMAIN sched_db'
      /\ \A d \in DOMAIN sched_db' : sched_db'[d] = sched_db[d]
  BY <1>1 DEF Without, Restrict
<1>6. QueuesTyped'
  <2>1. TaskTyped(c)'
    BY <1>4 DEF TaskTyped, TaskStates, At
  <2>2. ASSUME NEW d \in Contacts, d # c PROVE TaskTyped(d)'
    BY <1>2, <1>4, <1>5, <2>2, TaskKept DEF QueuesTyped
  <2>3. \A d \in DOMAIN sched_db' : Queued(sched_db'[d])
    BY <1>2, <1>5 DEF QueuesTyped
  <2> QED BY <1>2, <1>4, <1>5, <2>1, <2>2, <2>3 DEF QueuesTyped
<1>7. EndsLate'
  <2>1. At("none").at \notin Ending
    BY DEF Ending, At
  <2> QED BY <1>1, <1>3, <2>1, EndsLateMoves
<1>8. PlannedHasQueue'
  <2>1. c \in contact_set => now >= c.end
    BY <1>1, <1>2 DEF DispatcherInvariant, EndsLate
  <2>2. now \in Nat /\ c.end \in Nat
    BY ContactAssumption DEF DispatcherInvariant, PlanTyped
  <2>3. c \in contact_set => ~(now < c.end)
    BY <2>1, <2>2
  <2>4. UNCHANGED <<main, now, contact_set, fwd_dict>>
    BY <1>1 DEF plan
  <2>5. \A d \in contact_set : now < d.end => d \in DOMAIN sched_db'
    BY <1>2, <1>5, <2>3 DEF DispatcherInvariant, PlannedHasQueue
  <2> QED BY <2>4, <2>5 DEF DispatcherInvariant, PlannedHasQueue
<1>9. PlanTyped'
  BY <1>1 DEF DispatcherInvariant, PlanTyped, plan
<1> QED BY <1>1, <1>6, <1>7, <1>8, <1>9, Frames DEF DispatcherInvariant

-----------------------------------------------------------------------------
(* The theorems. *)

LEMMA TaskStepRight ==
  ASSUME DispatcherInvariant, NEW c \in Contacts, TaskStep(c)
  PROVE  DispatcherInvariant'
BY StartRight, LinkRight, NextBundleRight, PushedRight, ContactOverRight, EndContactRight,
   RescheduleRight, DroppedRight, RescheduledRight, LinkDroppedRight DEF TaskStep

LEMMA StepRight ==
  ASSUME DispatcherInvariant, [Next]_vars
  PROVE  DispatcherInvariant'
<1>1. CASE MainStep
  BY <1>1, EventRight, DeletedRight DEF MainStep
<1>2. CASE StorageStep \/ \E b \in Bids : Receive(b) \/ Transmitted(b)
  BY <1>2, StorageRight DEF StorageStep
<1>3. CASE Tick
  BY <1>3, TickRight
<1>4. CASE \E a \in Addrs, up \in BOOLEAN : UpdateLinkInfo(a, up)
  BY <1>4, LinkInfoRight
<1>5. CASE \E m \in Configs : ProcessConfig(m)
  BY <1>5, ConfigRight
<1>6. CASE \E c \in Contacts : TaskStep(c)
  BY <1>6, TaskStepRight
<1>7. CASE UNCHANGED vars
  <2>1. UNCHANGED <<now, main, plan, active_contacts, books, sched_db, task, links, events, store, count, sent>>
    BY <1>7 DEF vars
  <2> QED BY <2>1, Frames DEF DispatcherInvariant
<1> QED BY <1>1, <1>2, <1>3, <1>4, <1>5, <1>6, <1>7 DEF Next

\* Every table of the dispatcher holds what its users expect, whatever the plan, and no byte of
\* a bundle it knows is lost between the tables.
THEOREM DispatcherAlwaysRight == Spec => []DispatcherInvariant
<1>1. Init => DispatcherInvariant
  BY InitRight
<1>2. DispatcherInvariant /\ [Next]_vars => DispatcherInvariant'
  BY StepRight
<1> QED BY <1>1, <1>2, PTL DEF Spec

\* Plans, queues and the forwarding database fit together, for every set of contacts,
\* configuration messages and bundles.
THEOREM DispatchAlwaysFits == Spec => []DispatchInv
<1>1. DispatcherInvariant => DispatchInv
  <2> SUFFICES ASSUME DispatcherInvariant PROVE DispatchInv
    OBVIOUS
  <2>1. /\ now \in 0..MaxTime /\ contact_set \subseteq Contacts /\ DOMAIN reachable_eids = contact_set
        /\ \A n \in NodeId : fwd_dict[n] \subseteq Contacts
        /\ active_contacts \subseteq Contacts /\ links \subseteq Addrs
    BY ContactAssumption DEF DispatcherInvariant, PlanTyped
  <2>2. /\ DOMAIN scheduled_bundles \subseteq Bids /\ stored_bundles \subseteq Bids /\ storage \subseteq Bids
        /\ main.at \in {"idle", "delete", "dead"} /\ main.bid \in Bids \cup {NoBundle}
    BY DEF DispatcherInvariant, BooksTyped, StoreTyped, MainTyped
  <2>3. /\ DOMAIN sched_db \subseteq Contacts
        /\ \A c \in Contacts : task[c].at \in TaskStates /\ task[c].todo \subseteq Bids
    BY DEF DispatcherInvariant, QueuesTyped, TaskTyped
  <2>4. ASSUME NEW c \in DOMAIN sched_db
        PROVE  ToSet(sched_db[c].queue) \cup task[c].todo \subseteq DOMAIN sched_db[c].frags
    <3>1. Queued(sched_db[c]) /\ TaskTyped(c)
      BY DEF DispatcherInvariant, QueuesTyped
    <3> QED BY <3>1 DEF Queued, TaskTyped
  <2>5. TypeOK
    BY <2>1, <2>2, <2>3, <2>4 DEF TypeOK
  <2> QED BY <2>5, SchedulesAlwaysFit DEF DispatchInv, DispatcherInvariant
<1> QED BY <1>1, DispatcherAlwaysRight, PTL

\* A bundle is deleted from the storage only when every byte of it was handed to a contact.
THEOREM OnlySentIsDeleted == Spec => []DeletedWhenSent
<1>1. DispatcherInvariant => DeletedWhenSent
  BY DEF DispatcherInvariant
<1> QED BY <1>1, DispatcherAlwaysRight, PTL

-----------------------------------------------------------------------------
(* The client (ClientService): the sequences it is made of, its invariant, each of its steps. *)

\* FlattenSeq puts the sequences one behind the other: one more at the end is appended.
Flattens(f, seqs) == f = [i \in 1 .. Len(seqs) |-> IF i = 1 THEN seqs[i] ELSE f[i - 1] \o seqs[i]]

LEMMA FlattenExists ==
  ASSUME NEW S, NEW seqs \in Seq(Seq(S))
  PROVE  \E f \in [1 .. Len(seqs) -> Seq(S)] : Flattens(f, seqs)
<1> DEFINE Good(n, f) == /\ f \in [1 .. n -> Seq(S)]
                         /\ \A i \in 1 .. n : f[i] = IF i = 1 THEN seqs[i] ELSE f[i - 1] \o seqs[i]
           P == {n \in Nat : n <= Len(seqs) => \E f : Good(n, f)}
<1>1. 0 \in P
  <2>1. Good(0, [i \in 1 .. 0 |-> <<>>])
    OBVIOUS
  <2> QED BY <2>1
<1>2. ASSUME NEW n \in Nat, n \in P PROVE n + 1 \in P
  <2>1. SUFFICES ASSUME n + 1 <= Len(seqs) PROVE \E f : Good(n + 1, f)
    <3> HIDE DEF Good
    <3> QED OBVIOUS
  <2>2. PICK f : Good(n, f)
    <3>1. n <= Len(seqs)
      BY <2>1
    <3> HIDE DEF Good
    <3> QED BY <1>2, <3>1
  <2> DEFINE g == [i \in 1 .. n + 1 |-> IF i <= n THEN f[i]
                                        ELSE IF i = 1 THEN seqs[i] ELSE f[n] \o seqs[i]]
  <2>3. seqs[n + 1] \in Seq(S)
    BY <2>1
  <2>4. ASSUME NEW i \in 1 .. n + 1
        PROVE  g[i] \in Seq(S) /\ g[i] = IF i = 1 THEN seqs[i] ELSE g[i - 1] \o seqs[i]
    <3>1. CASE i <= n
      <4>1. g[i] = f[i] /\ (i # 1 => g[i - 1] = f[i - 1])
        BY <3>1
      <4>2. f[i] \in Seq(S) /\ f[i] = IF i = 1 THEN seqs[i] ELSE f[i - 1] \o seqs[i]
        <5>1. i \in 1 .. n
          BY <3>1
        <5> QED BY <2>2, <5>1
      <4> HIDE DEF g
      <4> QED BY <4>1, <4>2
    <3>2. CASE i = n + 1
      <4>1. n # 0 => f[n] \in Seq(S) /\ g[n] = f[n]
        BY <2>2
      <4>2. n # 0 => f[n] \o seqs[i] \in Seq(S)
        BY <4>1, <2>3, <3>2
      <4> QED BY <4>1, <4>2, <2>3, <3>2
    <3> QED BY <3>1, <3>2
  <2>5. Good(n + 1, g)
    <3>1. g = [i \in 1 .. n + 1 |-> g[i]]
      OBVIOUS
    <3> HIDE DEF g
    <3> QED BY <2>4, <3>1
  <2> HIDE DEF Good
  <2> QED BY <2>5
<1>3. Nat \subseteq P
  <2> HIDE DEF P
  <2> QED BY <1>1, <1>2, NatSets
<1>4. PICK f : Good(Len(seqs), f)
  <2>1. Len(seqs) \in P
    <3> HIDE DEF P
    <3> QED BY <1>3
  <2> HIDE DEF Good
  <2> QED BY <2>1
<1>5. f = [i \in 1 .. Len(seqs) |-> IF i = 1 THEN seqs[i] ELSE f[i - 1] \o seqs[i]]
  BY <1>4
<1> QED BY <1>4, <1>5 DEF Flattens

LEMMA FlattenIsOne ==
  ASSUME NEW seqs, Len(seqs) \in Nat, NEW f, NEW g, Flattens(f, seqs), Flattens(g, seqs)
  PROVE  f = g
<1> DEFINE P == {n \in Nat : n \in 1 .. Len(seqs) => f[n] = g[n]}
<1>0. \A i \in 1 .. Len(seqs) : /\ f[i] = IF i = 1 THEN seqs[i] ELSE f[i - 1] \o seqs[i]
                                /\ g[i] = IF i = 1 THEN seqs[i] ELSE g[i - 1] \o seqs[i]
  BY Zenon DEF Flattens
<1>1. 0 \in P
  OBVIOUS
<1>2. ASSUME NEW n \in Nat, n \in P PROVE n + 1 \in P
  BY <1>0, <1>2
<1>3. Nat \subseteq P
  <2> HIDE DEF P
  <2> QED BY <1>1, <1>2, NatSets
<1>4. \A i \in 1 .. Len(seqs) : f[i] = g[i]
  <2>1. \A i \in 1 .. Len(seqs) : i \in P
    <3> HIDE DEF P
    <3> QED BY <1>3
  <2> QED BY <2>1
<1>5. f = [i \in 1 .. Len(seqs) |-> f[i]] /\ g = [i \in 1 .. Len(seqs) |-> g[i]]
  BY Zenon DEF Flattens
<1> QED BY <1>4, <1>5

LEMMA FlattenSeqIs ==
  ASSUME NEW S, NEW seqs \in Seq(Seq(S)), Len(seqs) # 0
  PROVE  \E f \in [1 .. Len(seqs) -> Seq(S)] : Flattens(f, seqs) /\ FlattenSeq(seqs) = f[Len(seqs)]
<1>1. PICK f \in [1 .. Len(seqs) -> Seq(S)] : Flattens(f, seqs)
  BY FlattenExists
<1> DEFINE c == CHOOSE flatten : flatten = [i \in 1 .. Len(seqs) |->
                                   IF i = 1 THEN seqs[i] ELSE flatten[i - 1] \o seqs[i]]
<1>2. Flattens(c, seqs)
  BY <1>1, Zenon DEF Flattens
<1>3. FlattenSeq(seqs) = c[Len(seqs)]
  BY DEF FlattenSeq
<1> HIDE DEF c
<1>4. c = f
  <2>1. Len(seqs) \in Nat
    OBVIOUS
  <2> QED BY <1>1, <1>2, <2>1, FlattenIsOne
<1> QED BY <1>1, <1>3, <1>4

LEMMA FlattenAppend ==
  ASSUME NEW S, NEW seqs \in Seq(Seq(S)), NEW last \in Seq(S)
  PROVE  /\ FlattenSeq(seqs) \in Seq(S)
         /\ FlattenSeq(Append(seqs, last)) = FlattenSeq(seqs) \o last
<1> DEFINE more == Append(seqs, last)
           n == Len(seqs)
<1>1. more \in Seq(Seq(S)) /\ Len(more) = n + 1 /\ n \in Nat /\ more[n + 1] = last
      /\ \A i \in 1 .. n : more[i] = seqs[i]
  OBVIOUS
<1> HIDE DEF more
<1>2. PICK g \in [1 .. n + 1 -> Seq(S)] : Flattens(g, more) /\ FlattenSeq(more) = g[n + 1]
  BY <1>1, FlattenSeqIs
<1>3. \A i \in 1 .. n + 1 : g[i] = IF i = 1 THEN more[i] ELSE g[i - 1] \o more[i]
  BY <1>1, <1>2 DEF Flattens
<1>4. CASE n = 0
  <2>1. FlattenSeq(seqs) = <<>>
    BY <1>4 DEF FlattenSeq
  <2>2. g[n + 1] = last
    BY <1>1, <1>3, <1>4
  <2> QED BY <1>2, <2>1, <2>2 DEF more
<1>5. CASE n # 0
  <2>1. PICK f \in [1 .. n -> Seq(S)] : Flattens(f, seqs) /\ FlattenSeq(seqs) = f[n]
    BY <1>5, FlattenSeqIs
  <2> DEFINE h == [i \in 1 .. n |-> g[i]]
  <2>2. h = [i \in 1 .. Len(seqs) |-> IF i = 1 THEN seqs[i] ELSE h[i - 1] \o seqs[i]]
    <3>1. ASSUME NEW i \in 1 .. n
          PROVE  h[i] = IF i = 1 THEN seqs[i] ELSE h[i - 1] \o seqs[i]
      <4>1. i \in 1 .. n + 1 /\ more[i] = seqs[i] /\ h[i] = g[i] /\ (i # 1 => h[i - 1] = g[i - 1])
        BY <1>1
      <4>2. g[i] = IF i = 1 THEN more[i] ELSE g[i - 1] \o more[i]
        BY <1>3, <4>1
      <4> HIDE DEF h
      <4> QED BY <4>1, <4>2
    <3>2. h = [i \in 1 .. Len(seqs) |-> h[i]]
      OBVIOUS
    <3> HIDE DEF h
    <3> QED BY <3>1, <3>2
  <2>3. h = f
    <3>1. Flattens(h, seqs)
      BY <2>2 DEF Flattens
    <3> HIDE DEF h
    <3> QED BY <1>1, <2>1, <3>1, FlattenIsOne
  <2>4. g[n + 1] = g[n] \o last
    <3>1. n + 1 \in 1 .. n + 1 /\ n + 1 # 1 /\ (n + 1) - 1 = n
      BY <1>1, <1>5
    <3>2. g[n + 1] = g[(n + 1) - 1] \o more[n + 1]
      BY <1>3, <3>1
    <3> QED BY <1>1, <3>1, <3>2
  <2>5. g[n] = f[n] /\ f[n] \in Seq(S)
    <3>1. n \in 1 .. n
      BY <1>1, <1>5
    <3>2. h[n] = g[n]
      BY <3>1
    <3> HIDE DEF h, n
    <3> QED BY <2>3, <3>1, <3>2
  <2> HIDE DEF n, h
  <2> QED BY <1>2, <2>1, <2>4, <2>5 DEF more
<1> QED BY <1>4, <1>5

\* RemoveFirst takes the one place where an element stands.
LEMMA RemovedFirst ==
  ASSUME NEW S, NEW s \in Seq(S), IsInjective(s), NEW e
  PROVE  /\ RemoveFirst(s, e) \in Seq(S) /\ IsInjective(RemoveFirst(s, e))
         /\ ToSet(RemoveFirst(s, e)) = ToSet(s) \ {e}
<1> DEFINE I == {i \in 1 .. Len(s) : s[i] = e}
<1>1. CASE \A i \in 1 .. Len(s) : s[i] # e
  <2>1. RemoveFirst(s, e) = s
    BY <1>1 DEF RemoveFirst
  <2>2. e \notin ToSet(s)
    BY <1>1 DEF ToSet
  <2> QED BY <2>1, <2>2
<1>2. CASE \E i \in 1 .. Len(s) : s[i] = e
  <2>0. I \subseteq Nat /\ I # {}
    BY <1>2
  <2>1. PICK m \in I : \A i \in I : m <= i
    BY <2>0, LeastNat
  <2> DEFINE k == CHOOSE x \in I : \A y \in I : x <= y
  <2>2. k \in I
    BY <2>1
  <2>3. SelectInSeq(s, LAMBDA v : v = e) = k
    BY <2>0 DEF SelectInSeq, Min
  <2> DEFINE r == SubSeq(s, 1, k - 1) \o SubSeq(s, k + 1, Len(s))
  <2>4. RemoveFirst(s, e) = r
    BY <1>2, <2>3 DEF RemoveFirst, RemoveAt
  <2>5. k \in 1 .. Len(s) /\ s[k] = e
    BY <2>2
  <2> HIDE DEF k, I
  <2>6. /\ r \in Seq(S) /\ Len(r) = Len(s) - 1
        /\ \A i \in 1 .. Len(r) : r[i] = IF i < k THEN s[i] ELSE s[i + 1]
    <3> DEFINE front == SubSeq(s, 1, k - 1)
               back == SubSeq(s, k + 1, Len(s))
    <3>1. front \in Seq(S) /\ Len(front) = k - 1 /\ \A i \in 1 .. k - 1 : front[i] = s[i]
      BY <2>5
    <3>2. /\ back \in Seq(S) /\ Len(back) = Len(s) - k
          /\ \A i \in 1 .. Len(s) - k : back[i] = s[k + i]
      BY <2>5
    <3>0. Len(s) \in Nat
      OBVIOUS
    <3> HIDE DEF front, back
    <3>4. /\ front \o back \in Seq(S) /\ Len(front \o back) = Len(front) + Len(back)
          /\ \A i \in 1 .. Len(front) + Len(back) :
               (front \o back)[i] = IF i <= Len(front) THEN front[i] ELSE back[i - Len(front)]
      <4>1. front \in Seq(S) /\ back \in Seq(S)
        BY <3>1, <3>2
      <4> QED BY <4>1, ConcatProperties
    <3>5. ASSUME NEW i \in 1 .. Len(s) - 1
          PROVE  (front \o back)[i] = IF i < k THEN s[i] ELSE s[i + 1]
      <4>1. CASE i < k
        <5>1. i \in 1 .. Len(front) + Len(back) /\ i <= Len(front) /\ i \in 1 .. k - 1
          BY <2>5, <3>0, <3>1, <3>2, <4>1
        <5> QED BY <3>1, <3>4, <4>1, <5>1
      <4>2. CASE ~(i < k)
        <5>1. /\ i \in 1 .. Len(front) + Len(back) /\ ~(i <= Len(front))
              /\ i - Len(front) \in 1 .. Len(s) - k /\ k + (i - Len(front)) = i + 1
          BY <2>5, <3>0, <3>1, <3>2, <4>2
        <5>2. (front \o back)[i] = back[i - Len(front)] /\ back[i - Len(front)] = s[k + (i - Len(front))]
          BY <3>2, <3>4, <5>1
        <5> QED BY <4>2, <5>1, <5>2
      <4> QED BY <4>1, <4>2
    <3>6. Len(front \o back) = Len(s) - 1
      BY <2>5, <3>0, <3>1, <3>2, <3>4
    <3>7. r = front \o back
      BY DEF front, back
    <3> HIDE DEF r
    <3> QED BY <3>4, <3>5, <3>6, <3>7
  <2> HIDE DEF r
  <2>7. \A i \in 1 .. Len(s) : i # k => s[i] # e
    BY <2>5 DEF IsInjective
  <2>8. IsInjective(r)
    <3>1. ASSUME NEW i \in DOMAIN r, NEW l \in DOMAIN r, r[i] = r[l] PROVE i = l
      <4> DEFINE I2 == IF i < k THEN i ELSE i + 1
                 L2 == IF l < k THEN l ELSE l + 1
      <4>1. i \in 1 .. Len(s) - 1 /\ l \in 1 .. Len(s) - 1 /\ Len(s) \in Nat
        BY <2>6
      <4>2. /\ I2 \in DOMAIN s /\ L2 \in DOMAIN s
            /\ r[i] = s[I2] /\ r[l] = s[L2]
        BY <2>5, <2>6, <4>1
      <4>3. I2 = L2
        <5> HIDE DEF I2, L2
        <5> QED BY <3>1, <4>2 DEF IsInjective
      <4> QED BY <2>5, <4>1, <4>3
    <3> QED BY <3>1, Zenon DEF IsInjective
  <2>9. ASSUME NEW x \in ToSet(r) PROVE x \in ToSet(s) \ {e}
    <3>1. PICK i \in 1 .. Len(r) : r[i] = x
      BY <2>6 DEF ToSet
    <3>2. CASE i < k
      <4>1. i \in 1 .. Len(s) /\ i # k /\ s[i] = x
        BY <2>5, <2>6, <3>1, <3>2
      <4> QED BY <2>7, <4>1 DEF ToSet
    <3>3. CASE ~(i < k)
      <4>1. i + 1 \in 1 .. Len(s) /\ i + 1 # k /\ s[i + 1] = x
        BY <2>5, <2>6, <3>1, <3>3
      <4> QED BY <2>7, <4>1 DEF ToSet
    <3> QED BY <3>2, <3>3
  <2>10. ASSUME NEW x \in ToSet(s) \ {e} PROVE x \in ToSet(r)
    <3>1. PICK i \in 1 .. Len(s) : s[i] = x
      BY DEF ToSet
    <3>2. i # k
      BY <2>5, <3>1
    <3>3. CASE i < k
      <4>1. i \in 1 .. Len(r) /\ r[i] = x
        BY <2>5, <2>6, <3>1, <3>3
      <4> QED BY <2>6, <4>1 DEF ToSet
    <3>4. CASE i > k
      <4>1. i - 1 \in 1 .. Len(r) /\ r[i - 1] = x
        BY <2>5, <2>6, <3>1, <3>4
      <4> QED BY <2>6, <4>1 DEF ToSet
    <3> QED BY <2>5, <3>2, <3>3, <3>4
  <2> QED BY <2>4, <2>6, <2>8, <2>9, <2>10
<1> QED BY <1>1, <1>2

LEMMA JoinedSeq ==
  ASSUME NEW S, NEW s \in Seq(S), NEW t \in Seq(S), IsInjective(s), IsInjective(t),
         ToSet(s) \cap ToSet(t) = {}
  PROVE  s \o t \in Seq(S) /\ IsInjective(s \o t) /\ ToSet(s \o t) = ToSet(s) \cup ToSet(t)
<1> DEFINE j == s \o t
<1>1. /\ j \in Seq(S) /\ Len(j) = Len(s) + Len(t) /\ Len(s) \in Nat /\ Len(t) \in Nat
      /\ \A i \in 1 .. Len(j) : j[i] = IF i <= Len(s) THEN s[i] ELSE t[i - Len(s)]
  OBVIOUS
<1> HIDE DEF j
<1>2. \A i \in 1 .. Len(j) : /\ i <= Len(s) => j[i] = s[i] /\ i \in DOMAIN s
                             /\ i > Len(s) => j[i] = t[i - Len(s)] /\ i - Len(s) \in DOMAIN t
  BY <1>1
<1>3. \A i \in DOMAIN s, k \in DOMAIN t : s[i] # t[k]
  BY DEF ToSet
<1>4. ASSUME NEW i \in 1 .. Len(j), NEW k \in 1 .. Len(j), j[i] = j[k] PROVE i = k
  <2>1. CASE i <= Len(s) /\ k <= Len(s)
    BY <1>2, <1>4, <2>1 DEF IsInjective
  <2>2. CASE i > Len(s) /\ k > Len(s)
    <3>1. i - Len(s) = k - Len(s)
      BY <1>2, <1>4, <2>2 DEF IsInjective
    <3> QED BY <1>1, <3>1
  <2>3. CASE i <= Len(s) /\ k > Len(s)
    BY <1>2, <1>3, <1>4, <2>3
  <2>4. CASE i > Len(s) /\ k <= Len(s)
    BY <1>2, <1>3, <1>4, <2>4
  <2> QED BY <1>1, <2>1, <2>2, <2>3, <2>4
<1>5. IsInjective(j)
  BY <1>1, <1>4 DEF IsInjective
<1>6. ToSet(j) \subseteq ToSet(s) \cup ToSet(t)
  BY <1>1, <1>2 DEF ToSet
<1>7. ASSUME NEW x \in ToSet(s) \cup ToSet(t) PROVE x \in ToSet(j)
  <2>1. CASE x \in ToSet(s)
    <3>1. PICK i \in 1 .. Len(s) : s[i] = x
      BY <2>1 DEF ToSet
    <3>2. i \in 1 .. Len(j) /\ j[i] = x
      BY <1>1, <3>1
    <3> QED BY <1>1, <3>2 DEF ToSet
  <2>2. CASE x \in ToSet(t)
    <3>1. PICK i \in 1 .. Len(t) : t[i] = x
      BY <2>2 DEF ToSet
    <3>2. PICK m : m = Len(s) + i
      OBVIOUS
    <3>3. m \in 1 .. Len(j) /\ j[m] = x
      <4>1. Len(s) + i \in 1 .. Len(j) /\ ~(Len(s) + i <= Len(s)) /\ (Len(s) + i) - Len(s) = i
        BY <1>1
      <4>2. j[Len(s) + i] = t[(Len(s) + i) - Len(s)]
        BY <1>1, <4>1
      <4> QED BY <3>1, <3>2, <4>1, <4>2
    <3>4. m \in DOMAIN j
      BY <1>1, <3>3
    <3> QED BY <3>3, <3>4, Zenon DEF ToSet
  <2> QED BY <2>1, <2>2
<1> QED BY <1>1, <1>5, <1>6, <1>7 DEF j

LEMMA InjectiveSeqs ==
  ASSUME NEW S, NEW s \in Seq(S), IsInjective(s)
  PROVE  /\ \A x \in S : x \notin ToSet(s) => IsInjective(Append(s, x))
         /\ s # <<>> => /\ Tail(s) \in Seq(S) /\ IsInjective(Tail(s)) /\ Head(s) \in ToSet(s)
                        /\ ToSet(Tail(s)) = ToSet(s) \ {Head(s)}
<1>1. ASSUME NEW x \in S, x \notin ToSet(s) PROVE IsInjective(Append(s, x))
  <2>1. \A i \in DOMAIN s : s[i] # x
    BY <1>1 DEF ToSet
  <2> QED BY <2>1 DEF IsInjective
<1>2. ASSUME s # <<>>
      PROVE  /\ Tail(s) \in Seq(S) /\ IsInjective(Tail(s)) /\ Head(s) \in ToSet(s)
             /\ ToSet(Tail(s)) = ToSet(s) \ {Head(s)}
  <2> DEFINE r == Tail(s)
  <2>1. /\ r \in Seq(S) /\ Len(r) = Len(s) - 1 /\ Len(s) \in Nat \ {0} /\ Head(s) = s[1]
        /\ \A i \in 1 .. Len(r) : r[i] = s[i + 1]
    BY <1>2
  <2> HIDE DEF r
  <2>2. IsInjective(r)
    <3>1. ASSUME NEW i \in DOMAIN r, NEW l \in DOMAIN r, r[i] = r[l] PROVE i = l
      <4>1. /\ i \in Int /\ l \in Int /\ i + 1 \in DOMAIN s /\ l + 1 \in DOMAIN s
            /\ r[i] = s[i + 1] /\ r[l] = s[l + 1]
        BY <2>1
      <4>2. i + 1 = l + 1
        BY <3>1, <4>1 DEF IsInjective
      <4> QED BY <4>1, <4>2
    <3> QED BY <3>1, Zenon DEF IsInjective
  <2>3. Head(s) \in ToSet(s)
    BY <2>1 DEF ToSet
  <2>4. ASSUME NEW x \in ToSet(r) PROVE x \in ToSet(s) \ {s[1]}
    <3>1. PICK i \in 1 .. Len(r) : r[i] = x
      BY <2>1 DEF ToSet
    <3>2. i + 1 \in 1 .. Len(s) /\ s[i + 1] = x /\ i + 1 # 1
      BY <2>1, <3>1
    <3>3. s[i + 1] # s[1]
      BY <2>1, <3>2 DEF IsInjective
    <3> QED BY <3>2, <3>3 DEF ToSet
  <2>5. ASSUME NEW x \in ToSet(s) \ {s[1]} PROVE x \in ToSet(r)
    <3>1. PICK i \in 1 .. Len(s) : s[i] = x
      BY DEF ToSet
    <3>2. i - 1 \in 1 .. Len(r) /\ r[i - 1] = x
      BY <2>1, <3>1
    <3> QED BY <2>1, <3>2 DEF ToSet
  <2> QED BY <2>1, <2>2, <2>3, <2>4, <2>5 DEF r
<1> QED BY <1>1, <1>2

Running == {"write", "finish"}

\* The messages chat_send makes.
Made == [n : Nat, token : Tokens, mid : 1 .. MaxId, era : {0}, mtype : {"CON", "NON"},
         code : { c.code : c \in Commands }, path : { c.path : c \in Commands },
         payload : { c.payload : c \in Commands }]

\* Main and the known flusher are the only tasks that are not over, one of them has the event
\* loop at most, and a flusher is known exactly while there is something to flush.
TasksFit ==
  /\ \E n \in Nat \ {0} : DOMAIN at = 0 .. n - 1
  /\ at[Main] \in {"input", "write", "drain", "finish", "done"}
  /\ flusher_task # NoTask =>
       flusher_task \in DOMAIN at \ {Main} /\ at[flusher_task] \in {"sleep", "write", "drain", "finish"}
  /\ \A t \in DOMAIN at \ {Main} : t # flusher_task => at[t] = "done"
  /\ \A t, u \in DOMAIN at : at[t] \in Running /\ at[u] \in Running => t = u
  /\ coap_buffer = <<>> <=> flusher_task = NoTask

Draining == { t \in DOMAIN at : at[t] = "drain" }

\* Who waits in drain() waits in one place and once.
WaitersFit ==
  /\ waiters \in Seq(Nat) /\ woken \in Seq(Nat)
  /\ IsInjective(waiters) /\ IsInjective(woken) /\ ToSet(waiters) \cap ToSet(woken) = {}
  /\ ToSet(waiters) \cup ToSet(woken) = Draining
  /\ ~waited => waiters = <<>> /\ woken = <<>>

\* The messages have their form, and the buffer its limit.
BuffersFit ==
  /\ current_id \in 1 .. MaxId /\ unread \in 0 .. ResponseCap
  /\ coap_buffer \in Seq(Made) /\ queued \in Seq(Made) /\ written \in Seq(Seq(Made))
  /\ stream \in Seq(Seq(Made))
  /\ Len(coap_buffer) <= BufferLimit
  /\ at[Main] = "input" => Len(coap_buffer) < BufferLimit

Flushing == \E t \in DOMAIN at : at[t] = "finish"

\* What was written and what is left in the buffer make up what was queued.
LogFits ==
  ~aborted /\ ~waited =>
    queued = IF Flushing THEN Messages(written) ELSE Messages(written) \o coap_buffer

ClientInvariant == TasksFit /\ WaitersFit /\ BuffersFit /\ LogFits

LEMMA ClientStarts == InitClient => ClientInvariant
<1> SUFFICES ASSUME InitClient PROVE ClientInvariant
  OBVIOUS
<1>0. /\ current_id = 1 /\ coap_buffer = <<>> /\ flusher_task = -1 /\ at = [t \in {0} |-> "input"]
      /\ waiters = <<>> /\ woken = <<>> /\ stream = <<>> /\ unread = 0
      /\ queued = <<>> /\ written = <<>> /\ aborted = FALSE /\ waited = FALSE
  BY DEF InitClient, ClientInit, NoTask, Main
<1>1. DOMAIN at = {0} /\ at[0] = "input" /\ {0} = 0 .. 1 - 1
  BY <1>0
<1>2. TasksFit
  BY <1>0, <1>1 DEF TasksFit, NoTask, Main, Running
<1>3. WaitersFit
  BY <1>0, <1>1, ToSetOf DEF WaitersFit, Draining, IsInjective
<1>4. BuffersFit
  BY <1>0, <1>1, ClientAssumption DEF BuffersFit, Main
<1>5. LogFits
  <2>1. Messages(written) = <<>>
    BY <1>0 DEF Messages, FlattenSeq
  <2>2. ~Flushing
    BY <1>1 DEF Flushing
  <2> QED BY <1>0, <2>1, <2>2 DEF LogFits
<1> QED BY <1>2, <1>3, <1>4, <1>5 DEF ClientInvariant

LEMMA WrittenMade ==
  ASSUME ClientInvariant
  PROVE  Messages(written) \in Seq(Made)
<1>1. written \in Seq(Seq(Made)) /\ <<>> \in Seq(Made)
  BY DEF ClientInvariant, BuffersFit
<1> QED BY <1>1, FlattenAppend DEF Messages

\* A message typed: a flusher is known afterwards, and Main goes on to write at the limit.
LEMMA QueuedAt ==
  ASSUME TasksFit, TypeCommand
  PROVE  /\ \E n \in Nat \ {0} : DOMAIN at' = 0 .. n - 1
         /\ at'[Main] = IF Len(coap_buffer') >= BufferLimit THEN "write" ELSE "input"
         /\ DOMAIN at \subseteq DOMAIN at' /\ \A t \in DOMAIN at \ {Main} : at'[t] = at[t]
         /\ flusher_task' \in DOMAIN at' \ {Main}
         /\ IF flusher_task = NoTask
            THEN at'[flusher_task'] = "sleep" /\ DOMAIN at' \ {flusher_task'} = DOMAIN at
            ELSE flusher_task' = flusher_task /\ DOMAIN at' = DOMAIN at
         /\ at[Main] = "input" /\ \A t \in DOMAIN at : at[t] \notin Running
<1>1. PICK n \in Nat \ {0} : DOMAIN at = 0 .. n - 1
  BY DEF TasksFit
<1>2. Cardinality(DOMAIN at) = n
  BY <1>1, FS_Interval
<1> DEFINE started == [t \in DOMAIN at \cup {n} |-> IF t = n THEN "sleep" ELSE at[t]]
           known == IF flusher_task = NoTask THEN started ELSE at
<1>3. /\ flusher_task' = IF flusher_task = NoTask THEN n ELSE flusher_task
      /\ at' = IF Len(coap_buffer') >= BufferLimit THEN [known EXCEPT ![Main] = "write"] ELSE known
      /\ LoopIdle /\ at[Main] = "input"
  BY <1>2 DEF TypeCommand, Queue
<1>4. Main \in DOMAIN at /\ n # Main /\ n \notin DOMAIN at /\ DOMAIN at \cup {n} = 0 .. (n + 1) - 1
  BY <1>1 DEF Main
<1>5. CASE flusher_task = NoTask
  <2>1. /\ DOMAIN known = DOMAIN at \cup {n} /\ known[n] = "sleep"
        /\ \A t \in DOMAIN at : known[t] = at[t]
    BY <1>4, <1>5
  <2> HIDE DEF known
  <2>2. /\ DOMAIN at' = DOMAIN at \cup {n} /\ at'[n] = "sleep" /\ \A t \in DOMAIN at \ {Main} : at'[t] = at[t]
        /\ at'[Main] = IF Len(coap_buffer') >= BufferLimit THEN "write" ELSE "input"
    BY <1>3, <1>4, <2>1
  <2>3. n + 1 \in Nat \ {0}
    OBVIOUS
  <2>4. DOMAIN at' = 0 .. (n + 1) - 1
    BY <1>4, <2>2
  <2> QED BY <1>3, <1>4, <1>5, <2>2, <2>3, <2>4 DEF LoopIdle, Running
<1>6. CASE flusher_task # NoTask
  <2>1. known = at
    BY <1>6
  <2> HIDE DEF known
  <2>2. /\ DOMAIN at' = DOMAIN at /\ \A t \in DOMAIN at \ {Main} : at'[t] = at[t]
        /\ at'[Main] = IF Len(coap_buffer') >= BufferLimit THEN "write" ELSE "input"
    BY <1>3, <1>4, <2>1
  <2>3. flusher_task \in DOMAIN at \ {Main}
    BY <1>6 DEF TasksFit
  <2> QED BY <1>1, <1>3, <1>6, <2>2, <2>3 DEF LoopIdle, Running
<1> QED BY <1>5, <1>6

LEMMA TypeCommandFits ==
  ASSUME ClientInvariant, TypeCommand
  PROVE  ClientInvariant'
<1> USE DEF ClientInvariant
<1>1. PICK c \in Commands, token \in Tokens :
        coap_buffer' = Append(coap_buffer, Message(c, Len(queued) + 1, token))
  BY DEF TypeCommand, Queue
<1> DEFINE m == Message(c, Len(queued) + 1, token)
<1>2. m \in Made
  <2>1. Len(queued) + 1 \in Nat /\ current_id \in 1 .. MaxId
    BY DEF BuffersFit
  <2> QED BY <2>1 DEF Message, Made
<1>3. /\ current_id' = (current_id % MaxId) + 1 /\ queued' = Append(queued, Last(coap_buffer'))
      /\ UNCHANGED <<waiters, woken, stream, unread, written, aborted, waited>>
  BY DEF TypeCommand, Queue, NextMid
<1> HIDE DEF m
<1>4. /\ coap_buffer' \in Seq(Made) /\ Len(coap_buffer') = Len(coap_buffer) + 1 /\ Last(coap_buffer') = m
      /\ Len(coap_buffer) \in Nat /\ coap_buffer' # <<>>
  BY <1>1, <1>2 DEF BuffersFit, Last, m
<1>5. TasksFit'
  <2>0. TypeCommand
    OBVIOUS
  <2>1. at'[Main] \in {"input", "write"} /\ flusher_task' # NoTask /\ coap_buffer' # <<>>
    <3>1. \E n \in Nat \ {0} : DOMAIN at' = 0 .. n - 1
      BY QueuedAt
    <3>2. flusher_task' \in DOMAIN at'
      BY QueuedAt
    <3>3. flusher_task' # NoTask
      BY <3>1, <3>2 DEF NoTask
    <3>4. at'[Main] \in {"input", "write"}
      BY QueuedAt
    <3> QED BY <1>4, <3>3, <3>4
  <2>2. /\ flusher_task' \in DOMAIN at' \ {Main} /\ \E n \in Nat \ {0} : DOMAIN at' = 0 .. n - 1
        /\ at'[flusher_task'] \in {"sleep", "write", "drain", "finish"}
    <3>1. flusher_task # NoTask => at'[flusher_task'] = at[flusher_task]
      BY QueuedAt
    <3> QED BY <3>1, QueuedAt DEF TasksFit
  <2>3. \A t \in DOMAIN at' \ {Main} : t # flusher_task' => at'[t] = "done"
    <3>1. ASSUME NEW t \in DOMAIN at' \ {Main}, t # flusher_task' PROVE at'[t] = "done"
      <4>1. t \in DOMAIN at /\ at'[t] = at[t]
        BY <3>1, QueuedAt
      <4>2. t # flusher_task
        BY <3>1, <4>1, QueuedAt DEF TasksFit, NoTask
      <4> QED BY <4>1, <4>2 DEF TasksFit
    <3> QED BY <3>1
  <2>4. \A t \in DOMAIN at' : at'[t] \in Running => t = Main
    <3>1. \A t \in DOMAIN at' \ {Main} : at'[t] \notin Running
      BY QueuedAt DEF Running
    <3> QED BY <3>1
  <2> QED BY <2>1, <2>2, <2>3, <2>4, Zenon DEF TasksFit
<1>6. Draining' = Draining
  BY QueuedAt DEF TasksFit, Draining, NoTask, Running, Main
<1>7. WaitersFit'
  BY <1>3, <1>6 DEF WaitersFit
<1>8. BuffersFit'
  <2>1. (current_id % MaxId) + 1 \in 1 .. MaxId
    BY ClientAssumption DEF BuffersFit
  <2>2. at[Main] = "input"
    BY QueuedAt
  <2>3. Append(queued, m) \in Seq(Made)
    BY <1>2 DEF BuffersFit
  <2>4. at'[Main] = "input" => Len(coap_buffer') < BufferLimit
    BY <1>4, QueuedAt, ClientAssumption
  <2> QED BY <1>3, <1>4, <2>1, <2>2, <2>3, <2>4, ClientAssumption DEF BuffersFit
<1>9. LogFits'
  <2>1. ~Flushing /\ ~Flushing'
    BY QueuedAt DEF Flushing, Running, TasksFit, NoTask, Main
  <2>2. Messages(written) \in Seq(Made)
    BY WrittenMade
  <2>3. Append(Messages(written) \o coap_buffer, m) = Messages(written) \o Append(coap_buffer, m)
    <3>1. coap_buffer \in Seq(Made)
      BY DEF BuffersFit
    <3>2. m \in Made
      BY <1>2
    <3> DEFINE gone == Messages(written)
    <3> HIDE DEF m, gone
    <3>3. gone \in Seq(Made)
      BY <2>2 DEF gone
    <3>4. Append(gone \o coap_buffer, m) = gone \o Append(coap_buffer, m)
      BY ONLY <3>1, <3>2, <3>3
    <3> QED BY <3>4 DEF gone
  <2>4. queued' = Append(queued, m) /\ coap_buffer' = Append(coap_buffer, m)
    BY <1>1, <1>3, <1>4 DEF m
  <2> QED BY <1>3, <2>1, <2>3, <2>4 DEF LogFits, Messages
<1> QED BY <1>5, <1>7, <1>8, <1>9

\* The exit command.
LEMMA TypeExitFits ==
  ASSUME ClientInvariant, TypeExit
  PROVE  ClientInvariant'
<1> USE DEF ClientInvariant
<1> DEFINE to == IF coap_buffer = <<>> THEN "finish" ELSE "write"
<1>1. /\ LoopIdle /\ at[Main] = "input" /\ at' = [at EXCEPT ![Main] = to]
      /\ UNCHANGED <<current_id, coap_buffer, flusher_task, waiters, woken, stream, unread, userLog>>
  BY DEF TypeExit, Exit
<1>2. Main \in DOMAIN at
  BY DEF TasksFit, Main
<1> HIDE DEF to
<1>3. /\ DOMAIN at' = DOMAIN at /\ at'[Main] = to
      /\ \A t \in DOMAIN at \ {Main} : at'[t] = at[t] /\ at[t] \notin Running
      /\ to \in {"finish", "write"} /\ (to = "finish" <=> coap_buffer = <<>>)
  <2>1. DOMAIN at' = DOMAIN at /\ at'[Main] = to /\ \A t \in DOMAIN at \ {Main} : at'[t] = at[t]
    BY <1>1, <1>2
  <2> QED BY <1>1, <2>1 DEF LoopIdle, Running, to
<1>4. TasksFit'
  <2>1. at'[Main] \in {"input", "write", "drain", "finish", "done"}
    BY <1>3
  <2>2. \A t \in DOMAIN at' : at'[t] \in Running => t = Main
    BY <1>3
  <2>3. \E n \in Nat \ {0} : DOMAIN at' = 0 .. n - 1
    BY <1>3 DEF TasksFit
  <2>4. /\ flusher_task' # NoTask => /\ flusher_task' \in DOMAIN at' \ {Main}
                                    /\ at'[flusher_task'] \in {"sleep", "write", "drain", "finish"}
        /\ \A t \in DOMAIN at' \ {Main} : t # flusher_task' => at'[t] = "done"
        /\ coap_buffer' = <<>> <=> flusher_task' = NoTask
    BY <1>1, <1>3 DEF TasksFit
  <2> QED BY <2>1, <2>2, <2>3, <2>4, Zenon DEF TasksFit
<1>5. Draining' = Draining
  BY <1>1, <1>2, <1>3 DEF Draining
<1>6. WaitersFit'
  BY <1>1, <1>5 DEF WaitersFit, userLog
<1>7. BuffersFit'
  BY <1>1, <1>3 DEF BuffersFit, userLog
<1>8. LogFits'
  <2>1. ~Flushing
    BY <1>1 DEF Flushing, LoopIdle
  <2>2. UNCHANGED <<queued, written, coap_buffer, aborted, waited>>
    BY <1>1 DEF userLog
  <2>3. CASE coap_buffer = <<>>
    <3>1. Messages(written) \o coap_buffer = Messages(written)
      <4>1. Messages(written) \in Seq(Made)
        BY WrittenMade
      <4> QED BY ONLY <2>3, <4>1, ConcatEmptySeq
    <3> QED BY <2>1, <2>2, <3>1 DEF LogFits, Messages
  <2>4. CASE coap_buffer # <<>>
    <3>1. ~Flushing'
      BY <1>1, <1>3, <2>1, <2>4 DEF Flushing
    <3> QED BY <2>1, <2>2, <3>1 DEF LogFits, Messages
  <2> QED BY <2>3, <2>4
<1> QED BY <1>4, <1>6, <1>7, <1>8

\* End of input: what was in the buffer is given up.
LEMMA EndInputFits ==
  ASSUME ClientInvariant, EndInput
  PROVE  ClientInvariant'
<1> USE DEF ClientInvariant
<1>1. /\ at' = [t \in DOMAIN at |-> "done"] /\ flusher_task' = NoTask
      /\ coap_buffer' = <<>> /\ waiters' = <<>> /\ woken' = <<>> /\ aborted'
      /\ UNCHANGED <<current_id, stream, unread, queued, written, waited>>
  BY DEF EndInput, Abort
<1>2. Main \in DOMAIN at
  BY DEF TasksFit, Main
<1>3. DOMAIN at' = DOMAIN at /\ \A t \in DOMAIN at : at'[t] = "done"
  BY <1>1
<1>4. TasksFit'
  <2>1. at'[Main] = "done"
    BY <1>2, <1>3
  <2>2. \E n \in Nat \ {0} : DOMAIN at' = 0 .. n - 1
    BY <1>3 DEF TasksFit
  <2>3. \A t \in DOMAIN at' : at'[t] = "done" /\ at'[t] \notin Running
    BY <1>3 DEF Running
  <2> QED BY <1>1, <2>1, <2>2, <2>3 DEF TasksFit
<1>5. Draining' = {}
  BY <1>3 DEF Draining
<1>6. WaitersFit'
  <2>1. waiters' \in Seq(Nat) /\ woken' \in Seq(Nat) /\ ToSet(waiters') = {} /\ ToSet(woken') = {}
    BY <1>1, ToSetOf
  <2>2. IsInjective(waiters') /\ IsInjective(woken')
    BY <1>1 DEF IsInjective
  <2> QED BY <1>1, <1>5, <2>1, <2>2 DEF WaitersFit
<1>7. BuffersFit'
  <2>1. coap_buffer' \in Seq(Made) /\ Len(coap_buffer') = 0
    BY <1>1
  <2> QED BY <1>1, <2>1, ClientAssumption DEF BuffersFit
<1>8. LogFits'
  BY <1>1 DEF LogFits
<1> QED BY <1>4, <1>6, <1>7, <1>8

\* uD3TN reads an aggregate.
LEMMA UD3TNFits ==
  ASSUME ClientInvariant, UD3TN
  PROVE  ClientInvariant'
<1> USE DEF ClientInvariant
<1>1. /\ stream # <<>> /\ stream' = Tail(stream) /\ unread < ResponseCap /\ unread' = unread + 1
      /\ UNCHANGED <<current_id, coap_buffer, flusher_task, at, waiters, woken, queued, written, aborted, waited>>
  BY DEF UD3TN, Accept, tasks, userLog
<1>2. stream' \in Seq(Seq(Made)) /\ unread' \in 0 .. ResponseCap
  BY <1>1, ClientAssumption DEF BuffersFit
<1>3. BuffersFit'
  BY <1>1, <1>2 DEF BuffersFit
<1>4. TasksFit' /\ WaitersFit'
  BY <1>1 DEF TasksFit, WaitersFit, Draining
<1>5. LogFits'
  BY <1>1 DEF LogFits, Flushing, Messages
<1> QED BY <1>3, <1>4, <1>5

\* A flusher's time is over: there is something to send, or the flusher would not be known.
LEMMA ExpireFits ==
  ASSUME ClientInvariant, RunTasks, NEW f \in DOMAIN at, Expire(f)
  PROVE  ClientInvariant'
<1> USE DEF ClientInvariant
<1> DEFINE to == IF coap_buffer = <<>> THEN "done" ELSE "write"
<1>1. /\ LoopIdle /\ at[f] = "sleep" /\ at' = [at EXCEPT ![f] = to]
      /\ UNCHANGED <<current_id, coap_buffer, flusher_task, waiters, woken, stream, unread>>
  BY DEF Expire
<1>2. UNCHANGED <<queued, written, aborted>> /\ waited' = (waited \/ waiters # <<>>)
  BY <1>1 DEF RunTasks
<1>3. f # Main /\ f = flusher_task /\ flusher_task # NoTask /\ coap_buffer # <<>>
  <2>1. f # Main
    BY <1>1 DEF TasksFit
  <2>2. f = flusher_task
    BY <1>1, <2>1 DEF TasksFit
  <2>3. f # NoTask
    BY DEF TasksFit, NoTask
  <2> QED BY <2>1, <2>2, <2>3 DEF TasksFit
<1>4. to = "write"
  BY <1>3
<1> HIDE DEF to
<1>5. /\ DOMAIN at' = DOMAIN at /\ at'[f] = "write" /\ \A t \in DOMAIN at \ {f} : at'[t] = at[t]
      /\ \A t \in DOMAIN at : at[t] \notin Running
  BY <1>1, <1>4 DEF LoopIdle, Running
<1>6. TasksFit'
  <2>1. Main \in DOMAIN at' /\ at'[Main] = at[Main]
    BY <1>3, <1>5 DEF TasksFit, Main
  <2>2. \A t \in DOMAIN at' : at'[t] \in Running => t = f
    BY <1>5
  <2>3. \E n \in Nat \ {0} : DOMAIN at' = 0 .. n - 1
    BY <1>5 DEF TasksFit
  <2>4. /\ flusher_task' \in DOMAIN at' \ {Main} /\ at'[flusher_task'] = "write"
        /\ \A t \in DOMAIN at' \ {Main} : t # flusher_task' => at'[t] = "done"
        /\ coap_buffer' = <<>> <=> flusher_task' = NoTask
    BY <1>1, <1>3, <1>5 DEF TasksFit
  <2>5. at'[Main] \in {"input", "write", "drain", "finish", "done"}
    BY <2>1 DEF TasksFit
  <2> QED BY <2>2, <2>3, <2>4, <2>5 DEF TasksFit
<1>7. Draining' = Draining
  BY <1>1, <1>5 DEF Draining
<1>8. WaitersFit'
  BY <1>1, <1>2, <1>7 DEF WaitersFit
<1>9. BuffersFit'
  <2>1. at'[Main] = at[Main]
    BY <1>3, <1>5 DEF TasksFit, Main
  <2> QED BY <1>1, <1>2, <2>1 DEF BuffersFit
<1>10. LogFits'
  <2>1. ~Flushing /\ ~Flushing'
    BY <1>5 DEF Flushing, Running
  <2> QED BY <1>1, <1>2, <2>1 DEF LogFits, Messages
<1> QED BY <1>6, <1>8, <1>9, <1>10

\* An aggregate written: the log grows by what is in the buffer.
LEMMA SendAduFits ==
  ASSUME ClientInvariant, RunTasks, NEW t \in DOMAIN at, SendAdu(t)
  PROVE  ClientInvariant'
<1> USE DEF ClientInvariant
<1> DEFINE full == Len(stream') >= HighWater
           to == IF full THEN "drain" ELSE "finish"
<1>1. /\ at[t] = "write" /\ stream' = Append(stream, coap_buffer) /\ at' = [at EXCEPT ![t] = to]
      /\ waiters' = IF full THEN Append(waiters, t) ELSE waiters
      /\ UNCHANGED <<current_id, coap_buffer, flusher_task, woken, unread>>
  BY DEF SendAdu
<1>2. Last(stream') = coap_buffer /\ stream' # stream /\ stream' \in Seq(Seq(Made))
  <2>1. stream \in Seq(Seq(Made)) /\ coap_buffer \in Seq(Made)
    BY DEF BuffersFit
  <2>2. /\ Len(stream') = Len(stream) + 1 /\ stream'[Len(stream) + 1] = coap_buffer /\ Len(stream) \in Nat
        /\ stream' \in Seq(Seq(Made))
    BY <1>1, <2>1, AppendProperties
  <2> QED BY <2>2 DEF Last
<1>3. written' = Append(written, coap_buffer) /\ waited' = (waited \/ waiters' # <<>>) /\ UNCHANGED <<queued, aborted>>
  BY <1>2 DEF RunTasks
<1>4. t = Main \/ (t = flusher_task /\ flusher_task # NoTask)
  BY <1>1 DEF TasksFit, NoTask
<1>5. /\ to \in {"drain", "finish"} /\ (to = "drain" <=> full)
      /\ \A u \in DOMAIN at : at[u] \in Running => u = t
  BY <1>1 DEF TasksFit, Running
<1> HIDE DEF to, full
<1>6. DOMAIN at' = DOMAIN at /\ at'[t] = to /\ \A u \in DOMAIN at \ {t} : at'[u] = at[u] /\ at[u] \notin Running
  BY <1>1, <1>5
<1>7. TasksFit'
  <2>1. at'[Main] \in {"input", "write", "drain", "finish", "done"}
    <3>1. Main \in DOMAIN at
      BY DEF TasksFit, Main
    <3> QED BY <1>5, <1>6, <3>1 DEF TasksFit
  <2>2. \A u \in DOMAIN at' : at'[u] \in Running => u = t
    BY <1>6
  <2>3. \E n \in Nat \ {0} : DOMAIN at' = 0 .. n - 1
    BY <1>6 DEF TasksFit
  <2>4. /\ flusher_task' # NoTask => flusher_task' \in DOMAIN at' \ {Main}
        /\ flusher_task' # NoTask => at'[flusher_task'] \in {"sleep", "write", "drain", "finish"}
        /\ coap_buffer' = <<>> <=> flusher_task' = NoTask
    BY <1>1, <1>5, <1>6 DEF TasksFit
  <2>5. \A u \in DOMAIN at' \ {Main} : u # flusher_task' => at'[u] = "done"
    BY <1>1, <1>4, <1>6 DEF TasksFit
  <2> QED BY <2>1, <2>2, <2>3, <2>4, <2>5 DEF TasksFit
<1>8. Draining' = IF full THEN Draining \cup {t} ELSE Draining
  BY <1>1, <1>5, <1>6 DEF Draining
<1>9. WaitersFit'
  <2>0. t \in Nat /\ t \notin Draining
    BY <1>1 DEF Draining, TasksFit
  <2>1. CASE full
    <3>1. /\ waiters' = Append(waiters, t) /\ woken' = woken /\ Draining' = Draining \cup {t}
          /\ waiters \in Seq(Nat) /\ woken \in Seq(Nat) /\ t \notin ToSet(waiters) \cup ToSet(woken)
      BY <1>1, <1>8, <2>0, <2>1 DEF WaitersFit
    <3>2. /\ waiters' \in Seq(Nat) /\ waiters' # <<>> /\ ToSet(waiters') = ToSet(waiters) \cup {t}
          /\ IsInjective(waiters')
      <4>0. t \in Nat /\ waiters \in Seq(Nat)
        BY <2>0, <3>1
      <4>1. Append(waiters, t) # <<>> /\ Append(waiters, t) \in Seq(Nat)
        BY ONLY <4>0, AppendProperties
      <4>2. IsInjective(Append(waiters, t))
        BY <2>0, <3>1, InjectiveSeqs DEF WaitersFit
      <4>3. ToSet(Append(waiters, t)) = ToSet(waiters) \cup {t}
        BY ONLY <2>0, <3>1, ToSetOf
      <4> QED BY <3>1, <4>1, <4>2, <4>3
    <3>3. waited'
      BY <1>3, <3>2
    <3> QED BY <3>1, <3>2, <3>3 DEF WaitersFit
  <2>2. CASE ~full
    BY <1>1, <1>3, <1>8, <2>2 DEF WaitersFit
  <2> QED BY <2>1, <2>2
<1>10. BuffersFit'
  <2>1. at'[Main] = "input" => at[Main] = "input"
    <3>1. Main \in DOMAIN at
      BY DEF TasksFit, Main
    <3> QED BY <1>5, <1>6, <3>1
  <2>2. written' \in Seq(Seq(Made))
    <3>1. written \in Seq(Seq(Made)) /\ coap_buffer \in Seq(Made)
      BY DEF BuffersFit
    <3> QED BY <1>3, <3>1, AppendProperties
  <2> QED BY <1>1, <1>2, <1>3, <2>1, <2>2 DEF BuffersFit
<1>11. LogFits'
  <2>1. SUFFICES ASSUME ~aborted', ~waited'
                 PROVE  Flushing' /\ queued' = Messages(written')
    BY DEF LogFits, Messages
  <2>2. ~aborted /\ ~waited /\ waiters' = <<>>
    BY <1>3, <2>1
  <2>3. ~full
    <3>1. full => waiters' = Append(waiters, t)
      BY <1>1
    <3>2. waiters \in Seq(Nat) /\ t \in Nat
      BY DEF WaitersFit, TasksFit
    <3>3. Append(waiters, t) # <<>>
      BY ONLY <3>2, AppendProperties
    <3> QED BY <2>2, <3>1, <3>3
  <2>4. Flushing'
    BY <1>5, <1>6, <2>3 DEF Flushing
  <2>5. ~Flushing
    BY <1>1, <1>6 DEF Flushing, Running
  <2>6. queued = Messages(written) \o coap_buffer
    BY <2>2, <2>5 DEF LogFits
  <2>7. Messages(written') = Messages(written) \o coap_buffer
    <3>1. written \in Seq(Seq(Made)) /\ coap_buffer \in Seq(Made)
      BY DEF BuffersFit
    <3>2. FlattenSeq(Append(written, coap_buffer)) = FlattenSeq(written) \o coap_buffer
      BY <3>1, FlattenAppend
    <3> QED BY <1>3, <3>2 DEF Messages
  <2> QED BY <1>3, <2>4, <2>6, <2>7
<1> QED BY <1>7, <1>9, <1>10, <1>11

\* The transport is resumed.
LEMMA ResumeFits ==
  ASSUME ClientInvariant, RunTasks, Resume
  PROVE  ClientInvariant'
<1> USE DEF ClientInvariant
<1>1. /\ waiters # <<>> /\ woken' = woken \o waiters /\ waiters' = <<>>
      /\ UNCHANGED <<current_id, coap_buffer, flusher_task, at, stream, unread>>
  BY DEF Resume
<1>2. UNCHANGED <<queued, written, aborted>> /\ waited' = (waited \/ waiters' # <<>>)
  BY <1>1 DEF RunTasks
<1>3. waited
  BY <1>1 DEF WaitersFit
<1>4. TasksFit' /\ BuffersFit' /\ LogFits'
  BY <1>1, <1>2, <1>3 DEF TasksFit, BuffersFit, LogFits
<1>5. WaitersFit'
  <2>1. /\ woken \o waiters \in Seq(Nat) /\ IsInjective(woken \o waiters)
        /\ ToSet(woken \o waiters) = ToSet(waiters) \cup ToSet(woken)
    BY JoinedSeq DEF WaitersFit
  <2>2. <<>> \in Seq(Nat) /\ IsInjective(<<>>) /\ ToSet(<<>>) = {}
    BY ToSetOf DEF IsInjective
  <2>3. Draining' = Draining
    BY <1>1 DEF Draining
  <2> QED BY <1>1, <1>2, <1>3, <2>1, <2>2, <2>3 DEF WaitersFit
<1> QED BY <1>4, <1>5

\* A task goes on behind its drain().
LEMMA ContinueFits ==
  ASSUME ClientInvariant, RunTasks, Continue
  PROVE  ClientInvariant'
<1> USE DEF ClientInvariant
<1> DEFINE t == Head(woken)
<1>1. /\ LoopIdle /\ woken # <<>> /\ at' = [at EXCEPT ![t] = "finish"] /\ woken' = Tail(woken)
      /\ UNCHANGED <<current_id, coap_buffer, flusher_task, waiters, stream, unread>>
  BY DEF Continue
<1>2. UNCHANGED <<queued, written, aborted>> /\ waited' = (waited \/ waiters' # <<>>) /\ waited
  BY <1>1 DEF RunTasks, WaitersFit
<1>3. /\ Tail(woken) \in Seq(Nat) /\ IsInjective(Tail(woken)) /\ t \in ToSet(woken)
      /\ ToSet(Tail(woken)) = ToSet(woken) \ {t}
  BY <1>1, InjectiveSeqs DEF WaitersFit
<1> HIDE DEF t
<1>4. t \in DOMAIN at /\ at[t] = "drain"
  BY <1>3 DEF WaitersFit, Draining
<1>5. /\ DOMAIN at' = DOMAIN at /\ at'[t] = "finish" /\ \A u \in DOMAIN at \ {t} : at'[u] = at[u]
      /\ \A u \in DOMAIN at : at[u] \notin Running
  BY <1>1, <1>4 DEF LoopIdle, Running
<1>6. TasksFit'
  <2>1. at'[Main] \in {"input", "write", "drain", "finish", "done"}
    <3>1. Main \in DOMAIN at
      BY DEF TasksFit, Main
    <3> QED BY <1>5, <3>1 DEF TasksFit
  <2>2. \A u \in DOMAIN at' : at'[u] \in Running => u = t
    BY <1>5
  <2>3. \E n \in Nat \ {0} : DOMAIN at' = 0 .. n - 1
    BY <1>5 DEF TasksFit
  <2>4. /\ flusher_task' # NoTask => flusher_task' \in DOMAIN at' \ {Main}
        /\ flusher_task' # NoTask => at'[flusher_task'] \in {"sleep", "write", "drain", "finish"}
        /\ coap_buffer' = <<>> <=> flusher_task' = NoTask
    BY <1>1, <1>5 DEF TasksFit
  <2>5. \A u \in DOMAIN at' \ {Main} : u # flusher_task' => at'[u] = "done"
    BY <1>1, <1>4, <1>5 DEF TasksFit
  <2> QED BY <2>1, <2>2, <2>3, <2>4, <2>5 DEF TasksFit
<1>7. WaitersFit'
  <2>1. Draining' = Draining \ {t}
    BY <1>5 DEF Draining
  <2> QED BY <1>1, <1>2, <1>3, <2>1 DEF WaitersFit
<1>8. BuffersFit'
  <2>1. at'[Main] = "input" => at[Main] = "input"
    <3>1. Main \in DOMAIN at
      BY DEF TasksFit, Main
    <3> QED BY <1>5, <3>1
  <2> QED BY <1>1, <1>2, <2>1 DEF BuffersFit
<1>9. LogFits'
  BY <1>2 DEF LogFits
<1> QED BY <1>6, <1>7, <1>8, <1>9

\* The end of flush_buffer: everything is written, and the known flusher is over.
LEMMA FinishFlushFits ==
  ASSUME ClientInvariant, RunTasks, NEW t \in DOMAIN at, FinishFlush(t)
  PROVE  ClientInvariant'
<1> USE DEF ClientInvariant
<1>1. /\ at[t] = "finish" /\ coap_buffer' = <<>> /\ at' = Finished(t) /\ flusher_task' = NoTask
      /\ waiters' = RemoveFirst(waiters, flusher_task) /\ woken' = RemoveFirst(woken, flusher_task)
      /\ UNCHANGED <<current_id, stream, unread>>
  BY DEF FinishFlush
<1>2. UNCHANGED <<queued, written, aborted>> /\ waited' = (waited \/ waiters' # <<>>)
  BY <1>1 DEF RunTasks
<1>3. t = Main \/ (t = flusher_task /\ flusher_task # NoTask)
  <2>1. t # NoTask
    BY DEF TasksFit, NoTask
  <2>2. t # Main /\ t # flusher_task => at[t] = "done"
    BY DEF TasksFit
  <2> QED BY <1>1, <2>1, <2>2
<1>4. DOMAIN at' = DOMAIN at /\ Main \in DOMAIN at
  BY <1>1 DEF Finished, TasksFit, Main
<1>5. flusher_task # Main
  BY DEF TasksFit, Main, NoTask
<1>6. at'[Main] = IF t = Main THEN IF leaving THEN "done" ELSE "input" ELSE at[Main]
  BY <1>1, <1>4, <1>5 DEF Finished
<1>7. \A u \in DOMAIN at \ {Main} : at'[u] = "done"
  BY <1>1, <1>3, <1>4 DEF Finished, TasksFit
<1>8. at'[Main] \notin Running
  BY <1>1, <1>4, <1>6 DEF TasksFit, Running
<1>9. TasksFit'
  <2>1. at'[Main] \in {"input", "write", "drain", "finish", "done"}
    BY <1>6 DEF TasksFit
  <2>2. \A u \in DOMAIN at' : at'[u] \notin Running
    BY <1>4, <1>7, <1>8 DEF Running
  <2>3. \E n \in Nat \ {0} : DOMAIN at' = 0 .. n - 1
    BY <1>4 DEF TasksFit
  <2> QED BY <1>1, <1>4, <1>7, <2>1, <2>2, <2>3 DEF TasksFit
<1>10. Draining' = Draining \ {flusher_task}
  <2>1. at'[Main] = "drain" <=> at[Main] = "drain"
    BY <1>1, <1>6
  <2>2. ASSUME NEW u \in DOMAIN at \ {Main} PROVE at'[u] # "drain" /\ (at[u] = "drain" => u = flusher_task)
    BY <1>7 DEF TasksFit
  <2> QED BY <1>4, <1>5, <2>1, <2>2 DEF Draining
<1>11. WaitersFit'
  <2>1. /\ waiters' \in Seq(Nat) /\ IsInjective(waiters') /\ ToSet(waiters') = ToSet(waiters) \ {flusher_task}
        /\ woken' \in Seq(Nat) /\ IsInjective(woken') /\ ToSet(woken') = ToSet(woken) \ {flusher_task}
    BY <1>1, RemovedFirst DEF WaitersFit
  <2>2. ~waited => waiters' = <<>> /\ woken' = <<>>
    <3>1. RemoveFirst(<<>>, flusher_task) = <<>>
      BY DEF RemoveFirst
    <3> QED BY <1>1, <3>1 DEF WaitersFit
  <2> QED BY <1>2, <1>10, <2>1, <2>2 DEF WaitersFit
<1>12. BuffersFit'
  <2>1. coap_buffer' \in Seq(Made) /\ Len(coap_buffer') = 0
    BY <1>1
  <2> QED BY <1>1, <1>2, <2>1, ClientAssumption DEF BuffersFit
<1>13. LogFits'
  <2>1. Flushing /\ ~Flushing'
    BY <1>1, <1>4, <1>7, <1>8 DEF Flushing, Running
  <2>2. Messages(written) \o <<>> = Messages(written)
    BY WrittenMade, ConcatEmptySeq
  <2> QED BY <1>1, <1>2, <2>1, <2>2 DEF LogFits, Messages
<1> QED BY <1>9, <1>11, <1>12, <1>13

LEMMA ClientStep ==
  ASSUME ClientInvariant, [NextClient]_userVars
  PROVE  ClientInvariant'
<1>1. CASE RunTasks
  <2>1. Run
    BY <1>1 DEF RunTasks
  <2>2. CASE \E t \in DOMAIN at : Expire(t) \/ SendAdu(t) \/ FinishFlush(t)
    BY <1>1, <2>2, ExpireFits, SendAduFits, FinishFlushFits
  <2>3. CASE Resume \/ Continue
    BY <1>1, <2>3, ResumeFits, ContinueFits
  <2> QED BY <2>1, <2>2, <2>3 DEF Run
<1>2. CASE TakeBundle \/ UNCHANGED userVars
  <2>1. UNCHANGED <<current_id, coap_buffer, flusher_task, at, waiters, woken, stream, unread,
                    queued, written, aborted, waited>>
    BY <1>2 DEF TakeBundle, userVars, clientVars, tasks, userLog
  <2>2. TasksFit' /\ WaitersFit'
    BY <2>1 DEF ClientInvariant, TasksFit, WaitersFit, Draining
  <2>3. BuffersFit' /\ LogFits'
    BY <2>1 DEF ClientInvariant, BuffersFit, LogFits, Flushing, Messages
  <2> QED BY <2>2, <2>3 DEF ClientInvariant
<1> QED BY <1>1, <1>2, TypeCommandFits, TypeExitFits, EndInputFits, UD3TNFits DEF NextClient

\* The client at every step: Main and at most one flusher are alive, those who wait in drain()
\* wait once, and the log and the buffer make up what was typed.
THEOREM ClientInvariantHolds == SpecClient => []ClientInvariant
<1>1. InitClient => ClientInvariant
  BY ClientStarts
<1>2. ClientInvariant /\ [NextClient]_userVars => ClientInvariant'
  BY ClientStep
<1> QED BY <1>1, <1>2, PTL DEF SpecClient

LEMMA AtMostOne ==
  ASSUME NEW S, \A x, y \in S : x = y
  PROVE  Cardinality(S) <= 1
<1>1. CASE S = {}
  BY <1>1, FS_EmptySet
<1>2. CASE S # {}
  <2>1. PICK x \in S : TRUE
    BY <1>2
  <2>2. S = {x}
    BY <2>1
  <2> QED BY <2>2, FS_Singleton
<1> QED BY <1>1, <1>2

\* chat_send, for any commands, limits and pauses of the transport: as long as no task has had to
\* wait in drain() and the input is not given up, what was written and what is in the buffer are the
\* messages typed, each once and in order; and what is in the buffer has a live flusher.
THEOREM ClientAlwaysRight == SpecClient => []ClientInv
<1>1. ClientInvariant => ClientInv
  <2> SUFFICES ASSUME ClientInvariant PROVE ClientInv
    OBVIOUS
  <2> USE DEF ClientInvariant
  <2>1. DOMAIN at = 0 .. (Cardinality(DOMAIN at) - 1)
    <3>1. PICK n \in Nat \ {0} : DOMAIN at = 0 .. n - 1
      BY DEF TasksFit
    <3>2. 0 \in Int /\ n - 1 \in Int
      OBVIOUS
    <3>3. Cardinality(0 .. n - 1) = n
      BY <3>2, FS_Interval
    <3> QED BY <3>1, <3>3
  <2>2. \A t \in DOMAIN at : at[t] \in {"input", "sleep", "write", "drain", "finish", "done"}
    <3>1. ASSUME NEW t \in DOMAIN at
          PROVE  at[t] \in {"input", "sleep", "write", "drain", "finish", "done"}
      <4>1. CASE t = Main
        BY <4>1 DEF TasksFit
      <4>2. CASE t # Main /\ t = flusher_task
        <5>1. flusher_task # NoTask
          BY <4>2 DEF TasksFit, NoTask
        <5> QED BY <4>2, <5>1 DEF TasksFit
      <4>3. CASE t # Main /\ t # flusher_task
        BY <4>3 DEF TasksFit
      <4> QED BY <4>1, <4>2, <4>3
    <3> QED BY <3>1
  <2>3. Cardinality({ t \in DOMAIN at : at[t] \in {"write", "finish"} }) <= 1
    BY AtMostOne DEF TasksFit, Running
  <2>4. /\ IsInjective(waiters \o woken)
        /\ ToSet(waiters \o woken) = { t \in DOMAIN at : at[t] = "drain" }
    BY JoinedSeq DEF WaitersFit, Draining
  <2>5. ClientTypeOK
    <3>1. flusher_task \in DOMAIN at \cup {NoTask}
      BY DEF TasksFit
    <3>2. current_id \in 1 .. MaxId /\ Len(coap_buffer) <= BufferLimit /\ unread <= ResponseCap
      BY DEF BuffersFit
    <3> QED BY <2>1, <2>2, <2>3, <2>4, <3>1, <3>2 DEF ClientTypeOK
  <2>6. Partition
    BY DEF LogFits, Flushing, Partition
  <2>7. FlusherAlive
    BY DEF TasksFit, FlusherAlive
  <2> QED BY <2>5, <2>6, <2>7 DEF ClientInv
<1> QED BY <1>1, ClientInvariantHolds, PTL

-----------------------------------------------------------------------------
(* Sockets and sessions (DatagramTransport): the sequences that pools are. *)

LEMMA PoolSize ==
  ASSUME NEW S, NEW s \in Seq(S), IsInjective(s)
  PROVE  IsFiniteSet(ToSet(s)) /\ Cardinality(ToSet(s)) = Len(s)
<1>1. Len(s) \in Nat /\ DOMAIN s = 1 .. Len(s) /\ s \in [1 .. Len(s) -> S]
  BY LenProperties
<1>2. s \in Bijection(1 .. Len(s), ToSet(s))
  <2>1. s \in [1 .. Len(s) -> ToSet(s)]
    <3>1. \A i \in 1 .. Len(s) : s[i] \in ToSet(s)
      BY <1>1 DEF ToSet
    <3>2. s = [i \in 1 .. Len(s) |-> s[i]]
      BY <1>1
    <3> QED BY <3>1, <3>2
  <2>2. \A x \in ToSet(s) : \E i \in 1 .. Len(s) : s[i] = x
    BY <1>1 DEF ToSet
  <2> QED BY <1>1, <2>1, <2>2 DEF Bijection, Injection, Surjection, IsInjective
<1>3. IsFiniteSet(1 .. Len(s)) /\ Cardinality(1 .. Len(s)) = Len(s)
  BY <1>1, FS_Interval
<1> QED BY <1>2, <1>3, FS_Bijection DEF ExistsBijection

LEMMA AppendedPool ==
  ASSUME NEW S, NEW s \in Seq(S), IsInjective(s), NEW k \in S, k \notin ToSet(s)
  PROVE  /\ Append(s, k) \in Seq(S) /\ IsInjective(Append(s, k))
         /\ ToSet(Append(s, k)) = ToSet(s) \cup {k}
<1>1. <<k>> \in Seq(S) /\ IsInjective(<<k>>) /\ ToSet(<<k>>) = {k}
  BY DEF IsInjective, ToSet
<1>2. Append(s, k) = s \o <<k>>
  OBVIOUS
<1> DEFINE t == <<k>>
<1> HIDE DEF t
<1>3. t \in Seq(S) /\ IsInjective(t) /\ ToSet(t) = {k}
  BY <1>1 DEF t
<1>4. ToSet(s) \cap ToSet(t) = {}
  BY <1>3
<1>5. s \o t \in Seq(S) /\ IsInjective(s \o t) /\ ToSet(s \o t) = ToSet(s) \cup ToSet(t)
  BY <1>3, <1>4, JoinedSeq
<1> QED BY <1>2, <1>3, <1>5 DEF t

LEMMA MovedPool ==
  ASSUME NEW S, NEW s \in Seq(S), IsInjective(s), NEW k \in S, k \in ToSet(s)
  PROVE  /\ MovedToEnd(s, k) \in Seq(S) /\ IsInjective(MovedToEnd(s, k))
         /\ ToSet(MovedToEnd(s, k)) = ToSet(s)
<1>1. /\ RemoveFirst(s, k) \in Seq(S) /\ IsInjective(RemoveFirst(s, k))
      /\ ToSet(RemoveFirst(s, k)) = ToSet(s) \ {k}
  BY RemovedFirst
<1> DEFINE t == RemoveFirst(s, k)
<1> HIDE DEF t
<1>2. t \in Seq(S) /\ IsInjective(t) /\ ToSet(t) = ToSet(s) \ {k}
  BY <1>1 DEF t
<1>3. k \notin ToSet(t)
  BY <1>2
<1>4. /\ Append(t, k) \in Seq(S) /\ IsInjective(Append(t, k))
      /\ ToSet(Append(t, k)) = ToSet(t) \cup {k}
  BY <1>2, <1>3, AppendedPool
<1> QED BY <1>2, <1>4 DEF MovedToEnd, t

\* What is cut off a pool at its front, and the rest.
LEMMA CutPool ==
  ASSUME NEW S, NEW s \in Seq(S), IsInjective(s), NEW n \in 0 .. Len(s)
  PROVE  /\ SubSeq(s, n + 1, Len(s)) \in Seq(S) /\ IsInjective(SubSeq(s, n + 1, Len(s)))
         /\ ToSet(SubSeq(s, n + 1, Len(s))) = ToSet(s) \ ToSet(SubSeq(s, 1, n))
         /\ ToSet(SubSeq(s, 1, n)) \subseteq ToSet(s)
         /\ Cardinality(ToSet(SubSeq(s, n + 1, Len(s)))) = Len(s) - n
<1> DEFINE front == SubSeq(s, 1, n)
           back == SubSeq(s, n + 1, Len(s))
<1>1. Len(s) \in Nat /\ DOMAIN s = 1 .. Len(s) /\ \A i \in 1 .. Len(s) : s[i] \in S
  BY LenProperties, ElementOfSeq
<1>2. /\ front \in Seq(S) /\ Len(front) = n /\ DOMAIN front = 1 .. n
      /\ \A i \in 1 .. n : front[i] = s[i]
  <2>1. \A i \in 1 .. n : s[i] \in S
    BY <1>1
  <2>2. front \in Seq(S) /\ Len(front) = n /\ \A i \in 1 .. n : front[i] = s[i]
    BY <1>1
  <2>3. DOMAIN front = 1 .. Len(front)
    <3> HIDE DEF front
    <3> QED BY <2>2, LenProperties
  <2> QED BY <2>2, <2>3
<1>3. /\ back \in Seq(S) /\ Len(back) = Len(s) - n /\ DOMAIN back = 1 .. Len(s) - n
      /\ \A i \in 1 .. Len(s) - n : back[i] = s[n + i]
  <2>0. \A i \in n + 1 .. Len(s) : s[i] \in S
    BY <1>1
  <2>1. back \in Seq(S) /\ Len(back) = Len(s) - n /\ \A i \in 1 .. Len(s) - n : back[i] = s[n + i]
    <3> DEFINE L == Len(s)
               m == n + 1
    <3>1. L \in Nat /\ n \in 0 .. L /\ m = n + 1 /\ m \in Int /\ \A i \in m .. L : s[i] \in S
      BY <1>1, <2>0
    <3>2. back = SubSeq(s, m, L)
      OBVIOUS
    <3> HIDE DEF L, m, back
    <3>3. /\ back \in Seq(S) /\ Len(back) = (IF m <= L THEN L - m + 1 ELSE 0)
          /\ \A i \in 1 .. L - m + 1 : back[i] = s[m + i - 1]
      BY <3>1, <3>2, SubSeqProperties
    <3>4. Len(back) = L - n
      BY <3>1, <3>3
    <3>5. \A i \in 1 .. L - n : i \in 1 .. L - m + 1 /\ m + i - 1 = n + i
      BY <3>1
    <3>6. \A i \in 1 .. L - n : back[i] = s[n + i]
      BY <3>3, <3>5
    <3> QED BY <3>3, <3>4, <3>6 DEF L
  <2>2. DOMAIN back = 1 .. Len(back)
    <3> HIDE DEF back
    <3> QED BY <2>1, LenProperties
  <2> QED BY <2>1, <2>2
<1> HIDE DEF front, back
<1>4. IsInjective(back)
  <2>1. ASSUME NEW i \in 1 .. Len(s) - n, NEW j \in 1 .. Len(s) - n, back[i] = back[j] PROVE i = j
    <3>1. n + i \in DOMAIN s /\ n + j \in DOMAIN s /\ s[n + i] = s[n + j]
      BY <1>1, <1>3, <2>1
    <3>2. n + i = n + j
      BY <3>1, Zenon DEF IsInjective
    <3> QED BY <3>2
  <2> QED BY <1>3, <2>1, Zenon DEF IsInjective
<1>5. ToSet(front) \subseteq ToSet(s)
  BY <1>1, <1>2 DEF ToSet
<1>6. ASSUME NEW x \in ToSet(back) PROVE x \in ToSet(s) \ ToSet(front)
  <2>1. PICK i \in 1 .. Len(s) - n : back[i] = x
    BY <1>3 DEF ToSet
  <2>2. n + i \in 1 .. Len(s) /\ s[n + i] = x
    BY <1>1, <1>3, <2>1
  <2>3. ASSUME NEW j \in 1 .. n, front[j] = x PROVE FALSE
    <3>1. j \in DOMAIN s /\ n + i \in DOMAIN s /\ s[j] = s[n + i]
      BY <1>1, <1>2, <2>2, <2>3
    <3>2. j = n + i
      BY <3>1, Zenon DEF IsInjective
    <3> QED BY <3>2
  <2> QED BY <1>1, <1>2, <2>2, <2>3 DEF ToSet
<1>7. ASSUME NEW x \in ToSet(s) \ ToSet(front) PROVE x \in ToSet(back)
  <2>1. PICK i \in 1 .. Len(s) : s[i] = x
    BY <1>1 DEF ToSet
  <2>2. ~(i <= n)
    BY <1>2, <2>1 DEF ToSet
  <2>3. i - n \in 1 .. Len(s) - n /\ back[i - n] = x
    BY <1>1, <1>3, <2>1, <2>2
  <2> QED BY <1>3, <2>3 DEF ToSet
<1>8. Cardinality(ToSet(back)) = Len(s) - n
  BY <1>3, <1>4, PoolSize
<1>9. ToSet(back) = ToSet(s) \ ToSet(front)
  BY <1>6, <1>7
<1> QED BY <1>3, <1>4, <1>5, <1>8, <1>9 DEF front, back

\* A socket that takes the place of the one of its host, or the last place.
LEMMA PooledAt ==
  ASSUME NEW s \in Seq(Links), IsInjective(s), NEW k \in Links, k \notin ToSet(s),
         \A l, m \in ToSet(s) : link[l].host = link[m].host => l = m
  PROVE  /\ Pooled(s, k) \in Seq(Links) /\ IsInjective(Pooled(s, k))
         /\ ToSet(Pooled(s, k)) = {l \in ToSet(s) : link[l].host # link[k].host} \cup {k}
<1>1. Len(s) \in Nat /\ DOMAIN s = 1 .. Len(s) /\ \A i \in 1 .. Len(s) : s[i] \in Links
  BY LenProperties, ElementOfSeq
<1>2. CASE \A l \in ToSet(s) : link[l].host # link[k].host
  <2>1. Pooled(s, k) = Append(s, k)
    BY <1>2, Zenon DEF Pooled
  <2> QED BY <1>2, <2>1, AppendedPool
<1>3. CASE \E l \in ToSet(s) : link[l].host = link[k].host
  <2> DEFINE p == [i \in 1 .. Len(s) |-> IF link[s[i]].host = link[k].host THEN k ELSE s[i]]
  <2>1. Pooled(s, k) = p
    BY <1>1, <1>3, Zenon DEF Pooled
  <2>2. p \in Seq(Links) /\ DOMAIN p = 1 .. Len(s)
    BY <1>1
  <2>3. \A i \in 1 .. Len(s) : p[i] = IF link[s[i]].host = link[k].host THEN k ELSE s[i]
    OBVIOUS
  <2> HIDE DEF p
  <2>4. \A i \in 1 .. Len(s) : s[i] \in ToSet(s) /\ s[i] # k
    BY <1>1 DEF ToSet
  <2>5. ASSUME NEW i \in 1 .. Len(s), NEW j \in 1 .. Len(s), p[i] = p[j] PROVE i = j
    <3>1. s[i] = s[j]
      <4>1. CASE link[s[i]].host = link[k].host
        <5>1. link[s[j]].host = link[k].host
          BY <2>3, <2>4, <2>5, <4>1
        <5> QED BY <2>4, <4>1, <5>1
      <4>2. CASE link[s[i]].host # link[k].host
        BY <2>3, <2>4, <2>5, <4>2
      <4> QED BY <4>1, <4>2
    <3> QED BY <1>1, <3>1, Zenon DEF IsInjective
  <2>6. IsInjective(p)
    BY <2>2, <2>5, Zenon DEF IsInjective
  <2>7. ToSet(p) = {p[i] : i \in 1 .. Len(s)} /\ ToSet(s) = {s[i] : i \in 1 .. Len(s)}
    BY <1>1, <2>2 DEF ToSet
  <2>8. k \in ToSet(p)
    <3>1. PICK i \in 1 .. Len(s) : link[s[i]].host = link[k].host
      BY <1>3, <2>7
    <3>2. p[i] = k
      BY <2>3, <3>1
    <3> QED BY <2>7, <3>2
  <2>9. ASSUME NEW l \in ToSet(s), link[l].host # link[k].host PROVE l \in ToSet(p)
    <3>1. PICK i \in 1 .. Len(s) : s[i] = l
      BY <2>7
    <3>2. p[i] = l
      BY <2>3, <2>9, <3>1
    <3> QED BY <2>7, <3>2
  <2>10. ASSUME NEW l \in ToSet(p), l # k PROVE l \in ToSet(s) /\ link[l].host # link[k].host
    <3>1. PICK i \in 1 .. Len(s) : p[i] = l
      BY <2>7
    <3> QED BY <2>3, <2>4, <2>10, <3>1
  <2> QED BY <2>1, <2>2, <2>6, <2>8, <2>9, <2>10
<1> QED BY <1>2, <1>3

-----------------------------------------------------------------------------
(* The inductive invariant of the sockets and sessions *)

Hosts ==
  {NoHost} \cup {s.asks[r].host : s \in Settings, r \in Asks} \cup UNION {s.visitors : s \in Settings}
RemoteSet == [kind : Kinds \cup {"none"}, link : Links \cup {NoLink}, host : Hosts]
LinkSet ==
  [phase : {"unused", "opening", "handshake", "live", "closed"}, kind : Kinds \cup {"none"},
   host : Hosts, queue : Seq(Asks), written : Seq(Asks), handed : Seq(Asks),
   beside : SUBSET Links, rendering : BOOLEAN]
AskSet ==
  [state : {"new", "waiting", "open", "answered", "struck", "failed"}, to : RemoteSet, since : Nat]

DatagramsFit ==
  /\ setting \in Settings /\ link \in [Links -> LinkSet] /\ sockets \in [Kinds -> Seq(Links)]
  /\ ask \in [Asks -> AskSet] /\ ended \in SUBSET Kinds /\ struck \in Seq(RemoteSet)

\* What errors have come for since a request was registered; DTLS connects before it is.
Hit(a) == \E i \in a.since + 1 .. Len(struck) : Same(struck[i], a.to)
AskRight(a) ==
  /\ a.since <= Len(struck) /\ (a.state = "open" => ~ Hit(a)) /\ (a.state = "struck" => Hit(a))
  /\ a.state = "waiting" => a.to.kind # "tinydtls"
AsksRight == \A r \in Asks : AskRight(ask[r])

\* A request that waits for a DTLS connection has one.
ConnectionKept(a) ==
  a.state = "open" /\ a.to.kind = "tinydtls" =>
    /\ a.to.link \in Links /\ link[a.to.link].kind = "tinydtls"
    /\ link[a.to.link].phase # "closed"
ConnectionsKept == \A r \in Asks : ConnectionKept(ask[r])

\* What a link is on its own, and with the others there are.
SocketRight(c) ==
  /\ c.written \o c.queue = c.handed
  /\ c.phase = "live" => c.queue = <<>>
  /\ c.kind = "simple6" => c.queue = <<>>
  /\ IF c.phase = "unused" THEN c = Unopened ELSE c.kind \in Kinds
  /\ c.phase = "opening" => c.kind \in {"simple6", "tinydtls"}
  /\ c.phase = "handshake" => c.kind = "tinydtls"
  /\ \A l \in c.beside : link[l].phase # "unused"
SocketsRight == \A k \in Links : SocketRight(link[k])

Pool(kind) == ToSet(sockets[kind])
\* A pool has the links of its interface that are in use, one per host, each once.
PoolRight(kind) ==
  /\ IsInjective(sockets[kind])
  /\ \A k \in Pool(kind) :
       /\ link[k].kind = kind
       /\ link[k].phase = "live" \/ (kind = "tinydtls" /\ link[k].phase \in {"opening", "handshake"})
  /\ \A k, l \in Pool(kind) : link[k].host = link[l].host => k = l
PoolsRight == \A kind \in Kinds : PoolRight(kind)

\* A link that is in use is in its pool, but for a race or a shutdown.
PlacedWell(k) ==
  /\ link[k].phase = "live" => k \in Pool(link[k].kind) \/ link[k].kind \in ended \/ Overtaken(k)
  /\ link[k].phase \in {"opening", "handshake"} /\ link[k].kind = "tinydtls"
       => k \in Pool("tinydtls") \/ "tinydtls" \in ended
  /\ link[k].rendering => k \in Pool("tinydtls_server")
LinksPlaced == \A k \in Links : PlacedWell(k)

\* While a socket is opened, no other one to its host came without being beside it.
Beside(k, l) == l \in link[k].beside \/ k \in link[l].beside
OpeningSockets == {k \in Links : link[k].phase = "opening" /\ link[k].kind = "simple6"}
InUse == Pool("simple6") \cup OpeningSockets
RacesSeen ==
  \A k \in OpeningSockets, l \in InUse : link[k].host = link[l].host /\ k # l => Beside(k, l)

\* More than max_sockets are open or being opened only by those that were begun beside another.
Beginners == {k \in Links : link[k].beside # {}}
RoomLeft == Cardinality(InUse) <= max_sockets + Cardinality(Beginners)

PlacesRight == PoolsRight /\ LinksPlaced /\ RacesSeen /\ RoomLeft
DatagramsRight ==
  DatagramsFit /\ AsksRight /\ ConnectionsKept /\ SocketsRight /\ PlacesRight

-----------------------------------------------------------------------------
(* Errors, and the requests they reach *)

LEMMA SameIsEven ==
  ASSUME NEW v, NEW w
  PROVE  Same(v, v) /\ (Same(v, w) <=> Same(w, v))
BY DEF Same

LEMMA HitGrows ==
  ASSUME NEW a \in AskSet, a.since <= Len(struck), struck \in Seq(RemoteSet), NEW v \in RemoteSet,
         struck' = Append(struck, v)
  PROVE  Hit(a)' <=> Hit(a) \/ Same(v, a.to)
<1>1. /\ Len(struck) \in Nat /\ Len(struck') = Len(struck) + 1 /\ a.since \in Nat
      /\ \A i \in 1 .. Len(struck) : struck'[i] = struck[i]
      /\ struck'[Len(struck) + 1] = v
  BY DEF AskSet
<1>2. \A i \in a.since + 1 .. Len(struck') : i \in 1 .. Len(struck) \/ i = Len(struck) + 1
  BY <1>1
<1>3. \A i \in a.since + 1 .. Len(struck) : i \in a.since + 1 .. Len(struck') /\ i \in 1 .. Len(struck)
  BY <1>1
<1>4. Len(struck) + 1 \in a.since + 1 .. Len(struck')
  BY <1>1
<1>5. ASSUME Hit(a)' PROVE Hit(a) \/ Same(v, a.to)
  <2>1. PICK i \in a.since + 1 .. Len(struck') : Same(struck'[i], a.to)
    BY <1>5 DEF Hit
  <2>2. CASE i = Len(struck) + 1
    BY <1>1, <2>1, <2>2
  <2>3. CASE i # Len(struck) + 1
    <3>1. i \in a.since + 1 .. Len(struck) /\ struck'[i] = struck[i]
      BY <1>1, <1>2, <2>1, <2>3
    <3> QED BY <2>1, <3>1 DEF Hit
  <2> QED BY <2>2, <2>3
<1>6. ASSUME Hit(a) PROVE Hit(a)'
  <2>1. PICK i \in a.since + 1 .. Len(struck) : Same(struck[i], a.to)
    BY <1>6 DEF Hit
  <2>2. i \in a.since + 1 .. Len(struck') /\ struck'[i] = struck[i]
    BY <1>1, <1>3, <2>1
  <2> QED BY <2>1, <2>2 DEF Hit
<1>7. ASSUME Same(v, a.to) PROVE Hit(a)'
  BY <1>1, <1>4, <1>7 DEF Hit
<1> QED BY <1>5, <1>6, <1>7

\* An error leaves the rest of the requests as they were, and none of them waits for its remote.
LEMMA StruckRight ==
  ASSUME DatagramsFit, AsksRight, NEW v \in RemoteSet, struck' = Append(struck, v), NEW r \in Asks,
         NEW b, b = Strikes(v)[r]
  PROVE  /\ b \in AskSet /\ AskRight(b)'
         /\ b.state = "open" => b = ask[r] /\ ~ Same(ask[r].to, v)
<1>1. ask[r] \in AskSet /\ AskRight(ask[r]) /\ struck \in Seq(RemoteSet)
  BY DEF DatagramsFit, AsksRight
<1> DEFINE a == ask[r]
<1>2. b = IF a.state = "open" /\ Same(a.to, v) THEN Struck(a) ELSE a
  BY DEF Strikes
<1>3. /\ b \in AskSet /\ b.to = a.to /\ b.since = a.since
      /\ b.state = IF a.state = "open" /\ Same(a.to, v) THEN "struck" ELSE a.state
  BY <1>1, <1>2 DEF Struck, AskSet
<1>4. b.state # "struck" => b = a
  BY <1>2 DEF Struck
<1>5. Hit(b)' <=> Hit(b) \/ Same(v, b.to)
  BY <1>1, <1>3, HitGrows DEF AskRight
<1>6. Hit(b) <=> Hit(a)
  BY <1>3 DEF Hit
<1>7. Same(v, a.to) <=> Same(a.to, v)
  BY SameIsEven
<1>8. b.since <= Len(struck')
  <2>1. Len(struck') = Len(struck) + 1 /\ Len(struck) \in Nat /\ a.since \in Nat
    BY <1>1 DEF AskSet
  <2> QED BY <1>1, <1>3, <2>1 DEF AskRight
<1>9. AskRight(b)'
  <2>1. b.state = "waiting" => b.to.kind # "tinydtls"
    BY <1>1, <1>3 DEF AskRight
  <2>2. b.state = "open" => ~ Hit(b)'
    BY <1>1, <1>3, <1>5, <1>6, <1>7 DEF AskRight
  <2>3. b.state = "struck" => Hit(b)'
    BY <1>1, <1>3, <1>5, <1>6, <1>7 DEF AskRight
  <2> QED BY <1>8, <2>1, <2>2, <2>3 DEF AskRight
<1> QED BY <1>3, <1>4, <1>9

LEMMA StrikeLeaves ==
  ASSUME DatagramsFit, AsksRight, NEW v \in RemoteSet, Strike(v)
  PROVE  /\ ask' \in [Asks -> AskSet] /\ struck' \in Seq(RemoteSet) /\ AsksRight'
         /\ \A r \in Asks : ask'[r].state = "open" => ask'[r] = ask[r] /\ ~ Same(ask[r].to, v)
<1>1. struck' = Append(struck, v) /\ ask' = Strikes(v)
  BY DEF Strike
<1>2. struck' \in Seq(RemoteSet)
  BY <1>1 DEF DatagramsFit
<1>3. ASSUME NEW r \in Asks
      PROVE  /\ ask'[r] \in AskSet /\ AskRight(ask[r])'
             /\ ask'[r].state = "open" => ask'[r] = ask[r] /\ ~ Same(ask[r].to, v)
  <2>1. PICK b : b = Strikes(v)[r]
    OBVIOUS
  <2>2. /\ b \in AskSet /\ AskRight(b)'
        /\ b.state = "open" => b = ask[r] /\ ~ Same(ask[r].to, v)
    BY <1>1, <2>1, StruckRight
  <2>3. b = ask'[r]
    BY <1>1, <2>1
  <2> QED BY <2>2, <2>3 DEF AskRight, Hit
<1>4. ask' \in [Asks -> AskSet]
  <2>1. ask' = [r \in Asks |-> ask'[r]]
    BY <1>1 DEF Strikes
  <2> QED BY <1>3, <2>1
<1> QED BY <1>2, <1>3, <1>4 DEF AsksRight

\* What becomes of a request where no error comes.
AskMoves(a, b) ==
  \/ b = a
  \/ b.since <= Len(struck) /\ b.state \in {"failed", "answered"}
  \/ b.since = Len(struck) /\ b.state = "open"
  \/ b.since = 0 /\ b.state = "waiting" /\ b.to.kind # "tinydtls"

LEMMA AsksMove ==
  ASSUME DatagramsFit, AsksRight, struck' = struck, ask' \in [Asks -> AskSet],
         \A r \in Asks : AskMoves(ask[r], ask'[r])
  PROVE  AsksRight'
<1>1. Len(struck) \in Nat
  BY DEF DatagramsFit
<1>2. ASSUME NEW r \in Asks PROVE AskRight(ask[r])'
  <2> DEFINE a == ask[r]
  <2>0. PICK b : b = ask'[r]
    OBVIOUS
  <2>1. a \in AskSet /\ b \in AskSet /\ AskRight(a) /\ AskMoves(a, b)
    BY <2>0 DEF DatagramsFit, AsksRight
  <2>2. Hit(b)' <=> Hit(b)
    BY DEF Hit
  <2>3. b.since = Len(struck) => ~ Hit(b)
    BY <1>1 DEF Hit
  <2> HIDE DEF a
  <2>4. AskRight(b)
    <3>1. CASE b = a
      BY <2>1, <3>1
    <3>2. CASE b.since <= Len(struck) /\ b.state \in {"failed", "answered"}
      BY <3>2 DEF AskRight
    <3>3. CASE b.since = Len(struck) /\ b.state = "open"
      BY <1>1, <2>3, <3>3 DEF AskRight
    <3>4. CASE b.since = 0 /\ b.state = "waiting" /\ b.to.kind # "tinydtls"
      BY <1>1, <3>4 DEF AskRight
    <3> QED BY <2>1, <3>1, <3>2, <3>3, <3>4 DEF AskMoves
  <2> QED BY <2>0, <2>2, <2>4 DEF AskRight, Hit
<1> QED BY <1>2 DEF AsksRight

-----------------------------------------------------------------------------
(* Links, alone and in their pools, as steps leave them *)

\* A link stays what it is, for whom and beside which it was begun.
Frozen ==
  \A l \in Links : link[l].phase # "unused" =>
    /\ link'[l].kind = link[l].kind /\ link'[l].host = link[l].host
    /\ link'[l].beside = link[l].beside /\ link'[l].phase # "unused"

LEMMA BesideStays ==
  ASSUME DatagramsFit, SocketsRight, Frozen, NEW k \in Links, NEW l \in Links, Beside(k, l)
  PROVE  /\ Beside(k, l)' /\ link[k].phase # "unused" /\ link[l].phase # "unused"
         /\ link'[k].host = link[k].host /\ link'[l].host = link[l].host
<1>1. ASSUME NEW x \in Links, NEW y \in Links, x \in link[y].beside
      PROVE  x \in link'[y].beside /\ link[x].phase # "unused" /\ link[y].phase # "unused"
  <2>1. SocketRight(link[y])
    BY DEF SocketsRight
  <2>2. link[x].phase # "unused"
    BY <1>1, <2>1 DEF SocketRight
  <2>3. link[y].phase # "unused"
    BY <1>1, <2>1 DEF SocketRight, Unopened
  <2> QED BY <1>1, <2>2, <2>3 DEF Frozen
<1>2. link[k].phase # "unused" /\ link[l].phase # "unused"
  BY <1>1 DEF Beside
<1> QED BY <1>1, <1>2 DEF Beside, Frozen

LEMMA OvertakenStays ==
  ASSUME DatagramsFit, SocketsRight, Frozen, NEW k \in Links, Overtaken(k)
  PROVE  Overtaken(k)'
<1>1. PICK l \in Links : link[l].host = link[k].host /\ (l \in link[k].beside \/ k \in link[l].beside)
  BY DEF Overtaken
<1>2. Beside(k, l)
  BY <1>1 DEF Beside
<1>3. Beside(k, l)' /\ link'[k].host = link[k].host /\ link'[l].host = link[l].host
  BY <1>2, BesideStays
<1> QED BY <1>1, <1>3 DEF Overtaken, Beside

LEMMA RacesStay ==
  ASSUME DatagramsFit, SocketsRight, PlacesRight, Frozen,
         OpeningSockets' \subseteq OpeningSockets, InUse' \subseteq InUse
  PROVE  RacesSeen'
<1>1. InUse \subseteq Links
  BY DEF DatagramsFit, InUse, OpeningSockets, Pool, ToSet, Kinds
<1>2. ASSUME NEW k \in OpeningSockets', NEW l \in InUse', link'[k].host = link'[l].host, k # l
      PROVE  Beside(k, l)'
  <2>1. k \in OpeningSockets /\ l \in InUse /\ k \in Links /\ l \in Links
    BY <1>1 DEF OpeningSockets
  <2>2. link[k].phase # "unused"
    BY <2>1 DEF OpeningSockets
  <2>3. link[l].phase # "unused"
    <3>1. PoolRight("simple6")
      BY DEF PlacesRight, PoolsRight, Kinds
    <3> QED BY <2>1, <3>1 DEF InUse, OpeningSockets, PoolRight
  <2>4. link[k].host = link[l].host
    BY <1>2, <2>1, <2>2, <2>3 DEF Frozen
  <2>5. Beside(k, l)
    BY <1>2, <2>1, <2>4 DEF PlacesRight, RacesSeen
  <2> QED BY <2>1, <2>5, BesideStays
<1> QED BY <1>2 DEF RacesSeen

LEMMA BeginnersStay ==
  ASSUME DatagramsFit, SocketsRight, Frozen
  PROVE  Beginners \subseteq Beginners'
<1>1. ASSUME NEW k \in Links, link[k].beside # {} PROVE link'[k].beside # {}
  <2>1. SocketRight(link[k])
    BY DEF SocketsRight
  <2>2. link[k].phase # "unused"
    BY <1>1, <2>1 DEF SocketRight, Unopened
  <2> QED BY <1>1, <2>2 DEF Frozen
<1> QED BY <1>1 DEF Beginners

LEMMA RoomStays ==
  ASSUME DatagramAssumption, DatagramsFit, SocketsRight, RoomLeft, Frozen, InUse' \subseteq InUse
  PROVE  RoomLeft'
<1>1. InUse \subseteq Links /\ Beginners' \subseteq Links /\ Beginners \subseteq Beginners'
  <2>1. InUse \subseteq Links
    BY DEF DatagramsFit, InUse, OpeningSockets, Pool, ToSet, Kinds
  <2>2. Beginners' \subseteq Links
    BY DEF Beginners
  <2> QED BY <2>1, <2>2, BeginnersStay
<1>2. IsFiniteSet(InUse) /\ IsFiniteSet(Beginners') /\ IsFiniteSet(Beginners)
  <2>1. \A T \in SUBSET Links : IsFiniteSet(T)
    BY FS_Subset DEF DatagramAssumption
  <2> QED BY <1>1, <2>1
<1>3. Cardinality(InUse') <= Cardinality(InUse) /\ IsFiniteSet(InUse')
  BY <1>2, FS_Subset
<1>4. Cardinality(Beginners) <= Cardinality(Beginners')
  BY <1>1, <1>2, FS_Subset
<1>5. /\ Cardinality(InUse) \in Nat /\ Cardinality(InUse') \in Nat
      /\ Cardinality(Beginners) \in Nat /\ Cardinality(Beginners') \in Nat
  BY <1>2, <1>3, FS_CardinalityType
<1> QED BY <1>3, <1>4, <1>5 DEF RoomLeft, DatagramAssumption

LEMMA PoolStays ==
  ASSUME PlacesRight, Frozen, NEW kind \in Kinds,
         IsInjective(sockets'[kind]), Pool(kind)' \subseteq Pool(kind), Pool(kind) \subseteq Links,
         \A k \in Pool(kind)' :
           \/ link'[k].phase = link[k].phase
           \/ kind = "tinydtls" /\ link'[k].phase \in {"handshake", "live"}
  PROVE  PoolRight(kind)'
<1>1. PoolRight(kind)
  BY DEF PlacesRight, PoolsRight
<1>2. \A k \in Pool(kind)' : k \in Pool(kind) /\ k \in Links /\ link[k].phase # "unused"
  BY <1>1 DEF PoolRight
<1>3. ASSUME NEW k \in Pool(kind)'
      PROVE  /\ link'[k].kind = kind /\ link'[k].host = link[k].host
             /\ \/ link'[k].phase = "live"
                \/ kind = "tinydtls" /\ link'[k].phase \in {"opening", "handshake"}
  BY <1>1, <1>2 DEF PoolRight, Frozen
<1>4. ASSUME NEW k \in Pool(kind)', NEW l \in Pool(kind)', link'[k].host = link'[l].host
      PROVE  k = l
  BY <1>1, <1>2, <1>3, <1>4 DEF PoolRight
<1> QED BY <1>3, <1>4 DEF PoolRight

LEMMA PlaceStays ==
  ASSUME DatagramsFit, SocketsRight, PlacesRight, Frozen, NEW k \in Links, ended \subseteq ended',
         \/ link'[k].phase \in {link[k].phase, "closed"}
         \/ /\ link[k].kind = "tinydtls" /\ link[k].phase \in {"opening", "handshake"}
            /\ link'[k].phase \in {"handshake", "live"},
         link[k].phase # "unused" \/ link'[k] = link[k],
         \A kind \in Kinds : k \in Pool(kind) /\ link'[k].phase # "closed" => k \in Pool(kind)',
         link'[k].rendering => k \in Pool("tinydtls_server")'
  PROVE  PlacedWell(k)'
<1>1. PlacedWell(k) /\ SocketRight(link[k])
  BY DEF PlacesRight, LinksPlaced, SocketsRight
<1>2. CASE link[k].phase = "unused"
  BY <1>1, <1>2 DEF PlacedWell, SocketRight, Unopened
<1>3. CASE link[k].phase # "unused"
  <2>1. link'[k].kind = link[k].kind
    BY <1>3 DEF Frozen
  <2>2. Overtaken(k) => Overtaken(k)'
    BY OvertakenStays
  <2>3. \E kind \in Kinds : link[k].kind = kind
    BY <1>1, <1>3 DEF SocketRight
  <2>4. PICK kind \in Kinds : link[k].kind = kind
    BY <2>3
  <2>5. ASSUME link'[k].phase = "live"
        PROVE  k \in Pool(kind)' \/ kind \in ended' \/ Overtaken(k)'
    BY <1>1, <2>2, <2>4, <2>5 DEF PlacedWell, Kinds
  <2>6. ASSUME link'[k].phase \in {"opening", "handshake"}, link'[k].kind = "tinydtls"
        PROVE  k \in Pool("tinydtls")' \/ "tinydtls" \in ended'
    BY <1>1, <2>1, <2>6 DEF PlacedWell, Kinds
  <2> QED BY <2>1, <2>4, <2>5, <2>6 DEF PlacedWell, Pool
<1> QED BY <1>2, <1>3

LEMMA PoolLinks ==
  ASSUME DatagramsFit, PlacesRight, NEW kind \in Kinds
  PROVE  /\ sockets[kind] \in Seq(Links) /\ IsInjective(sockets[kind]) /\ Pool(kind) \subseteq Links
         /\ \A k \in Pool(kind) : link[k].kind = kind /\ link[k].phase \notin {"unused", "closed"}
<1>1. sockets[kind] \in Seq(Links)
  BY DEF DatagramsFit
<1>2. Pool(kind) \subseteq Links
  BY <1>1 DEF Pool, ToSet
<1>3. PoolRight(kind)
  BY DEF PlacesRight, PoolsRight
<1> QED BY <1>1, <1>2, <1>3 DEF PoolRight

\* A link that closes and one that is left alone stay right.
LEMMA LinkStays ==
  ASSUME DatagramsFit, SocketsRight, Frozen, NEW k \in Links,
         \/ link'[k] = link[k]
         \/ /\ link[k].phase # "unused" /\ link'[k].phase \in {link[k].phase, "closed"}
            /\ link'[k].queue = link[k].queue /\ link'[k].written = link[k].written
            /\ link'[k].handed = link[k].handed
  PROVE  SocketRight(link[k])'
<1>1. SocketRight(link[k])
  BY DEF SocketsRight
<1>2. link[k].phase # "unused" \/ link[k] = Unopened
  BY <1>1 DEF SocketRight
<1>3. link'[k].beside = link[k].beside
  BY <1>2 DEF Frozen
<1>4. \A l \in link'[k].beside : link'[l].phase # "unused"
  <2>1. link[k].beside \subseteq Links
    BY DEF DatagramsFit, LinkSet
  <2> QED BY <1>1, <1>3, <2>1 DEF SocketRight, Frozen
<1>5. CASE link'[k] = link[k]
  BY <1>1, <1>4, <1>5 DEF SocketRight
<1>6. CASE link[k].phase # "unused" /\ link'[k] # link[k]
  BY <1>1, <1>4, <1>6 DEF SocketRight, Frozen
<1> QED BY <1>2, <1>5, <1>6

\* What a link goes through without leaving its pool.
CalmLink(k) ==
  \/ link'[k] = link[k]
  \/ /\ link[k].phase # "unused" /\ link'[k].phase # "unused" /\ link'[k].kind = link[k].kind
     /\ link'[k].host = link[k].host /\ link'[k].beside = link[k].beside
     /\ \/ link'[k].phase = link[k].phase
        \/ /\ link[k].kind = "tinydtls" /\ link[k].phase \in {"opening", "handshake"}
           /\ link'[k].phase \in {"handshake", "live"}
     /\ link'[k].rendering => link[k].rendering \/ k \in Pool("tinydtls_server")

LEMMA CalmPlaces ==
  ASSUME DatagramAssumption, DatagramsFit, SocketsRight, PlacesRight, ended \subseteq ended',
         \A kind \in Kinds : IsInjective(sockets'[kind]) /\ Pool(kind)' = Pool(kind),
         \A k \in Links : CalmLink(k)
  PROVE  PlacesRight' /\ Frozen
<1>1. Frozen
  BY DEF CalmLink, Frozen
<1>2. ASSUME NEW kind \in Kinds PROVE PoolRight(kind)'
  <2>1. ASSUME NEW k \in Pool(kind)'
        PROVE  \/ link'[k].phase = link[k].phase
               \/ kind = "tinydtls" /\ link'[k].phase \in {"handshake", "live"}
    <3>1. k \in Links /\ link[k].kind = kind
      BY PoolLinks
    <3> QED BY <3>1 DEF CalmLink
  <2>2. Pool(kind) \subseteq Links /\ Pool(kind)' \subseteq Pool(kind) /\ IsInjective(sockets'[kind])
    BY PoolLinks
  <2> QED BY <1>1, <2>1, <2>2, PoolStays
<1>3. ASSUME NEW k \in Links PROVE PlacedWell(k)'
  <2>1. PlacedWell(k) /\ link[k].kind \in Kinds \cup {"none"} /\ CalmLink(k)
    BY DEF PlacesRight, LinksPlaced, DatagramsFit, LinkSet
  <2>2. \A kind \in Kinds : k \in Pool(kind) => k \in Pool(kind)'
    OBVIOUS
  <2>3. link'[k].rendering => k \in Pool("tinydtls_server")'
    BY <2>1, <2>2 DEF CalmLink, PlacedWell, Kinds
  <2> QED BY <1>1, <2>1, <2>2, <2>3, PlaceStays DEF CalmLink
<1>4. OpeningSockets' \subseteq OpeningSockets /\ Pool("simple6")' = Pool("simple6")
  <2>1. ASSUME NEW k \in OpeningSockets' PROVE k \in OpeningSockets
    <3>1. k \in Links /\ CalmLink(k) /\ link'[k].phase = "opening" /\ link'[k].kind = "simple6"
      BY DEF OpeningSockets
    <3> QED BY <3>1 DEF CalmLink, OpeningSockets
  <2> QED BY <2>1 DEF Kinds
<1>5. InUse' \subseteq InUse
  BY <1>4 DEF InUse
<1>6. RacesSeen' /\ RoomLeft'
  BY <1>1, <1>4, <1>5, RacesStay, RoomStays DEF PlacesRight
<1> QED BY <1>1, <1>2, <1>3, <1>6 DEF PlacesRight, PoolsRight, LinksPlaced

\* Links that are closed and leave their pools.
Leaves(k) ==
  /\ link[k].phase # "unused" /\ link'[k].phase = "closed" /\ link'[k].kind = link[k].kind
  /\ link'[k].host = link[k].host /\ link'[k].beside = link[k].beside /\ ~ link'[k].rendering
  /\ link'[k].queue = link[k].queue /\ link'[k].written = link[k].written
  /\ link'[k].handed = link[k].handed

\* One entry of a function is changed.
LEMMA OneChanged ==
  ASSUME NEW D, NEW S, NEW f \in [D -> S], NEW k \in D, NEW v \in S
  PROVE  [f EXCEPT ![k] = v] \in [D -> S]
OBVIOUS

LEMMA LeftPlaces ==
  ASSUME DatagramAssumption, DatagramsFit, SocketsRight, PlacesRight, ended \subseteq ended',
         NEW gone \in SUBSET Links,
         \A kind \in Kinds : IsInjective(sockets'[kind]) /\ Pool(kind)' = Pool(kind) \ gone,
         \A k \in gone : Leaves(k), \A k \in Links \ gone : link'[k] = link[k]
  PROVE  PlacesRight' /\ SocketsRight' /\ Frozen
<1>1. Frozen
  BY DEF Leaves, Frozen
<1>2. ASSUME NEW kind \in Kinds PROVE PoolRight(kind)'
  <2>1. Pool(kind) \subseteq Links /\ Pool(kind)' \subseteq Pool(kind) /\ IsInjective(sockets'[kind])
    BY PoolLinks
  <2>2. ASSUME NEW k \in Pool(kind)' PROVE link'[k].phase = link[k].phase
    BY <2>1
  <2> QED BY <1>1, <2>1, <2>2, PoolStays
<1>3. ASSUME NEW k \in Links PROVE PlacedWell(k)'
  <2>1. CASE k \in gone
    BY <2>1 DEF Leaves, PlacedWell
  <2>2. CASE k \notin gone
    <3>1. link'[k] = link[k] /\ PlacedWell(k) /\ SocketRight(link[k])
      BY <2>2 DEF PlacesRight, LinksPlaced, SocketsRight
    <3>2. \A kind \in Kinds : k \in Pool(kind) => k \in Pool(kind)'
      BY <2>2
    <3>3. link'[k].rendering => k \in Pool("tinydtls_server")'
      BY <3>1, <3>2 DEF PlacedWell, Kinds
    <3> QED BY <1>1, <3>1, <3>2, <3>3, PlaceStays
  <2> QED BY <2>1, <2>2
<1>4. OpeningSockets' \subseteq OpeningSockets /\ Pool("simple6")' \subseteq Pool("simple6")
  <2>1. ASSUME NEW k \in OpeningSockets' PROVE k \in OpeningSockets
    <3>1. k \in Links /\ link'[k].phase = "opening" /\ link'[k].kind = "simple6"
      BY DEF OpeningSockets
    <3>2. k \notin gone
      BY <3>1 DEF Leaves
    <3> QED BY <3>1, <3>2 DEF OpeningSockets
  <2> QED BY <2>1 DEF Kinds
<1>5. InUse' \subseteq InUse
  BY <1>4 DEF InUse
<1>6. RacesSeen' /\ RoomLeft'
  BY <1>1, <1>4, <1>5, RacesStay, RoomStays DEF PlacesRight
<1>7. ASSUME NEW k \in Links PROVE SocketRight(link[k])'
  <2>1. CASE k \in gone
    BY <1>1, <2>1, LinkStays DEF Leaves
  <2>2. CASE k \notin gone
    BY <1>1, <2>2, LinkStays
  <2> QED BY <2>1, <2>2
<1> QED BY <1>1, <1>2, <1>3, <1>6, <1>7 DEF PlacesRight, PoolsRight, LinksPlaced, SocketsRight

\* A link that is begun, while others may be closed to make room.
LEMMA BegunPlaces ==
  ASSUME DatagramAssumption, DatagramsFit, SocketsRight, PlacesRight, ended' = ended,
         NEW k \in Links, link[k].phase = "unused", NEW gone \in SUBSET Links,
         NEW joined \in SUBSET {k}, NEW own \in Kinds, link'[k].kind = own, ~ link'[k].rendering,
         IF joined = {}
           THEN own = "simple6" /\ link'[k].phase = "opening"
           ELSE \/ link'[k].phase = "live"
                \/ own = "tinydtls" /\ link'[k].phase = "opening",
         \A l \in Pool(own) : link[l].host # link'[k].host,
         \A kind \in Kinds :
           /\ IsInjective(sockets'[kind])
           /\ Pool(kind)' = (Pool(kind) \ gone) \cup (IF kind = own THEN joined ELSE {}),
         \A l \in gone : Leaves(l), \A l \in Links \ (gone \cup {k}) : link'[l] = link[l]
  PROVE  PoolsRight' /\ LinksPlaced' /\ Frozen
<1>1. k \notin gone
  BY DEF Leaves
<1>2. Frozen
  BY DEF Leaves, Frozen
<1>3. ASSUME NEW kind \in Kinds, NEW l \in Pool(kind)', l # k
      PROVE  /\ l \in Pool(kind) /\ link'[l] = link[l] /\ l \in Links
  BY <1>3, PoolLinks
<1>4. ASSUME NEW kind \in Kinds, k \in Pool(kind)'
      PROVE  kind = own /\ joined = {k}
  BY <1>4, PoolLinks
<1>5. ASSUME NEW kind \in Kinds PROVE PoolRight(kind)'
  <2>1. PoolRight(kind)
    BY DEF PlacesRight, PoolsRight
  <2>2. ASSUME NEW l \in Pool(kind)'
        PROVE  /\ link'[l].kind = kind
               /\ \/ link'[l].phase = "live"
                  \/ kind = "tinydtls" /\ link'[l].phase \in {"opening", "handshake"}
    <3>1. CASE l # k
      BY <1>3, <2>1, <3>1 DEF PoolRight
    <3>2. CASE l = k
      BY <1>4, <3>2
    <3> QED BY <3>1, <3>2
  <2>3. ASSUME NEW l \in Pool(kind)', NEW m \in Pool(kind)', link'[l].host = link'[m].host
        PROVE  l = m
    <3>1. CASE l # k /\ m # k
      BY <1>3, <2>1, <2>3, <3>1 DEF PoolRight
    <3>2. CASE l = k /\ m # k
      BY <1>3, <1>4, <2>3, <3>2
    <3>3. CASE m = k /\ l # k
      BY <1>3, <1>4, <2>3, <3>3
    <3> QED BY <3>1, <3>2, <3>3
  <2> QED BY <2>2, <2>3 DEF PoolRight
<1>6. ASSUME NEW l \in Links PROVE PlacedWell(l)'
  <2>1. CASE l \in gone
    BY <2>1 DEF Leaves, PlacedWell
  <2>2. CASE l = k
    <3>1. joined # {} => k \in Pool(own)'
      OBVIOUS
    <3> QED BY <2>2, <3>1 DEF PlacedWell, Pool
  <2>3. CASE l \notin gone \cup {k}
    <3>1. link'[l] = link[l] /\ PlacedWell(l) /\ SocketRight(link[l])
      BY <2>3 DEF PlacesRight, LinksPlaced, SocketsRight
    <3>2. \A kind \in Kinds : l \in Pool(kind) => l \in Pool(kind)'
      BY <2>3
    <3>3. link'[l].rendering => l \in Pool("tinydtls_server")'
      BY <3>1, <3>2 DEF PlacedWell, Kinds
    <3> QED BY <1>2, <3>1, <3>2, <3>3, PlaceStays
  <2> QED BY <2>1, <2>2, <2>3
<1> QED BY <1>2, <1>5, <1>6 DEF PoolsRight, LinksPlaced

-----------------------------------------------------------------------------
(* The steps of the requests *)

LEMMA BegunInPool ==
  ASSUME DatagramAssumption, DatagramsFit, SocketsRight, PlacesRight, ended' = ended,
         NEW k \in Links, link[k].phase = "unused", NEW own \in Kinds, link'[k].kind = own,
         ~ link'[k].rendering,
         link'[k].phase = "live" \/ (own = "tinydtls" /\ link'[k].phase = "opening"),
         \A l \in Pool(own) : link[l].host # link'[k].host,
         \A kind \in Kinds :
           /\ IsInjective(sockets'[kind])
           /\ Pool(kind)' = IF kind = own THEN Pool(kind) \cup {k} ELSE Pool(kind),
         \A l \in Links \ {k} : link'[l] = link[l]
  PROVE  PoolsRight' /\ LinksPlaced' /\ Frozen
<1> DEFINE gone == {}
           joined == {k}
<1>1. /\ gone \in SUBSET Links /\ joined \in SUBSET {k} /\ joined # {}
      /\ \A l \in gone : Leaves(l)
      /\ \A l \in Links \ (gone \cup {k}) : link'[l] = link[l]
  OBVIOUS
<1>2. \A kind \in Kinds :
        /\ IsInjective(sockets'[kind])
        /\ Pool(kind)' = (Pool(kind) \ gone) \cup (IF kind = own THEN joined ELSE {})
  OBVIOUS
<1> HIDE DEF gone, joined
<1> QED BY <1>1, <1>2, BegunPlaces

LEMMA DatagramsStart ==
  ASSUME DatagramAssumption, InitDatagrams
  PROVE  DatagramsRight
<1>1. DatagramsFit
  <2>1. Unopened \in LinkSet
    BY DEF Unopened, LinkSet, Hosts
  <2>2. Nowhere \in RemoteSet
    BY DEF Nowhere, Remote, RemoteSet, Hosts
  <2>3. \A r \in Asks : ask[r] \in AskSet
    BY <2>2 DEF InitDatagrams, AskSet
  <2>4. ask \in [Asks -> AskSet]
    BY <2>3 DEF InitDatagrams
  <2> QED BY <2>1, <2>4 DEF InitDatagrams, DatagramsFit
<1>2. AsksRight /\ ConnectionsKept
  BY DEF InitDatagrams, AsksRight, AskRight, ConnectionsKept, ConnectionKept
<1>3. SocketsRight
  <2>1. <<>> \o <<>> = <<>>
    OBVIOUS
  <2>2. SocketRight(Unopened)
    BY <2>1 DEF SocketRight, Unopened
  <2>3. \A k \in Links : link[k] = Unopened
    BY DEF InitDatagrams
  <2> QED BY <2>2, <2>3, Zenon DEF SocketsRight
<1>4. \A kind \in Kinds : Pool(kind) = {} /\ IsInjective(sockets[kind])
  BY DEF InitDatagrams, Pool, ToSet, IsInjective
<1>5. PoolsRight
  BY <1>4 DEF PoolsRight, PoolRight
<1>6. OpeningSockets = {} /\ InUse = {}
  <2>1. OpeningSockets = {}
    BY DEF InitDatagrams, OpeningSockets, Unopened
  <2> QED BY <1>4, <2>1 DEF InUse, Kinds
<1>7. LinksPlaced
  BY DEF InitDatagrams, LinksPlaced, PlacedWell, Unopened
<1>8. RacesSeen
  BY <1>6 DEF RacesSeen
<1>9. RoomLeft
  <2>1. Cardinality(InUse) = 0
    BY <1>6, FS_EmptySet
  <2>2. Beginners \in SUBSET Links
    BY DEF Beginners
  <2>3. Cardinality(Beginners) \in Nat
    BY <2>2, FS_Subset, FS_CardinalityType DEF DatagramAssumption
  <2> QED BY <2>1, <2>3 DEF RoomLeft, DatagramAssumption
<1> QED BY <1>1, <1>2, <1>3, <1>5, <1>7, <1>8, <1>9 DEF DatagramsRight, PlacesRight

\* Steps that leave links and pools alone.
LEMMA AsksOnly ==
  ASSUME DatagramsRight, UNCHANGED <<setting, link, sockets, ended>>,
         ask' \in [Asks -> AskSet], struck' \in Seq(RemoteSet), AsksRight',
         \A r \in Asks : ask'[r].state = "open" /\ ask'[r].to.kind = "tinydtls" => ask'[r] = ask[r]
  PROVE  DatagramsRight'
<1>1. DatagramsFit' /\ SocketsRight' /\ PlacesRight'
  <2>1. DatagramsFit'
    BY DEF DatagramsRight, DatagramsFit
  <2>2. SocketsRight'
    BY DEF DatagramsRight, SocketsRight, SocketRight
  <2>3. PlacesRight'
    BY DEF DatagramsRight, PlacesRight, PoolsRight, PoolRight, LinksPlaced, PlacedWell, RacesSeen,
           RoomLeft, InUse, OpeningSockets, Pool, Beginners, Beside, Overtaken
  <2> QED BY <2>1, <2>2, <2>3
<1>2. ConnectionsKept'
  BY DEF DatagramsRight, ConnectionsKept, ConnectionKept
<1> QED BY <1>1, <1>2 DEF DatagramsRight

\* One request that goes on, where no error comes.
LEMMA OneAsk ==
  ASSUME DatagramsFit, AsksRight, struck' = struck, NEW r \in Asks, NEW b \in AskSet,
         ask' = [ask EXCEPT ![r] = b], AskMoves(ask[r], b)
  PROVE  ask' \in [Asks -> AskSet] /\ struck' \in Seq(RemoteSet) /\ AsksRight'
<1>1. ask' \in [Asks -> AskSet] /\ struck' \in Seq(RemoteSet)
  BY DEF DatagramsFit
<1>2. \A q \in Asks : AskMoves(ask[q], ask'[q])
  BY DEF DatagramsFit, AskMoves
<1> QED BY <1>1, <1>2, AsksMove

LEMMA RemoteFits ==
  ASSUME NEW kind \in Kinds, NEW k \in Links \cup {NoLink}, NEW h \in Hosts
  PROVE  /\ Remote(kind, k, h) \in RemoteSet
         /\ Remote(kind, k, h).kind = kind /\ Remote(kind, k, h).link = k
         /\ Remote(kind, k, h).host = h
BY DEF Remote, RemoteSet

LEMMA HostFits ==
  ASSUME DatagramsFit, NEW r \in Asks
  PROVE  HostOf(r) \in Hosts
BY DEF DatagramsFit, HostOf, Hosts

LEMMA RegisteredFits ==
  ASSUME DatagramsFit, NEW v \in RemoteSet, NEW a
  PROVE  /\ Registered(v) \in AskSet /\ AskMoves(a, Registered(v)) /\ Registered(v).to = v
         /\ Registered(v).state = IF v.kind \in ended THEN "failed" ELSE "open"
<1>1. PICK n, b, x : n = Len(struck) /\ b = Registered(v) /\ x = IF v.kind \in ended THEN "failed" ELSE "open"
  OBVIOUS
<1>2. n \in Nat
  <2>1. struck \in Seq(RemoteSet)
    BY DEF DatagramsFit
  <2> QED BY <1>1, <2>1, LenProperties
<1>3. b = [state |-> x, to |-> v, since |-> n] /\ x \in {"failed", "open"}
  BY <1>1 DEF Registered
<1>4. b \in AskSet /\ b.state = x /\ b.to = v /\ b.since = n
  BY <1>2, <1>3 DEF AskSet
<1>5. AskMoves(a, b)
  BY <1>1, <1>2, <1>3, <1>4 DEF AskMoves
<1> QED BY <1>1, <1>4, <1>5

LEMMA FailedFits ==
  ASSUME DatagramsFit, AsksRight, NEW r \in Asks
  PROVE  /\ Failed(ask[r]) \in AskSet /\ AskMoves(ask[r], Failed(ask[r]))
         /\ Failed(ask[r]).state = "failed"
<1>1. ask[r] \in AskSet /\ AskRight(ask[r])
  BY DEF DatagramsFit, AsksRight
<1> QED BY <1>1 DEF Failed, AskSet, AskRight, AskMoves

LEMMA AskSteps ==
  ASSUME DatagramsRight, NEW r \in Asks,
         Refused(r) \/ LookUp(r) \/ Resolved(r) \/ NotFound(r) \/ Heard(r)
  PROVE  DatagramsRight'
<1> USE DEF DatagramsRight
<1>0. ask[r] \in AskSet /\ AskRight(ask[r])
  BY DEF DatagramsFit, AsksRight
<1>1. CASE Refused(r) \/ NotFound(r)
  <2>1. ask' = [ask EXCEPT ![r] = Failed(ask[r])] /\ UNCHANGED <<setting, link, sockets, ended, struck>>
    BY <1>1 DEF Refused, NotFound, DatagramsFit
  <2>2. Failed(ask[r]) \in AskSet /\ AskMoves(ask[r], Failed(ask[r])) /\ Failed(ask[r]).state = "failed"
    BY FailedFits
  <2>3. ask' \in [Asks -> AskSet] /\ struck' \in Seq(RemoteSet) /\ AsksRight'
    BY <2>1, <2>2, OneAsk
  <2>4. \A q \in Asks : ask'[q].state = "open" => ask'[q] = ask[q]
    BY <2>1, <2>2 DEF DatagramsFit
  <2> QED BY <2>1, <2>3, <2>4, AsksOnly
<1>2. CASE LookUp(r)
  <2> DEFINE v == Remote(Door(r), NoLink, HostOf(r))
             b == [state |-> "waiting", to |-> v, since |-> 0]
  <2>1. ask' = [ask EXCEPT ![r] = b] /\ UNCHANGED <<setting, link, sockets, ended, struck>>
    BY <1>2 DEF LookUp, WaitFor
  <2>2. Door(r) \in {"udp6", "simplesocketserver"}
    BY <1>2 DEF LookUp
  <2>3. v \in RemoteSet /\ v.kind = Door(r)
    BY <2>2, HostFits, RemoteFits DEF Kinds
  <2> HIDE DEF v
  <2>4. b \in AskSet /\ AskMoves(ask[r], b) /\ b.state = "waiting"
    BY <2>2, <2>3 DEF AskSet, AskMoves
  <2> HIDE DEF b
  <2>5. ask' \in [Asks -> AskSet] /\ struck' \in Seq(RemoteSet) /\ AsksRight'
    BY <2>1, <2>4, OneAsk
  <2>6. \A q \in Asks : ask'[q].state = "open" => ask'[q] = ask[q]
    BY <2>1, <2>4 DEF DatagramsFit
  <2> QED BY <2>1, <2>5, <2>6, AsksOnly
<1>3. CASE Resolved(r)
  <2> DEFINE v == ask[r].to
             b == Registered(v)
  <2>1. /\ ask' = [ask EXCEPT ![r] = b] /\ UNCHANGED <<setting, link, sockets, ended, struck>>
        /\ ask[r].state = "waiting"
    BY <1>3 DEF Resolved, LookingUp, DatagramsFit
  <2>2. v \in RemoteSet /\ v.kind # "tinydtls"
    BY <1>0, <2>1 DEF AskSet, AskRight
  <2>3. b \in AskSet /\ AskMoves(ask[r], b) /\ b.to.kind # "tinydtls"
    BY <2>2, RegisteredFits
  <2> HIDE DEF b
  <2>4. ask' \in [Asks -> AskSet] /\ struck' \in Seq(RemoteSet) /\ AsksRight'
    BY <2>1, <2>3, OneAsk
  <2>5. \A q \in Asks : ask'[q].to.kind = "tinydtls" => ask'[q] = ask[q]
    BY <2>1, <2>3 DEF DatagramsFit
  <2> QED BY <2>1, <2>4, <2>5, AsksOnly
<1>4. CASE Heard(r)
  <2> DEFINE b == [ask[r] EXCEPT !.state = "answered"]
  <2>1. /\ ask' = [ask EXCEPT ![r] = b] /\ UNCHANGED <<setting, link, sockets, ended, struck>>
    BY <1>4 DEF Heard, DatagramsFit
  <2>2. b \in AskSet /\ AskMoves(ask[r], b) /\ b.state = "answered"
    BY <1>0 DEF AskSet, AskRight, AskMoves
  <2> HIDE DEF b
  <2>3. ask' \in [Asks -> AskSet] /\ struck' \in Seq(RemoteSet) /\ AsksRight'
    BY <2>1, <2>2, OneAsk
  <2>4. \A q \in Asks : ask'[q].state = "open" => ask'[q] = ask[q]
    BY <2>1, <2>2 DEF DatagramsFit
  <2> QED BY <2>1, <2>3, <2>4, AsksOnly
<1> QED BY <1>1, <1>2, <1>3, <1>4

LEMMA ErrorSteps ==
  ASSUME DatagramsRight, NEW v \in RemoteSet, Strike(v), UNCHANGED <<setting, link, sockets, ended>>
  PROVE  DatagramsRight'
<1>1. /\ ask' \in [Asks -> AskSet] /\ struck' \in Seq(RemoteSet) /\ AsksRight'
      /\ \A r \in Asks : ask'[r].state = "open" => ask'[r] = ask[r]
  BY StrikeLeaves DEF DatagramsRight
<1> QED BY <1>1, AsksOnly

LEMMA SendFailsRight ==
  ASSUME DatagramsRight, NEW r \in Asks, SendFails(r)
  PROVE  DatagramsRight'
<1> USE DEF DatagramsRight
<1>a. PICK v : v = ask[r].to
  OBVIOUS
<1>b. PICK b : b = Struck(Registered(v))
  OBVIOUS
<1>1. /\ struck' = Append(struck, v) /\ UNCHANGED <<setting, link, sockets, ended>>
      /\ ask' = [Strikes(v) EXCEPT ![r] = b] /\ v.kind = "udp6"
  <2>1. ask' = [Strikes(v) EXCEPT ![r] = Struck(Registered(@.to))]
    BY <1>a DEF SendFails
  <2>2. Strikes(v)[r].to = v
    BY <1>a DEF Strikes, Struck, DatagramsFit, AskSet
  <2>3. [Strikes(v) EXCEPT ![r] = Struck(Registered(@.to))] = [Strikes(v) EXCEPT ![r] = b]
    BY <1>b, <2>2
  <2> QED BY <1>a, <2>1, <2>3 DEF SendFails
<1>2. v \in RemoteSet /\ struck \in Seq(RemoteSet) /\ Len(struck) \in Nat
  BY <1>a DEF DatagramsFit, AskSet
<1>3. b \in AskSet /\ b.state = "struck" /\ b.to = v /\ b.since = Len(struck)
  BY <1>b, <1>2 DEF Struck, Registered, AskSet
<1>4. struck' \in Seq(RemoteSet)
  BY <1>1, <1>2
<1>5. Hit(b)'
  <2>1. b.since <= Len(struck)
    BY <1>2, <1>3
  <2>2. Hit(b)' <=> Hit(b) \/ Same(v, b.to)
    BY <1>1, <1>2, <1>3, <2>1, HitGrows
  <2> QED BY <1>3, <2>2, SameIsEven
<1>6. ASSUME NEW q \in Asks
      PROVE  /\ ask'[q] \in AskSet /\ AskRight(ask[q])'
             /\ ask'[q].state = "open" => ask'[q] = ask[q]
  <2>1. CASE q = r
    <3>1. ask'[q] = b
      BY <1>1, <2>1 DEF Strikes
    <3>2. b.since <= Len(struck')
      BY <1>1, <1>2, <1>3
    <3>3. AskRight(b)'
      BY <1>3, <1>5, <3>2 DEF AskRight
    <3> QED BY <1>3, <3>1, <3>3 DEF AskRight, Hit
  <2>2. CASE q # r
    <3>1. PICK c : c = Strikes(v)[q]
      OBVIOUS
    <3>2. ask'[q] = c
      BY <1>1, <2>2, <3>1 DEF Strikes
    <3>3. c \in AskSet /\ AskRight(c)' /\ (c.state = "open" => c = ask[q])
      BY <1>1, <1>2, <3>1, StruckRight
    <3> QED BY <3>2, <3>3 DEF AskRight, Hit
  <2> QED BY <2>1, <2>2
<1>7. ask' = [q \in Asks |-> ask'[q]]
  BY <1>1 DEF Strikes
<1>8. ask' \in [Asks -> AskSet]
  BY <1>6, <1>7
<1>9. AsksRight'
  BY <1>6 DEF AsksRight
<1> QED BY <1>1, <1>4, <1>6, <1>8, <1>9, AsksOnly

-----------------------------------------------------------------------------
(* The steps of the sockets and sessions *)

LEMMA DatagramsMove ==
  ASSUME setting \in Settings, setting' = setting, link' \in [Links -> LinkSet],
         sockets' \in [Kinds -> Seq(Links)], ended' \in SUBSET Kinds, ask' \in [Asks -> AskSet],
         struck' \in Seq(RemoteSet), AsksRight', SocketsRight', PlacesRight',
         \A r \in Asks : ConnectionKept(ask[r])'
  PROVE  DatagramsRight'
BY DEF DatagramsRight, DatagramsFit, ConnectionsKept

LEMMA ConnectionStays ==
  ASSUME DatagramsRight, Frozen, NEW r \in Asks,
         ask'[r].state = "open" /\ ask'[r].to.kind = "tinydtls" =>
           ask'[r] = ask[r] /\ link'[ask[r].to.link].phase # "closed"
  PROVE  ConnectionKept(ask[r])'
<1> SUFFICES ASSUME ask'[r].state = "open", ask'[r].to.kind = "tinydtls"
             PROVE  /\ ask'[r].to.link \in Links /\ link'[ask'[r].to.link].kind = "tinydtls"
                    /\ link'[ask'[r].to.link].phase # "closed"
  BY DEF ConnectionKept
<1>1. ConnectionKept(ask[r])
  BY DEF DatagramsRight, ConnectionsKept
<1>2. ask[r].to.link \in Links /\ link[ask[r].to.link].kind = "tinydtls"
  BY <1>1 DEF ConnectionKept
<1>3. link[ask[r].to.link].phase # "unused"
  <2>1. SocketRight(link[ask[r].to.link])
    BY <1>2 DEF DatagramsRight, SocketsRight
  <2>2. link[ask[r].to.link].phase = "unused" => link[ask[r].to.link] = Unopened
    BY <2>1, Zenon DEF SocketRight
  <2>3. Unopened.kind = "none"
    BY DEF Unopened
  <2> QED BY <1>2, <2>2, <2>3
<1>4. link'[ask[r].to.link].kind = "tinydtls"
  BY <1>2, <1>3 DEF Frozen
<1>5. ask'[r] = ask[r] /\ link'[ask[r].to.link].phase # "closed"
  OBVIOUS
<1> QED BY <1>2, <1>4, <1>5

LEMMA UnusedLinks ==
  ASSUME DatagramsRight, NEW k \in Links, link[k].phase = "unused"
  PROVE  /\ link[k] = Unopened /\ \A kind \in Kinds : k \notin Pool(kind)
         /\ \A r \in Asks : ask[r].state = "open" /\ ask[r].to.kind = "tinydtls" => ask[r].to.link # k
<1>1. link[k] = Unopened
  BY DEF DatagramsRight, SocketsRight, SocketRight
<1>2. \A kind \in Kinds : k \notin Pool(kind)
  BY PoolLinks DEF DatagramsRight
<1>3. link[k].kind # "tinydtls"
  BY <1>1 DEF Unopened
<1>4. ASSUME NEW r \in Asks, ask[r].state = "open", ask[r].to.kind = "tinydtls"
      PROVE  ask[r].to.link # k
  <2>1. ConnectionKept(ask[r])
    BY DEF DatagramsRight, ConnectionsKept
  <2> QED BY <1>3, <1>4, <2>1 DEF ConnectionKept
<1> QED BY <1>1, <1>2, <1>4

\* A socket that is opened is in no pool yet.
LEMMA OpeningLinks ==
  ASSUME DatagramsFit, PlacesRight, NEW k \in OpeningSockets
  PROVE  ~ link[k].rendering /\ \A kind \in Kinds : k \notin Pool(kind)
<1>1. k \in Links /\ link[k].phase = "opening" /\ link[k].kind = "simple6"
  BY DEF OpeningSockets
<1>2. \A kind \in Kinds : k \notin Pool(kind)
  BY <1>1, PoolLinks DEF PlacesRight, PoolsRight, PoolRight
<1>3. PlacedWell(k) /\ link[k].rendering \in BOOLEAN
  BY <1>1 DEF PlacesRight, LinksPlaced, DatagramsFit, LinkSet
<1> QED BY <1>2, <1>3 DEF PlacedWell, Kinds

LEMMA MovesKept ==
  ASSUME DatagramsFit, PlacesRight, NEW own \in Kinds, NEW k \in Pool(own),
         sockets' = [sockets EXCEPT ![own] = MovedToEnd(@, k)]
  PROVE  /\ sockets' \in [Kinds -> Seq(Links)]
         /\ \A kind \in Kinds : IsInjective(sockets'[kind]) /\ Pool(kind)' = Pool(kind)
<1> DEFINE t == MovedToEnd(sockets[own], k)
<1>1. t \in Seq(Links) /\ IsInjective(t) /\ ToSet(t) = ToSet(sockets[own])
  <2>1. sockets[own] \in Seq(Links) /\ IsInjective(sockets[own]) /\ k \in Links
    BY PoolLinks
  <2> QED BY <2>1, MovedPool DEF Pool
<1>2. sockets' = [sockets EXCEPT ![own] = t]
  BY DEF DatagramsFit
<1> HIDE DEF t
<1>3. sockets' \in [Kinds -> Seq(Links)]
  BY <1>1, <1>2 DEF DatagramsFit
<1>4. ASSUME NEW kind \in Kinds PROVE IsInjective(sockets'[kind]) /\ Pool(kind)' = Pool(kind)
  <2>1. sockets'[kind] = IF kind = own THEN t ELSE sockets[kind]
    BY <1>2 DEF DatagramsFit
  <2>2. IsInjective(sockets[kind])
    BY PoolLinks
  <2> QED BY <1>1, <2>1, <2>2 DEF Pool
<1> QED BY <1>3, <1>4

LEMMA ReuseRight ==
  ASSUME DatagramAssumption, DatagramsRight, NEW r \in Asks, Reuse(r)
  PROVE  DatagramsRight'
<1> USE DEF DatagramsRight
<1>1. PICK k \in PoolOf("simple6", HostOf(r)) :
        /\ sockets' = [sockets EXCEPT !["simple6"] = MovedToEnd(@, k)]
        /\ ask' = [ask EXCEPT ![r] = Registered(Remote("simple6", k, HostOf(r)))]
  BY DEF Reuse
<1>2. UNCHANGED <<setting, link, ended, struck>>
  BY DEF Reuse
<1>3. k \in Pool("simple6") /\ k \in Links /\ "simple6" \in Kinds
  BY <1>1, PoolLinks DEF PoolOf, Pool, Kinds
<1>4. /\ sockets' \in [Kinds -> Seq(Links)]
      /\ \A kind \in Kinds : IsInjective(sockets'[kind]) /\ Pool(kind)' = Pool(kind)
  BY <1>1, <1>3, MovesKept
<1>5. PlacesRight' /\ Frozen
  <2>1. \A l \in Links : CalmLink(l)
    BY <1>2 DEF CalmLink
  <2> QED BY <1>2, <1>4, <2>1, CalmPlaces
<1>6. SocketsRight'
  BY <1>2, <1>5, LinkStays DEF SocketsRight
<1> DEFINE v == Remote("simple6", k, HostOf(r))
           b == Registered(v)
<1>7. v \in RemoteSet /\ v.kind = "simple6"
  BY <1>3, HostFits, RemoteFits
<1> HIDE DEF v
<1>8. b \in AskSet /\ AskMoves(ask[r], b) /\ b.to.kind # "tinydtls"
  BY <1>7, RegisteredFits
<1>9. ask' = [ask EXCEPT ![r] = b]
  BY <1>1 DEF v
<1> HIDE DEF b
<1>10. ask' \in [Asks -> AskSet] /\ struck' \in Seq(RemoteSet) /\ AsksRight'
  BY <1>2, <1>8, <1>9, OneAsk
<1>11. ASSUME NEW q \in Asks PROVE ConnectionKept(ask[q])'
  <2>1. ask'[q].to.kind = "tinydtls" => ask'[q] = ask[q]
    BY <1>8, <1>9 DEF DatagramsFit
  <2>2. ConnectionKept(ask[q])
    BY DEF ConnectionsKept
  <2> QED BY <1>2, <2>1, <2>2 DEF ConnectionKept
<1>12. setting \in Settings /\ link \in [Links -> LinkSet] /\ ended \in SUBSET Kinds
  BY DEF DatagramsFit
<1> QED BY <1>2, <1>4, <1>5, <1>6, <1>10, <1>11, <1>12, DatagramsMove

LEMMA OpenFailsRight ==
  ASSUME DatagramAssumption, DatagramsRight, NEW k \in Links, OpenFails(k)
  PROVE  DatagramsRight'
<1> USE DEF DatagramsRight
<1>1. /\ link[k].phase = "opening" /\ link[k].kind = "simple6"
      /\ link' = [link EXCEPT ![k].phase = "closed"]
      /\ ask' = [r \in Asks |-> IF r \in Waiters(k) THEN Failed(ask[r]) ELSE ask[r]]
      /\ UNCHANGED <<setting, sockets, ended, struck>>
  BY DEF OpenFails
<1>2. k \in OpeningSockets
  BY <1>1 DEF OpeningSockets
<1>3. ~ link[k].rendering /\ \A kind \in Kinds : k \notin Pool(kind)
  BY <1>2, OpeningLinks
<1>4. link' \in [Links -> LinkSet]
  <2>1. link \in [Links -> LinkSet] /\ link[k] \in LinkSet
    BY DEF DatagramsFit
  <2>2. [link[k] EXCEPT !.phase = "closed"] \in LinkSet
    BY <2>1 DEF LinkSet
  <2> QED BY <1>1, <2>1, <2>2, OneChanged
<1>5. Leaves(k) /\ \A l \in Links \ {k} : link'[l] = link[l]
  BY <1>1, <1>3 DEF DatagramsFit, LinkSet, Leaves
<1>6. \A kind \in Kinds : IsInjective(sockets'[kind]) /\ Pool(kind)' = Pool(kind) \ {k}
  BY <1>1, <1>3, PoolLinks DEF Pool
<1>7. PlacesRight' /\ SocketsRight' /\ Frozen
  <2>1. \A l \in {k} : Leaves(l)
    BY <1>5
  <2> QED BY <1>1, <1>5, <1>6, <2>1, LeftPlaces
<1>8. ASSUME NEW r \in Asks
      PROVE  /\ ask'[r] \in AskSet /\ AskMoves(ask[r], ask'[r])
             /\ ask'[r].state = "open" => ask'[r] = ask[r]
  <2>1. CASE r \in Waiters(k)
    BY <1>1, <2>1, FailedFits
  <2>2. CASE r \notin Waiters(k)
    BY <1>1, <2>2 DEF DatagramsFit, AskMoves
  <2> QED BY <2>1, <2>2
<1>9. ask' \in [Asks -> AskSet] /\ struck' \in Seq(RemoteSet)
  <2>1. ask' = [r \in Asks |-> ask'[r]]
    BY <1>1
  <2> QED BY <1>1, <1>8, <2>1 DEF DatagramsFit
<1>10. AsksRight'
  BY <1>1, <1>8, <1>9, AsksMove
<1>11. ASSUME NEW q \in Asks PROVE ConnectionKept(ask[q])'
  <2>1. ask'[q].state = "open" /\ ask'[q].to.kind = "tinydtls" =>
          ask'[q] = ask[q] /\ link'[ask[q].to.link].phase # "closed"
    <3>1. ConnectionKept(ask[q])
      BY DEF ConnectionsKept
    <3>2. ask'[q].state = "open" => ask'[q] = ask[q]
      BY <1>8
    <3> QED BY <1>1, <1>5, <3>1, <3>2 DEF ConnectionKept
  <2> QED BY <1>7, <2>1, ConnectionStays
<1>12. setting \in Settings /\ sockets' \in [Kinds -> Seq(Links)] /\ ended' \in SUBSET Kinds
  BY <1>1 DEF DatagramsFit
<1> QED BY <1>1, <1>4, <1>7, <1>9, <1>10, <1>11, <1>12, DatagramsMove

\* shutdown of one connection.
LEMMA ShutPlaces ==
  ASSUME DatagramAssumption, DatagramsRight, NEW k \in Links, link[k].phase # "unused", Shut(k),
         ended' = ended
  PROVE  /\ PlacesRight' /\ SocketsRight' /\ Frozen /\ link' \in [Links -> LinkSet]
         /\ sockets' \in [Kinds -> Seq(Links)] /\ \A l \in Links \ {k} : link'[l] = link[l]
<1> USE DEF DatagramsRight
<1>1. PICK own \in Kinds : link[k].kind = own
  BY DEF SocketsRight, SocketRight
<1>2. /\ link' = [link EXCEPT ![k].phase = "closed", ![k].rendering = FALSE]
      /\ sockets' = [sockets EXCEPT ![own] = RemoveFirst(@, k)]
  BY <1>1 DEF Shut
<1>3. link' \in [Links -> LinkSet]
  <2>1. link \in [Links -> LinkSet] /\ link[k] \in LinkSet
    BY DEF DatagramsFit
  <2>2. [link[k] EXCEPT !.phase = "closed", !.rendering = FALSE] \in LinkSet
    BY <2>1 DEF LinkSet
  <2> QED BY <1>2, <2>1, <2>2, OneChanged
<1>4. Leaves(k) /\ \A l \in Links \ {k} : link'[l] = link[l]
  BY <1>2 DEF DatagramsFit, LinkSet, Leaves
<1> DEFINE t == RemoveFirst(sockets[own], k)
<1>5. t \in Seq(Links) /\ IsInjective(t) /\ ToSet(t) = ToSet(sockets[own]) \ {k}
  <2>1. sockets[own] \in Seq(Links) /\ IsInjective(sockets[own])
    BY PoolLinks
  <2> QED BY <2>1, RemovedFirst
<1>6. sockets' = [sockets EXCEPT ![own] = t]
  BY <1>2 DEF DatagramsFit
<1> HIDE DEF t
<1>7. sockets' \in [Kinds -> Seq(Links)]
  BY <1>5, <1>6 DEF DatagramsFit
<1>8. ASSUME NEW kind \in Kinds
      PROVE  IsInjective(sockets'[kind]) /\ Pool(kind)' = Pool(kind) \ {k}
  <2>1. CASE kind = own
    BY <1>5, <1>6, <2>1 DEF DatagramsFit, Pool
  <2>2. CASE kind # own
    <3>1. sockets'[kind] = sockets[kind]
      BY <1>6, <2>2 DEF DatagramsFit
    <3>2. k \notin Pool(kind) /\ IsInjective(sockets[kind])
      BY <1>1, <2>2, PoolLinks
    <3> QED BY <3>1, <3>2 DEF Pool
  <2> QED BY <2>1, <2>2
<1>9. PlacesRight' /\ SocketsRight' /\ Frozen
  <2>1. \A l \in {k} : Leaves(l)
    BY <1>4
  <2> QED BY <1>4, <1>8, <2>1, LeftPlaces
<1> QED BY <1>3, <1>4, <1>7, <1>9

LEMMA ShutSteps ==
  ASSUME DatagramAssumption, DatagramsRight, NEW k \in Links,
         Alert(k) \/ StartFails(k) \/ Forgotten(k) \/ Farewell(k)
  PROVE  DatagramsRight'
<1> USE DEF DatagramsRight
<1>1. Shut(k) /\ UNCHANGED <<setting, ended>>
  BY DEF Alert, StartFails, Broken, Forgotten, Farewell
<1>2. link[k].phase # "unused"
  <2>1. CASE Farewell(k)
    <3>1. k \in Pool("tinydtls_server")
      BY <2>1 DEF Farewell, Pool
    <3> QED BY <3>1, PoolLinks DEF Kinds
  <2>2. CASE ~ Farewell(k)
    BY <2>2 DEF Alert, StartFails, Forgotten
  <2> QED BY <2>1, <2>2
<1>3. /\ PlacesRight' /\ SocketsRight' /\ Frozen /\ link' \in [Links -> LinkSet]
      /\ sockets' \in [Kinds -> Seq(Links)] /\ \A l \in Links \ {k} : link'[l] = link[l]
  BY <1>1, <1>2, ShutPlaces
<1>4. /\ ask' \in [Asks -> AskSet] /\ struck' \in Seq(RemoteSet) /\ AsksRight'
      /\ \A r \in Asks : ask'[r].state = "open" /\ ask'[r].to.kind = "tinydtls"
                           => ask'[r] = ask[r] /\ ask[r].to.link # k
  <2>1. CASE Forgotten(k)
    <3>1. ask' = ask /\ struck' = struck /\ ~ \E r \in Asks : ask[r].state = "open" /\ ask[r].to.link = k
      BY <2>1 DEF Forgotten
    <3>2. ask' \in [Asks -> AskSet] /\ \A r \in Asks : AskMoves(ask[r], ask'[r])
      BY <3>1 DEF DatagramsFit, AskMoves
    <3>3. AsksRight' /\ struck' \in Seq(RemoteSet)
      BY <3>1, <3>2, AsksMove DEF DatagramsFit
    <3> QED BY <3>1, <3>2, <3>3
  <2>2. CASE Alert(k) \/ StartFails(k) \/ Farewell(k)
    <3>1. PICK own \in {"tinydtls", "tinydtls_server"} :
            /\ Strike(Remote(own, k, link[k].host))
            /\ link[k].kind = own
      <4>1. CASE Farewell(k)
        <5>1. k \in Pool("tinydtls_server")
          BY <4>1 DEF Farewell, Pool
        <5>2. link[k].kind = "tinydtls_server"
          BY <5>1, PoolLinks DEF Kinds
        <5> QED BY <4>1, <5>2 DEF Farewell
      <4>2. CASE Alert(k) \/ StartFails(k)
        BY <4>2 DEF Alert, StartFails, Broken
      <4> QED BY <2>2, <4>1, <4>2
    <3> DEFINE v == Remote(own, k, link[k].host)
    <3>2. v \in RemoteSet /\ v.kind = own /\ v.link = k
      <4>1. link[k].host \in Hosts /\ own \in Kinds
        BY DEF DatagramsFit, LinkSet, Kinds
      <4> QED BY <4>1, RemoteFits
    <3> HIDE DEF v
    <3>3. /\ ask' \in [Asks -> AskSet] /\ struck' \in Seq(RemoteSet) /\ AsksRight'
          /\ \A r \in Asks : ask'[r].state = "open" => ask'[r] = ask[r] /\ ~ Same(ask[r].to, v)
      <4>1. Strike(v)
        BY <3>1 DEF v
      <4> QED BY <3>2, <4>1, StrikeLeaves
    <3>4. ASSUME NEW r \in Asks, ask'[r].state = "open", ask'[r].to.kind = "tinydtls"
          PROVE  ask'[r] = ask[r] /\ ask[r].to.link # k
      <4>1. ask'[r] = ask[r] /\ ~ Same(ask[r].to, v)
        BY <3>3, <3>4
      <4>2. ConnectionKept(ask[r])
        BY DEF ConnectionsKept
      <4>3. CASE own = "tinydtls"
        BY <3>2, <3>4, <4>1, <4>3 DEF Same
      <4>4. CASE own = "tinydtls_server"
        BY <3>1, <3>4, <4>1, <4>2, <4>4 DEF ConnectionKept
      <4> QED BY <4>1, <4>3, <4>4
    <3> QED BY <3>3, <3>4
  <2> QED BY <2>1, <2>2
<1>5. ASSUME NEW q \in Asks PROVE ConnectionKept(ask[q])'
  <2>1. ask'[q].state = "open" /\ ask'[q].to.kind = "tinydtls" =>
          ask'[q] = ask[q] /\ link'[ask[q].to.link].phase # "closed"
    <3>1. ConnectionKept(ask[q])
      BY DEF ConnectionsKept
    <3>2. ask'[q].state = "open" /\ ask'[q].to.kind = "tinydtls"
            => ask'[q] = ask[q] /\ ask[q].to.link # k
      BY <1>4
    <3> QED BY <1>3, <3>1, <3>2 DEF ConnectionKept
  <2> QED BY <1>3, <2>1, ConnectionStays
<1>6. setting \in Settings /\ ended' \in SUBSET Kinds
  BY <1>1 DEF DatagramsFit
<1> QED BY <1>1, <1>3, <1>4, <1>5, <1>6, DatagramsMove

\* Messages for a DTLS connection are written at once or kept in order.
LEMMA HandedRight ==
  ASSUME NEW c \in LinkSet, NEW r \in Asks, c.written \o c.queue = c.handed,
         c.phase = "live" => c.queue = <<>>
  PROVE  /\ Handed(c, r) \in LinkSet
         /\ Handed(c, r).written \o Handed(c, r).queue = Handed(c, r).handed
         /\ Handed(c, r).phase = "live" => Handed(c, r).queue = <<>>
         /\ Handed(c, r).phase = c.phase /\ Handed(c, r).kind = c.kind
         /\ Handed(c, r).host = c.host /\ Handed(c, r).beside = c.beside
         /\ Handed(c, r).rendering = c.rendering
<1>1. c.queue \in Seq(Asks) /\ c.written \in Seq(Asks) /\ c.handed \in Seq(Asks)
  BY DEF LinkSet
<1>2. /\ Append(c.queue, r) \in Seq(Asks) /\ Append(c.written, r) \in Seq(Asks)
      /\ Append(c.handed, r) \in Seq(Asks)
  BY <1>1
<1>3. CASE c.phase = "live"
  <2>1. Handed(c, r) = [c EXCEPT !.written = Append(@, r), !.handed = Append(@, r)]
    BY <1>3 DEF Handed
  <2>2. Handed(c, r) \in LinkSet
    BY <1>2, <2>1 DEF LinkSet
  <2>3. /\ Handed(c, r).written = Append(c.written, r) /\ Handed(c, r).handed = Append(c.handed, r)
        /\ Handed(c, r).queue = c.queue /\ Handed(c, r).phase = c.phase /\ Handed(c, r).kind = c.kind
        /\ Handed(c, r).host = c.host /\ Handed(c, r).beside = c.beside
        /\ Handed(c, r).rendering = c.rendering
    BY <2>1 DEF LinkSet
  <2>4. c.handed = c.written
    BY <1>1, <1>3, ConcatEmptySeq
  <2>5. Append(c.written, r) \o <<>> = Append(c.written, r)
    BY <1>2, ConcatEmptySeq
  <2> QED BY <1>3, <2>2, <2>3, <2>4, <2>5
<1>4. CASE c.phase # "live"
  <2>1. Handed(c, r) = [c EXCEPT !.queue = Append(@, r), !.handed = Append(@, r)]
    BY <1>4 DEF Handed
  <2>2. Handed(c, r) \in LinkSet
    BY <1>2, <2>1 DEF LinkSet
  <2>3. /\ Handed(c, r).queue = Append(c.queue, r) /\ Handed(c, r).handed = Append(c.handed, r)
        /\ Handed(c, r).written = c.written /\ Handed(c, r).phase = c.phase /\ Handed(c, r).kind = c.kind
        /\ Handed(c, r).host = c.host /\ Handed(c, r).beside = c.beside
        /\ Handed(c, r).rendering = c.rendering
    BY <2>1 DEF LinkSet
  <2>4. c.written \o Append(c.queue, r) = Append(c.written \o c.queue, r)
    <3> DEFINE t == <<r>>
    <3>0. ASSUME NEW u \in Seq(Asks) PROVE Append(u, r) = u \o t
      OBVIOUS
    <3>1. /\ Append(c.queue, r) = c.queue \o t /\ t \in Seq(Asks)
          /\ Append(c.written \o c.queue, r) = (c.written \o c.queue) \o t
      <4>1. c.written \o c.queue \in Seq(Asks) /\ t \in Seq(Asks)
        BY <1>1
      <4> HIDE DEF t
      <4> QED BY <1>1, <3>0, <4>1
    <3> HIDE DEF t
    <3>2. (c.written \o c.queue) \o t = c.written \o (c.queue \o t)
      <4>1. ASSUME NEW x \in Seq(Asks), NEW y \in Seq(Asks), NEW z \in Seq(Asks)
            PROVE  (x \o y) \o z = x \o (y \o z)
        BY ConcatAssociative
      <4>2. c.written \in Seq(Asks) /\ c.queue \in Seq(Asks) /\ t \in Seq(Asks)
        BY <1>1, <3>1
      <4> QED BY <4>1, <4>2, Zenon
    <3> QED BY <3>1, <3>2
  <2> QED BY <1>4, <2>2, <2>3, <2>4
<1> QED BY <1>3, <1>4

\* A connection that goes on in its place.
LEMMA CalmSteps ==
  ASSUME DatagramAssumption, DatagramsRight, NEW k \in Links, NEW d \in LinkSet,
         UNCHANGED <<setting, ended, struck>>, link' = [link EXCEPT ![k] = d],
         link[k].phase # "unused", CalmLink(k), d.written \o d.queue = d.handed,
         d.phase = "live" => d.queue = <<>>, d.kind = "simple6" => d.queue = link[k].queue,
         sockets' \in [Kinds -> Seq(Links)],
         \A kind \in Kinds : IsInjective(sockets'[kind]) /\ Pool(kind)' = Pool(kind),
         ask' \in [Asks -> AskSet], AsksRight',
         \A r \in Asks : ask'[r].state = "open" /\ ask'[r].to.kind = "tinydtls" =>
           ask'[r] = ask[r] \/ (ask'[r].to.link = k /\ d.kind = "tinydtls" /\ d.phase # "closed")
  PROVE  DatagramsRight'
<1> USE DEF DatagramsRight
<1>1. link' \in [Links -> LinkSet] /\ link'[k] = d /\ \A l \in Links \ {k} : link'[l] = link[l]
  BY DEF DatagramsFit
<1>2. PlacesRight' /\ Frozen
  <2>1. \A l \in Links : CalmLink(l)
    BY <1>1 DEF CalmLink
  <2> QED BY <2>1, CalmPlaces
<1>3. ASSUME NEW l \in Links PROVE SocketRight(link[l])'
  <2>1. CASE l # k
    BY <1>1, <1>2, <2>1, LinkStays
  <2>2. CASE l = k
    <3>1. SocketRight(link[k])
      BY DEF SocketsRight
    <3>2. /\ d.phase # "unused" /\ d.kind = link[k].kind /\ d.beside = link[k].beside
          /\ \/ d.phase = link[k].phase
             \/ link[k].kind = "tinydtls" /\ d.phase \in {"handshake", "live"}
      BY <1>1, <1>2 DEF CalmLink, Frozen
    <3>3. /\ d.kind \in Kinds /\ (d.phase = "opening" => d.kind \in {"simple6", "tinydtls"})
          /\ (d.phase = "handshake" => d.kind = "tinydtls")
      BY <3>1, <3>2 DEF SocketRight
    <3>4. \A m \in d.beside : link'[m].phase # "unused"
      <4>1. \A m \in d.beside : m \in Links /\ link[m].phase # "unused"
        BY <3>1, <3>2 DEF SocketRight, DatagramsFit, LinkSet
      <4> QED BY <1>2, <4>1 DEF Frozen
    <3>5. link'[l] = d /\ (d.kind = "simple6" => d.queue = <<>>)
      BY <1>1, <2>2, <3>1, <3>2 DEF SocketRight
    <3> QED BY <3>2, <3>3, <3>4, <3>5 DEF SocketRight
  <2> QED BY <2>1, <2>2
<1>4. ASSUME NEW q \in Asks PROVE ConnectionKept(ask[q])'
  <2>1. CASE ask'[q] = ask[q]
    <3>1. ask'[q].state = "open" /\ ask'[q].to.kind = "tinydtls" =>
            ask'[q] = ask[q] /\ link'[ask[q].to.link].phase # "closed"
      <4>1. ConnectionKept(ask[q])
        BY DEF ConnectionsKept
      <4>2. \A l \in Links : link[l].phase # "closed" => link'[l].phase # "closed"
        BY <1>1 DEF CalmLink
      <4> QED BY <2>1, <4>1, <4>2 DEF ConnectionKept
    <3> QED BY <1>2, <3>1, ConnectionStays
  <2>2. CASE ask'[q] # ask[q]
    BY <1>1, <2>2 DEF ConnectionKept
  <2> QED BY <2>1, <2>2
<1>5. setting \in Settings /\ ended' \in SUBSET Kinds /\ struck' \in Seq(RemoteSet)
  BY DEF DatagramsFit
<1>6. SocketsRight'
  BY <1>3 DEF SocketsRight
<1> QED BY <1>1, <1>2, <1>4, <1>5, <1>6, DatagramsMove

LEMMA AsksSame ==
  ASSUME DatagramsFit, AsksRight, UNCHANGED <<ask, struck>>
  PROVE  ask' \in [Asks -> AskSet] /\ AsksRight'
<1>1. ask' \in [Asks -> AskSet] /\ \A r \in Asks : AskMoves(ask[r], ask'[r])
  BY DEF DatagramsFit, AskMoves
<1> QED BY <1>1, AsksMove

LEMMA PoolsSame ==
  ASSUME DatagramsFit, PlacesRight, UNCHANGED sockets
  PROVE  /\ sockets' \in [Kinds -> Seq(Links)]
         /\ \A kind \in Kinds : IsInjective(sockets'[kind]) /\ Pool(kind)' = Pool(kind)
BY PoolLinks DEF DatagramsFit, Pool

LEMMA ConnectionSteps ==
  ASSUME DatagramAssumption, DatagramsRight, NEW k \in Links,
         Connecting(k) \/ Shaken(k) \/ Rendered(k)
  PROVE  DatagramsRight'
<1> USE DEF DatagramsRight
<1>0. link[k] \in LinkSet /\ SocketRight(link[k]) /\ PlacedWell(k) /\ k \in DOMAIN link
  BY DEF DatagramsFit, SocketsRight, PlacesRight, LinksPlaced
<1>1. UNCHANGED <<setting, ended, struck, ask, sockets>>
  BY DEF Connecting, Shaken, Rendered
<1>2. PICK d : d = link'[k]
  OBVIOUS
<1>3. /\ d \in LinkSet /\ link' = [link EXCEPT ![k] = d] /\ link[k].phase # "unused" /\ CalmLink(k)
      /\ d.written \o d.queue = d.handed /\ (d.phase = "live" => d.queue = <<>>)
      /\ d.kind = "simple6" => d.queue = link[k].queue
  <2>1. CASE Connecting(k)
    <3>1. link[k].phase = "opening" /\ link[k].kind = "tinydtls" /\ d = [link[k] EXCEPT !.phase = "handshake"]
          /\ link' = [link EXCEPT ![k] = d]
      BY <1>0, <1>2, <2>1 DEF Connecting
    <3>2. d \in LinkSet
      BY <1>0, <3>1 DEF LinkSet
    <3>3. /\ d.phase = "handshake" /\ d.written = link[k].written /\ d.queue = link[k].queue
          /\ d.handed = link[k].handed /\ d.kind = link[k].kind /\ d.host = link[k].host
          /\ d.beside = link[k].beside /\ d.rendering = link[k].rendering
      BY <1>0, <3>1 DEF LinkSet
    <3>4. CalmLink(k)
      BY <1>2, <3>1, <3>3 DEF CalmLink
    <3> QED BY <1>0, <3>1, <3>2, <3>3, <3>4 DEF SocketRight
  <2>2. CASE Shaken(k)
    <3>1. link[k].phase = "handshake" /\ d = Flushed(link[k]) /\ link' = [link EXCEPT ![k] = d]
      BY <1>0, <1>2, <2>2 DEF Shaken
    <3>2. link[k].kind = "tinydtls"
      BY <1>0, <3>1 DEF SocketRight
    <3>3. link[k].written \o link[k].queue \in Seq(Asks) /\ <<>> \in Seq(Asks)
      BY <1>0 DEF LinkSet
    <3>4. /\ d \in LinkSet /\ d.phase = "live" /\ d.written = link[k].written \o link[k].queue
          /\ d.queue = <<>> /\ d.handed = link[k].handed /\ d.kind = link[k].kind
          /\ d.host = link[k].host /\ d.beside = link[k].beside /\ d.rendering = link[k].rendering
      BY <1>0, <3>1, <3>3 DEF LinkSet, Flushed
    <3>5. d.written \o d.queue = d.handed
      <4>1. d.written \o <<>> = d.written
        BY <3>3, <3>4, ConcatEmptySeq
      <4> QED BY <1>0, <3>4, <4>1 DEF SocketRight
    <3>6. CalmLink(k)
      BY <1>2, <3>1, <3>2, <3>4 DEF CalmLink
    <3> QED BY <3>1, <3>2, <3>4, <3>5, <3>6
  <2>3. CASE Rendered(k)
    <3>1. link[k].rendering /\ d = [link[k] EXCEPT !.rendering = FALSE] /\ link' = [link EXCEPT ![k] = d]
      BY <1>0, <1>2, <2>3 DEF Rendered
    <3>2. d \in LinkSet
      BY <1>0, <3>1 DEF LinkSet
    <3>3. /\ d.phase = link[k].phase /\ d.written = link[k].written /\ d.queue = link[k].queue
          /\ d.handed = link[k].handed /\ d.kind = link[k].kind /\ d.host = link[k].host
          /\ d.beside = link[k].beside /\ ~ d.rendering
      BY <1>0, <3>1 DEF LinkSet
    <3>4. link[k].phase # "unused"
      BY <1>0, <3>1 DEF SocketRight, Unopened
    <3>5. CalmLink(k)
      BY <1>2, <3>3, <3>4 DEF CalmLink
    <3> QED BY <1>0, <3>1, <3>2, <3>3, <3>4, <3>5 DEF SocketRight
  <2> QED BY <2>1, <2>2, <2>3
<1>4. ask' \in [Asks -> AskSet] /\ AsksRight'
  BY <1>1, AsksSame
<1>5. /\ sockets' \in [Kinds -> Seq(Links)]
      /\ \A kind \in Kinds : IsInjective(sockets'[kind]) /\ Pool(kind)' = Pool(kind)
  BY <1>1, PoolsSame
<1>6. UNCHANGED <<setting, ended, struck>> /\ \A r \in Asks : ask'[r] = ask[r]
  BY <1>1
<1> QED BY <1>3, <1>4, <1>5, <1>6, CalmSteps

-----------------------------------------------------------------------------
(* Sending again, visiting again, and errors from outside *)

LEMMA ResendRight ==
  ASSUME DatagramAssumption, DatagramsRight, NEW r \in Asks, Resend(r)
  PROVE  DatagramsRight'
<1> USE DEF DatagramsRight
<1>1. PICK k : k = ask[r].to.link
  OBVIOUS
<1>2. k \in Links /\ link[k].kind = "tinydtls" /\ link[k].phase # "closed"
  <2>1. ConnectionKept(ask[r])
    BY DEF ConnectionsKept
  <2> QED BY <1>1, <2>1 DEF Resend, ConnectionKept
<1>3. link[k] \in LinkSet /\ SocketRight(link[k])
  BY <1>2 DEF DatagramsFit, SocketsRight
<1>4. link[k].phase # "unused"
  BY <1>2, <1>3 DEF SocketRight, Unopened
<1>5. PICK d : d = Handed(link[k], r)
  OBVIOUS
<1>6. /\ d \in LinkSet /\ d.written \o d.queue = d.handed /\ (d.phase = "live" => d.queue = <<>>)
      /\ d.phase = link[k].phase /\ d.kind = link[k].kind /\ d.host = link[k].host
      /\ d.beside = link[k].beside /\ d.rendering = link[k].rendering
  <2>1. link[k].written \o link[k].queue = link[k].handed /\ (link[k].phase = "live" => link[k].queue = <<>>)
    BY <1>3 DEF SocketRight
  <2> QED BY <1>3, <1>5, <2>1, HandedRight
<1>7. /\ link' = [link EXCEPT ![k] = d] /\ link'[k] = d
      /\ UNCHANGED <<setting, ended, struck, ask, sockets>>
  BY <1>1, <1>2, <1>5 DEF Resend, DatagramsFit
<1>8. CalmLink(k)
  BY <1>4, <1>6, <1>7 DEF CalmLink
<1>9. ask' \in [Asks -> AskSet] /\ AsksRight'
  BY <1>7, AsksSame
<1>10. /\ sockets' \in [Kinds -> Seq(Links)]
       /\ \A kind \in Kinds : IsInjective(sockets'[kind]) /\ Pool(kind)' = Pool(kind)
  BY <1>7, PoolsSame
<1>11. UNCHANGED <<setting, ended, struck>> /\ \A q \in Asks : ask'[q] = ask[q]
  BY <1>7
<1>12. link' = [link EXCEPT ![k] = d] /\ d.kind # "simple6"
  BY <1>2, <1>6, <1>7
<1> QED BY <1>2, <1>4, <1>6, <1>8, <1>9, <1>10, <1>11, <1>12, CalmSteps

LEMMA VisitAgainRight ==
  ASSUME DatagramAssumption, DatagramsRight, NEW k \in Links, NEW h, VisitAgain(h, k)
  PROVE  DatagramsRight'
<1> USE DEF DatagramsRight
<1>1. /\ k \in Pool("tinydtls_server") /\ UNCHANGED <<setting, ask, ended, struck>>
      /\ sockets' = [sockets EXCEPT !["tinydtls_server"] = MovedToEnd(@, k)]
  BY DEF VisitAgain, PoolOf, Pool
<1>2. link[k] \in LinkSet /\ SocketRight(link[k]) /\ link[k].phase # "unused"
  BY <1>1, PoolLinks DEF DatagramsFit, SocketsRight, Kinds
<1>3. PICK d : d = [link[k] EXCEPT !.rendering = TRUE]
  OBVIOUS
<1>4. link' = [link EXCEPT ![k] = d] /\ link'[k] = d
  BY <1>3 DEF VisitAgain, DatagramsFit
<1>5. /\ d \in LinkSet /\ d.written \o d.queue = d.handed /\ (d.phase = "live" => d.queue = <<>>)
      /\ d.phase = link[k].phase /\ d.kind = link[k].kind /\ d.host = link[k].host
      /\ d.beside = link[k].beside
  BY <1>2, <1>3 DEF LinkSet, SocketRight
<1>6. CalmLink(k)
  BY <1>1, <1>2, <1>4, <1>5 DEF CalmLink
<1>7. /\ sockets' \in [Kinds -> Seq(Links)]
      /\ \A kind \in Kinds : IsInjective(sockets'[kind]) /\ Pool(kind)' = Pool(kind)
  BY <1>1, MovesKept DEF Kinds
<1>8. ask' \in [Asks -> AskSet] /\ AsksRight'
  BY <1>1, AsksSame
<1>9. UNCHANGED <<setting, ended, struck>> /\ \A q \in Asks : ask'[q] = ask[q]
  BY <1>1
<1>10. link' = [link EXCEPT ![k] = d] /\ d.queue = link[k].queue
  BY <1>2, <1>3, <1>4 DEF LinkSet
<1> QED BY <1>2, <1>5, <1>6, <1>7, <1>8, <1>9, <1>10, CalmSteps

LEMMA OutsideSteps ==
  ASSUME DatagramsRight, NEW r \in Asks, TimedOut(r) \/ Unreachable(HostOf(r))
  PROVE  DatagramsRight'
<1>1. CASE TimedOut(r)
  <2>1. ask[r].to \in RemoteSet
    BY DEF DatagramsRight, DatagramsFit, AskSet
  <2> QED BY <1>1, <2>1, ErrorSteps DEF TimedOut
<1>2. CASE Unreachable(HostOf(r))
  <2>1. Remote("udp6", NoLink, HostOf(r)) \in RemoteSet
    BY HostFits, RemoteFits DEF DatagramsRight, Kinds
  <2> QED BY <1>2, <2>1, ErrorSteps DEF Unreachable
<1> QED BY <1>1, <1>2
-----------------------------------------------------------------------------
(* Connections and sessions that are begun *)

LEMMA BegunConnection ==
  ASSUME DatagramAssumption, DatagramsRight, NEW k \in Links, link[k].phase = "unused",
         NEW own \in {"tinydtls", "tinydtls_server"}, NEW d \in LinkSet, d.kind = own, ~ d.rendering,
         d.phase = "live" \/ (own = "tinydtls" /\ d.phase = "opening"),
         \A l \in Pool(own) : link[l].host # d.host,
         d.written \o d.queue = d.handed, d.phase = "live" => d.queue = <<>>,
         \A l \in d.beside : link[l].phase # "unused",
         link' = [link EXCEPT ![k] = d], sockets' = [sockets EXCEPT ![own] = Append(@, k)],
         UNCHANGED <<setting, ended, struck>>, ask' \in [Asks -> AskSet], AsksRight',
         \A r \in Asks : ask'[r].state = "open" /\ ask'[r].to.kind = "tinydtls" =>
           ask'[r] = ask[r] \/ (ask'[r].to.link = k /\ own = "tinydtls")
  PROVE  DatagramsRight'
<1> USE DEF DatagramsRight
<1>1. link' \in [Links -> LinkSet] /\ link'[k] = d /\ \A l \in Links \ {k} : link'[l] = link[l]
  BY DEF DatagramsFit
<1>2. /\ link[k] = Unopened /\ \A kind \in Kinds : k \notin Pool(kind)
      /\ \A r \in Asks : ask[r].state = "open" /\ ask[r].to.kind = "tinydtls" => ask[r].to.link # k
  BY UnusedLinks
<1>3. own \in Kinds
  BY DEF Kinds
<1>4. sockets' \in [Kinds -> Seq(Links)] /\ \A kind \in Kinds :
        /\ IsInjective(sockets'[kind])
        /\ Pool(kind)' = IF kind = own THEN Pool(kind) \cup {k} ELSE Pool(kind)
  <2> DEFINE t == Append(sockets[own], k)
  <2>1. sockets[own] \in Seq(Links) /\ IsInjective(sockets[own]) /\ k \notin ToSet(sockets[own])
    BY <1>2, <1>3, PoolLinks DEF Pool
  <2>2. t \in Seq(Links) /\ IsInjective(t) /\ ToSet(t) = ToSet(sockets[own]) \cup {k}
    BY <2>1, AppendedPool
  <2>3. sockets' = [sockets EXCEPT ![own] = t]
    BY <1>3 DEF DatagramsFit
  <2> HIDE DEF t
  <2>4. sockets' \in [Kinds -> Seq(Links)]
    BY <2>2, <2>3 DEF DatagramsFit
  <2>5. ASSUME NEW kind \in Kinds
        PROVE  /\ IsInjective(sockets'[kind])
               /\ Pool(kind)' = IF kind = own THEN Pool(kind) \cup {k} ELSE Pool(kind)
    <3>1. sockets'[kind] = IF kind = own THEN t ELSE sockets[kind]
      BY <2>3 DEF DatagramsFit
    <3>2. IsInjective(sockets[kind])
      BY PoolLinks
    <3>3. CASE kind = own
      <4>1. sockets'[kind] = t /\ ToSet(t) = Pool(kind) \cup {k}
        BY <2>2, <3>1, <3>3 DEF Pool
      <4>2. Pool(kind)' = ToSet(sockets'[kind])
        BY DEF Pool
      <4> QED BY <2>2, <3>3, <4>1, <4>2, Zenon
    <3>4. CASE kind # own
      BY <3>1, <3>2, <3>4 DEF Pool
    <3> QED BY <3>3, <3>4
  <2> QED BY <2>4, <2>5
<1>5. PoolsRight' /\ LinksPlaced' /\ Frozen
  <2>1. /\ link'[k].kind = own /\ ~ link'[k].rendering /\ ended' = ended
        /\ link'[k].phase = "live" \/ (own = "tinydtls" /\ link'[k].phase = "opening")
        /\ \A l \in Pool(own) : link[l].host # link'[k].host
    BY <1>1
  <2>2. DatagramsFit /\ SocketsRight /\ PlacesRight
    OBVIOUS
  <2> QED BY <1>1, <1>3, <1>4, <2>1, <2>2, BegunInPool, Zenon
<1>6. OpeningSockets' \subseteq OpeningSockets /\ Pool("simple6")' = Pool("simple6")
  <2>1. ASSUME NEW l \in OpeningSockets' PROVE l \in OpeningSockets
    <3>1. l \in Links /\ link'[l].phase = "opening" /\ link'[l].kind = "simple6"
      BY DEF OpeningSockets
    <3>2. l # k
      BY <1>1, <3>1
    <3> QED BY <1>1, <3>1, <3>2 DEF OpeningSockets
  <2> QED BY <1>4, <2>1 DEF Kinds
<1>7. InUse' \subseteq InUse
  BY <1>6 DEF InUse
<1>8. PlacesRight'
  BY <1>5, <1>6, <1>7, RacesStay, RoomStays DEF PlacesRight
<1>9. ASSUME NEW l \in Links PROVE SocketRight(link[l])'
  <2>1. CASE l # k
    BY <1>1, <1>5, <2>1, LinkStays
  <2>2. CASE l = k
    <3>1. \A m \in d.beside : link'[m].phase # "unused"
      <4>1. \A m \in d.beside : m \in Links /\ m # k
        BY DEF LinkSet
      <4> QED BY <1>1, <4>1
    <3>2. link'[l] = d
      BY <1>1, <2>2
    <3> QED BY <1>3, <3>1, <3>2 DEF SocketRight
  <2> QED BY <2>1, <2>2
<1>10. ASSUME NEW q \in Asks PROVE ConnectionKept(ask[q])'
  <2>1. CASE ask'[q] = ask[q]
    <3>1. ask'[q].state = "open" /\ ask'[q].to.kind = "tinydtls" =>
            ask'[q] = ask[q] /\ link'[ask[q].to.link].phase # "closed"
      <4>1. ConnectionKept(ask[q])
        BY DEF ConnectionsKept
      <4> QED BY <1>1, <1>2, <2>1, <4>1 DEF ConnectionKept
    <3> QED BY <1>5, <3>1, ConnectionStays
  <2>2. CASE ask'[q] # ask[q]
    BY <1>1, <2>2 DEF ConnectionKept
  <2> QED BY <2>1, <2>2
<1>11. setting \in Settings /\ ended' \in SUBSET Kinds /\ struck' \in Seq(RemoteSet)
  BY DEF DatagramsFit
<1>12. SocketsRight'
  BY <1>9 DEF SocketsRight
<1> QED BY <1>1, <1>4, <1>8, <1>10, <1>11, <1>12, DatagramsMove

LEMMA VisitRight ==
  ASSUME DatagramAssumption, DatagramsRight, NEW k \in Links, NEW h \in setting.visitors, Visit(h, k)
  PROVE  DatagramsRight'
<1> USE DEF DatagramsRight
<1>1. /\ UNCHANGED <<setting, ask, ended, struck>> /\ link[k].phase = "unused"
      /\ PoolOf("tinydtls_server", h) = {}
      /\ sockets' = [sockets EXCEPT !["tinydtls_server"] = Append(@, k)]
  BY DEF Visit, Spare
<1>2. PICK d : d = [Unopened EXCEPT !.phase = "live", !.kind = "tinydtls_server", !.host = h]
  OBVIOUS
<1>3. link' = [link EXCEPT ![k] = d]
  BY <1>2 DEF Visit
<1>4. h \in Hosts
  BY DEF DatagramsFit, Hosts
<1>5. /\ d \in LinkSet /\ d.kind = "tinydtls_server" /\ ~ d.rendering /\ d.phase = "live"
      /\ d.host = h /\ d.queue = <<>> /\ d.beside = {} /\ d.written = <<>> /\ d.handed = <<>>
  <2>1. Unopened \in LinkSet
    BY DEF Unopened, LinkSet, Hosts
  <2>2. d \in LinkSet
    BY <1>2, <1>4, <2>1 DEF LinkSet, Kinds
  <2> QED BY <1>2, <2>2 DEF Unopened
<1>6. \A l \in Pool("tinydtls_server") : link[l].host # d.host
  BY <1>1, <1>5 DEF PoolOf, Pool
<1>7. d.written \o d.queue = d.handed
  <2>1. <<>> \o <<>> = <<>>
    OBVIOUS
  <2> QED BY <1>5, <2>1
<1>8. ask' \in [Asks -> AskSet] /\ AsksRight'
  BY <1>1, AsksSame
<1>9. UNCHANGED <<setting, ended, struck>> /\ \A q \in Asks : ask'[q] = ask[q]
  BY <1>1
<1>10. \A l \in d.beside : link[l].phase # "unused"
  BY <1>5
<1> QED BY <1>1, <1>3, <1>5, <1>6, <1>7, <1>8, <1>9, <1>10, BegunConnection

LEMMA SecureRight ==
  ASSUME DatagramAssumption, DatagramsRight, NEW r \in Asks, Secure(r)
  PROVE  DatagramsRight'
<1> USE DEF DatagramsRight
<1>1. PICK h : h = HostOf(r)
  OBVIOUS
<1>2. PICK k \in IF PoolOf("tinydtls", h) # {} THEN PoolOf("tinydtls", h) ELSE Spare :
        /\ link' = [link EXCEPT ![k] =
             Handed(IF @.phase # "unused" THEN @
                    ELSE [Unopened EXCEPT !.phase = "opening", !.kind = "tinydtls",
                                          !.host = h, !.beside = Starting], r)]
        /\ sockets' = IF link[k].phase # "unused" THEN sockets
                      ELSE [sockets EXCEPT !["tinydtls"] = Append(@, k)]
        /\ ask' = [ask EXCEPT ![r] = Registered(Remote("tinydtls", k, h))]
  BY <1>1 DEF Secure
<1>3. UNCHANGED <<setting, ended, struck>> /\ h \in Hosts
  BY <1>1, HostFits DEF Secure
<1>4. /\ k \in Links
      /\ \/ k \in Pool("tinydtls") /\ link[k].phase # "unused"
         \/ link[k].phase = "unused" /\ \A l \in Pool("tinydtls") : link[l].host # h
  <2>1. CASE PoolOf("tinydtls", h) # {}
    <3>1. k \in Pool("tinydtls")
      BY <1>2, <2>1 DEF PoolOf, Pool
    <3> QED BY <3>1, PoolLinks DEF Kinds
  <2>2. CASE PoolOf("tinydtls", h) = {}
    <3>1. k \in Links /\ link[k].phase = "unused"
      BY <1>2, <2>2 DEF Spare
    <3>2. \A l \in Pool("tinydtls") : link[l].host # h
      BY <2>2 DEF PoolOf, Pool
    <3> QED BY <3>1, <3>2
  <2> QED BY <2>1, <2>2
<1>5. PICK b : b = Registered(Remote("tinydtls", k, h))
  OBVIOUS
<1>6. b \in AskSet /\ AskMoves(ask[r], b) /\ b.to.link = k
  <2>1. PICK v : v = Remote("tinydtls", k, h)
    OBVIOUS
  <2>2. v \in RemoteSet /\ v.link = k
    BY <1>3, <1>4, <2>1, RemoteFits DEF Kinds
  <2> QED BY <1>5, <2>1, <2>2, RegisteredFits
<1>7. ask' = [ask EXCEPT ![r] = b]
  BY <1>2, <1>5
<1>8. ask' \in [Asks -> AskSet] /\ AsksRight'
  BY <1>3, <1>6, <1>7, OneAsk
<1>9. \A q \in Asks : ask'[q] = ask[q] \/ ask'[q].to.link = k
  BY <1>6, <1>7 DEF DatagramsFit
<1>10. PICK c : c = IF link[k].phase # "unused" THEN link[k]
                    ELSE [Unopened EXCEPT !.phase = "opening", !.kind = "tinydtls",
                                          !.host = h, !.beside = Starting]
  OBVIOUS
<1>11. PICK d : d = Handed(c, r)
  OBVIOUS
<1>12. link' = [link EXCEPT ![k] = d] /\ link'[k] = d
  BY <1>2, <1>4, <1>10, <1>11 DEF DatagramsFit
<1>13. SocketRight(link[k]) /\ link[k] \in LinkSet
  BY <1>4 DEF DatagramsFit, SocketsRight
<1>14. CASE k \in Pool("tinydtls") /\ link[k].phase # "unused"
  <2>1. c = link[k]
    BY <1>10, <1>14
  <2>2. c \in LinkSet /\ c.written \o c.queue = c.handed /\ (c.phase = "live" => c.queue = <<>>)
    BY <1>13, <2>1 DEF SocketRight
  <2>3. /\ d \in LinkSet /\ d.written \o d.queue = d.handed /\ (d.phase = "live" => d.queue = <<>>)
        /\ d.phase = c.phase /\ d.kind = c.kind /\ d.host = c.host
        /\ d.beside = c.beside /\ d.rendering = c.rendering
    BY <1>11, <2>2, HandedRight
  <2>4. CalmLink(k)
    BY <1>12, <1>14, <2>1, <2>3 DEF CalmLink
  <2>5. /\ sockets' \in [Kinds -> Seq(Links)]
        /\ \A kind \in Kinds : IsInjective(sockets'[kind]) /\ Pool(kind)' = Pool(kind)
    <3>1. UNCHANGED sockets
      BY <1>2, <1>14
    <3> QED BY <3>1, PoolsSame
  <2>6. d.kind = "tinydtls" /\ d.phase # "closed"
    BY <1>14, <2>1, <2>3, PoolLinks DEF Kinds
  <2>7. \A q \in Asks : ask'[q].state = "open" /\ ask'[q].to.kind = "tinydtls" =>
          ask'[q] = ask[q] \/ (ask'[q].to.link = k /\ d.kind = "tinydtls" /\ d.phase # "closed")
    BY <1>9, <2>6
  <2>8. link' = [link EXCEPT ![k] = d] /\ link[k].phase # "unused"
    BY <1>12, <1>14
  <2> QED BY <1>3, <1>4, <1>8, <2>3, <2>4, <2>5, <2>6, <2>7, <2>8, CalmSteps
<1>15. CASE link[k].phase = "unused" /\ \A l \in Pool("tinydtls") : link[l].host # h
  <2>1. c = [Unopened EXCEPT !.phase = "opening", !.kind = "tinydtls", !.host = h, !.beside = Starting]
    BY <1>10, <1>15
  <2>2. /\ c \in LinkSet /\ c.phase = "opening" /\ c.kind = "tinydtls" /\ c.host = h /\ c.beside = Starting
        /\ c.queue = <<>> /\ c.written = <<>> /\ c.handed = <<>> /\ ~ c.rendering
    <3>1. Unopened \in LinkSet /\ Starting \in SUBSET Links
      BY DEF Unopened, LinkSet, Hosts, Starting
    <3>2. c \in LinkSet
      BY <1>3, <2>1, <3>1 DEF LinkSet, Kinds
    <3> QED BY <2>1, <3>2 DEF Unopened
  <2>3. c.written \o c.queue = c.handed
    <3>1. <<>> \o <<>> = <<>>
      OBVIOUS
    <3> QED BY <2>2, <3>1
  <2>4. /\ d \in LinkSet /\ d.written \o d.queue = d.handed /\ (d.phase = "live" => d.queue = <<>>)
        /\ d.phase = c.phase /\ d.kind = c.kind /\ d.host = c.host
        /\ d.beside = c.beside /\ d.rendering = c.rendering
    BY <1>11, <2>2, <2>3, HandedRight
  <2>5. \A l \in d.beside : link[l].phase # "unused"
    BY <2>2, <2>4 DEF Starting
  <2>6. sockets' = [sockets EXCEPT !["tinydtls"] = Append(@, k)] /\ link' = [link EXCEPT ![k] = d]
    BY <1>2, <1>12, <1>15
  <2>7. /\ d.kind = "tinydtls" /\ ~ d.rendering /\ d.phase = "opening"
        /\ \A l \in Pool("tinydtls") : link[l].host # d.host
    BY <1>15, <2>2, <2>4
  <2>8. link[k].phase = "unused"
    BY <1>15
  <2>9. \A q \in Asks : ask'[q].state = "open" /\ ask'[q].to.kind = "tinydtls" =>
          ask'[q] = ask[q] \/ ask'[q].to.link = k
    BY <1>9
  <2>10. k \in Links
    BY <1>4
  <2> QED BY <1>3, <1>8, <2>4, <2>5, <2>6, <2>7, <2>8, <2>9, <2>10, BegunConnection
<1> QED BY <1>4, <1>14, <1>15

LEMMA OneMore ==
  ASSUME NEW S, IsFiniteSet(S), NEW x
  PROVE  IsFiniteSet(S \cup {x}) /\ Cardinality(S \cup {x}) <= Cardinality(S) + 1
<1>1. /\ IsFiniteSet(S \cup {x})
      /\ Cardinality(S \cup {x}) = IF x \in S THEN Cardinality(S) ELSE Cardinality(S) + 1
  BY FS_AddElement
<1>2. Cardinality(S) \in Nat
  BY FS_CardinalityType
<1> QED BY <1>1, <1>2

\* A socket that is opened, with room made for it.
LEMMA OpenRight ==
  ASSUME DatagramAssumption, DatagramsRight, NEW r \in Asks, Open(r)
  PROVE  DatagramsRight'
<1> USE DEF DatagramsRight
<1>1. PICK h, s, n, gone, rest :
        /\ h = HostOf(r) /\ s = sockets["simple6"] /\ n = Purged
        /\ gone = ToSet(SubSeq(s, 1, n)) /\ rest = SubSeq(s, n + 1, Len(s))
  OBVIOUS
<1>2. PICK k \in Spare :
        /\ link' = [l \in Links |->
             IF l \in gone THEN [link[l] EXCEPT !.phase = "closed"]
             ELSE IF l = k THEN [Unopened EXCEPT !.phase = "opening", !.kind = "simple6",
                                                 !.host = h, !.beside = Starting]
             ELSE link[l]]
        /\ sockets' = [sockets EXCEPT !["simple6"] = SubSeq(@, n + 1, Len(@))]
        /\ WaitFor(r, Remote("simple6", k, h))
  BY <1>1 DEF Open
<1>3. /\ k \in Links /\ link[k].phase = "unused" /\ UNCHANGED <<setting, ended, struck>> /\ h \in Hosts
      /\ \A l \in Pool("simple6") : link[l].host # h
  BY <1>1, HostFits DEF Open, Spare, PoolOf, Pool
<1>4. s \in Seq(Links) /\ IsInjective(s) /\ ToSet(s) = Pool("simple6") /\ Len(s) \in Nat
  BY <1>1, PoolLinks DEF Kinds, Pool
<1>5. n \in 0 .. Len(s) /\ Len(s) - n <= max_sockets - 1
  BY <1>1, <1>4 DEF Purged, DatagramAssumption
<1>6. /\ rest \in Seq(Links) /\ IsInjective(rest) /\ ToSet(rest) = Pool("simple6") \ gone
      /\ gone \subseteq Pool("simple6") /\ Cardinality(Pool("simple6") \ gone) <= max_sockets - 1
  <2>1. /\ rest \in Seq(Links) /\ IsInjective(rest) /\ ToSet(rest) = ToSet(s) \ gone
        /\ gone \subseteq ToSet(s) /\ Cardinality(ToSet(rest)) = Len(s) - n
    BY <1>1, <1>4, <1>5, CutPool
  <2> QED BY <1>4, <1>5, <2>1
<1>7. gone \in SUBSET Links /\ k \notin gone /\ \A l \in gone : link[l].kind = "simple6" /\ link[l].phase # "unused"
  BY <1>3, <1>6, PoolLinks DEF Kinds
<1>8. PICK d : d = [Unopened EXCEPT !.phase = "opening", !.kind = "simple6", !.host = h, !.beside = Starting]
  OBVIOUS
<1>9. /\ d \in LinkSet /\ d.phase = "opening" /\ d.kind = "simple6" /\ d.host = h /\ d.beside = Starting
      /\ d.queue = <<>> /\ d.written = <<>> /\ d.handed = <<>> /\ ~ d.rendering
  <2>1. Unopened \in LinkSet /\ Starting \in SUBSET Links
    BY DEF Unopened, LinkSet, Hosts, Starting
  <2>2. d \in LinkSet
    BY <1>3, <1>8, <2>1 DEF LinkSet, Kinds
  <2> QED BY <1>8, <2>2 DEF Unopened
<1>10. /\ link'[k] = d /\ \A l \in Links \ (gone \cup {k}) : link'[l] = link[l]
       /\ \A l \in gone : link'[l] = [link[l] EXCEPT !.phase = "closed"]
  BY <1>2, <1>3, <1>7, <1>8
<1>11. ASSUME NEW l \in gone PROVE Leaves(l) /\ link'[l] \in LinkSet
  <2>1. link[l] \in LinkSet /\ PlacedWell(l) /\ link[l].kind = "simple6" /\ link[l].phase # "unused"
    BY <1>7 DEF DatagramsFit, PlacesRight, LinksPlaced
  <2>2. ~ link[l].rendering
    BY <2>1, PoolLinks DEF PlacedWell, Kinds
  <2>3. PICK c, e : c = link[l] /\ e = link'[l]
    OBVIOUS
  <2>4. e = [c EXCEPT !.phase = "closed"] /\ c \in LinkSet
    BY <1>10, <2>1, <2>3
  <2>5. /\ e \in LinkSet /\ e.phase = "closed" /\ e.kind = c.kind /\ e.host = c.host
        /\ e.beside = c.beside /\ e.rendering = c.rendering /\ e.queue = c.queue
        /\ e.written = c.written /\ e.handed = c.handed
    BY <2>4 DEF LinkSet
  <2> QED BY <2>1, <2>2, <2>3, <2>5 DEF Leaves
<1>12. link' \in [Links -> LinkSet]
  <2>1. \A l \in Links : link'[l] \in LinkSet
    BY <1>9, <1>10, <1>11 DEF DatagramsFit
  <2> QED BY <1>2, <2>1
<1>13. sockets' = [sockets EXCEPT !["simple6"] = rest] /\ sockets' \in [Kinds -> Seq(Links)]
  BY <1>1, <1>2, <1>6 DEF DatagramsFit, Kinds
<1>14. ASSUME NEW kind \in Kinds
       PROVE  IsInjective(sockets'[kind]) /\ Pool(kind)' = Pool(kind) \ gone
  <2>1. CASE kind = "simple6"
    BY <1>6, <1>13, <2>1 DEF DatagramsFit, Pool
  <2>2. CASE kind # "simple6"
    <3>1. sockets'[kind] = sockets[kind]
      BY <1>13, <2>2 DEF DatagramsFit
    <3>2. Pool(kind) \cap gone = {} /\ IsInjective(sockets[kind])
      BY <1>7, <2>2, PoolLinks
    <3> QED BY <3>1, <3>2 DEF Pool
  <2> QED BY <2>1, <2>2
<1>15. PoolsRight' /\ LinksPlaced' /\ Frozen
  <2> DEFINE joined == {}
             own == "simple6"
  <2>1. joined \in SUBSET {k} /\ joined = {} /\ own \in Kinds /\ own = "simple6"
    BY DEF Kinds
  <2> HIDE DEF joined, own
  <2>2. \A kind \in Kinds :
          /\ IsInjective(sockets'[kind])
          /\ Pool(kind)' = (Pool(kind) \ gone) \cup (IF kind = own THEN joined ELSE {})
    BY <1>14, <2>1
  <2>3. /\ link'[k].kind = own /\ ~ link'[k].rendering /\ ended' = ended
        /\ \A l \in Pool(own) : link[l].host # link'[k].host
        /\ IF joined = {} THEN own = "simple6" /\ link'[k].phase = "opening"
           ELSE link'[k].phase = "live" \/ (own = "tinydtls" /\ link'[k].phase = "opening")
    BY <1>3, <1>9, <1>10, <2>1
  <2> QED BY <1>3, <1>7, <1>10, <1>11, <2>1, <2>2, <2>3, BegunPlaces
<1>16. \A l \in Starting : l \in Links /\ link[l].phase # "unused" /\ l # k
  BY <1>3 DEF Starting
<1>17. /\ Pool("simple6")' = Pool("simple6") \ gone
       /\ \A l \in OpeningSockets' : l = k \/ l \in OpeningSockets
  <2>1. ASSUME NEW l \in OpeningSockets', l # k PROVE l \in OpeningSockets
    <3>1. l \in Links /\ link'[l].phase = "opening" /\ link'[l].kind = "simple6"
      BY DEF OpeningSockets
    <3>2. l \notin gone
      BY <1>11, <3>1 DEF Leaves
    <3> QED BY <1>10, <2>1, <3>1, <3>2 DEF OpeningSockets
  <2> QED BY <1>14, <2>1 DEF Kinds
<1>18. \A l \in InUse' : l = k \/ l \in InUse
  BY <1>17 DEF InUse
<1>19. /\ InUse \subseteq Links /\ OpeningSockets \subseteq Links
       /\ \A l \in InUse : link[l].phase # "unused" /\ l # k
       /\ \A l \in OpeningSockets : l \in Starting
  BY <1>3, PoolLinks DEF InUse, OpeningSockets, Starting, Kinds
<1>20. RacesSeen'
  <2>1. ASSUME NEW l \in InUse', l # k, link'[l].host = h PROVE l \in d.beside
    <3>1. l \in InUse /\ l \in Links /\ link[l].phase # "unused"
      BY <1>18, <1>19, <2>1
    <3>2. link[l].host = h
      BY <1>15, <2>1, <3>1 DEF Frozen
    <3>3. l \in OpeningSockets
      BY <1>3, <3>1, <3>2 DEF InUse
    <3> QED BY <1>9, <1>19, <3>3
  <2>2. ASSUME NEW l \in OpeningSockets', NEW m \in InUse', link'[l].host = link'[m].host, l # m
        PROVE  Beside(l, m)'
    <3>1. link'[k].host = h /\ link'[k].beside = d.beside
      BY <1>9, <1>10
    <3>2. CASE l = k
      <4>1. m \in d.beside
        BY <2>1, <2>2, <3>1, <3>2
      <4> QED BY <3>1, <3>2, <4>1 DEF Beside
    <3>3. CASE m = k
      <4>1. l \in InUse'
        BY DEF InUse
      <4>2. l \in d.beside
        BY <2>1, <2>2, <3>1, <3>3, <4>1
      <4> QED BY <3>1, <3>3, <4>2 DEF Beside
    <3>4. CASE l # k /\ m # k
      <4>1. l \in OpeningSockets /\ m \in InUse /\ l \in Links /\ m \in Links
        BY <1>17, <1>18, <1>19, <3>4
      <4>2. link[l].phase # "unused" /\ link[m].phase # "unused"
        BY <1>16, <1>19, <4>1
      <4>3. link[l].host = link[m].host
        BY <1>15, <2>2, <4>1, <4>2 DEF Frozen
      <4>4. Beside(l, m)
        BY <2>2, <4>1, <4>3 DEF PlacesRight, RacesSeen
      <4> QED BY <1>15, <4>1, <4>4, BesideStays
    <3> QED BY <3>2, <3>3, <3>4
  <2> QED BY <2>2 DEF RacesSeen
<1>21. RoomLeft'
  <2>1. /\ IsFiniteSet(InUse) /\ IsFiniteSet(Beginners) /\ IsFiniteSet(Beginners')
        /\ IsFiniteSet(Pool("simple6") \ gone)
    <3>1. \A T \in SUBSET Links : IsFiniteSet(T)
      BY FS_Subset DEF DatagramAssumption
    <3>2. Beginners \subseteq Links /\ Beginners' \subseteq Links /\ Pool("simple6") \ gone \subseteq Links
      BY PoolLinks DEF Beginners, Kinds
    <3> QED BY <1>19, <3>1, <3>2
  <2>2. /\ Cardinality(InUse) \in Nat /\ Cardinality(Beginners) \in Nat
        /\ Cardinality(Beginners') \in Nat /\ Cardinality(Pool("simple6") \ gone) \in Nat
    BY <2>1, FS_CardinalityType
  <2>3. max_sockets \in Nat
    BY DEF DatagramAssumption
  <2>4. CASE OpeningSockets = {}
    <3>1. InUse' \subseteq (Pool("simple6") \ gone) \cup {k}
      BY <1>17, <2>4 DEF InUse
    <3>2. /\ IsFiniteSet((Pool("simple6") \ gone) \cup {k})
          /\ Cardinality((Pool("simple6") \ gone) \cup {k}) <= Cardinality(Pool("simple6") \ gone) + 1
      BY <2>1, OneMore
    <3>3. Cardinality(InUse') <= Cardinality((Pool("simple6") \ gone) \cup {k}) /\ IsFiniteSet(InUse')
      BY <3>1, <3>2, FS_Subset
    <3>4. Cardinality(InUse') \in Nat /\ Cardinality((Pool("simple6") \ gone) \cup {k}) \in Nat
      BY <3>2, <3>3, FS_CardinalityType
    <3> QED BY <1>6, <2>2, <2>3, <3>2, <3>3, <3>4 DEF RoomLeft
  <2>5. CASE OpeningSockets # {}
    <3>1. InUse' \subseteq InUse \cup {k}
      BY <1>18
    <3>2. IsFiniteSet(InUse \cup {k}) /\ Cardinality(InUse \cup {k}) <= Cardinality(InUse) + 1
      BY <2>1, OneMore
    <3>3. Cardinality(InUse') <= Cardinality(InUse \cup {k}) /\ IsFiniteSet(InUse')
      BY <3>1, <3>2, FS_Subset
    <3>4. Cardinality(InUse') \in Nat /\ Cardinality(InUse \cup {k}) \in Nat
      BY <3>2, <3>3, FS_CardinalityType
    <3>5. k \in Beginners' /\ k \notin Beginners
      <4>1. link'[k].beside # {}
        BY <1>9, <1>10, <1>19, <2>5
      <4>2. link[k].beside = {}
        BY <1>3, UnusedLinks DEF Unopened
      <4> QED BY <1>3, <4>1, <4>2 DEF Beginners
    <3>6. Beginners \cup {k} \subseteq Beginners'
      BY <1>15, <3>5, BeginnersStay
    <3>7. Cardinality(Beginners \cup {k}) = Cardinality(Beginners) + 1
      BY <2>1, <3>5, FS_AddElement
    <3>8. Cardinality(Beginners \cup {k}) <= Cardinality(Beginners')
      BY <2>1, <3>6, FS_Subset
    <3>9. Cardinality(InUse) <= max_sockets + Cardinality(Beginners)
      BY DEF PlacesRight, RoomLeft
    <3> QED BY <2>2, <2>3, <3>2, <3>3, <3>4, <3>7, <3>8, <3>9 DEF RoomLeft
  <2> QED BY <2>4, <2>5
<1>22. ASSUME NEW l \in Links PROVE SocketRight(link[l])'
  <2>1. CASE l \in gone
    BY <1>11, <1>15, <2>1, LinkStays DEF Leaves
  <2>2. CASE l \notin gone /\ l # k
    <3>1. link'[l] = link[l]
      BY <1>10, <2>2
    <3> QED BY <1>15, <3>1, LinkStays
  <2>3. CASE l = k
    <3>1. \A m \in d.beside : link'[m].phase # "unused"
      BY <1>9, <1>15, <1>16 DEF Frozen
    <3>2. <<>> \o <<>> = <<>>
      OBVIOUS
    <3>3. d.written \o d.queue = d.handed
      BY <1>9, <3>2
    <3>4. link'[l] = d
      BY <1>10, <2>3
    <3> QED BY <1>9, <3>1, <3>3, <3>4 DEF SocketRight, Kinds
  <2> QED BY <2>1, <2>2, <2>3
<1>23. PICK b : b = [state |-> "waiting", to |-> Remote("simple6", k, h), since |-> 0]
  OBVIOUS
<1>24. b \in AskSet /\ AskMoves(ask[r], b) /\ b.state = "waiting" /\ ask' = [ask EXCEPT ![r] = b]
  <2>1. PICK v : v = Remote("simple6", k, h)
    OBVIOUS
  <2>2. v \in RemoteSet /\ v.kind = "simple6"
    BY <1>3, <2>1, RemoteFits DEF Kinds
  <2>3. b = [state |-> "waiting", to |-> v, since |-> 0] /\ ask' = [ask EXCEPT ![r] = b]
    BY <1>2, <1>23, <2>1 DEF WaitFor
  <2> QED BY <2>2, <2>3 DEF AskSet, AskMoves
<1>25. ask' \in [Asks -> AskSet] /\ struck' \in Seq(RemoteSet) /\ AsksRight'
  BY <1>3, <1>24, OneAsk
<1>26. ASSUME NEW q \in Asks PROVE ConnectionKept(ask[q])'
  <2>1. ask'[q].state = "open" => ask'[q] = ask[q]
    BY <1>24 DEF DatagramsFit
  <2>2. ask'[q].state = "open" /\ ask'[q].to.kind = "tinydtls" =>
          ask'[q] = ask[q] /\ link'[ask[q].to.link].phase # "closed"
    <3>1. ConnectionKept(ask[q])
      BY DEF ConnectionsKept
    <3>2. ASSUME NEW l \in Links, link[l].kind = "tinydtls", link[l].phase # "closed"
          PROVE  link'[l].phase # "closed"
      BY <1>7, <1>9, <1>10, <3>2
    <3> QED BY <2>1, <3>1, <3>2 DEF ConnectionKept
  <2> QED BY <1>15, <2>2, ConnectionStays
<1>27. setting \in Settings /\ ended' \in SUBSET Kinds
  BY <1>3 DEF DatagramsFit
<1>28. SocketsRight' /\ PlacesRight'
  BY <1>15, <1>20, <1>21, <1>22 DEF SocketsRight, PlacesRight
<1> QED BY <1>3, <1>12, <1>13, <1>25, <1>26, <1>27, <1>28, DatagramsMove

\* A socket that is there takes its place, and that of another one of its host.
LEMMA OpenedRight ==
  ASSUME DatagramAssumption, DatagramsRight, NEW k \in Links, Opened(k)
  PROVE  DatagramsRight'
<1> USE DEF DatagramsRight
<1>1. /\ link[k].phase = "opening" /\ link[k].kind = "simple6"
      /\ link' = [link EXCEPT ![k].phase = "live"] /\ UNCHANGED <<setting, ended, struck>>
      /\ ask' = [r \in Asks |-> IF r \in Waiters(k) THEN Registered(ask[r].to) ELSE ask[r]]
      /\ sockets' = IF "simple6" \in ended THEN sockets
                    ELSE [sockets EXCEPT !["simple6"] = Pooled(@, k)]
  BY DEF Opened
<1>2. k \in OpeningSockets /\ ~ link[k].rendering /\ \A kind \in Kinds : k \notin Pool(kind)
  <2>1. k \in OpeningSockets
    BY <1>1 DEF OpeningSockets
  <2> QED BY <2>1, OpeningLinks
<1>3. link[k] \in LinkSet /\ SocketRight(link[k])
  BY DEF DatagramsFit, SocketsRight
<1>4. /\ link' \in [Links -> LinkSet] /\ \A l \in Links \ {k} : link'[l] = link[l]
      /\ link'[k].phase = "live" /\ link'[k].kind = "simple6" /\ link'[k].host = link[k].host
      /\ link'[k].beside = link[k].beside /\ ~ link'[k].rendering
      /\ link'[k].queue = link[k].queue /\ link'[k].written = link[k].written
      /\ link'[k].handed = link[k].handed
  <2>1. PICK c, d : c = link[k] /\ d = [c EXCEPT !.phase = "live"]
    OBVIOUS
  <2>2. /\ d \in LinkSet /\ d.phase = "live" /\ d.kind = c.kind /\ d.host = c.host
        /\ d.beside = c.beside /\ d.rendering = c.rendering /\ d.queue = c.queue
        /\ d.written = c.written /\ d.handed = c.handed
    BY <1>3, <2>1 DEF LinkSet
  <2>3. link' = [link EXCEPT ![k] = d] /\ link'[k] = d
    BY <1>1, <2>1 DEF DatagramsFit
  <2>4. link' \in [Links -> LinkSet] /\ \A l \in Links \ {k} : link'[l] = link[l]
    BY <2>2, <2>3 DEF DatagramsFit
  <2> QED BY <1>1, <1>2, <2>1, <2>2, <2>3, <2>4
<1>5. Frozen
  BY <1>1, <1>4 DEF Frozen
<1>6. \A l, m \in Pool("simple6") : link[l].host = link[m].host => l = m
  BY DEF PlacesRight, PoolsRight, PoolRight, Kinds
<1>7. /\ sockets' \in [Kinds -> Seq(Links)] /\ \A kind \in Kinds : IsInjective(sockets'[kind])
      /\ \A kind \in Kinds \ {"simple6"} : Pool(kind)' = Pool(kind)
      /\ \/ "simple6" \in ended /\ Pool("simple6")' = Pool("simple6")
         \/ Pool("simple6")' = {l \in Pool("simple6") : link[l].host # link[k].host} \cup {k}
  <2>1. CASE "simple6" \in ended
    <3>1. UNCHANGED sockets
      BY <1>1, <2>1
    <3> QED BY <2>1, <3>1, PoolsSame DEF Kinds
  <2>2. CASE "simple6" \notin ended
    <3>1. PICK s : s = sockets["simple6"]
      OBVIOUS
    <3>2. s \in Seq(Links) /\ IsInjective(s) /\ ToSet(s) = Pool("simple6")
      BY <3>1, PoolLinks DEF Kinds, Pool
    <3>3. PICK t : t = Pooled(s, k)
      OBVIOUS
    <3>4. /\ t \in Seq(Links) /\ IsInjective(t)
          /\ ToSet(t) = {l \in Pool("simple6") : link[l].host # link[k].host} \cup {k}
      <4>1. k \notin ToSet(s) /\ \A l, m \in ToSet(s) : link[l].host = link[m].host => l = m
        BY <1>2, <1>6, <3>2 DEF Kinds
      <4>2. /\ t \in Seq(Links) /\ IsInjective(t)
            /\ ToSet(t) = {l \in ToSet(s) : link[l].host # link[k].host} \cup {k}
        BY <3>2, <3>3, <4>1, PooledAt
      <4> QED BY <3>2, <4>2
    <3>5. sockets' = [sockets EXCEPT !["simple6"] = t]
      BY <1>1, <2>2, <3>1, <3>3 DEF DatagramsFit
    <3>6. sockets' \in [Kinds -> Seq(Links)] /\ sockets'["simple6"] = t
      BY <3>4, <3>5 DEF DatagramsFit, Kinds
    <3>7. ASSUME NEW kind \in Kinds \ {"simple6"}
          PROVE  IsInjective(sockets'[kind]) /\ Pool(kind)' = Pool(kind)
      <4>1. sockets'[kind] = sockets[kind]
        BY <3>5 DEF DatagramsFit
      <4> QED BY <4>1, PoolLinks DEF Pool
    <3>8. Pool("simple6")' = ToSet(t) /\ IsInjective(sockets'["simple6"])
      BY <3>4, <3>6 DEF Pool
    <3> QED BY <3>4, <3>6, <3>7, <3>8
  <2> QED BY <2>1, <2>2
<1>8. ASSUME NEW kind \in Kinds PROVE PoolRight(kind)'
  <2>1. CASE Pool(kind)' = Pool(kind)
    <3>1. \A l \in Pool(kind)' : link'[l].phase = link[l].phase
      BY <1>2, <1>4, <2>1, PoolLinks
    <3>2. IsInjective(sockets'[kind]) /\ Pool(kind)' \subseteq Pool(kind) /\ Pool(kind) \subseteq Links
      BY <1>7, <2>1, PoolLinks
    <3> QED BY <1>5, <3>1, <3>2, PoolStays
  <2>2. CASE /\ kind = "simple6"
             /\ Pool("simple6")' = {l \in Pool("simple6") : link[l].host # link[k].host} \cup {k}
    <3>1. PoolRight("simple6")
      BY DEF PlacesRight, PoolsRight, Kinds
    <3>2. ASSUME NEW l \in Pool("simple6")', l # k
          PROVE  l \in Pool("simple6") /\ link[l].host # link[k].host /\ link'[l] = link[l]
      BY <1>4, <2>2, <3>2, PoolLinks DEF Kinds
    <3>3. ASSUME NEW l \in Pool("simple6")'
          PROVE  link'[l].kind = "simple6" /\ link'[l].phase = "live"
      <4>1. CASE l = k
        BY <1>4, <4>1
      <4>2. CASE l # k
        BY <3>1, <3>2, <4>2 DEF PoolRight
      <4> QED BY <4>1, <4>2
    <3>4. ASSUME NEW l \in Pool("simple6")', NEW m \in Pool("simple6")', link'[l].host = link'[m].host
          PROVE  l = m
      <4>1. CASE l # k /\ m # k
        BY <1>6, <3>2, <3>4, <4>1
      <4>2. CASE l = k /\ m # k
        BY <1>4, <3>2, <3>4, <4>2
      <4>3. CASE l # k /\ m = k
        BY <1>4, <3>2, <3>4, <4>3
      <4> QED BY <4>1, <4>2, <4>3
    <3>5. IsInjective(sockets'["simple6"])
      BY <1>7 DEF Kinds
    <3> QED BY <2>2, <3>3, <3>4, <3>5 DEF PoolRight
  <2> QED BY <1>7, <2>1, <2>2
<1>9. ASSUME NEW l \in Links PROVE PlacedWell(l)'
  <2>1. CASE l = k
    <3>1. k \in Pool("simple6")' \/ "simple6" \in ended'
      BY <1>1, <1>7
    <3> QED BY <1>4, <2>1, <3>1 DEF PlacedWell, Pool
  <2>2. CASE l # k /\ l \in Pool("simple6") /\ link[l].host = link[k].host
    <3>1. Beside(k, l)
      BY <1>2, <2>2 DEF PlacesRight, RacesSeen, InUse
    <3>2. Beside(k, l)' /\ link'[l].host = link'[k].host
      BY <1>4, <1>5, <2>2, <3>1, BesideStays
    <3>3. Overtaken(l)'
      BY <3>2 DEF Beside, Overtaken
    <3>4. link'[l] = link[l] /\ link[l].kind = "simple6" /\ PlacedWell(l)
      BY <1>4, <2>2, PoolLinks DEF PlacesRight, LinksPlaced, Kinds
    <3>5. ~ link[l].rendering
      BY <3>4, PoolLinks DEF PlacedWell, Kinds
    <3> QED BY <3>3, <3>4, <3>5 DEF PlacedWell
  <2>3. CASE l # k /\ ~ (l \in Pool("simple6") /\ link[l].host = link[k].host)
    <3>1. link'[l] = link[l] /\ PlacedWell(l)
      BY <1>4, <2>3 DEF PlacesRight, LinksPlaced
    <3>2. ASSUME NEW kind \in Kinds, l \in Pool(kind) PROVE l \in Pool(kind)'
      <4>1. CASE kind = "simple6"
        BY <1>7, <2>3, <3>2, <4>1
      <4>2. CASE kind # "simple6"
        BY <1>7, <3>2, <4>2
      <4> QED BY <4>1, <4>2
    <3>3. link'[l].rendering => l \in Pool("tinydtls_server")'
      BY <3>1, <3>2 DEF PlacedWell, Kinds
    <3> QED BY <1>1, <1>5, <3>1, <3>2, <3>3, PlaceStays
  <2> QED BY <2>1, <2>2, <2>3
<1>10. OpeningSockets' \subseteq OpeningSockets /\ InUse' \subseteq InUse
  <2>1. ASSUME NEW l \in OpeningSockets' PROVE l \in OpeningSockets
    <3>1. l \in Links /\ link'[l].phase = "opening" /\ link'[l].kind = "simple6"
      BY DEF OpeningSockets
    <3> QED BY <1>2, <1>4, <3>1 DEF OpeningSockets
  <2>2. \A l \in Pool("simple6")' : l \in Pool("simple6") \/ l = k
    BY <1>7
  <2> QED BY <1>2, <2>1, <2>2 DEF InUse
<1>11. PlacesRight'
  BY <1>5, <1>8, <1>9, <1>10, RacesStay, RoomStays DEF PlacesRight, PoolsRight, LinksPlaced
<1>12. ASSUME NEW l \in Links PROVE SocketRight(link[l])'
  <2>1. CASE l # k
    BY <1>4, <1>5, <2>1, LinkStays
  <2>2. CASE l = k
    <3>1. \A m \in link[k].beside : m \in Links /\ link[m].phase # "unused"
      BY <1>3 DEF SocketRight, LinkSet
    <3>2. \A m \in link'[k].beside : link'[m].phase # "unused"
      BY <1>4, <1>5, <3>1 DEF Frozen
    <3>3. /\ link'[k].written \o link'[k].queue = link'[k].handed /\ link'[k].queue = <<>>
          /\ link'[k].kind = "simple6" /\ link'[k].phase = "live"
      BY <1>1, <1>3, <1>4 DEF SocketRight
    <3> QED BY <2>2, <3>2, <3>3 DEF SocketRight, Kinds
  <2> QED BY <2>1, <2>2
<1>13. ASSUME NEW r \in Asks
       PROVE  /\ ask'[r] \in AskSet /\ AskMoves(ask[r], ask'[r])
              /\ ask'[r] = ask[r] \/ ask'[r].to.kind # "tinydtls"
  <2>1. ask[r] \in AskSet /\ AskRight(ask[r])
    BY DEF DatagramsFit, AsksRight
  <2>2. CASE r \in Waiters(k)
    <3>1. PICK v : v = ask[r].to
      OBVIOUS
    <3>2. v \in RemoteSet /\ v.kind # "tinydtls"
      BY <2>1, <2>2, <3>1 DEF Waiters, AskRight, AskSet
    <3>3. ask'[r] = Registered(v)
      BY <1>1, <2>2, <3>1
    <3> QED BY <3>2, <3>3, RegisteredFits
  <2>3. CASE r \notin Waiters(k)
    BY <1>1, <2>1, <2>3 DEF AskMoves
  <2> QED BY <2>2, <2>3
<1>14. ask' \in [Asks -> AskSet] /\ struck' \in Seq(RemoteSet) /\ AsksRight'
  <2>1. ask' = [r \in Asks |-> ask'[r]]
    BY <1>1
  <2>2. ask' \in [Asks -> AskSet]
    BY <1>13, <2>1
  <2>3. AsksRight'
    BY <1>1, <1>13, <2>2, AsksMove
  <2> QED BY <1>1, <2>2, <2>3 DEF DatagramsFit
<1>15. ASSUME NEW q \in Asks PROVE ConnectionKept(ask[q])'
  <2>1. ask'[q].state = "open" /\ ask'[q].to.kind = "tinydtls" =>
          ask'[q] = ask[q] /\ link'[ask[q].to.link].phase # "closed"
    <3>1. ConnectionKept(ask[q])
      BY DEF ConnectionsKept
    <3>2. \A l \in Links : link[l].phase # "closed" => link'[l].phase # "closed"
      BY <1>4
    <3> QED BY <1>13, <3>1, <3>2 DEF ConnectionKept
  <2> QED BY <1>5, <2>1, ConnectionStays
<1>16. setting \in Settings /\ ended' \in SUBSET Kinds
  BY <1>1 DEF DatagramsFit
<1>17. SocketsRight'
  BY <1>12 DEF SocketsRight
<1> QED BY <1>1, <1>4, <1>7, <1>11, <1>14, <1>15, <1>16, <1>17, DatagramsMove

\* An interface that is shut down closes its links from the front, all or up to one that raises.
LEMMA ClosesFits ==
  ASSUME DatagramsFit, PlacesRight, NEW kind \in Kinds
  PROVE  Closes(kind) \in 0 .. Len(sockets[kind])
<1>1. PICK s : s = sockets[kind]
  OBVIOUS
<1>2. Len(s) \in Nat /\ DOMAIN s = 1 .. Len(s)
  <2>1. s \in Seq(Links)
    BY <1>1 DEF DatagramsFit
  <2> QED BY <2>1, LenProperties
<1>3. PICK new : new = {i \in DOMAIN s : link[s[i]].phase = "opening"}
  OBVIOUS
<1>4. ASSUME new # {} PROVE Min(new) \in 1 .. Len(s)
  <2>1. new \in SUBSET Nat /\ new \subseteq 1 .. Len(s)
    BY <1>2, <1>3
  <2>2. \E i \in new : \A j \in new : i <= j
    BY <1>4, <2>1, LeastNat
  <2>3. Min(new) \in new
    BY <2>2, Zenon DEF Min
  <2> QED BY <2>1, <2>3
<1>5. ClosedConnections(s) = IF new = {} THEN Len(s) ELSE Min(new)
  BY <1>3 DEF ClosedConnections
<1> QED BY <1>1, <1>2, <1>4, <1>5 DEF Closes

LEMMA ShutDownRight ==
  ASSUME DatagramAssumption, DatagramsRight, NEW own \in Kinds, ShutDown(own)
  PROVE  DatagramsRight'
<1> USE DEF DatagramsRight
<1>1. PICK s, n, gone, rest :
        /\ s = sockets[own] /\ n = Closes(own)
        /\ gone = ToSet(SubSeq(s, 1, n)) /\ rest = SubSeq(s, n + 1, Len(s))
  OBVIOUS
<1>2. /\ link' = [k \in Links |-> IF k \in gone
                                    THEN [link[k] EXCEPT !.phase = "closed", !.rendering = FALSE]
                                    ELSE link[k]]
      /\ sockets' = [sockets EXCEPT ![own] = SubSeq(@, n + 1, Len(@))]
      /\ ask' = [r \in Asks |-> IF ask[r].state = "open" /\ ask[r].to.kind = own
                                  THEN Failed(ask[r]) ELSE ask[r]]
      /\ ended' = ended \cup {own} /\ UNCHANGED <<setting, struck>>
  BY <1>1 DEF ShutDown, ClosedLinks
<1>3. s \in Seq(Links) /\ IsInjective(s) /\ ToSet(s) = Pool(own) /\ n \in 0 .. Len(s)
  BY <1>1, PoolLinks, ClosesFits DEF Pool
<1>4. /\ rest \in Seq(Links) /\ IsInjective(rest) /\ ToSet(rest) = Pool(own) \ gone
      /\ gone \subseteq Pool(own)
  <2>1. /\ rest \in Seq(Links) /\ IsInjective(rest) /\ ToSet(rest) = ToSet(s) \ gone
        /\ gone \subseteq ToSet(s)
    BY <1>1, <1>3, CutPool
  <2> QED BY <1>3, <2>1
<1>5. gone \in SUBSET Links /\ \A l \in gone : link[l].kind = own /\ link[l].phase # "unused"
  BY <1>4, PoolLinks
<1>6. \A l \in Links \ gone : link'[l] = link[l]
  BY <1>2
<1>7. ASSUME NEW l \in gone PROVE Leaves(l) /\ link'[l] \in LinkSet
  <2>1. PICK c, e : c = link[l] /\ e = link'[l]
    OBVIOUS
  <2>2. e = [c EXCEPT !.phase = "closed", !.rendering = FALSE] /\ c \in LinkSet
    BY <1>2, <1>5, <2>1 DEF DatagramsFit
  <2>3. /\ e \in LinkSet /\ e.phase = "closed" /\ e.kind = c.kind /\ e.host = c.host
        /\ e.beside = c.beside /\ ~ e.rendering /\ e.queue = c.queue
        /\ e.written = c.written /\ e.handed = c.handed
    BY <2>2 DEF LinkSet
  <2> QED BY <1>5, <2>1, <2>3 DEF Leaves
<1>8. link' \in [Links -> LinkSet]
  <2>1. \A l \in Links : link'[l] \in LinkSet
    BY <1>6, <1>7 DEF DatagramsFit
  <2> QED BY <1>2, <2>1
<1>9. sockets' = [sockets EXCEPT ![own] = rest] /\ sockets' \in [Kinds -> Seq(Links)]
  BY <1>1, <1>2, <1>4 DEF DatagramsFit
<1>10. ASSUME NEW kind \in Kinds
       PROVE  IsInjective(sockets'[kind]) /\ Pool(kind)' = Pool(kind) \ gone
  <2>1. CASE kind = own
    BY <1>4, <1>9, <2>1 DEF DatagramsFit, Pool
  <2>2. CASE kind # own
    <3>1. sockets'[kind] = sockets[kind]
      BY <1>9, <2>2 DEF DatagramsFit
    <3>2. Pool(kind) \cap gone = {} /\ IsInjective(sockets[kind])
      BY <1>5, <2>2, PoolLinks
    <3> QED BY <3>1, <3>2 DEF Pool
  <2> QED BY <2>1, <2>2
<1>11. PlacesRight' /\ SocketsRight' /\ Frozen
  <2>1. ended \subseteq ended'
    BY <1>2
  <2> QED BY <1>5, <1>6, <1>7, <1>10, <2>1, LeftPlaces
<1>12. ASSUME NEW r \in Asks
       PROVE  /\ ask'[r] \in AskSet /\ AskMoves(ask[r], ask'[r])
              /\ ask'[r].state = "open" => ask'[r] = ask[r] /\ ask[r].to.kind # own
  <2>1. CASE ask[r].state = "open" /\ ask[r].to.kind = own
    BY <1>2, <2>1, FailedFits
  <2>2. CASE ~ (ask[r].state = "open" /\ ask[r].to.kind = own)
    BY <1>2, <2>2 DEF DatagramsFit, AskMoves
  <2> QED BY <2>1, <2>2
<1>13. ask' \in [Asks -> AskSet] /\ struck' \in Seq(RemoteSet) /\ AsksRight'
  <2>1. ask' = [r \in Asks |-> ask'[r]]
    BY <1>2
  <2>2. ask' \in [Asks -> AskSet]
    BY <1>12, <2>1
  <2>3. AsksRight'
    BY <1>2, <1>12, <2>2, AsksMove
  <2> QED BY <1>2, <2>2, <2>3 DEF DatagramsFit
<1>14. ASSUME NEW q \in Asks PROVE ConnectionKept(ask[q])'
  <2>1. ask'[q].state = "open" /\ ask'[q].to.kind = "tinydtls" =>
          ask'[q] = ask[q] /\ link'[ask[q].to.link].phase # "closed"
    <3>1. ConnectionKept(ask[q])
      BY DEF ConnectionsKept
    <3>2. ask'[q].state = "open" => ask'[q] = ask[q] /\ ask[q].to.kind # own
      BY <1>12
    <3>3. \A l \in Links : link[l].kind # own => link'[l] = link[l]
      BY <1>5, <1>6
    <3> QED BY <3>1, <3>2, <3>3 DEF ConnectionKept
  <2> QED BY <1>11, <2>1, ConnectionStays
<1>15. setting \in Settings /\ ended' \in SUBSET Kinds
  BY <1>2 DEF DatagramsFit
<1> QED BY <1>2, <1>8, <1>9, <1>11, <1>13, <1>14, <1>15, DatagramsMove

-----------------------------------------------------------------------------
(* DatagramInv *)

LEMMA DatagramsStep ==
  ASSUME DatagramAssumption, DatagramsRight, [NextDatagrams]_datagramVars
  PROVE  DatagramsRight'
<1>1. CASE UNCHANGED datagramVars
  <2>1. UNCHANGED <<setting, link, sockets, ask, ended, struck>>
    BY <1>1 DEF datagramVars
  <2>2. ask' \in [Asks -> AskSet] /\ struck' \in Seq(RemoteSet) /\ AsksRight'
    BY <2>1, AsksSame DEF DatagramsRight, DatagramsFit
  <2>3. \A r \in Asks : ask'[r] = ask[r]
    BY <2>1
  <2> QED BY <2>1, <2>2, <2>3, AsksOnly
<1>2. ASSUME NEW r \in Asks,
             \/ Refused(r) \/ LookUp(r) \/ Resolved(r) \/ NotFound(r) \/ SendFails(r) \/ Reuse(r)
             \/ Open(r) \/ Secure(r) \/ Resend(r) \/ Heard(r) \/ TimedOut(r)
      PROVE  DatagramsRight'
  BY <1>2, AskSteps, SendFailsRight, ReuseRight, OpenRight, SecureRight, ResendRight, OutsideSteps
<1>3. ASSUME NEW k \in Links,
             \/ Opened(k) \/ OpenFails(k) \/ Connecting(k) \/ Shaken(k) \/ Alert(k) \/ StartFails(k)
             \/ Forgotten(k) \/ Farewell(k) \/ Rendered(k)
      PROVE  DatagramsRight'
  BY <1>3, OpenedRight, OpenFailsRight, ConnectionSteps, ShutSteps
<1>4. ASSUME NEW k \in Links, NEW h \in setting.visitors, Visit(h, k) \/ VisitAgain(h, k)
      PROVE  DatagramsRight'
  BY <1>4, VisitRight, VisitAgainRight
<1>5. ASSUME NEW r \in Asks, Unreachable(HostOf(r)) PROVE DatagramsRight'
  BY <1>5, OutsideSteps
<1>6. ASSUME NEW kind \in Kinds, ShutDown(kind) PROVE DatagramsRight'
  BY <1>6, ShutDownRight
<1> QED BY <1>1, <1>2, <1>3, <1>4, <1>5, <1>6, Zenon DEF NextDatagrams

LEMMA DatagramsHold ==
  ASSUME DatagramAssumption, DatagramsRight
  PROVE  DatagramInv
<1> USE DEF DatagramsRight
<1>1. ErrorsReach
  <2>1. ASSUME NEW r \in Asks
        PROVE  (ask[r].state = "open" => ~ Hit(ask[r])) /\ (ask[r].state = "struck" => Hit(ask[r]))
    BY DEF AsksRight, AskRight
  <2> QED BY <2>1 DEF ErrorsReach, Hit
<1>2. DtlsInOrder
  <2>1. ASSUME NEW k \in Links
        PROVE  /\ link[k].written \o link[k].queue = link[k].handed
               /\ link[k].phase = "live" => link[k].queue = <<>>
    BY DEF SocketsRight, SocketRight
  <2>2. ASSUME NEW r \in Asks, ask[r].state = "open", ask[r].to.kind = "tinydtls"
        PROVE  link[ask[r].to.link].phase # "closed"
    BY <2>2 DEF ConnectionsKept, ConnectionKept
  <2> QED BY <2>1, <2>2 DEF DtlsInOrder
<1>3. PoolsSound
  <2>1. ASSUME NEW kind \in Kinds
        PROVE  /\ \A k \in ToSet(sockets[kind]) : link[k].phase \notin {"unused", "closed"}
               /\ \A k, l \in ToSet(sockets[kind]) : link[k].host = link[l].host => k = l
    BY PoolLinks DEF PlacesRight, PoolsRight, PoolRight, Pool
  <2>2. ASSUME NEW k \in Links, NEW kind \in Kinds, link[k].phase = "live", link[k].kind = kind
        PROVE  k \in ToSet(sockets[kind]) \/ kind \in ended \/ Overtaken(k)
    BY <2>2 DEF PlacesRight, LinksPlaced, PlacedWell, Pool
  <2>3. Len(sockets["simple6"]) <= max_sockets + Cardinality(Beginners)
    <3>1. PICK s : s = sockets["simple6"]
      OBVIOUS
    <3>2. s \in Seq(Links) /\ IsInjective(s) /\ ToSet(s) = Pool("simple6")
      BY <3>1, PoolLinks DEF Kinds, Pool
    <3>3. Cardinality(Pool("simple6")) = Len(s)
      BY <3>2, PoolSize
    <3>4. InUse \subseteq Links /\ Pool("simple6") \subseteq InUse /\ Beginners \subseteq Links
      BY PoolLinks DEF InUse, OpeningSockets, Beginners, Kinds
    <3>5. \A T \in SUBSET Links : IsFiniteSet(T) /\ Cardinality(T) \in Nat
      BY FS_Subset, FS_CardinalityType DEF DatagramAssumption
    <3>6. Cardinality(Pool("simple6")) <= Cardinality(InUse)
      BY <3>4, <3>5, FS_Subset
    <3>7. Cardinality(InUse) <= max_sockets + Cardinality(Beginners)
      BY DEF PlacesRight, RoomLeft
    <3>8. Cardinality(InUse) \in Nat /\ Cardinality(Beginners) \in Nat /\ Len(s) \in Nat
      BY <3>2, <3>4, <3>5
    <3> QED BY <3>1, <3>3, <3>6, <3>7, <3>8 DEF DatagramAssumption
  <2> QED BY <2>1, <2>2, <2>3 DEF PoolsSound, Beginners
<1>4. SessionsSound
  <2>1. ASSUME NEW k \in Links, link[k].rendering
        PROVE  link[k].phase = "live" /\ PoolOf("tinydtls_server", link[k].host) = {k}
    <3>1. k \in Pool("tinydtls_server")
      BY <2>1 DEF PlacesRight, LinksPlaced, PlacedWell
    <3>2. PoolRight("tinydtls_server")
      BY DEF PlacesRight, PoolsRight, Kinds
    <3> QED BY <3>1, <3>2 DEF PoolRight, PoolOf, Pool
  <2> QED BY <2>1 DEF SessionsSound
<1> QED BY <1>1, <1>2, <1>3, <1>4 DEF DatagramInv

\* However many sockets, sessions and requests there are, and whatever their context has been
\* told: an error fails all that waits for its remote and nothing else, what is handed to a DTLS
\* connection is written in that order and once, pools hold one live link per host and no more of
\* them than max_sockets and the races of Open allow, and a DTLS server renders only for sessions
\* that are still those of their visitors (transports/udp6.py, simple6.py, tinydtls.py,
\* tinydtls_server.py).
THEOREM DatagramsSound ==
  ASSUME DatagramAssumption
  PROVE  SpecDatagrams => []DatagramInv
<1>1. InitDatagrams => DatagramsRight
  BY DatagramsStart
<1>2. DatagramsRight /\ [NextDatagrams]_datagramVars => DatagramsRight'
  BY DatagramsStep
<1>3. DatagramsRight => DatagramInv
  BY DatagramsHold
<1> QED BY <1>1, <1>2, <1>3, PTL DEF SpecDatagrams

-----------------------------------------------------------------------------
(* The transports over streams (StreamTransport): units and messages, the connections, the steps. *)

\* FlattenSeq of two sequences one behind the other.
LEMMA FlattenConcat ==
  ASSUME NEW S, NEW a \in Seq(Seq(S)), NEW b \in Seq(Seq(S))
  PROVE  FlattenSeq(a \o b) = FlattenSeq(a) \o FlattenSeq(b)
<1> DEFINE Agree(c) == FlattenSeq(a \o c) = FlattenSeq(a) \o FlattenSeq(c)
           P == {n \in Nat : \A c \in Seq(Seq(S)) : Len(c) = n => Agree(c)}
<1>0. FlattenSeq(a) \in Seq(S)
  BY FlattenAppend
<1>1. 0 \in P
  <2>1. ASSUME NEW c \in Seq(Seq(S)), Len(c) = 0 PROVE Agree(c)
    <3>1. c = <<>> /\ a \o c = a
      BY <2>1
    <3>2. FlattenSeq(c) = <<>>
      BY <3>1 DEF FlattenSeq
    <3>3. FlattenSeq(a) \o <<>> = FlattenSeq(a)
      BY <1>0
    <3> QED BY <3>1, <3>2, <3>3
  <2> HIDE DEF Agree
  <2> QED BY <2>1
<1>2. ASSUME NEW n \in Nat, n \in P PROVE n + 1 \in P
  <2>1. ASSUME NEW c \in Seq(Seq(S)), Len(c) = n + 1 PROVE Agree(c)
    <3>1. PICK front : front = SubSeq(c, 1, n)
      OBVIOUS
    <3>2. PICK last : last = c[n + 1]
      OBVIOUS
    <3>3. front \in Seq(Seq(S)) /\ Len(front) = n /\ last \in Seq(S) /\ c = Append(front, last)
      BY <2>1, <3>1, <3>2
    <3>4. a \o front \in Seq(Seq(S)) /\ a \o c = Append(a \o front, last)
      BY <3>3
    <3>5. FlattenSeq(a \o c) = FlattenSeq(a \o front) \o last
      BY <3>3, <3>4, FlattenAppend
    <3>6. FlattenSeq(front) \in Seq(S) /\ FlattenSeq(c) = FlattenSeq(front) \o last
      BY <3>3, FlattenAppend
    <3>7. FlattenSeq(a \o front) = FlattenSeq(a) \o FlattenSeq(front)
      BY <1>2, <3>3
    <3>8. (FlattenSeq(a) \o FlattenSeq(front)) \o last = FlattenSeq(a) \o (FlattenSeq(front) \o last)
      <4>1. PICK x : x = FlattenSeq(a)
        OBVIOUS
      <4>2. PICK y : y = FlattenSeq(front)
        OBVIOUS
      <4>3. x \in Seq(S) /\ y \in Seq(S)
        BY <1>0, <3>6, <4>1, <4>2
      <4>4. ASSUME NEW e \in Seq(S), NEW f \in Seq(S), NEW g \in Seq(S)
            PROVE  (e \o f) \o g = e \o (f \o g)
        BY ConcatAssociative
      <4>5. (x \o y) \o last = x \o (y \o last)
        BY <3>3, <4>3, <4>4, Zenon
      <4> QED BY <4>1, <4>2, <4>5
    <3> QED BY <3>5, <3>6, <3>7, <3>8, Zenon
  <2> HIDE DEF Agree
  <2> QED BY <2>1
<1>3. Nat \subseteq P
  <2> HIDE DEF P
  <2> QED BY <1>1, <1>2, NatSets
<1>4. Len(b) \in P
  <2> HIDE DEF P
  <2> QED BY <1>3
<1> QED BY <1>4

LEMMA OneIsSeq ==
  ASSUME NEW S, NEW m \in S
  PROVE  <<m>> \in Seq(S)
OBVIOUS

\* The end of a sequence; one more element is the last of every end.
LEMMA EndOf ==
  ASSUME NEW S, NEW a \in Seq(S), NEW n \in Nat, n <= Len(a)
  PROVE  /\ SubSeq(a, n + 1, Len(a)) \in Seq(S) /\ Len(SubSeq(a, n + 1, Len(a))) = Len(a) - n
         /\ \A i \in 1 .. Len(a) - n : SubSeq(a, n + 1, Len(a))[i] = a[n + i]
<1>1. PICK l \in Nat : l = Len(a)
  OBVIOUS
<1>2. \A i \in n + 1 .. l : a[i] \in S
  BY <1>1
<1>3. PICK e : e = SubSeq(a, n + 1, l)
  OBVIOUS
<1>4. /\ e \in Seq(S) /\ Len(e) = IF n + 1 <= l THEN l - (n + 1) + 1 ELSE 0
      /\ \A i \in 1 .. l - (n + 1) + 1 : e[i] = a[n + 1 + i - 1]
  <2>1. n + 1 \in Int /\ l \in Int
    BY <1>1
  <2> QED BY <1>2, <1>3, <2>1, SubSeqProperties
<1>5. Len(e) = l - n
  BY <1>1, <1>4
<1>6. ASSUME NEW i \in 1 .. l - n PROVE e[i] = a[n + i]
  <2>1. i \in 1 .. l - (n + 1) + 1 /\ n + 1 + i - 1 = n + i
    BY <1>1
  <2> QED BY <1>4, <2>1
<1> QED BY <1>1, <1>3, <1>4, <1>5, <1>6

LEMMA EndGrows ==
  ASSUME NEW S, NEW a \in Seq(S), NEW n \in Nat, n <= Len(a), NEW m \in S
  PROVE  SubSeq(Append(a, m), n + 1, Len(Append(a, m))) = SubSeq(a, n + 1, Len(a)) \o <<m>>
<1>1. PICK z : z = Append(a, m)
  OBVIOUS
<1>2. z \in Seq(S) /\ Len(z) = Len(a) + 1 /\ z[Len(a) + 1] = m /\ \A i \in 1 .. Len(a) : z[i] = a[i]
  BY <1>1
<1>3. PICK x : x = SubSeq(z, n + 1, Len(z))
  OBVIOUS
<1>4. x \in Seq(S) /\ Len(x) = Len(a) + 1 - n /\ \A i \in 1 .. Len(a) + 1 - n : x[i] = z[n + i]
  <2>1. n <= Len(z) /\ Len(a) \in Nat
    BY <1>2
  <2> QED BY <1>2, <1>3, <2>1, EndOf
<1>5. PICK s : s = SubSeq(a, n + 1, Len(a))
  OBVIOUS
<1>6. s \in Seq(S) /\ Len(s) = Len(a) - n /\ \A i \in 1 .. Len(a) - n : s[i] = a[n + i]
  BY <1>5, EndOf
<1>7. PICK y : y = Append(s, m)
  OBVIOUS
<1>8. y \in Seq(S) /\ Len(y) = Len(s) + 1 /\ y[Len(s) + 1] = m /\ \A i \in 1 .. Len(s) : y[i] = s[i]
  BY <1>6, <1>7
<1>9. ASSUME NEW i \in 1 .. Len(x) PROVE x[i] = y[i]
  <2>1. Len(a) \in Nat /\ Len(s) \in Nat /\ (i <= Len(s) \/ i = Len(s) + 1)
    <3>1. Len(a) \in Nat /\ Len(s) \in Nat
      BY <1>6
    <3>2. Len(x) = Len(s) + 1
      BY <1>4, <1>6, <3>1
    <3>3. i \in 1 .. Len(s) + 1
      BY <3>2
    <3> QED BY <3>1, <3>3
  <2>2. CASE i <= Len(s)
    <3>1. i \in 1 .. Len(s) /\ n + i \in 1 .. Len(a) /\ i \in 1 .. Len(a) - n /\ i \in 1 .. Len(a) + 1 - n
      BY <1>4, <1>6, <2>1, <2>2
    <3> QED BY <1>2, <1>4, <1>6, <1>8, <3>1
  <2>3. CASE i = Len(s) + 1
    <3>1. n + i = Len(a) + 1 /\ i \in 1 .. Len(a) + 1 - n
      BY <1>4, <1>6, <2>1, <2>3
    <3> QED BY <1>2, <1>4, <1>8, <2>3, <3>1
  <2> QED BY <2>1, <2>2, <2>3
<1>10. x = y
  <2>1. Len(x) = Len(y)
    BY <1>4, <1>6, <1>8
  <2> QED BY <1>4, <1>8, <1>9, <2>1, SeqEqual
<1>11. Append(s, m) = s \o <<m>>
  BY <1>6
<1> QED BY <1>1, <1>3, <1>5, <1>7, <1>10, <1>11

\* What is the same behind as many elements is the same.
LEMMA Cancel ==
  ASSUME NEW S, NEW a \in Seq(S), NEW b \in Seq(S), NEW c \in Seq(S), NEW d \in Seq(S),
         a \o b = c \o d, Len(c) <= Len(a)
  PROVE  SubSeq(a, Len(c) + 1, Len(a)) \o b = d
<1>1. PICK e : e = SubSeq(a, Len(c) + 1, Len(a))
  OBVIOUS
<1>2. e \in Seq(S) /\ Len(e) = Len(a) - Len(c) /\ \A i \in 1 .. Len(e) : e[i] = a[Len(c) + i]
  BY <1>1
<1>3. PICK f : f = e \o b
  OBVIOUS
<1>4. f \in Seq(S) /\ Len(f) = Len(e) + Len(b)
      /\ \A i \in 1 .. Len(f) : f[i] = IF i <= Len(e) THEN e[i] ELSE b[i - Len(e)]
  BY <1>2, <1>3
<1>5. PICK w : w = a \o b
  OBVIOUS
<1>6. Len(w) = Len(a) + Len(b) /\ \A i \in 1 .. Len(w) : w[i] = IF i <= Len(a) THEN a[i] ELSE b[i - Len(a)]
  BY <1>5, ConcatProperties
<1>7. Len(w) = Len(c) + Len(d) /\ \A i \in 1 .. Len(w) : w[i] = IF i <= Len(c) THEN c[i] ELSE d[i - Len(c)]
  BY <1>5, ConcatProperties
<1>8. Len(f) = Len(d)
  BY <1>2, <1>4, <1>6, <1>7
<1>9. ASSUME NEW i \in 1 .. Len(f) PROVE f[i] = d[i]
  <2>1. Len(c) \in Nat /\ Len(a) \in Nat /\ Len(b) \in Nat /\ Len(d) \in Nat /\ Len(f) \in Nat /\ i \in 1 .. Len(d)
    BY <1>4, <1>8
  <2>2. PICK j : j = Len(c) + i
    OBVIOUS
  <2>3. j \in 1 .. Len(w) /\ ~ j <= Len(c) /\ j - Len(c) = i
    BY <1>7, <2>1, <2>2
  <2>4. w[j] = d[i]
    BY <1>7, <2>3
  <2>5. f[i] = IF i <= Len(e) THEN e[i] ELSE b[i - Len(e)]
    BY <1>4
  <2>6. w[j] = IF j <= Len(a) THEN a[j] ELSE b[j - Len(a)]
    BY <1>6, <2>3
  <2>7. Len(e) = Len(a) - Len(c) /\ (i <= Len(e) <=> j <= Len(a)) /\ i - Len(e) = j - Len(a)
    BY <1>2, <2>1, <2>2
  <2>8. ASSUME i <= Len(e) PROVE e[i] = a[j]
    <3>1. i \in 1 .. Len(e)
      BY <1>2, <2>1, <2>8
    <3> QED BY <1>2, <2>2, <3>1, Zenon
  <2>9. CASE i <= Len(e)
    <3>1. f[i] = e[i] /\ w[j] = a[j]
      BY <2>5, <2>6, <2>7, <2>9, Zenon
    <3>2. e[i] = a[j]
      BY <2>8, <2>9, Zenon
    <3> QED BY <2>4, <3>1, <3>2, Zenon
  <2>10. CASE ~ (i <= Len(e))
    <3>1. f[i] = b[i - Len(e)] /\ w[j] = b[j - Len(a)]
      BY <2>5, <2>6, <2>7, <2>10, Zenon
    <3> QED BY <2>4, <2>7, <3>1, Zenon
  <2> QED BY <2>9, <2>10
<1>10. f = d
  BY <1>4, <1>8, <1>9, SeqEqual
<1> QED BY <1>1, <1>3, <1>10

\* What is given to the network for a message, and for some of them.
UnitSet == scenario.messages \X Nat

LEMMA UnitsFit ==
  ASSUME scenario \in Scenarios, NEW m \in scenario.messages
  PROVE  /\ Units(m) \in Seq(UnitSet) /\ Units(m) # <<>> /\ Units(m)[1] = <<m, 1>>
         /\ Len(Units(m)) = IF scheme = "tcp" THEN m.units ELSE 1
         /\ Len(Units(m)) \in Nat \ {0}
<1>1. PICK n : n = IF scheme = "tcp" THEN m.units ELSE 1
  OBVIOUS
<1>2. n \in Nat \ {0}
  BY <1>1, StreamAssumption
<1>3. Units(m) = [i \in 1 .. n |-> <<m, i>>]
  BY <1>1 DEF Units
<1>4. PICK u : u = Units(m)
  OBVIOUS
<1>5. u \in Seq(UnitSet) /\ Len(u) = n /\ u[1] = <<m, 1>>
  <2>1. u = [i \in 1 .. n |-> <<m, i>>]
    BY <1>3, <1>4
  <2>2. \A i \in 1 .. n : <<m, i>> \in UnitSet
    BY <1>2 DEF UnitSet
  <2>3. u \in [1 .. n -> UnitSet]
    BY <2>1, <2>2
  <2>4. u \in Seq(UnitSet) /\ Len(u) = n
    BY <1>2, <2>3
  <2> QED BY <1>2, <2>1, <2>4
<1> QED BY <1>1, <1>2, <1>4, <1>5

LEMMA UnitsMap ==
  ASSUME scenario \in Scenarios, NEW ms \in Seq(scenario.messages)
  PROVE  [i \in DOMAIN ms |-> Units(ms[i])] \in Seq(Seq(UnitSet))
<1>1. \A i \in 1 .. Len(ms) : Units(ms[i]) \in Seq(UnitSet)
  BY UnitsFit
<1>2. DOMAIN ms = 1 .. Len(ms) /\ Len(ms) \in Nat
  OBVIOUS
<1> QED BY <1>1, <1>2

LEMMA UnitsConcat ==
  ASSUME scenario \in Scenarios, NEW a \in Seq(scenario.messages), NEW b \in Seq(scenario.messages)
  PROVE  UnitsOf(a \o b) = UnitsOf(a) \o UnitsOf(b)
<1> DEFINE M(ms) == [i \in DOMAIN ms |-> Units(ms[i])]
<1>1. PICK x : x = M(a)
  OBVIOUS
<1>2. PICK y : y = M(b)
  OBVIOUS
<1>3. PICK z : z = M(a \o b)
  OBVIOUS
<1>4. x \in Seq(Seq(UnitSet)) /\ y \in Seq(Seq(UnitSet))
  BY <1>1, <1>2, UnitsMap
<1>5. PICK c : c = a \o b
  OBVIOUS
<1>6. /\ c \in Seq(scenario.messages) /\ Len(c) = Len(a) + Len(b) /\ DOMAIN c = 1 .. Len(c)
      /\ \A i \in 1 .. Len(c) : c[i] = IF i <= Len(a) THEN a[i] ELSE b[i - Len(a)]
  BY <1>5
<1>7. DOMAIN a = 1 .. Len(a) /\ DOMAIN b = 1 .. Len(b) /\ Len(a) \in Nat /\ Len(b) \in Nat
  OBVIOUS
<1>8. Len(x) = Len(a) /\ Len(y) = Len(b)
  BY <1>1, <1>2, <1>7
<1>9. z \in Seq(Seq(UnitSet)) /\ Len(z) = Len(c) /\ \A i \in 1 .. Len(c) : z[i] = Units(c[i])
  <2>1. z = M(c)
    BY <1>3, <1>5
  <2>2. z \in Seq(Seq(UnitSet))
    BY <1>6, <2>1, UnitsMap
  <2> QED BY <1>6, <2>1, <2>2
<1>10. PICK w : w = x \o y
  OBVIOUS
<1>11. /\ w \in Seq(Seq(UnitSet)) /\ Len(w) = Len(c)
       /\ \A i \in 1 .. Len(c) : w[i] = IF i <= Len(a) THEN x[i] ELSE y[i - Len(a)]
  <2>1. w \in Seq(Seq(UnitSet))
    BY <1>4, <1>10, ConcatProperties, Zenon
  <2>2. Len(w) = Len(x) + Len(y)
        /\ \A i \in 1 .. Len(x) + Len(y) : w[i] = IF i <= Len(x) THEN x[i] ELSE y[i - Len(x)]
    BY <1>4, <1>10, ConcatProperties, Zenon
  <2> QED BY <1>6, <1>8, <2>1, <2>2
<1>12. ASSUME NEW i \in 1 .. Len(c) PROVE z[i] = w[i]
  <2>1. i <= Len(a) => x[i] = Units(a[i])
    BY <1>1, <1>7
  <2>2. ~ i <= Len(a) => y[i - Len(a)] = Units(b[i - Len(a)])
    BY <1>2, <1>6, <1>7
  <2> QED BY <1>6, <1>9, <1>11, <2>1, <2>2
<1>13. z = w
  BY <1>9, <1>11, <1>12, SeqEqual
<1>14. FlattenSeq(w) = FlattenSeq(x) \o FlattenSeq(y)
  BY <1>4, <1>10, FlattenConcat
<1> QED BY <1>1, <1>2, <1>3, <1>13, <1>14 DEF UnitsOf

LEMMA UnitsType ==
  ASSUME scenario \in Scenarios, NEW ms \in Seq(scenario.messages)
  PROVE  UnitsOf(ms) \in Seq(UnitSet)
BY UnitsMap, FlattenAppend DEF UnitsOf

LEMMA UnitsOfOne ==
  ASSUME scenario \in Scenarios, NEW m \in scenario.messages
  PROVE  UnitsOf(<<m>>) = Units(m)
<1>1. PICK u : u = Units(m)
  OBVIOUS
<1>2. u \in Seq(UnitSet)
  BY <1>1, UnitsFit
<1>3. [i \in DOMAIN <<m>> |-> Units(<<m>>[i])] = <<u>>
  BY <1>1
<1>4. PICK e : e \in Seq(Seq(UnitSet)) /\ e = <<>>
  <2>1. <<>> \in Seq(Seq(UnitSet))
    BY EmptySeq
  <2> QED BY <2>1
<1>5. FlattenSeq(e) = <<>>
  BY <1>4 DEF FlattenSeq
<1>6. <<u>> = Append(e, u)
  BY <1>4
<1>7. FlattenSeq(<<u>>) = <<>> \o u
  <2>1. FlattenSeq(Append(e, u)) = FlattenSeq(e) \o u
    BY <1>2, <1>4, FlattenAppend
  <2> QED BY <1>5, <1>6, <2>1
<1>8. <<>> \o u = u
  BY <1>2
<1>9. UnitsOf(<<m>>) = FlattenSeq(<<u>>)
  BY <1>3, Zenon DEF UnitsOf
<1> QED BY <1>1, <1>7, <1>8, <1>9

LEMMA UnitsOfNone == UnitsOf(<<>>) = <<>>
<1>1. [i \in DOMAIN <<>> |-> Units(<<>>[i])] = <<>>
  OBVIOUS
<1>2. FlattenSeq(<<>>) = <<>>
  BY DEF FlattenSeq
<1> QED BY <1>1, <1>2, Zenon DEF UnitsOf

\* Connections and requests as they can be.
Conns ==
  [phase : {"unused", "opening", "open", "closing", "lost"}, ours : BOOLEAN, csm : BOOLEAN,
   spool : Seq(UnitSet), wire : Seq(UnitSet),
   loop : BOOLEAN, aborting : BOOLEAN, deaf : BOOLEAN, gone : BOOLEAN, rendering : BOOLEAN]
Inquiries == [state : {"new", "waiting", "open", "answered", "failed"}, remote : Connections \cup {None}]

StreamTypes ==
  /\ scenario \in Scenarios /\ starting \in Connections \cup {None}
  /\ conn \in [Connections -> Conns]
  /\ request \in [Requests -> Inquiries]
  /\ received \in [Connections -> Seq(scenario.messages)]
  /\ taken \in [Connections -> Nat]

\* What is spooled and on its way is what has been sent and not taken yet.
Coming(k) == SubSeq(received[k], taken[k] + 1, Len(received[k]))
Uncut(k) == taken[k] <= Len(received[k]) /\ conn[k].spool \o conn[k].wire = UnitsOf(Coming(k))

\* A connection that is not made has done nothing; one that is ends once, by its loop or by an
\* abort, and nothing waits for it afterwards.
OpenOn(k, r) == request[r] = [state |-> "open", remote |-> k]
NoneOpen(k) == \A r \in Requests : ~ OpenOn(k, r)
StreamRight(k) ==
  /\ conn[k].phase \in {"unused", "opening"} =>
       /\ ~ conn[k].rendering /\ ~ conn[k].loop /\ ~ conn[k].aborting
       /\ conn[k].spool = <<>> /\ conn[k].wire = <<>> /\ received[k] = <<>> /\ taken[k] = 0
       /\ k \notin pool /\ NoneOpen(k)
  /\ conn[k].loop => scheme = "ws" /\ conn[k].phase \in {"open", "closing"}
  /\ conn[k].aborting => scheme = "ws"
  /\ scheme = "ws" => /\ conn[k].spool = <<>>
                      /\ conn[k].phase \in {"open", "closing"} => conn[k].loop \/ conn[k].deaf
  /\ busy = k => scheme = "tcp" /\ conn[k].phase \in {"open", "closing"}
  /\ conn[k].phase = "lost" => /\ conn[k].deaf \/ NoneOpen(k)
                               /\ conn[k].deaf \/ ~ conn[k].rendering
                               /\ scheme = "tcp" => k \notin pool

StreamsRight ==
  /\ StreamTypes
  /\ shut => \A r \in Requests : request[r].state # "open"
  /\ \A k \in Connections : StreamRight(k) /\ Uncut(k)

\* A step that leaves a connection and its messages alone, and gives it no request.
LEMMA OthersStay ==
  ASSUME NEW l \in Connections, StreamRight(l), Uncut(l), scenario' = scenario, conn'[l] = conn[l],
         received'[l] = received[l], taken'[l] = taken[l], l \in pool' => l \in pool,
         busy' = l => busy = l, \A r \in Requests : OpenOn(l, r)' => OpenOn(l, r)
  PROVE  StreamRight(l)' /\ Uncut(l)'
<1>1. StreamRight(l)'
  BY DEF StreamRight, NoneOpen, scheme
<1>2. UnitsOf(Coming(l))' = UnitsOf(Coming(l))
  BY DEF UnitsOf, Coming, Units, scheme
<1> QED BY <1>1, <1>2 DEF Uncut

\* A step of one connection.
LEMMA StreamMoves ==
  ASSUME StreamsRight, scenario' = scenario, NEW k \in Connections, NEW c \in Conns,
         conn' = [conn EXCEPT ![k] = c], starting' \in Connections \cup {None},
         request' \in [Requests -> Inquiries],
         received' \in [Connections -> Seq(scenario.messages)], taken' \in [Connections -> Nat],
         \A l \in Connections \ {k} :
           /\ received'[l] = received[l] /\ taken'[l] = taken[l]
           /\ l \in pool' => l \in pool
           /\ busy' = l => busy = l
           /\ \A r \in Requests : OpenOn(l, r)' => OpenOn(l, r),
         shut' => \A r \in Requests : request'[r].state # "open",
         conn'[k] = c => StreamRight(k)' /\ Uncut(k)'
  PROVE  StreamsRight'
<1>1. conn \in [Connections -> Conns]
  BY DEF StreamsRight, StreamTypes
<1>2. conn' \in [Connections -> Conns] /\ conn'[k] = c /\ \A l \in Connections \ {k} : conn'[l] = conn[l]
  BY <1>1
<1>3. StreamTypes'
  BY <1>2 DEF StreamsRight, StreamTypes, Conns, UnitSet, Inquiries
<1>4. ASSUME NEW l \in Connections PROVE StreamRight(l)' /\ Uncut(l)'
  <2>1. CASE l = k
    BY <1>2, <2>1
  <2>2. CASE l # k
    BY <1>2, <2>2, OthersStay DEF StreamsRight
  <2> QED BY <2>1, <2>2
<1> QED BY <1>3, <1>4 DEF StreamsRight

\* Its messages and units stay.
LEMMA UncutStays ==
  ASSUME NEW k \in Connections, Uncut(k), scenario' = scenario, received' = received, taken' = taken,
         conn'[k].spool \o conn'[k].wire = conn[k].spool \o conn[k].wire
  PROVE  Uncut(k)'
<1>1. UnitsOf(Coming(k))' = UnitsOf(Coming(k))
  BY DEF UnitsOf, Coming, Units, scheme
<1> QED BY <1>1 DEF Uncut

\* A step of one connection, in which none of its messages is sent or taken.
LEMMA CalmStep ==
  ASSUME StreamsRight, scenario' = scenario, NEW k \in Connections, NEW c \in Conns,
         conn' = [conn EXCEPT ![k] = c], starting' \in Connections \cup {None},
         received' = received, taken' = taken,
         c.spool \o c.wire = conn[k].spool \o conn[k].wire,
         request' \in [Requests -> Inquiries],
         \A l \in Connections \ {k} :
           /\ l \in pool' => l \in pool
           /\ busy' = l => busy = l
           /\ \A r \in Requests : OpenOn(l, r)' => OpenOn(l, r),
         shut' => \A r \in Requests : request'[r].state # "open",
         conn'[k] = c => StreamRight(k)'
  PROVE  StreamsRight'
<1>1. /\ conn \in [Connections -> Conns] /\ Uncut(k)
      /\ received \in [Connections -> Seq(scenario.messages)] /\ taken \in [Connections -> Nat]
  BY DEF StreamsRight, StreamTypes
<1>2. conn'[k] = c => Uncut(k)'
  BY <1>1, UncutStays
<1> QED BY <1>1, <1>2, StreamMoves

LEMMA UnusedFits == Unused \in Conns
BY DEF Unused, Conns

LEMMA StreamsStart == InitStreams => StreamsRight
<1> SUFFICES ASSUME InitStreams PROVE StreamsRight
  OBVIOUS
<1>1. StreamTypes
  BY UnusedFits DEF InitStreams, StreamTypes, Inquiries, None
<1>2. \A r \in Requests : request[r].state = "new"
  BY DEF InitStreams
<1>3. ASSUME NEW k \in Connections PROVE StreamRight(k) /\ Uncut(k)
  <2>1. conn[k] = Unused /\ received[k] = <<>> /\ taken[k] = 0 /\ pool = {} /\ busy # k
    BY StreamAssumption DEF InitStreams, None
  <2>2. NoneOpen(k)
    BY <1>2 DEF NoneOpen, OpenOn
  <2>3. StreamRight(k)
    BY <2>1, <2>2 DEF StreamRight, Unused
  <2>4. Coming(k) = <<>>
    BY <2>1 DEF Coming
  <2>5. UnitsOf(Coming(k)) = <<>>
    BY <2>4, UnitsOfNone
  <2>6. conn[k].spool \o conn[k].wire = <<>>
    BY <2>1 DEF Unused
  <2> QED BY <2>1, <2>3, <2>5, <2>6 DEF Uncut
<1> QED BY <1>1, <1>2, <1>3 DEF StreamsRight

\* Requests that are sent on a connection, or fail with it.
LEMMA InquirySent ==
  ASSUME NEW k \in Connections, NEW r
  PROVE  /\ Sent(r, k) \in Inquiries /\ Sent(r, k).remote = k
         /\ Sent(r, k).state # "waiting" /\ (shut => Sent(r, k).state # "open")
BY DEF Sent, Inquiries

LEMMA InquiriesFail ==
  ASSUME StreamTypes, NEW k \in Connections
  PROVE  /\ FailedOn(k) \in [Requests -> Inquiries]
         /\ \A r \in Requests : FailedOn(k)[r] = request[r] \/ FailedOn(k)[r].state = "failed"
         /\ ~ shut => \A r \in Requests : FailedOn(k)[r] # [state |-> "open", remote |-> k]
<1>1. ASSUME NEW r \in Requests, NEW q, q = FailedOn(k)[r]
      PROVE  /\ q \in Inquiries /\ (q = request[r] \/ q.state = "failed")
             /\ ~ shut => q # [state |-> "open", remote |-> k]
  <2>1. request[r] \in Inquiries
    BY DEF StreamTypes
  <2>2. CASE request[r] = [state |-> "open", remote |-> k] /\ ~ shut
    <3>1. q = [request[r] EXCEPT !.state = "failed"]
      BY <1>1, <2>2, Zenon DEF FailedOn
    <3>2. q = [state |-> "failed", remote |-> k]
      BY <2>2, <3>1
    <3> QED BY <3>2 DEF Inquiries
  <2>3. CASE ~ (request[r] = [state |-> "open", remote |-> k] /\ ~ shut)
    <3>1. q = request[r]
      BY <1>1, <2>3, Zenon DEF FailedOn
    <3> QED BY <2>1, <2>3, <3>1
  <2> QED BY <2>2, <2>3
<1>2. \A r \in Requests : /\ FailedOn(k)[r] \in Inquiries
                          /\ FailedOn(k)[r] = request[r] \/ FailedOn(k)[r].state = "failed"
                          /\ ~ shut => FailedOn(k)[r] # [state |-> "open", remote |-> k]
  BY <1>1
<1> QED BY <1>2 DEF FailedOn

\* A request is given to a connection, waits for one, or makes one.
LEMMA InquireRight ==
  ASSUME StreamsRight, NEW r \in Requests, Inquire(r)
  PROVE  StreamsRight'
<1>1. /\ conn \in [Connections -> Conns] /\ request \in [Requests -> Inquiries]
      /\ UNCHANGED <<scenario, pool, busy, shut, received, taken>> /\ scheme \in {"tcp", "ws"}
      /\ starting \in Connections \cup {None}
      /\ shut => \A s \in Requests : request[s].state # "open"
  BY StreamAssumption DEF StreamsRight, StreamTypes, Inquire, scheme
<1>2. ASSUME NEW q \in Inquiries, request' = [request EXCEPT ![r] = q]
      PROVE  /\ request' \in [Requests -> Inquiries]
             /\ \A s \in Requests : request'[s] = request[s] \/ request'[s] = q
  BY <1>1, <1>2
<1>3. CASE Usable # {}
  <2>1. PICK k \in Usable : request' = [request EXCEPT ![r] = Sent(r, k)]
    BY <1>3 DEF Inquire
  <2>2. conn' = conn /\ starting' = starting /\ k \in Connections /\ k \in pool
        /\ (scheme = "ws" => conn[k].phase = "open")
    BY <1>3 DEF Inquire, Usable, Ours
  <2>3. PICK q : q = Sent(r, k)
    OBVIOUS
  <2>4. q \in Inquiries /\ q.remote = k /\ (shut => q.state # "open")
    BY <2>2, <2>3, InquirySent
  <2>5. /\ request' \in [Requests -> Inquiries]
        /\ \A s \in Requests : request'[s] = request[s] \/ request'[s] = q
    BY <1>2, <2>1, <2>3, <2>4
  <2>6. PICK c : c = conn[k]
    OBVIOUS
  <2>7. c \in Conns /\ conn' = [conn EXCEPT ![k] = c]
    BY <1>1, <2>2, <2>6
  <2>8. \A l \in Connections \ {k} : \A s \in Requests : OpenOn(l, s)' => OpenOn(l, s)
    BY <2>4, <2>5 DEF OpenOn
  <2>9. conn[k].phase \notin {"unused", "opening", "lost"}
    BY <1>1, <2>2 DEF StreamsRight, StreamRight
  <2>10. StreamRight(k)'
    BY <1>1, <2>2, <2>9 DEF StreamsRight, StreamRight, scheme
  <2>11. shut' => \A s \in Requests : request'[s].state # "open"
    BY <1>1, <2>4, <2>5
  <2> QED BY <1>1, <2>2, <2>5, <2>6, <2>7, <2>8, <2>10, <2>11, CalmStep
<1>4. ASSUME NEW k \in Connections, NEW c \in Conns, conn' = [conn EXCEPT ![k] = c], Await(r, k),
             starting' \in Connections \cup {None}, c = conn[k] \/
               (k \in Vacant /\ c = [Unused EXCEPT !.phase = "opening", !.ours = TRUE])
      PROVE  StreamsRight'
  <2>1. PICK q : q = [state |-> "waiting", remote |-> k]
    OBVIOUS
  <2>2. q \in Inquiries /\ q.state = "waiting" /\ request' = [request EXCEPT ![r] = q]
    BY <1>4, <2>1 DEF Await, Inquiries
  <2>3. /\ request' \in [Requests -> Inquiries]
        /\ \A s \in Requests : request'[s] = request[s] \/ request'[s] = q
    BY <1>2, <2>2
  <2>4. \A l \in Connections, s \in Requests : OpenOn(l, s)' => OpenOn(l, s)
    BY <2>2, <2>3 DEF OpenOn
  <2>5. shut' => \A s \in Requests : request'[s].state # "open"
    BY <1>1, <2>2, <2>3
  <2>6. StreamRight(k) /\ (k \in Vacant => conn[k].phase = "unused")
    BY DEF StreamsRight, Vacant
  <2>7. c.spool \o c.wire = conn[k].spool \o conn[k].wire
    BY <1>4, <2>6 DEF StreamRight, Unused
  <2>8. conn'[k] = c => StreamRight(k)'
    BY <1>1, <1>4, <2>4, <2>6 DEF StreamRight, Unused, NoneOpen, scheme
  <2> QED BY <1>1, <1>4, <2>3, <2>4, <2>5, <2>7, <2>8, CalmStep
<1>5. CASE Usable = {} /\ starting # None
  <2>1. conn' = conn /\ starting' = starting /\ Await(r, starting)
    BY <1>5 DEF Inquire
  <2>2. starting \in Connections
    BY <1>1, <1>5
  <2>3. conn[starting] \in Conns /\ conn' = [conn EXCEPT ![starting] = conn[starting]]
    BY <1>1, <2>1, <2>2
  <2> QED BY <1>1, <1>4, <2>1, <2>2, <2>3
<1>6. CASE Usable = {} /\ starting = None
  <2>1. Spawn(r)
    BY <1>6 DEF Inquire
  <2>2. PICK k \in Vacant : /\ conn' = [conn EXCEPT ![k] = [Unused EXCEPT !.phase = "opening", !.ours = TRUE]]
                            /\ starting' = IF scheme = "ws" THEN k ELSE None
                            /\ Await(r, k)
    BY <2>1 DEF Spawn
  <2>3. k \in Connections
    BY DEF Vacant
  <2>4. PICK c : c = [Unused EXCEPT !.phase = "opening", !.ours = TRUE]
    OBVIOUS
  <2>5. c \in Conns
    BY <2>4, UnusedFits DEF Conns
  <2> QED BY <1>4, <2>2, <2>3, <2>4, <2>5
<1> QED BY <1>3, <1>5, <1>6

\* A connection that is made: nothing has been sent on it.
LEMMA EstablishedFits ==
  /\ Established \in Conns /\ Established.phase = "open" /\ Established.spool = <<>>
  /\ Established.wire = <<>> /\ Established.loop = (scheme = "ws") /\ ~ Established.aborting
<1>1. PICK w \in BOOLEAN : w = (scheme = "ws")
  OBVIOUS
<1>2. PICK e : e = [Unused EXCEPT !.phase = "open", !.loop = w]
  OBVIOUS
<1>3. /\ e \in Conns /\ e.phase = "open" /\ e.spool = <<>> /\ e.wire = <<>> /\ e.loop = w
      /\ ~ e.aborting
  BY <1>2, UnusedFits DEF Conns, Unused
<1>4. Established = e
  BY <1>1, <1>2, Zenon DEF Established
<1> QED BY <1>1, <1>3, <1>4

\* A connection that was not made is.
LEMMA MadeRight ==
  ASSUME StreamsRight, NEW k \in Connections, conn[k].phase \in {"unused", "opening"},
         NEW c \in Conns, c.phase = "open", c.spool = <<>>, c.wire = <<>>, c.loop = (scheme = "ws"),
         ~ c.aborting, conn' = [conn EXCEPT ![k] = c], starting' \in Connections \cup {None},
         pool' \subseteq pool \cup {k}, UNCHANGED <<scenario, busy, shut, received, taken>>,
         request' \in [Requests -> Inquiries],
         \A r \in Requests : request'[r] = request[r] \/ request'[r] = Sent(r, k)
  PROVE  StreamsRight'
<1>1. StreamRight(k)
  BY DEF StreamsRight
<1>2. conn[k].spool = <<>> /\ conn[k].wire = <<>> /\ busy # k
  BY <1>1 DEF StreamRight
<1>3. c.spool \o c.wire = conn[k].spool \o conn[k].wire
  BY <1>2
<1>4. \A r \in Requests : Sent(r, k).remote = k /\ (shut => Sent(r, k).state # "open")
  BY InquirySent
<1>5. \A l \in Connections \ {k}, r \in Requests : OpenOn(l, r)' => OpenOn(l, r)
  BY <1>4 DEF OpenOn
<1>6. shut' => \A r \in Requests : request'[r].state # "open"
  BY <1>4 DEF StreamsRight
<1>7. conn'[k] = c => StreamRight(k)'
  BY <1>2 DEF StreamRight, scheme
<1> QED BY <1>3, <1>5, <1>6, <1>7, CalmStep

LEMMA ConnectedRight ==
  ASSUME StreamsRight, NEW k \in Connections, Connected(k)
  PROVE  StreamsRight'
<1>1. PICK c : c = [Established EXCEPT !.ours = TRUE]
  OBVIOUS
<1>2. /\ c \in Conns /\ c.phase = "open" /\ c.spool = <<>> /\ c.wire = <<>> /\ c.loop = (scheme = "ws")
      /\ ~ c.aborting
  BY <1>1, EstablishedFits DEF Conns
<1>3. /\ conn[k].phase = "opening" /\ conn' = [conn EXCEPT ![k] = c] /\ pool' \subseteq pool \cup {k}
      /\ starting' \in Connections \cup {None} /\ UNCHANGED <<scenario, busy, shut, received, taken>>
      /\ request' = [r \in Requests |-> IF r \in Waiting(k) THEN Sent(r, k) ELSE request[r]]
  BY <1>1 DEF Connected
<1>4. \A r \in Requests : Sent(r, k) \in Inquiries /\ request[r] \in Inquiries
  BY InquirySent DEF StreamsRight, StreamTypes
<1>5. request' \in [Requests -> Inquiries]
  BY <1>3, <1>4
<1>6. \A r \in Requests : request'[r] = request[r] \/ request'[r] = Sent(r, k)
  BY <1>3
<1> QED BY <1>2, <1>3, <1>5, <1>6, MadeRight

LEMMA AcceptedRight ==
  ASSUME StreamsRight, NEW k \in Connections, Accepted(k)
  PROVE  StreamsRight'
<1>1. /\ conn[k].phase = "unused" /\ conn' = [conn EXCEPT ![k] = Established] /\ pool' \subseteq pool \cup {k}
      /\ UNCHANGED <<scenario, busy, shut, received, taken, starting, request>>
  BY DEF Accepted, Vacant
<1>2. request \in [Requests -> Inquiries] /\ starting \in Connections \cup {None}
  BY DEF StreamsRight, StreamTypes
<1> QED BY <1>1, <1>2, EstablishedFits, MadeRight

LEMMA ConnectFailsRight ==
  ASSUME StreamsRight, NEW k \in Connections, ConnectFails(k)
  PROVE  StreamsRight'
<1>1. /\ conn[k].phase = "opening" /\ conn' = [conn EXCEPT ![k].phase = "lost"]
      /\ starting' \in Connections \cup {None} /\ UNCHANGED <<scenario, pool, busy, shut, received, taken>>
      /\ request' = [r \in Requests |-> IF r \in Waiting(k) THEN [request[r] EXCEPT !.state = "failed"]
                                        ELSE request[r]]
  BY DEF ConnectFails
<1>2. conn \in [Connections -> Conns] /\ StreamRight(k) /\ request \in [Requests -> Inquiries]
  BY DEF StreamsRight, StreamTypes
<1>3. PICK c : c = [conn[k] EXCEPT !.phase = "lost"]
  OBVIOUS
<1>4. c \in Conns /\ conn' = [conn EXCEPT ![k] = c] /\ c.phase = "lost"
      /\ c.spool = conn[k].spool /\ c.wire = conn[k].wire /\ c.loop = conn[k].loop
      /\ c.aborting = conn[k].aborting /\ c.rendering = conn[k].rendering
  BY <1>1, <1>2, <1>3 DEF Conns
<1>5. ASSUME NEW r \in Requests
      PROVE request'[r] \in Inquiries /\ (request'[r] = request[r] \/ request'[r].state = "failed")
  BY <1>1, <1>2 DEF Inquiries
<1>6. request' \in [Requests -> Inquiries]
  BY <1>1, <1>5
<1>7. \A l \in Connections, r \in Requests : OpenOn(l, r)' => OpenOn(l, r)
  BY <1>5 DEF OpenOn
<1>8. shut' => \A r \in Requests : request'[r].state # "open"
  BY <1>1, <1>5 DEF StreamsRight
<1>9. conn'[k] = c => StreamRight(k)'
  BY <1>1, <1>2, <1>4, <1>7 DEF StreamRight, NoneOpen, scheme
<1> QED BY <1>1, <1>4, <1>6, <1>7, <1>8, <1>9, CalmStep

\* The peer sends: the message is the last of what has been sent.
LEMMA PeerSendsRight ==
  ASSUME StreamsRight, NEW k \in Connections, NEW m \in scenario.messages, PeerSends(k, m)
  PROVE  StreamsRight'
<1>1. /\ conn[k].phase = "open" /\ conn' = [conn EXCEPT ![k].wire = @ \o Units(m)]
      /\ received' = [received EXCEPT ![k] = Append(@, m)]
      /\ UNCHANGED <<scenario, pool, starting, request, busy, shut, taken>>
  BY DEF PeerSends
<1>2. /\ conn \in [Connections -> Conns] /\ StreamRight(k) /\ request \in [Requests -> Inquiries]
      /\ starting \in Connections \cup {None} /\ received \in [Connections -> Seq(scenario.messages)]
      /\ taken \in [Connections -> Nat] /\ scenario \in Scenarios /\ Uncut(k) /\ scheme \in {"tcp", "ws"}
  BY StreamAssumption DEF StreamsRight, StreamTypes, scheme
<1>3. PICK u : u = Units(m)
  OBVIOUS
<1>4. u \in Seq(UnitSet)
  BY <1>2, <1>3, UnitsFit
<1>5. PICK c : c = [conn[k] EXCEPT !.wire = @ \o u]
  OBVIOUS
<1>6. conn[k].wire \in Seq(UnitSet) /\ conn[k].spool \in Seq(UnitSet)
  BY <1>2 DEF Conns
<1>7. conn[k].wire \o u \in Seq(UnitSet)
  BY <1>4, <1>6
<1>8. /\ c \in Conns /\ conn' = [conn EXCEPT ![k] = c] /\ c.phase = "open"
      /\ c.spool = conn[k].spool /\ c.wire = conn[k].wire \o u /\ c.loop = conn[k].loop
      /\ c.aborting = conn[k].aborting /\ c.rendering = conn[k].rendering /\ c.deaf = conn[k].deaf
  BY <1>1, <1>2, <1>3, <1>5, <1>7 DEF Conns
<1>9. /\ received' \in [Connections -> Seq(scenario.messages)] /\ received'[k] = Append(received[k], m)
      /\ \A l \in Connections \ {k} : received'[l] = received[l]
  <2>1. Append(received[k], m) \in Seq(scenario.messages)
    BY <1>2
  <2> QED BY <1>1, <1>2, <2>1
<1>10. conn'[k] = c => StreamRight(k)'
  BY <1>1, <1>2, <1>8 DEF StreamRight, scheme
<1>11. \A l \in Connections, r \in Requests : OpenOn(l, r)' => OpenOn(l, r)
  BY <1>1 DEF OpenOn
<1>12. ASSUME conn'[k] = c PROVE Uncut(k)'
  <2>1. PICK s : s = Coming(k)
    OBVIOUS
  <2>2. received[k] \in Seq(scenario.messages) /\ taken[k] \in Nat /\ taken[k] <= Len(received[k])
    BY <1>2 DEF Uncut
  <2>3. s \in Seq(scenario.messages)
    BY <2>1, <2>2, EndOf DEF Coming
  <2>4. Coming(k)' = s \o <<m>>
    <3>1. Coming(k)' = SubSeq(Append(received[k], m), taken[k] + 1, Len(Append(received[k], m)))
      BY <1>1, <1>9, Zenon DEF Coming
    <3>2. s = SubSeq(received[k], taken[k] + 1, Len(received[k]))
      BY <2>1 DEF Coming
    <3> QED BY <2>2, <3>1, <3>2, EndGrows, Zenon
  <2>5. UnitsOf(s \o <<m>>) = UnitsOf(s) \o u
    <3>1. PICK o : o \in Seq(scenario.messages) /\ o = <<m>>
      <4>1. <<m>> \in Seq(scenario.messages)
        BY OneIsSeq
      <4> QED BY <4>1
    <3>2. UnitsOf(<<m>>) = u
      BY <1>2, <1>3, UnitsOfOne, Zenon
    <3>3. UnitsOf(s \o o) = UnitsOf(s) \o UnitsOf(o)
      BY <1>2, <2>3, <3>1, UnitsConcat, Zenon
    <3> QED BY <3>1, <3>2, <3>3, Zenon
  <2>6. UnitsOf(Coming(k))' = UnitsOf(s) \o u
    <3>1. UnitsOf(Coming(k))' = UnitsOf(s \o <<m>>)
      BY <1>1, <2>4, Zenon DEF UnitsOf, Units, scheme
    <3> QED BY <2>5, <3>1
  <2>7. conn[k].spool \o conn[k].wire = UnitsOf(s)
    BY <1>2, <2>1 DEF Uncut
  <2>8. c.spool \o c.wire = (conn[k].spool \o conn[k].wire) \o u
    <3>1. ASSUME NEW x \in Seq(UnitSet), NEW y \in Seq(UnitSet) PROVE (x \o y) \o u = x \o (y \o u)
      BY <1>4, ConcatAssociative
    <3> QED BY <1>6, <1>8, <3>1, Zenon
  <2>9. taken'[k] <= Len(received'[k])
    BY <1>1, <1>9, <2>2
  <2> QED BY <1>12, <2>6, <2>7, <2>8, <2>9, Zenon DEF Uncut
<1>13. shut' => \A r \in Requests : request'[r].state # "open"
  BY <1>1 DEF StreamsRight
<1> QED BY <1>1, <1>2, <1>8, <1>9, <1>10, <1>11, <1>12, <1>13, StreamMoves

\* The connection changes, its units and what is asked do not.
LEMMA ConnectionOnly ==
  ASSUME StreamsRight, NEW k \in Connections, NEW c \in Conns, conn' = [conn EXCEPT ![k] = c],
         c.spool \o c.wire = conn[k].spool \o conn[k].wire, busy' \in {busy, None, k},
         UNCHANGED <<scenario, pool, starting, request, shut, received, taken>>,
         conn'[k] = c /\ NoneOpen(k)' = NoneOpen(k) => StreamRight(k)'
  PROVE  StreamsRight'
<1>1. request' \in [Requests -> Inquiries] /\ starting' \in Connections \cup {None}
  BY DEF StreamsRight, StreamTypes
<1>2. \A l \in Connections : \A r \in Requests : OpenOn(l, r)' => OpenOn(l, r)
  BY DEF OpenOn
<1>3. \A l \in Connections \ {k} : busy' = l => busy = l
  BY StreamAssumption DEF None
<1>4. shut' => \A r \in Requests : request'[r].state # "open"
  BY DEF StreamsRight
<1>5. NoneOpen(k)' = NoneOpen(k)
  BY DEF NoneOpen, OpenOn
<1> QED BY <1>1, <1>2, <1>3, <1>4, <1>5, CalmStep

LEMMA PeerClosesRight ==
  ASSUME StreamsRight, NEW k \in Connections, PeerCloses(k)
  PROVE  StreamsRight'
<1>1. /\ conn[k].phase = "open" /\ conn' = [conn EXCEPT ![k].gone = TRUE]
      /\ UNCHANGED <<scenario, pool, starting, request, busy, shut, received, taken>>
  BY DEF PeerCloses
<1>2. conn \in [Connections -> Conns] /\ StreamRight(k)
  BY DEF StreamsRight, StreamTypes
<1>3. PICK c : c = [conn[k] EXCEPT !.gone = TRUE]
  OBVIOUS
<1>4. /\ c \in Conns /\ conn' = [conn EXCEPT ![k] = c] /\ c.phase = "open"
      /\ c.spool = conn[k].spool /\ c.wire = conn[k].wire /\ c.loop = conn[k].loop
      /\ c.aborting = conn[k].aborting /\ c.rendering = conn[k].rendering /\ c.deaf = conn[k].deaf
  BY <1>1, <1>2, <1>3 DEF Conns
<1>5. conn'[k] = c => StreamRight(k)'
  BY <1>1, <1>2, <1>4 DEF StreamRight, scheme
<1> QED BY <1>1, <1>4, <1>5, ConnectionOnly

\* What arrives is spooled.
LEMMA Halves ==
  ASSUME NEW S, NEW a \in Seq(S), NEW n \in Nat, n <= Len(a)
  PROVE  /\ SubSeq(a, 1, n) \in Seq(S) /\ SubSeq(a, n + 1, Len(a)) \in Seq(S)
         /\ SubSeq(a, 1, n) \o SubSeq(a, n + 1, Len(a)) = a
<1>1. PICK x : x = SubSeq(a, 1, n)
  OBVIOUS
<1>2. PICK y : y = SubSeq(a, n + 1, Len(a))
  OBVIOUS
<1>3. y \in Seq(S) /\ Len(y) = Len(a) - n /\ \A i \in 1 .. Len(a) - n : y[i] = a[n + i]
  BY <1>2, EndOf
<1>4. PICK l \in Nat : l = Len(a)
  OBVIOUS
<1>5. x \in Seq(S) /\ Len(x) = n /\ \A i \in 1 .. n : x[i] = a[i]
  <2>1. \A i \in 1 .. n : a[i] \in S
    BY <1>4
  <2> QED BY <1>1, <2>1, SubSeqProperties
<1>6. PICK z : z = x \o y
  OBVIOUS
<1>7. z \in Seq(S) /\ Len(z) = n + Len(y)
      /\ \A i \in 1 .. n + Len(y) : z[i] = IF i <= n THEN x[i] ELSE y[i - n]
  BY <1>3, <1>5, <1>6, ConcatProperties
<1>8. Len(z) = Len(a)
  BY <1>3, <1>4, <1>7
<1>9. ASSUME NEW i \in 1 .. Len(z) PROVE z[i] = a[i]
  <2>1. i \in 1 .. n + Len(y) /\ (i <= n => i \in 1 .. n) /\ (~ i <= n => i - n \in 1 .. Len(a) - n /\ n + (i - n) = i)
    BY <1>3, <1>4, <1>7
  <2> QED BY <1>3, <1>5, <1>7, <2>1
<1>10. z = a
  BY <1>7, <1>8, <1>9, SeqEqual
<1> QED BY <1>1, <1>2, <1>3, <1>5, <1>6, <1>10

LEMMA DataReceivedRight ==
  ASSUME StreamsRight, NEW k \in Connections, DataReceived(k)
  PROVE  StreamsRight'
<1>1. /\ scheme = "tcp" /\ conn[k].phase = "open" /\ busy' = k
      /\ UNCHANGED <<scenario, pool, starting, request, shut, received, taken>>
  BY DEF DataReceived
<1>2. conn \in [Connections -> Conns] /\ StreamRight(k)
  BY DEF StreamsRight, StreamTypes
<1>3. PICK w : w = conn[k].wire
  OBVIOUS
<1>4. PICK n \in 1 .. Len(w) : conn' = [conn EXCEPT ![k].spool = Spooled(conn[k], n),
                                                   ![k].wire = SubSeq(@, n + 1, Len(@))]
  BY <1>3 DEF DataReceived
<1>5. PICK p : p = conn[k].spool
  OBVIOUS
<1>6. PICK x : x = SubSeq(w, 1, n)
  OBVIOUS
<1>7. PICK y : y = SubSeq(w, n + 1, Len(w))
  OBVIOUS
<1>8. w \in Seq(UnitSet) /\ p \in Seq(UnitSet)
  BY <1>2, <1>3, <1>5 DEF Conns
<1>9. x \in Seq(UnitSet) /\ y \in Seq(UnitSet) /\ x \o y = w
  <2>1. n \in Nat /\ n <= Len(w)
    BY <1>8
  <2> QED BY <1>6, <1>7, <1>8, <2>1, Halves
<1>10. PICK s : s = p \o x
  OBVIOUS
<1>11. s \in Seq(UnitSet) /\ s \o y = p \o w
  <2>1. s \in Seq(UnitSet)
    BY <1>8, <1>9, <1>10
  <2>2. (p \o x) \o y = p \o (x \o y)
    <3>1. ASSUME NEW e \in Seq(UnitSet), NEW f \in Seq(UnitSet), NEW g \in Seq(UnitSet)
          PROVE  (e \o f) \o g = e \o (f \o g)
      BY ConcatAssociative
    <3> QED BY <1>8, <1>9, <3>1, Zenon
  <2> QED BY <1>9, <1>10, <2>1, <2>2
<1>12. PICK c : c = [conn[k] EXCEPT !.spool = s, !.wire = y]
  OBVIOUS
<1>13. /\ c \in Conns /\ conn' = [conn EXCEPT ![k] = c] /\ c.phase = "open"
       /\ c.spool = s /\ c.wire = y /\ c.loop = conn[k].loop
       /\ c.aborting = conn[k].aborting /\ c.rendering = conn[k].rendering /\ c.deaf = conn[k].deaf
  <2>1. c \in Conns /\ c.phase = "open" /\ c.spool = s /\ c.wire = y /\ c.loop = conn[k].loop
        /\ c.aborting = conn[k].aborting /\ c.rendering = conn[k].rendering /\ c.deaf = conn[k].deaf
    BY <1>1, <1>2, <1>9, <1>11, <1>12 DEF Conns
  <2>2. Spooled(conn[k], n) = s
    BY <1>3, <1>5, <1>6, <1>10 DEF Spooled
  <2> QED BY <1>2, <1>3, <1>4, <1>7, <1>12, <2>1, <2>2
<1>14. c.spool \o c.wire = conn[k].spool \o conn[k].wire
  BY <1>3, <1>5, <1>11, <1>13
<1>15. conn'[k] = c => StreamRight(k)'
  BY <1>1, <1>2, <1>13 DEF StreamRight, scheme
<1> QED BY <1>1, <1>13, <1>14, <1>15, ConnectionOnly

\* An abort ends a TCP connection, and will end a WebSocket.
LEMMA AbortedFits ==
  ASSUME StreamsRight, NEW c \in Conns
  PROVE  /\ Aborted(c) \in Conns /\ Aborted(c).spool = c.spool /\ Aborted(c).wire = c.wire
         /\ Aborted(c).loop = c.loop /\ Aborted(c).deaf = c.deaf /\ Aborted(c).rendering = c.rendering
         /\ scheme = "tcp" => Aborted(c).phase = "closing" /\ Aborted(c).aborting = c.aborting
         /\ scheme = "ws" => Aborted(c).phase = c.phase
<1>1. scheme \in {"tcp", "ws"}
  BY StreamAssumption DEF StreamsRight, StreamTypes, scheme
<1>2. CASE scheme = "tcp"
  <2>1. Aborted(c) = [c EXCEPT !.phase = "closing"]
    BY <1>2 DEF Aborted, AbortTcp
  <2> QED BY <1>2, <2>1 DEF Conns
<1>3. CASE scheme = "ws"
  <2>1. Aborted(c) = [c EXCEPT !.aborting = TRUE]
    BY <1>3 DEF Aborted, AbortWs
  <2> QED BY <1>3, <2>1 DEF Conns
<1> QED BY <1>1, <1>2, <1>3

LEMMA LeaveRight ==
  ASSUME StreamsRight, NEW k \in Connections, Leave(k)
  PROVE  StreamsRight'
<1>1. /\ busy = k /\ busy' = None
      /\ UNCHANGED <<scenario, pool, starting, request, shut, received, taken>>
      /\ conn' = conn \/ conn' = [conn EXCEPT ![k] = Aborted(conn[k])]
  BY DEF Leave
<1>2. conn \in [Connections -> Conns] /\ StreamRight(k)
  BY DEF StreamsRight, StreamTypes
<1>3. scheme = "tcp" /\ conn[k].phase \in {"open", "closing"} /\ busy' # k
  BY <1>1, <1>2, StreamAssumption DEF StreamRight, None
<1>4. PICK c : c = IF conn' = conn THEN conn[k] ELSE Aborted(conn[k])
  OBVIOUS
<1>5. /\ c \in Conns /\ conn' = [conn EXCEPT ![k] = c] /\ c.phase \in {"open", "closing"}
      /\ c.spool = conn[k].spool /\ c.wire = conn[k].wire /\ c.loop = conn[k].loop
      /\ c.aborting = conn[k].aborting /\ c.rendering = conn[k].rendering /\ c.deaf = conn[k].deaf
  <2>1. CASE conn' = conn
    BY <1>2, <1>3, <1>4, <2>1
  <2>2. CASE conn' # conn
    BY <1>1, <1>2, <1>3, <1>4, <2>2, AbortedFits
  <2> QED BY <2>1, <2>2
<1>6. c.spool \o c.wire = conn[k].spool \o conn[k].wire
  BY <1>5
<1>7. conn'[k] = c => StreamRight(k)'
  BY <1>1, <1>2, <1>3, <1>5 DEF StreamRight, scheme
<1> QED BY <1>1, <1>5, <1>6, <1>7, ConnectionOnly

\* A message is taken: what comes is what was behind it.
LEMMA TakingStep ==
  ASSUME StreamsRight, scenario' = scenario, NEW k \in Connections, NEW c \in Conns,
         conn' = [conn EXCEPT ![k] = c], starting' \in Connections \cup {None},
         received' = received, taken' = [taken EXCEPT ![k] = @ + 1], taken[k] + 1 <= Len(received[k]),
         c.spool \o c.wire = UnitsOf(SubSeq(received[k], taken[k] + 2, Len(received[k]))),
         request' \in [Requests -> Inquiries],
         \A l \in Connections \ {k} :
           /\ l \in pool' => l \in pool
           /\ busy' = l => busy = l
           /\ \A r \in Requests : OpenOn(l, r)' => OpenOn(l, r),
         shut' => \A r \in Requests : request'[r].state # "open",
         conn'[k] = c => StreamRight(k)'
  PROVE  StreamsRight'
<1>1. /\ conn \in [Connections -> Conns] /\ taken \in [Connections -> Nat]
      /\ received \in [Connections -> Seq(scenario.messages)]
  BY DEF StreamsRight, StreamTypes
<1>2. /\ taken' \in [Connections -> Nat] /\ taken'[k] = taken[k] + 1
      /\ \A l \in Connections \ {k} : taken'[l] = taken[l]
  BY <1>1
<1>3. ASSUME conn'[k] = c PROVE Uncut(k)'
  <2>1. Coming(k)' = SubSeq(received[k], taken[k] + 2, Len(received[k]))
    <3>1. taken'[k] + 1 = taken[k] + 2
      BY <1>1, <1>2
    <3> QED BY <3>1, Zenon DEF Coming
  <2>2. UnitsOf(Coming(k))' = UnitsOf(SubSeq(received[k], taken[k] + 2, Len(received[k])))
    BY <2>1, Zenon DEF UnitsOf, Units, scheme
  <2>3. taken'[k] <= Len(received'[k])
    BY <1>1, <1>2
  <2> QED BY <1>3, <2>2, <2>3 DEF Uncut
<1> QED BY <1>1, <1>2, <1>3, StreamMoves

\* The units of the message that is the next to be taken are the first.
LEMMA FirstComing ==
  ASSUME StreamsRight, NEW k \in Connections, conn[k].spool \o conn[k].wire # <<>>
  PROVE  /\ taken[k] + 1 <= Len(received[k])
         /\ \E m \in scenario.messages, u, v \in Seq(UnitSet) :
              /\ u = Units(m) /\ v = UnitsOf(SubSeq(received[k], taken[k] + 2, Len(received[k])))
              /\ conn[k].spool \o conn[k].wire = u \o v
<1>s. PICK s : s = conn[k].spool \o conn[k].wire
  OBVIOUS
<1>1. PICK a : a = received[k]
  OBVIOUS
<1>2. PICK n : n = taken[k]
  OBVIOUS
<1>3. /\ a \in Seq(scenario.messages) /\ n \in Nat /\ n <= Len(a) /\ scenario \in Scenarios
      /\ s = UnitsOf(SubSeq(a, n + 1, Len(a)))
  BY <1>s, <1>1, <1>2 DEF StreamsRight, StreamTypes, Uncut, Coming
<1>4. n + 1 <= Len(a)
  <2>1. SUFFICES ASSUME n = Len(a) PROVE FALSE
    BY <1>3
  <2>2. SubSeq(a, n + 1, Len(a)) = <<>>
    BY <1>3, <2>1, SubSeqEmpty
  <2> QED BY <1>s, <1>3, <2>2, UnitsOfNone
<1>5. PICK m : m = a[n + 1]
  OBVIOUS
<1>6. m \in scenario.messages
  BY <1>3, <1>4, <1>5
<1>7. PICK o : o \in Seq(scenario.messages) /\ o = <<m>>
  <2>1. <<m>> \in Seq(scenario.messages)
    BY <1>6, OneIsSeq
  <2> QED BY <2>1
<1>8. PICK t : t = SubSeq(a, n + 2, Len(a))
  OBVIOUS
<1>9. t \in Seq(scenario.messages) /\ SubSeq(a, n + 1, Len(a)) = o \o t
  <2>1. PICK i : i = n + 1
    OBVIOUS
  <2>2. i \in 1 .. Len(a) /\ Len(a) \in i .. Len(a) /\ i + 1 = n + 2 /\ i \in Nat /\ i <= Len(a)
    BY <1>3, <1>4, <2>1
  <2>3. SubSeq(a, i, Len(a)) = <<a[i]>> \o SubSeq(a, i + 1, Len(a))
    BY <1>3, <2>2, SubSeqRecursiveFirst
  <2>4. SubSeq(a, i + 1, Len(a)) \in Seq(scenario.messages)
    BY <1>3, <2>2, EndOf
  <2> QED BY <1>5, <1>7, <1>8, <2>1, <2>2, <2>3, <2>4
<1>10. UnitsOf(o \o t) = UnitsOf(o) \o UnitsOf(t)
  BY <1>3, <1>7, <1>9, UnitsConcat
<1>11. UnitsOf(o) = Units(m)
  BY <1>3, <1>6, <1>7, UnitsOfOne, Zenon
<1>12. Units(m) \in Seq(UnitSet) /\ UnitsOf(t) \in Seq(UnitSet)
  BY <1>3, <1>6, <1>9, UnitsFit, UnitsType
<1>13. s = Units(m) \o UnitsOf(t)
  BY <1>3, <1>9, <1>10, <1>11, Zenon
<1>14. /\ UnitsOf(t) = UnitsOf(SubSeq(received[k], taken[k] + 2, Len(received[k])))
       /\ conn[k].spool \o conn[k].wire = Units(m) \o UnitsOf(t)
  BY <1>s, <1>1, <1>2, <1>8, <1>13
<1> QED BY <1>1, <1>2, <1>4, <1>6, <1>12, <1>14

\* The message taken out of the spool is that one, whole.
LEMMA TcpTakes ==
  ASSUME StreamsRight, NEW k \in Connections, Ready(k)
  PROVE  LET c == Rest(conn[k])
         IN /\ c \in Conns /\ c.phase = conn[k].phase /\ c.loop = conn[k].loop
            /\ c.aborting = conn[k].aborting /\ c.rendering = conn[k].rendering /\ c.deaf = conn[k].deaf
            /\ taken[k] + 1 <= Len(received[k])
            /\ c.spool \o c.wire = UnitsOf(SubSeq(received[k], taken[k] + 2, Len(received[k])))
            /\ Next1(conn[k].spool) \in scenario.messages
            /\ scheme = "tcp" /\ conn[k].phase \in {"open", "closing"}
<1>1. conn \in [Connections -> Conns] /\ StreamRight(k) /\ scenario \in Scenarios
  BY DEF StreamsRight, StreamTypes
<1>2. busy = k /\ conn[k].spool # <<>> /\ Announced(conn[k].spool) <= Len(conn[k].spool)
  BY DEF Ready, LengthKnown
<1>3. scheme = "tcp" /\ conn[k].phase \in {"open", "closing"}
  BY <1>1, <1>2 DEF StreamRight
<1>4. PICK p : p = conn[k].spool
  OBVIOUS
<1>5. PICK w : w = conn[k].wire
  OBVIOUS
<1>6. p \in Seq(UnitSet) /\ w \in Seq(UnitSet) /\ p # <<>>
  BY <1>1, <1>2, <1>4, <1>5 DEF Conns
<1>7. PICK s : s = p \o w
  OBVIOUS
<1>8. s # <<>> /\ s[1] = p[1] /\ Len(p) \in Nat \ {0}
  BY <1>6, <1>7
<1>9. /\ taken[k] + 1 <= Len(received[k])
      /\ \E m \in scenario.messages, u, v \in Seq(UnitSet) :
           /\ u = Units(m) /\ v = UnitsOf(SubSeq(received[k], taken[k] + 2, Len(received[k])))
           /\ conn[k].spool \o conn[k].wire = u \o v
  <2>1. conn[k].spool \o conn[k].wire # <<>>
    BY <1>4, <1>5, <1>7, <1>8
  <2> QED BY <2>1, FirstComing, Zenon
<1>10. PICK m \in scenario.messages, u, v \in Seq(UnitSet) :
           /\ u = Units(m) /\ v = UnitsOf(SubSeq(received[k], taken[k] + 2, Len(received[k])))
           /\ s = u \o v
  BY <1>4, <1>5, <1>7, <1>9
<1>11. u \in Seq(UnitSet) /\ Len(u) = m.units /\ Len(u) \in Nat \ {0} /\ u[1] = <<m, 1>>
  BY <1>1, <1>3, <1>10, UnitsFit
<1>12. s[1] = <<m, 1>>
  BY <1>10, <1>11
<1>13. Announced(p) = Len(u) /\ Next1(p) = m
  BY <1>8, <1>11, <1>12 DEF Announced, Next1
<1>14. PICK e : e = SubSeq(p, Len(u) + 1, Len(p))
  OBVIOUS
<1>15. e \in Seq(UnitSet) /\ e \o w = v
  <2>1. Len(u) <= Len(p)
    BY <1>2, <1>4, <1>13
  <2>2. e \in Seq(UnitSet)
    BY <1>6, <1>11, <1>14, <2>1, EndOf
  <2>3. p \o w = u \o v
    BY <1>7, <1>10
  <2>4. SubSeq(p, Len(u) + 1, Len(p)) \o w = v
    BY <1>6, <1>10, <2>1, <2>3, Cancel, Zenon
  <2> QED BY <1>14, <2>2, <2>4
<1>16. PICK c : c = [conn[k] EXCEPT !.spool = e]
  OBVIOUS
<1>17. Rest(conn[k]) = c
  BY <1>4, <1>13, <1>14, <1>16 DEF Rest
<1>18. /\ c \in Conns /\ c.phase = conn[k].phase /\ c.loop = conn[k].loop /\ c.spool = e /\ c.wire = w
       /\ c.aborting = conn[k].aborting /\ c.rendering = conn[k].rendering /\ c.deaf = conn[k].deaf
  BY <1>1, <1>5, <1>15, <1>16 DEF Conns
<1> QED BY <1>3, <1>4, <1>9, <1>10, <1>13, <1>15, <1>17, <1>18

\* What a message does to its connection, and to the requests.
LEMMA SignalledFits ==
  ASSUME StreamsRight, NEW c \in Conns, NEW m
  PROVE  /\ Signalled(c, m) \in Conns /\ Signalled(c, m).spool = c.spool /\ Signalled(c, m).wire = c.wire
         /\ Signalled(c, m).loop = c.loop /\ Signalled(c, m).deaf = c.deaf
         /\ Signalled(c, m).rendering = c.rendering
         /\ scheme = "tcp" => /\ Signalled(c, m).phase \in {c.phase, "closing"}
                              /\ Signalled(c, m).aborting = c.aborting
         /\ scheme = "ws" => Signalled(c, m).phase = c.phase
<1>1. PICK b \in BOOLEAN : b = (c.csm \/ m.what = "csm")
  OBVIOUS
<1>2. PICK d : d = [c EXCEPT !.csm = b]
  OBVIOUS
<1>3. /\ d \in Conns /\ d.spool = c.spool /\ d.wire = c.wire /\ d.loop = c.loop /\ d.deaf = c.deaf
      /\ d.rendering = c.rendering /\ d.phase = c.phase /\ d.aborting = c.aborting
  BY <1>2 DEF Conns
<1>4. [c EXCEPT !.csm = @ \/ m.what = "csm"] = d
  BY <1>1, <1>2, Zenon
<1>5. Signalled(c, m) = IF m.critical \/ m.what = "unknown" THEN Aborted(d) ELSE d
  BY <1>4, Zenon DEF Signalled
<1>6. CASE m.critical \/ m.what = "unknown"
  <2>1. Signalled(c, m) = Aborted(d)
    BY <1>5, <1>6
  <2> QED BY <1>3, <2>1, AbortedFits
<1>7. CASE ~ (m.critical \/ m.what = "unknown")
  <2>1. Signalled(c, m) = d
    BY <1>5, <1>7
  <2> QED BY <1>3, <2>1
<1> QED BY <1>6, <1>7

LEMMA RenderingFits ==
  ASSUME NEW c \in Conns, NEW m
  PROVE  /\ Rendering(c, m) \in Conns /\ Rendering(c, m).spool = c.spool /\ Rendering(c, m).wire = c.wire
         /\ Rendering(c, m).loop = c.loop /\ Rendering(c, m).deaf = c.deaf
         /\ Rendering(c, m).phase = c.phase /\ Rendering(c, m).aborting = c.aborting
<1>1. CASE m.what \in {"request", "empty"}
  BY <1>1 DEF Rendering, Conns
<1>2. CASE m.what \notin {"request", "empty"}
  BY <1>2 DEF Rendering
<1> QED BY <1>1, <1>2

LEMMA AbandonedFits ==
  ASSUME NEW c \in Conns
  PROVE  /\ Abandoned(c) \in Conns /\ Abandoned(c).spool = c.spool /\ Abandoned(c).wire = c.wire
         /\ Abandoned(c).loop = c.loop /\ Abandoned(c).deaf = c.deaf /\ ~ Abandoned(c).rendering
         /\ Abandoned(c).phase = c.phase /\ Abandoned(c).aborting = c.aborting
BY DEF Abandoned, Conns

LEMMA InquiryAnswered ==
  ASSUME StreamsRight, NEW k \in Connections, NEW m
  PROVE  /\ Answered(k, m) \in [Requests -> Inquiries]
         /\ \A r \in Requests : Answered(k, m)[r] = request[r] \/ Answered(k, m)[r].state = "answered"
<1>1. request \in [Requests -> Inquiries]
  BY DEF StreamsRight, StreamTypes
<1>2. CASE m.what = "response" /\ request[m.to] = [state |-> "open", remote |-> k] /\ m.to \in Requests
  <2>1. PICK q : q = [request[m.to] EXCEPT !.state = "answered"]
    OBVIOUS
  <2>2. q \in Inquiries /\ q.state = "answered"
    BY <1>1, <1>2, <2>1 DEF Inquiries
  <2>3. Answered(k, m) = [request EXCEPT ![m.to] = q]
    BY <1>1, <1>2, <2>1 DEF Answered
  <2> QED BY <1>1, <1>2, <2>2, <2>3
<1>3. CASE ~ (m.what = "response" /\ request[m.to] = [state |-> "open", remote |-> k] /\ m.to \in Requests)
  <2>1. Answered(k, m) = request
    BY <1>1, <1>3 DEF Answered
  <2> QED BY <1>1, <2>1
<1> QED BY <1>2, <1>3

\* Requests as they are after a message: as they were, answered, or failed.
LEMMA InquiriesAfter ==
  ASSUME StreamsRight, NEW k \in Connections, NEW m, shut' = shut,
         request' \in {request, FailedOn(k), Answered(k, m)}
  PROVE  /\ request' \in [Requests -> Inquiries]
         /\ \A l \in Connections : \A r \in Requests : OpenOn(l, r)' => OpenOn(l, r)
         /\ shut' => \A r \in Requests : request'[r].state # "open"
<1>1. request \in [Requests -> Inquiries]
  BY DEF StreamsRight, StreamTypes
<1>2. /\ FailedOn(k) \in [Requests -> Inquiries]
      /\ \A r \in Requests : FailedOn(k)[r] = request[r] \/ FailedOn(k)[r].state = "failed"
  BY InquiriesFail DEF StreamsRight
<1>3. /\ Answered(k, m) \in [Requests -> Inquiries]
      /\ \A r \in Requests : Answered(k, m)[r] = request[r] \/ Answered(k, m)[r].state = "answered"
  BY InquiryAnswered
<1>4. ASSUME NEW q \in {request, FailedOn(k), Answered(k, m)}
      PROVE  /\ q \in [Requests -> Inquiries]
             /\ \A r \in Requests : q[r] = request[r] \/ q[r].state \in {"failed", "answered"}
  BY <1>1, <1>2, <1>3
<1>5. /\ request' \in [Requests -> Inquiries]
      /\ \A r \in Requests : request'[r] = request[r] \/ request'[r].state \in {"failed", "answered"}
  BY <1>4
<1>6. \A l \in Connections : \A r \in Requests : OpenOn(l, r)' => OpenOn(l, r)
  BY <1>5 DEF OpenOn
<1>7. shut' => \A r \in Requests : request'[r].state # "open"
  BY <1>5 DEF StreamsRight
<1> QED BY <1>5, <1>6, <1>7

LEMMA SignalRight ==
  ASSUME StreamsRight, NEW k \in Connections, Signal(k)
  PROVE  StreamsRight'
<1>1. PICK d : d = Rest(conn[k])
  OBVIOUS
<1>2. /\ d \in Conns /\ d.phase = conn[k].phase /\ d.loop = conn[k].loop /\ d.aborting = conn[k].aborting
      /\ taken[k] + 1 <= Len(received[k])
      /\ d.spool \o d.wire = UnitsOf(SubSeq(received[k], taken[k] + 2, Len(received[k])))
      /\ scheme = "tcp" /\ conn[k].phase \in {"open", "closing"}
  BY <1>1, TcpTakes DEF Signal
<1>3. PICK m : IF Concluding(m)
                 THEN /\ conn' = [conn EXCEPT ![k] = [Abandoned(Signalled(Rest(@), m)) EXCEPT !.phase = "closing"]]
                      /\ pool' = pool \ {k}
                      /\ request' = FailedOn(k)
                 ELSE conn' = [conn EXCEPT ![k] = Signalled(Rest(@), m)] /\ UNCHANGED <<pool, request>>
  BY DEF Signal
<1>4. taken' = [taken EXCEPT ![k] = @ + 1] /\ UNCHANGED <<scenario, starting, busy, shut, received>>
  BY DEF Signal, Taken
<1>5. /\ conn \in [Connections -> Conns] /\ StreamRight(k)
      /\ starting \in Connections \cup {None}
  BY DEF StreamsRight, StreamTypes
<1>6. PICK s : s = Signalled(d, m)
  OBVIOUS
<1>7. /\ s \in Conns /\ s.phase \in {"open", "closing"} /\ s.loop = conn[k].loop
      /\ s.aborting = conn[k].aborting /\ s.spool = d.spool /\ s.wire = d.wire
  BY <1>2, <1>6, SignalledFits
<1>8. PICK a : a = Abandoned(s)
  OBVIOUS
<1>9. /\ a \in Conns /\ a.loop = conn[k].loop /\ a.aborting = conn[k].aborting
      /\ a.spool = d.spool /\ a.wire = d.wire
  BY <1>7, <1>8, AbandonedFits
<1>10. PICK c : c = IF Concluding(m) THEN [a EXCEPT !.phase = "closing"] ELSE s
  OBVIOUS
<1>11. /\ c \in Conns /\ c.phase \in {"open", "closing"} /\ c.loop = conn[k].loop
       /\ c.aborting = conn[k].aborting /\ c.spool = d.spool /\ c.wire = d.wire
  BY <1>7, <1>9, <1>10 DEF Conns
<1>12. /\ conn' = [conn EXCEPT ![k] = c] /\ pool' \subseteq pool
       /\ request' \in {request, FailedOn(k), Answered(k, m)}
  <2>1. CASE Concluding(m)
    BY <1>1, <1>3, <1>5, <1>6, <1>8, <1>10, <2>1
  <2>2. CASE ~ Concluding(m)
    BY <1>1, <1>3, <1>5, <1>6, <1>10, <2>2
  <2> QED BY <2>1, <2>2
<1>13. conn'[k] = c => StreamRight(k)'
  BY <1>2, <1>4, <1>5, <1>11 DEF StreamRight, scheme
<1>14. /\ request' \in [Requests -> Inquiries]
       /\ \A l \in Connections : \A r \in Requests : OpenOn(l, r)' => OpenOn(l, r)
       /\ shut' => \A r \in Requests : request'[r].state # "open"
  BY <1>4, <1>12, InquiriesAfter
<1> QED BY <1>2, <1>4, <1>5, <1>11, <1>12, <1>13, <1>14, TakingStep

LEMMA DispatchIncomingRight ==
  ASSUME StreamsRight, NEW k \in Connections, DispatchIncoming(k)
  PROVE  StreamsRight'
<1>1. PICK d : d = Rest(conn[k])
  OBVIOUS
<1>2. /\ d \in Conns /\ d.phase = conn[k].phase /\ d.loop = conn[k].loop /\ d.aborting = conn[k].aborting
      /\ taken[k] + 1 <= Len(received[k])
      /\ d.spool \o d.wire = UnitsOf(SubSeq(received[k], taken[k] + 2, Len(received[k])))
      /\ scheme = "tcp" /\ conn[k].phase \in {"open", "closing"}
  BY <1>1, TcpTakes DEF DispatchIncoming
<1>3. PICK m : IF ~ conn[k].csm \/ shut
                 THEN conn' = [conn EXCEPT ![k] = Aborted(Rest(@))] /\ busy' = None /\ UNCHANGED request
                 ELSE /\ conn' = [conn EXCEPT ![k] = Rendering(Rest(@), m)]
                      /\ request' = Answered(k, m)
                      /\ UNCHANGED busy
  BY DEF DispatchIncoming
<1>4. taken' = [taken EXCEPT ![k] = @ + 1] /\ UNCHANGED <<scenario, pool, starting, shut, received>>
  BY DEF DispatchIncoming, Taken
<1>5. /\ conn \in [Connections -> Conns] /\ StreamRight(k)
      /\ starting \in Connections \cup {None}
  BY DEF StreamsRight, StreamTypes
<1>6. /\ Aborted(d) \in Conns /\ Aborted(d).phase = "closing" /\ Aborted(d).loop = conn[k].loop
      /\ Aborted(d).aborting = conn[k].aborting /\ Aborted(d).spool = d.spool /\ Aborted(d).wire = d.wire
  BY <1>2, AbortedFits
<1>7. /\ Rendering(d, m) \in Conns /\ Rendering(d, m).phase = d.phase /\ Rendering(d, m).loop = conn[k].loop
      /\ Rendering(d, m).aborting = conn[k].aborting
      /\ Rendering(d, m).spool = d.spool /\ Rendering(d, m).wire = d.wire
  BY <1>2, RenderingFits
<1>8. PICK c : c = IF ~ conn[k].csm \/ shut THEN Aborted(d) ELSE Rendering(d, m)
  OBVIOUS
<1>9. /\ c \in Conns /\ c.phase \in {"open", "closing"} /\ c.loop = conn[k].loop
      /\ c.aborting = conn[k].aborting /\ c.spool = d.spool /\ c.wire = d.wire
  BY <1>2, <1>6, <1>7, <1>8
<1>10. /\ conn' = [conn EXCEPT ![k] = c] /\ busy' \in {busy, None}
       /\ request' \in {request, FailedOn(k), Answered(k, m)}
  <2>1. CASE ~ conn[k].csm \/ shut
    BY <1>1, <1>3, <1>5, <1>8, <2>1
  <2>2. CASE ~ (~ conn[k].csm \/ shut)
    BY <1>1, <1>3, <1>5, <1>8, <2>2
  <2> QED BY <2>1, <2>2
<1>11. conn'[k] = c => StreamRight(k)'
  BY <1>2, <1>4, <1>5, <1>9 DEF StreamRight, scheme
<1>12. /\ request' \in [Requests -> Inquiries]
       /\ \A l \in Connections : \A r \in Requests : OpenOn(l, r)' => OpenOn(l, r)
       /\ shut' => \A r \in Requests : request'[r].state # "open"
  BY <1>4, <1>10, InquiriesAfter
<1>13. \A l \in Connections : busy' = l => busy = l
  BY <1>10, StreamAssumption DEF None
<1> QED BY <1>2, <1>4, <1>5, <1>9, <1>10, <1>11, <1>12, <1>13, TakingStep

\* The end of a connection.
LEMMA ConnectionLostRight ==
  ASSUME StreamsRight, NEW k \in Connections, ConnectionLost(k)
  PROVE  StreamsRight'
<1>1. /\ scheme = "tcp" /\ conn[k].phase \in {"open", "closing"}
      /\ conn' = [conn EXCEPT ![k] = [Abandoned(@) EXCEPT !.phase = "lost"]] /\ busy = None
      /\ pool' = pool \ {k} /\ request' = FailedOn(k)
      /\ UNCHANGED <<scenario, starting, busy, shut, received, taken>>
  BY DEF ConnectionLost
<1>2. conn \in [Connections -> Conns] /\ StreamRight(k) /\ starting \in Connections \cup {None}
  BY DEF StreamsRight, StreamTypes
<1>3. PICK a : a = Abandoned(conn[k])
  OBVIOUS
<1>4. PICK c : c = [a EXCEPT !.phase = "lost"]
  OBVIOUS
<1>5. /\ a \in Conns /\ a.spool = conn[k].spool /\ a.wire = conn[k].wire /\ a.loop = conn[k].loop
      /\ a.aborting = conn[k].aborting /\ ~ a.rendering
  BY <1>2, <1>3, AbandonedFits
<1>6. /\ c \in Conns /\ c.spool = conn[k].spool /\ c.wire = conn[k].wire /\ c.loop = conn[k].loop
      /\ c.aborting = conn[k].aborting /\ ~ c.rendering /\ c.phase = "lost"
  BY <1>4, <1>5 DEF Conns
<1>7. conn' = [conn EXCEPT ![k] = c]
  BY <1>1, <1>2, <1>3, <1>4
<1>8. /\ request' \in [Requests -> Inquiries]
      /\ \A l \in Connections : \A r \in Requests : OpenOn(l, r)' => OpenOn(l, r)
      /\ shut' => \A r \in Requests : request'[r].state # "open"
  BY <1>1, InquiriesAfter
<1>9. NoneOpen(k)'
  <2>1. CASE shut
    BY <1>1, <1>8, <2>1 DEF NoneOpen, OpenOn
  <2>2. CASE ~ shut
    BY <1>1, <2>2, InquiriesFail DEF StreamsRight, NoneOpen, OpenOn
  <2> QED BY <2>1, <2>2
<1>10. conn'[k] = c => StreamRight(k)'
  BY <1>1, <1>2, <1>6, <1>9, StreamAssumption DEF StreamRight, scheme, None
<1>11. c.spool \o c.wire = conn[k].spool \o conn[k].wire
  BY <1>6
<1> QED BY <1>1, <1>2, <1>6, <1>7, <1>8, <1>10, <1>11, CalmStep

\* The message a WebSocket receives is the next one.
LEMMA WsTakes ==
  ASSUME StreamsRight, NEW k \in Connections, conn[k].loop, conn[k].wire # <<>>
  PROVE  LET c == Consumed(conn[k])
         IN /\ c \in Conns /\ c.phase = conn[k].phase /\ c.loop = conn[k].loop /\ c.spool = <<>>
            /\ c.aborting = conn[k].aborting /\ c.deaf = conn[k].deaf
            /\ taken[k] + 1 <= Len(received[k])
            /\ c.spool \o c.wire = UnitsOf(SubSeq(received[k], taken[k] + 2, Len(received[k])))
            /\ scheme = "ws" /\ conn[k].phase \in {"open", "closing"}
<1>1. conn \in [Connections -> Conns] /\ StreamRight(k) /\ scenario \in Scenarios
  BY DEF StreamsRight, StreamTypes
<1>2. scheme = "ws" /\ conn[k].phase \in {"open", "closing"} /\ conn[k].spool = <<>>
  BY <1>1 DEF StreamRight
<1>3. PICK w : w = conn[k].wire
  OBVIOUS
<1>4. w \in Seq(UnitSet) /\ w # <<>> /\ conn[k].spool \o conn[k].wire = w
  <2>1. w \in Seq(UnitSet)
    BY <1>1, <1>3 DEF Conns
  <2> QED BY <1>2, <1>3, <2>1
<1>5. conn[k].spool \o conn[k].wire # <<>>
  BY <1>4
<1>6. /\ taken[k] + 1 <= Len(received[k])
      /\ \E m \in scenario.messages, u, v \in Seq(UnitSet) :
           /\ u = Units(m) /\ v = UnitsOf(SubSeq(received[k], taken[k] + 2, Len(received[k])))
           /\ conn[k].spool \o conn[k].wire = u \o v
  BY <1>5, FirstComing, Zenon
<1>7. PICK m \in scenario.messages, u, v \in Seq(UnitSet) :
           /\ u = Units(m) /\ v = UnitsOf(SubSeq(received[k], taken[k] + 2, Len(received[k])))
           /\ w = u \o v
  BY <1>4, <1>6
<1>8. u \in Seq(UnitSet) /\ Len(u) = 1
  BY <1>1, <1>2, <1>7, UnitsFit
<1>9. PICK e : e \in Seq(UnitSet) /\ e = <<>>
  <2>1. <<>> \in Seq(UnitSet)
    BY EmptySeq
  <2> QED BY <2>1
<1>10. PICK t : t = Tail(w)
  OBVIOUS
<1>11. t \in Seq(UnitSet) /\ t = SubSeq(w, Len(u) + 1, Len(w)) /\ Len(u) <= Len(w)
  <2>1. t = SubSeq(w, 2, Len(w)) /\ t \in Seq(UnitSet)
    BY <1>4, <1>10, TailIsSubSeq, HeadTailProperties
  <2>2. Len(w) \in Nat \ {0}
    BY <1>4, EmptySeq
  <2>3. Len(u) + 1 = 2 /\ Len(u) <= Len(w)
    BY <1>8, <2>2
  <2> QED BY <2>1, <2>3
<1>12. SubSeq(w, Len(u) + 1, Len(w)) \o e = v
  <2>1. w \o e = u \o v
    <3>1. w \o e = w
      BY <1>4, <1>9
    <3> QED BY <1>7, <3>1
  <2>2. Len(u) <= Len(w)
    BY <1>11
  <2> QED BY <1>4, <1>7, <1>9, <2>1, <2>2, Cancel, Zenon
<1>13. t = v
  <2>1. t \o e = t
    BY <1>9, <1>11
  <2> QED BY <1>11, <1>12, <2>1
<1>14. PICK c : c = [conn[k] EXCEPT !.wire = t]
  OBVIOUS
<1>15. Consumed(conn[k]) = c
  BY <1>3, <1>10, <1>14 DEF Consumed
<1>16. /\ c \in Conns /\ c.phase = conn[k].phase /\ c.loop = conn[k].loop /\ c.spool = <<>> /\ c.wire = t
       /\ c.aborting = conn[k].aborting /\ c.deaf = conn[k].deaf
  BY <1>1, <1>2, <1>11, <1>14 DEF Conns
<1>17. c.spool \o c.wire = v
  BY <1>11, <1>13, <1>16
<1> QED BY <1>2, <1>6, <1>7, <1>15, <1>16, <1>17

LEMMA DeafFits ==
  ASSUME NEW c \in Conns
  PROVE  LET d == [c EXCEPT !.loop = FALSE, !.deaf = TRUE]
         IN d \in Conns /\ d.spool = c.spool /\ d.wire = c.wire /\ d.phase = c.phase /\ d.deaf
BY DEF Conns

LEMMA RecvRight ==
  ASSUME StreamsRight, NEW k \in Connections, Recv(k)
  PROVE  StreamsRight'
<1>1. PICK c : c = Consumed(conn[k])
  OBVIOUS
<1>2. /\ c \in Conns /\ c.phase = conn[k].phase /\ c.loop = conn[k].loop /\ c.spool = <<>>
      /\ taken[k] + 1 <= Len(received[k])
      /\ c.spool \o c.wire = UnitsOf(SubSeq(received[k], taken[k] + 2, Len(received[k])))
      /\ scheme = "ws" /\ conn[k].phase \in {"open", "closing"} /\ conn[k].loop
  BY <1>1, WsTakes DEF Recv
<1>3. taken' = [taken EXCEPT ![k] = @ + 1] /\ UNCHANGED <<scenario, starting, busy, shut, received>>
  BY DEF Recv, Taken
<1>4. PICK m : m = conn[k].wire[1][1]
  OBVIOUS
<1>5. /\ AbortDeaf(c) \in Conns /\ AbortDeaf(c).spool = c.spool /\ AbortDeaf(c).wire = c.wire
      /\ AbortDeaf(c).phase = c.phase /\ AbortDeaf(c).deaf
  <2>1. PICK a : a = Aborted(c)
    OBVIOUS
  <2>2. a \in Conns /\ a.spool = c.spool /\ a.wire = c.wire /\ a.phase = c.phase
    BY <1>2, <2>1, AbortedFits
  <2>3. AbortDeaf(c) = [a EXCEPT !.loop = FALSE, !.deaf = TRUE]
    BY <2>1 DEF AbortDeaf
  <2> QED BY <2>2, <2>3, DeafFits
<1>6. PICK s : s = Signalled(c, m)
  OBVIOUS
<1>7. s \in Conns /\ s.spool = c.spool /\ s.wire = c.wire /\ s.phase = c.phase /\ s.loop = c.loop
  BY <1>2, <1>6, SignalledFits
<1>8. PICK a : a = Abandoned(s)
  OBVIOUS
<1>9. a \in Conns /\ a.spool = c.spool /\ a.wire = c.wire /\ a.phase = c.phase /\ a.loop = c.loop
  BY <1>7, <1>8, AbandonedFits
<1> DEFINE Suits(d) == /\ d \in Conns /\ d.spool = c.spool /\ d.wire = c.wire
                      /\ d.phase \in {"open", "closing"} /\ (d.loop \/ d.deaf)
<1>10. Suits(AbortDeaf(c)) /\ Suits(s)
  BY <1>2, <1>5, <1>7
<1>11. Suits([a EXCEPT !.loop = FALSE, !.deaf = TRUE]) /\ Suits([a EXCEPT !.phase = "closing"])
  BY <1>2, <1>9 DEF Conns
<1>12. Suits([c EXCEPT !.loop = FALSE, !.deaf = TRUE]) /\ Suits(Rendering(c, m))
  <2>1. Suits([c EXCEPT !.loop = FALSE, !.deaf = TRUE])
    BY <1>2 DEF Conns
  <2>2. Suits(Rendering(c, m))
    BY <1>2, RenderingFits
  <2> QED BY <2>1, <2>2
<1> HIDE DEF Suits
<1>13. /\ \E d : Suits(d) /\ conn' = [conn EXCEPT ![k] = d]
       /\ pool' \subseteq pool /\ request' \in {request, FailedOn(k), Answered(k, m)}
  <2>1. CASE ~ Parsable(m)
    <3>1. conn' = [conn EXCEPT ![k] = AbortDeaf(c)] /\ UNCHANGED <<pool, request>>
      BY <1>1, <1>4, <2>1 DEF Recv
    <3> QED BY <1>10, <3>1
  <2>2. CASE Parsable(m) /\ m.what \in Signalling
    <3>1. IF Concluding(m)
            THEN /\ conn' = [conn EXCEPT ![k] =
                               IF Named(k) = {}
                                 THEN [Abandoned(Signalled(c, m)) EXCEPT !.loop = FALSE, !.deaf = TRUE]
                                 ELSE [Abandoned(Signalled(c, m)) EXCEPT !.phase = "closing"]]
                 /\ pool' = pool \ Named(k)
                 /\ request' = FailedOn(k)
            ELSE conn' = [conn EXCEPT ![k] = Signalled(c, m)] /\ UNCHANGED <<pool, request>>
      BY <1>1, <1>4, <2>2 DEF Recv
    <3>2. CASE Concluding(m) /\ Named(k) = {}
      <4>1. conn' = [conn EXCEPT ![k] = [a EXCEPT !.loop = FALSE, !.deaf = TRUE]]
        BY <1>6, <1>8, <3>1, <3>2
      <4> QED BY <1>11, <3>1, <3>2, <4>1
    <3>3. CASE Concluding(m) /\ Named(k) # {}
      <4>1. conn' = [conn EXCEPT ![k] = [a EXCEPT !.phase = "closing"]]
        BY <1>6, <1>8, <3>1, <3>3
      <4> QED BY <1>11, <3>1, <3>3, <4>1
    <3>4. CASE ~ Concluding(m)
      BY <1>6, <1>10, <3>1, <3>4
    <3> QED BY <3>2, <3>3, <3>4
  <2>3. CASE Parsable(m) /\ m.what \notin Signalling
    <3>1. /\ conn' = [conn EXCEPT ![k] = IF ~ c.csm THEN AbortDeaf(c)
                                         ELSE IF shut THEN [c EXCEPT !.loop = FALSE, !.deaf = TRUE]
                                         ELSE Rendering(c, m)]
          /\ request' = IF c.csm /\ ~ shut THEN Answered(k, m) ELSE request
          /\ UNCHANGED pool
      BY <1>1, <1>4, <2>3 DEF Recv
    <3>2. CASE ~ c.csm
      BY <1>10, <3>1, <3>2
    <3>3. CASE c.csm /\ shut
      BY <1>12, <3>1, <3>3
    <3>4. CASE c.csm /\ ~ shut
      BY <1>12, <3>1, <3>4
    <3> QED BY <3>2, <3>3, <3>4
  <2> QED BY <2>1, <2>2, <2>3
<1>14. PICK d : Suits(d) /\ conn' = [conn EXCEPT ![k] = d]
  BY <1>13
<1>15. /\ d \in Conns /\ d.spool = c.spool /\ d.wire = c.wire
       /\ d.phase \in {"open", "closing"} /\ (d.loop \/ d.deaf)
  BY <1>14 DEF Suits
<1>16. StreamRight(k) /\ starting \in Connections \cup {None}
  BY DEF StreamsRight, StreamTypes
<1>17. conn'[k] = d => StreamRight(k)'
  BY <1>2, <1>3, <1>15, <1>16 DEF StreamRight, scheme
<1>18. /\ request' \in [Requests -> Inquiries]
       /\ \A l \in Connections : \A r \in Requests : OpenOn(l, r)' => OpenOn(l, r)
       /\ shut' => \A r \in Requests : request'[r].state # "open"
  BY <1>3, <1>13, InquiriesAfter
<1>19. d.spool \o d.wire = UnitsOf(SubSeq(received[k], taken[k] + 2, Len(received[k])))
  BY <1>2, <1>15
<1> QED BY <1>2, <1>3, <1>13, <1>14, <1>15, <1>16, <1>17, <1>18, <1>19, TakingStep

LEMMA RecvClosedRight ==
  ASSUME StreamsRight, NEW k \in Connections, RecvClosed(k)
  PROVE  StreamsRight'
<1>1. /\ conn[k].loop
      /\ conn' = [conn EXCEPT ![k] = [Abandoned(@) EXCEPT !.phase = "lost", !.loop = FALSE]]
      /\ request' = FailedOn(k)
      /\ UNCHANGED <<scenario, pool, starting, busy, shut, received, taken>>
  BY DEF RecvClosed, Closed
<1>2. conn \in [Connections -> Conns] /\ StreamRight(k) /\ starting \in Connections \cup {None}
  BY DEF StreamsRight, StreamTypes
<1>3. PICK a : a = Abandoned(conn[k])
  OBVIOUS
<1>4. PICK c : c = [a EXCEPT !.phase = "lost", !.loop = FALSE]
  OBVIOUS
<1>5. /\ a \in Conns /\ a.spool = conn[k].spool /\ a.wire = conn[k].wire
      /\ a.aborting = conn[k].aborting /\ ~ a.rendering
  BY <1>2, <1>3, AbandonedFits
<1>6. /\ c \in Conns /\ c.spool = conn[k].spool /\ c.wire = conn[k].wire /\ ~ c.loop
      /\ c.aborting = conn[k].aborting /\ ~ c.rendering /\ c.phase = "lost"
  BY <1>4, <1>5 DEF Conns
<1>7. conn' = [conn EXCEPT ![k] = c]
  BY <1>1, <1>2, <1>3, <1>4
<1>8. /\ request' \in [Requests -> Inquiries]
      /\ \A l \in Connections : \A r \in Requests : OpenOn(l, r)' => OpenOn(l, r)
      /\ shut' => \A r \in Requests : request'[r].state # "open"
  BY <1>1, InquiriesAfter
<1>9. NoneOpen(k)'
  <2>1. CASE shut
    BY <1>1, <1>8, <2>1 DEF NoneOpen, OpenOn
  <2>2. CASE ~ shut
    BY <1>1, <2>2, InquiriesFail DEF StreamsRight, NoneOpen, OpenOn
  <2> QED BY <2>1, <2>2
<1>10. conn'[k] = c => StreamRight(k)'
  BY <1>1, <1>2, <1>6, <1>9 DEF StreamRight, scheme
<1>11. c.spool \o c.wire = conn[k].spool \o conn[k].wire
  BY <1>6
<1> QED BY <1>1, <1>2, <1>6, <1>7, <1>8, <1>10, <1>11, CalmStep

LEMMA FinishAbortRight ==
  ASSUME StreamsRight, NEW k \in Connections, FinishAbort(k)
  PROVE  StreamsRight'
<1>1. /\ conn[k].aborting
      /\ conn' = [conn EXCEPT ![k].aborting = FALSE,
                              ![k].phase = IF conn[k].loop THEN "closing" ELSE "lost"]
      /\ UNCHANGED <<scenario, pool, starting, request, busy, shut, received, taken>>
  BY DEF FinishAbort
<1>2. conn \in [Connections -> Conns] /\ StreamRight(k)
  BY DEF StreamsRight, StreamTypes
<1>3. PICK c : c = [conn[k] EXCEPT !.aborting = FALSE, !.phase = IF conn[k].loop THEN "closing" ELSE "lost"]
  OBVIOUS
<1>4. /\ c \in Conns /\ c.phase = (IF conn[k].loop THEN "closing" ELSE "lost") /\ ~ c.aborting
      /\ c.spool = conn[k].spool /\ c.wire = conn[k].wire /\ c.loop = conn[k].loop
      /\ c.rendering = conn[k].rendering /\ c.deaf = conn[k].deaf
  BY <1>2, <1>3 DEF Conns
<1>5. conn' = [conn EXCEPT ![k] = c]
  BY <1>1, <1>2, <1>3
<1>6. conn[k].phase \in {"open", "closing", "lost"} /\ scheme = "ws"
  BY <1>1, <1>2 DEF StreamRight, Conns
<1>7. conn'[k] = c /\ NoneOpen(k)' = NoneOpen(k) => StreamRight(k)'
  BY <1>1, <1>2, <1>4, <1>6 DEF StreamRight, scheme
<1>8. c.spool \o c.wire = conn[k].spool \o conn[k].wire
  BY <1>4
<1> QED BY <1>1, <1>4, <1>5, <1>7, <1>8, ConnectionOnly

LEMMA RespondRight ==
  ASSUME StreamsRight, NEW k \in Connections, Respond(k)
  PROVE  StreamsRight'
<1>1. /\ conn[k].rendering /\ conn' = [conn EXCEPT ![k].rendering = FALSE]
      /\ UNCHANGED <<scenario, pool, starting, request, busy, shut, received, taken>>
  BY DEF Respond
<1>2. conn \in [Connections -> Conns] /\ StreamRight(k)
  BY DEF StreamsRight, StreamTypes
<1>3. PICK c : c = [conn[k] EXCEPT !.rendering = FALSE]
  OBVIOUS
<1>4. /\ c \in Conns /\ c.phase = conn[k].phase /\ c.aborting = conn[k].aborting
      /\ c.spool = conn[k].spool /\ c.wire = conn[k].wire /\ c.loop = conn[k].loop
      /\ ~ c.rendering /\ c.deaf = conn[k].deaf
  BY <1>2, <1>3 DEF Conns
<1>5. conn' = [conn EXCEPT ![k] = c]
  BY <1>1, <1>2, <1>3
<1>6. conn'[k] = c /\ NoneOpen(k)' = NoneOpen(k) => StreamRight(k)'
  BY <1>1, <1>2, <1>4 DEF StreamRight, scheme
<1>7. c.spool \o c.wire = conn[k].spool \o conn[k].wire
  BY <1>4
<1> QED BY <1>1, <1>4, <1>5, <1>6, <1>7, ConnectionOnly

LEMMA ShutdownRight ==
  ASSUME StreamsRight, Shutdown
  PROVE  StreamsRight'
<1>1. /\ conn' = [k \in Connections |-> Abandoned(conn[k])] /\ request' = AllFailed
      /\ UNCHANGED <<scenario, pool, starting, busy, received, taken>>
  BY DEF Shutdown
<1>2. conn \in [Connections -> Conns] /\ request \in [Requests -> Inquiries]
  BY DEF StreamsRight, StreamTypes
<1>3. ASSUME NEW r \in Requests PROVE request'[r] \in Inquiries /\ request'[r].state # "open"
  BY <1>1, <1>2 DEF AllFailed, Inquiries
<1>4. request' \in [Requests -> Inquiries]
  BY <1>1, <1>3 DEF AllFailed
<1>5. ASSUME NEW k \in Connections
      PROVE  /\ conn'[k] \in Conns /\ conn'[k].spool = conn[k].spool /\ conn'[k].wire = conn[k].wire
             /\ conn'[k].loop = conn[k].loop /\ conn'[k].deaf = conn[k].deaf /\ ~ conn'[k].rendering
             /\ conn'[k].phase = conn[k].phase /\ conn'[k].aborting = conn[k].aborting
  <2>1. PICK a : a = Abandoned(conn[k])
    OBVIOUS
  <2>2. /\ a \in Conns /\ a.spool = conn[k].spool /\ a.wire = conn[k].wire
        /\ a.loop = conn[k].loop /\ a.deaf = conn[k].deaf /\ ~ a.rendering
        /\ a.phase = conn[k].phase /\ a.aborting = conn[k].aborting
    BY <1>2, <2>1, AbandonedFits
  <2>3. conn'[k] = a
    BY <1>1, <2>1
  <2> QED BY <2>2, <2>3
<1>6. conn' \in [Connections -> Conns]
  BY <1>1, <1>5
<1>7. StreamTypes'
  BY <1>1, <1>4, <1>6 DEF StreamsRight, StreamTypes, Conns, UnitSet, Inquiries
<1>8. ASSUME NEW k \in Connections PROVE StreamRight(k)' /\ Uncut(k)'
  <2>1. StreamRight(k) /\ Uncut(k)
    BY DEF StreamsRight
  <2>2. NoneOpen(k)'
    BY <1>3 DEF NoneOpen, OpenOn
  <2>3. StreamRight(k)'
    BY <1>1, <1>5, <2>1, <2>2 DEF StreamRight, scheme
  <2>4. Uncut(k)'
    BY <1>1, <1>5, <2>1, UncutStays
  <2> QED BY <2>3, <2>4
<1> QED BY <1>3, <1>7, <1>8 DEF StreamsRight

LEMMA StreamsStep == StreamsRight /\ [NextStreams]_streamVars => StreamsRight'
<1> SUFFICES ASSUME StreamsRight, [NextStreams]_streamVars PROVE StreamsRight'
  OBVIOUS
<1>1. ASSUME NEW r \in Requests, Inquire(r) PROVE StreamsRight'
  BY <1>1, InquireRight
<1>2. ASSUME NEW k \in Connections, Connected(k) PROVE StreamsRight'
  BY <1>2, ConnectedRight
<1>3. ASSUME NEW k \in Connections, ConnectFails(k) PROVE StreamsRight'
  BY <1>3, ConnectFailsRight
<1>4. ASSUME NEW k \in Connections, Accepted(k) PROVE StreamsRight'
  BY <1>4, AcceptedRight
<1>5. ASSUME NEW k \in Connections, PeerCloses(k) PROVE StreamsRight'
  BY <1>5, PeerClosesRight
<1>6. ASSUME NEW k \in Connections, NEW m \in scenario.messages, PeerSends(k, m) PROVE StreamsRight'
  BY <1>6, PeerSendsRight
<1>7. ASSUME NEW k \in Connections, DataReceived(k) PROVE StreamsRight'
  BY <1>7, DataReceivedRight
<1>8. ASSUME NEW k \in Connections, Leave(k) PROVE StreamsRight'
  BY <1>8, LeaveRight
<1>9. ASSUME NEW k \in Connections, Signal(k) PROVE StreamsRight'
  BY <1>9, SignalRight
<1>10. ASSUME NEW k \in Connections, DispatchIncoming(k) PROVE StreamsRight'
  BY <1>10, DispatchIncomingRight
<1>11. ASSUME NEW k \in Connections, ConnectionLost(k) PROVE StreamsRight'
  BY <1>11, ConnectionLostRight
<1>12. ASSUME NEW k \in Connections, Recv(k) PROVE StreamsRight'
  BY <1>12, RecvRight
<1>13. ASSUME NEW k \in Connections, RecvClosed(k) PROVE StreamsRight'
  BY <1>13, RecvClosedRight
<1>14. ASSUME NEW k \in Connections, FinishAbort(k) PROVE StreamsRight'
  BY <1>14, FinishAbortRight
<1>15. ASSUME NEW k \in Connections, Respond(k) PROVE StreamsRight'
  BY <1>15, RespondRight
<1>16. CASE Shutdown
  BY <1>16, ShutdownRight
<1>17. CASE UNCHANGED streamVars
  <2>1. UNCHANGED <<scenario, conn, pool, starting, request, busy, shut, received, taken>>
    BY <1>17 DEF streamVars
  <2>2. StreamTypes'
    BY <2>1 DEF StreamsRight, StreamTypes, Conns, UnitSet, Inquiries
  <2>3. \A l \in Connections : StreamRight(l)' /\ Uncut(l)'
    BY <2>1, OthersStay DEF StreamsRight, OpenOn
  <2> QED BY <2>1, <2>2, <2>3 DEF StreamsRight
<1> QED BY <1>1, <1>2, <1>3, <1>4, <1>5, <1>6, <1>7, <1>8, <1>9, <1>10, <1>11, <1>12, <1>13, <1>14, <1>15,
           <1>16, <1>17 DEF NextStreams

LEMMA StreamsHold == StreamsRight => StreamInv
<1> SUFFICES ASSUME StreamsRight PROVE StreamInv
  OBVIOUS
<1>1. ASSUME NEW k \in Connections
      PROVE  UnitsOf(SubSeq(received[k], 1, taken[k])) \o conn[k].spool \o conn[k].wire = UnitsOf(received[k])
  <2>1. PICK a : a = received[k]
    OBVIOUS
  <2>2. PICK n : n = taken[k]
    OBVIOUS
  <2>3. /\ a \in Seq(scenario.messages) /\ n \in Nat /\ n <= Len(a) /\ scenario \in Scenarios
        /\ conn[k].spool \o conn[k].wire = UnitsOf(SubSeq(a, n + 1, Len(a)))
        /\ conn[k] \in Conns
    BY <2>1, <2>2 DEF StreamsRight, StreamTypes, Uncut, Coming
  <2>4. PICK x : x = SubSeq(a, 1, n)
    OBVIOUS
  <2>5. PICK y : y = SubSeq(a, n + 1, Len(a))
    OBVIOUS
  <2>6. x \in Seq(scenario.messages) /\ y \in Seq(scenario.messages) /\ x \o y = a
    BY <2>3, <2>4, <2>5, Halves
  <2>7. UnitsOf(x \o y) = UnitsOf(x) \o UnitsOf(y)
    BY <2>3, <2>6, UnitsConcat
  <2>8. PICK u : u = UnitsOf(x)
    OBVIOUS
  <2>9. u \in Seq(UnitSet)
    BY <2>3, <2>6, <2>8, UnitsType
  <2>10. conn[k].spool \in Seq(UnitSet) /\ conn[k].wire \in Seq(UnitSet)
    BY <2>3 DEF Conns
  <2>11. ASSUME NEW e \in Seq(UnitSet), NEW f \in Seq(UnitSet), NEW g \in Seq(UnitSet)
         PROVE  (e \o f) \o g = e \o (f \o g)
    BY ConcatAssociative
  <2>12. (u \o conn[k].spool) \o conn[k].wire = u \o (conn[k].spool \o conn[k].wire)
    BY <2>9, <2>10, <2>11, Zenon
  <2>13. UnitsOf(a) = u \o (conn[k].spool \o conn[k].wire)
    BY <2>3, <2>5, <2>6, <2>7, <2>8, Zenon
  <2> QED BY <2>1, <2>2, <2>4, <2>8, <2>12, <2>13, Zenon
<1>2. Delimited
  BY <1>1 DEF Delimited
<1>3. NobodyWaits
  BY DEF StreamsRight, StreamRight, NobodyWaits, NoneOpen, OpenOn
<1> QED BY <1>2, <1>3 DEF StreamInv

\* However many connections and requests there are, and whatever the peer sends in whatever
\* pieces: over TCP, TLS and WebSockets its messages are taken whole and in order, none passed
\* over and none twice, and a connection that is lost has failed what waited for it, is not
\* given out again by TCP and renders nothing, but for a WebSocket that was aborted by this
\* side (transports/tcp.py, ws.py, rfc8323common.py).
THEOREM StreamsSound == SpecStreams => []StreamInv
<1>1. InitStreams => StreamsRight
  BY StreamsStart
<1>2. StreamsRight /\ [NextStreams]_streamVars => StreamsRight'
  BY StreamsStep
<1>3. StreamsRight => StreamInv
  BY StreamsHold
<1> QED BY <1>1, <1>2, <1>3, PTL DEF SpecStreams
=============================================================================
