---------------------------- MODULE OscoreProofs ----------------------------
(***************************************************************************)
(* No nonce is used twice, no request is rendered twice, and no response   *)
(* is taken for another request's: proved for every window, every chunk of *)
(* sequence numbers, and any number of requests, crashes, closings and     *)
(* copies of messages.                                                     *)
(***************************************************************************)
EXTENDS OscoreSessions, TLAPS

Windows == {UninitializedWindow} \cup [index : Nat, bits : SUBSET (0 .. WindowSize - 1)]

ContextRecords ==
  [sender : Peers, recipient : Peers, echo : Nat, seq : Nat, persisted : Nat,
   chunk : Nat \ {0}, window : Windows, windowPersisted : BOOLEAN]

\* What the file d of a context c holds: the lead of its numbers; and its window, until the
\* first request is struck out.
OnFile(c, d) ==
  /\ d.next = c.persisted
  /\ IF c.windowPersisted THEN d.received \in {c.window, UninitializedWindow}
                          ELSE d.received = Unknown

\* A context of p in the process that is number run, with the file d.
Sound(p, c, d, run) ==
  /\ c \in ContextRecords /\ c.sender = p /\ c.recipient = Other(p) /\ c.echo = run
  /\ c.seq <= c.persisted
  /\ OnFile(c, d)

ContextsRight ==
  /\ ctx \in [Peers -> ContextRecords \cup {Down}]
  /\ disk \in [Peers -> [next : Nat, received : Windows \cup {Unknown}]]
  /\ runs \in [Peers -> Nat \ {0}]
  /\ \A p \in Peers : Up(p) => Sound(p, ctx[p], disk[p], runs[p])

\* All numbers that p has used are below this one.
Lead(p) == IF Up(p) THEN ctx[p].seq ELSE disk[p].next

IsRequest(x) == x.re = NoMessage

RequestRight(x) ==
  LET p == x.m.kid
  IN /\ p \in Peers /\ x.m.piv \in Nat /\ x.m.piv < Lead(p)
     /\ x.m.sealed.key = p
     /\ x.m.sealed.nonce = <<p, x.m.piv>>
     /\ x.m.sealed.aad = <<p, x.m.piv>>
     /\ x.m.sealed.inner.echo \in 0 .. runs[Other(p)]

\* A response has a number of its own, or the nonce of a request that was rendered.
ResponseRight(x) ==
  LET p == x.m.sealed.key
  IN /\ p \in Peers /\ x.re.kid = Other(p)
     /\ \E y \in sent : IsRequest(y) /\ y.m = x.re
     /\ x.m.kid = NoKid
     /\ x.m.sealed.aad = <<x.re.kid, x.re.piv>>
     /\ \/ x.m.piv \in Nat /\ x.m.piv < Lead(p) /\ x.m.sealed.nonce = <<p, x.m.piv>>
        \/ x.m.piv = NoPiv /\ x.m.sealed.nonce = <<x.re.kid, x.re.piv>> /\ x.re \in DOMAIN rendered
     /\ x.m.sealed.inner.echo \in 0 .. runs[p] /\ x.m.sealed.inner.r = x.re.sealed.inner.r

SentRight == \A x \in sent : IF IsRequest(x) THEN RequestRight(x) ELSE ResponseRight(x)

RenderedRight ==
  \A m \in DOMAIN rendered : Len(rendered[m]) = 1 /\ \E x \in sent : IsRequest(x) /\ x.m = m

\* A window that is in use, or will be after a restart, accepts nothing that was rendered.
Rejects(w, q) == IsInitialized(w) => \A m \in DOMAIN rendered : m.kid = q => ~ IsValid(w, m.piv)
WindowsRight ==
  \A p \in Peers : IF Up(p) THEN Rejects(ctx[p].window, Other(p)) ELSE Rejects(disk[p].received, Other(p))

\* x can only have been made while the present process of p runs.
Recent(p, x) ==
  \/ IsRequest(x) /\ x.m.kid = Other(p) /\ x.m.sealed.inner.echo = runs[p]
  \/ /\ ~ IsRequest(x) /\ x.m.sealed.key = Other(p) /\ x.m.piv # NoPiv
     /\ \E r \in Requests : Waiting(r) /\ From(r) = p /\ x.m.sealed.aad[2] = call[r].rid.piv

\* What may initialize a window came after all that was rendered.
RecentIsLate ==
  \A p \in Peers : Up(p) /\ ~ IsInitialized(ctx[p].window) =>
    \A x \in sent : Recent(p, x) =>
      \A m \in DOMAIN rendered : m.kid = Other(p) => m.piv < x.m.piv

Shaped ==
  call = [r \in Requests |-> [phase |-> call[r].phase, rid |-> call[r].rid, wire |-> call[r].wire,
                              got |-> call[r].got]]

CallsRight ==
  /\ Shaped
  /\ \A r \in Requests : Waiting(r) =>
       /\ From(r) \in Peers /\ Up(From(r))
       /\ call[r].rid.kid = From(r)
       /\ \E x \in sent : IsRequest(x) /\ x.m.kid = From(r) /\ x.m.piv = call[r].rid.piv
                         /\ x.m.sealed.inner.r = r
ResultsRight ==
  /\ result = [r \in Requests |-> result[r]]
  /\ \A r \in Requests : result[r].code # "none" => result[r].r = r

\* The nonce of a request is used by one response: of one task, or sent already.
TaskRight(t) ==
  /\ t = [peer |-> t.peer, m |-> t.m, rid |-> RequestId(t.m.kid, t.m.piv, t.rid.reuse), left |-> t.left]
  /\ t.peer \in Peers /\ Up(t.peer)
  /\ t.m \in DOMAIN rendered /\ t.m.kid = Other(t.peer)
  /\ t.rid.reuse \in BOOLEAN
  /\ t.rid.reuse =>
       /\ \A x \in sent : ~ IsRequest(x) /\ x.re = t.m => x.m.piv # NoPiv
       /\ \A u \in tasks : u.m = t.m /\ u.rid.reuse => u = t
TasksRight == \A t \in tasks : TaskRight(t)

Inv ==
  /\ plan \in Plans
  /\ ContextsRight /\ SentRight /\ RenderedRight /\ WindowsRight /\ RecentIsLate /\ CallsRight
  /\ TasksRight /\ NeverTwice /\ ResultsRight
IInv == ~ unsaved => Inv

\* What holds whether the file could be written or not.
Proper(c) == c \in ContextRecords /\ c.seq <= c.persisted
ContextsTyped ==
  /\ ctx \in [Peers -> ContextRecords \cup {Down}]
  /\ disk \in [Peers -> [next : Nat, received : Windows \cup {Unknown}]]
  /\ runs \in [Peers -> Nat \ {0}]
  /\ \A p \in Peers : Up(p) => Proper(ctx[p])
SentTyped ==
  \A x \in sent :
    /\ x.m.piv \in Nat \cup {NoPiv}
    /\ IsRequest(x) => x.m.piv \in Nat /\ x.m.sealed.inner.r \in Requests
CallsTyped ==
  /\ call = [r \in Requests |-> call[r]]
  /\ \A r \in Requests :
       /\ call[r].phase \in {"idle", "sent", "retried", "observing", "done", "failed"}
       /\ Waiting(r) => From(r) \in Peers /\ Up(From(r))
TasksTyped == \A t \in tasks : t.peer \in Peers /\ Up(t.peer) /\ t.left \in Nat /\ t.m # NoMessage
FaultsTyped == plan \in Plans /\ faults \in 0 .. plan.faults
Typed == ContextsTyped /\ SentTyped /\ CallsTyped /\ TasksTyped /\ FaultsTyped

-----------------------------------------------------------------------------
(* Contexts *)

LEMMA Others ==
  ASSUME NEW p \in Peers
  PROVE  /\ Other(p) \in Peers /\ Other(p) # p /\ Other(Other(p)) = p /\ p # "none"
         /\ \A q \in Peers : q = p \/ q = Other(p)
<1>1. PICK q \in Peers \ {p} : Peers = {p, q}
  BY PeersAssumption
<1>2. Other(p) = q
  BY <1>1 DEF Other
<1>3. Other(q) = p
  BY <1>1 DEF Other
<1> QED BY <1>1, <1>2, <1>3, PeersAssumption

\* A window that strikes a number out accepts it no more, nor what it did not accept before.
LEMMA StrikeOutRejects ==
  ASSUME NEW w \in Windows, IsInitialized(w), NEW n \in Nat, IsValid(w, n)
  PROVE  /\ StrikeOut(w, n) \in Windows /\ IsInitialized(StrikeOut(w, n))
         /\ ~ IsValid(StrikeOut(w, n), n)
         /\ \A k \in Nat : ~ IsValid(w, k) => ~ IsValid(StrikeOut(w, n), k)
<1>1. /\ w.index \in Nat /\ w.bits \in SUBSET (0 .. WindowSize - 1)
      /\ w = [index |-> w.index, bits |-> w.bits] /\ n >= w.index /\ WindowSize \in Nat \ {0}
  BY WindowAssumption DEF Windows, IsInitialized, IsValid, UninitializedWindow
<1> DEFINE by == Overshoot(w, n)
           moved == IF by > 0 THEN Moved(w, by) ELSE w
<1>2. by \in Int /\ by = n - (w.index + WindowSize - 1)
  BY <1>1, WindowAssumption DEF Overshoot
<1>3. /\ moved.index \in Nat /\ moved.bits \in SUBSET (0 .. WindowSize - 1)
      /\ n - moved.index \in 0 .. WindowSize - 1
      /\ moved = [index |-> moved.index, bits |-> moved.bits]
      /\ \A k \in Nat : ~ IsValid(w, k) => ~ IsValid(moved, k)
  <2>1. CASE by > 0
    <3>1. moved = [index |-> w.index + by, bits |-> Shifted(w.bits, by)]
      BY <2>1 DEF Moved
    <3>2. Shifted(w.bits, by) \in SUBSET (0 .. WindowSize - 1)
      BY <1>1, <1>2, <2>1 DEF Shifted
    <3>3. ASSUME NEW k \in Nat, ~ IsValid(w, k), k >= w.index + by
          PROVE  k - (w.index + by) \in Shifted(w.bits, by)
      <4>1. k - w.index \in w.bits /\ k - w.index >= by
        BY <1>1, <1>2, <2>1, <3>3 DEF IsValid
      <4>2. (k - w.index) - by = k - (w.index + by)
        BY <1>1, <1>2
      <4> QED BY <4>1, <4>2 DEF Shifted
    <3> HIDE DEF by, moved
    <3>4. w.index + by \in Nat /\ n - (w.index + by) \in 0 .. WindowSize - 1
      BY <1>1, <1>2, <2>1
    <3>5. moved.index = w.index + by /\ moved.bits = Shifted(w.bits, by)
      BY <3>1
    <3> QED BY <3>1, <3>2, <3>3, <3>4, <3>5 DEF IsValid
  <2>2. CASE ~ by > 0
    <3>1. moved = w
      BY <2>2
    <3> HIDE DEF by, moved
    <3>2. n - w.index \in 0 .. WindowSize - 1
      BY <1>1, <1>2, <2>2
    <3> QED BY <1>1, <3>1, <3>2
  <2> QED BY <2>1, <2>2
<1>4. StrikeOut(w, n) = [moved EXCEPT !.bits = @ \cup {n - moved.index}]
  BY DEF StrikeOut
<1> HIDE DEF by, moved
<1>5. StrikeOut(w, n) = [index |-> moved.index, bits |-> moved.bits \cup {n - moved.index}]
  BY <1>3, <1>4
<1>6. StrikeOut(w, n) \in Windows /\ IsInitialized(StrikeOut(w, n))
  <2>1. moved.bits \cup {n - moved.index} \in SUBSET (0 .. WindowSize - 1)
    BY <1>3
  <2> QED BY <1>3, <1>5, <2>1 DEF Windows, IsInitialized
<1> QED BY <1>3, <1>5, <1>6 DEF IsValid

LEMMA Posted ==
  ASSUME NEW e \in ContextRecords, e.seq <= e.persisted + 1
  PROVE  LET d == PostSeqnoIncrease(e)
         IN /\ d \in ContextRecords /\ d.seq = e.seq /\ d.seq <= d.persisted
            /\ d.sender = e.sender /\ d.recipient = e.recipient /\ d.echo = e.echo
            /\ d.window = e.window /\ d.windowPersisted = e.windowPersisted
<1> DEFINE size == IF 2 * e.chunk < ChunkLimit THEN 2 * e.chunk ELSE ChunkLimit
           lead == e.persisted + e.chunk
<1>1. e.seq \in Nat /\ e.persisted \in Nat /\ e.chunk \in Nat \ {0}
  BY DEF ContextRecords
<1>2. size \in Nat \ {0} /\ lead \in Nat /\ lead > e.persisted
  BY <1>1, ChunkAssumption
<1>3. PostSeqnoIncrease(e) =
        IF e.seq > e.persisted THEN [e EXCEPT !.persisted = lead, !.chunk = size] ELSE e
  BY DEF PostSeqnoIncrease
<1> HIDE DEF size, lead
<1> DEFINE d == [e EXCEPT !.persisted = lead, !.chunk = size]
<1>4. CASE e.seq > e.persisted
  <2>1. PostSeqnoIncrease(e) = d
    BY <1>3, <1>4
  <2>2. d \in ContextRecords
    BY <1>2 DEF ContextRecords
  <2>3. d.seq = e.seq /\ d.persisted = lead /\ d.sender = e.sender /\ d.recipient = e.recipient
    BY DEF ContextRecords
  <2>4. d.echo = e.echo /\ d.window = e.window /\ d.windowPersisted = e.windowPersisted
    BY DEF ContextRecords
  <2> HIDE DEF d
  <2>5. e.seq <= lead
    BY <1>1, <1>2
  <2> QED BY <2>1, <2>2, <2>3, <2>4, <2>5
<1>5. CASE ~ e.seq > e.persisted
  BY <1>1, <1>3, <1>5
<1> QED BY <1>4, <1>5

\* The next number of a context is on file before the one in hand is used.
LEMMA NextNumber ==
  ASSUME NEW c \in ContextRecords, c.seq <= c.persisted
  PROVE  LET d == NewSequenceNumber(c)
         IN /\ d \in ContextRecords /\ d.seq = c.seq + 1 /\ d.seq <= d.persisted
            /\ d.sender = c.sender /\ d.recipient = c.recipient /\ d.echo = c.echo
            /\ d.window = c.window /\ d.windowPersisted = c.windowPersisted
<1> DEFINE e == [c EXCEPT !.seq = c.seq + 1]
<1>1. /\ e \in ContextRecords /\ e.seq = c.seq + 1 /\ e.persisted = c.persisted
      /\ e.sender = c.sender /\ e.recipient = c.recipient /\ e.echo = c.echo
      /\ e.window = c.window /\ e.windowPersisted = c.windowPersisted
  BY DEF ContextRecords
<1>2. c.seq \in Nat /\ c.persisted \in Nat
  BY DEF ContextRecords
<1>3. NewSequenceNumber(c) = PostSeqnoIncrease(e)
  BY DEF NewSequenceNumber
<1> HIDE DEF e
<1> QED BY <1>1, <1>2, <1>3, Posted

\* What is to be on file when a context changes is there before the context is used.
LEMMA Becoming ==
  ASSUME ContextsRight, NEW p \in Peers, Up(p), runs' = runs,
         NEW c \in ContextRecords, c.sender = p, c.recipient = Other(p), c.echo = runs[p],
         c.seq <= c.persisted, Becomes(p, c),
         c.windowPersisted =>
           /\ ctx[p].windowPersisted
           /\ c.window = ctx[p].window \/ ctx[p].window = UninitializedWindow
  PROVE  /\ ContextsRight'
         /\ ctx'[p] = c
         /\ \A q \in Peers : (Up(q)' <=> Up(q)) /\ (q # p => ctx'[q] = ctx[q] /\ disk'[q] = disk[q])
<1> DEFINE old == ctx[p]
           d == IF Stores(old, c) THEN File(c) ELSE disk[p]
<1>1. old \in ContextRecords /\ OnFile(old, disk[p])
  BY DEF ContextsRight, Sound, Up
<1>2. /\ ctx' = [ctx EXCEPT ![p] = c] /\ disk' = [disk EXCEPT ![p] = d]
      /\ ctx \in [Peers -> ContextRecords \cup {Down}]
      /\ disk \in [Peers -> [next : Nat, received : Windows \cup {Unknown}]]
  BY DEF Becomes, ContextsRight
<1>3. c # Down
  BY Others DEF ContextRecords, Down
<1>4. d \in [next : Nat, received : Windows \cup {Unknown}] /\ OnFile(c, d)
  <2>1. CASE Stores(old, c)
    BY <2>1 DEF File, OnFile, ContextRecords
  <2>2. CASE ~ Stores(old, c)
    <3>1. old.persisted = c.persisted /\ old.windowPersisted = c.windowPersisted /\ d = disk[p]
      BY <2>2 DEF Stores
    <3> QED BY <1>1, <1>2, <3>1 DEF OnFile
  <2> QED BY <2>1, <2>2
<1> HIDE DEF old, d
<1>5. ctx' \in [Peers -> ContextRecords \cup {Down}] /\ ctx'[p] = c
  BY <1>2
<1>6. disk' \in [Peers -> [next : Nat, received : Windows \cup {Unknown}]] /\ disk'[p] = d
  BY <1>2, <1>4
<1>7. \A q \in Peers \ {p} : ctx'[q] = ctx[q] /\ disk'[q] = disk[q]
  BY <1>2
<1>8. \A q \in Peers : Up(q)' <=> Up(q)
  BY <1>3, <1>5, <1>7 DEF Up
<1>9. \A q \in Peers : Up(q)' => Sound(q, ctx'[q], disk'[q], runs'[q])
  BY <1>4, <1>5, <1>6, <1>7, <1>8 DEF ContextsRight, Sound
<1> QED BY <1>5, <1>6, <1>7, <1>8, <1>9 DEF ContextsRight

-----------------------------------------------------------------------------
(* A step of one process *)

\* What never changes, and what grows, while p goes on from its context to d.
Goes(p, d) ==
  /\ Up(p)
  /\ d \in ContextRecords /\ d.sender = p /\ d.recipient = Other(p) /\ d.echo = runs[p]
  /\ d.seq <= d.persisted /\ ctx[p].seq <= d.seq
  /\ d.windowPersisted = ctx[p].windowPersisted
  /\ \/ d.window = ctx[p].window
     \/ ~ IsInitialized(ctx[p].window) /\ IsInitialized(d.window)
  /\ Rejects(d.window, Other(p))
Advances(p, d) == Becomes(p, d) /\ Goes(p, d)

\* A message of p with the number that its context has in hand.
Fresh(p, x) ==
  /\ x.m.piv = ctx[p].seq /\ x.m.sealed.key = p /\ x.m.sealed.nonce = <<p, ctx[p].seq>>
  /\ IF IsRequest(x)
       THEN /\ x.m.kid = p /\ x.m.sealed.aad = <<p, ctx[p].seq>>
            /\ x.m.sealed.inner.echo \in 0 .. runs[Other(p)]
       ELSE /\ x.re.kid = Other(p) /\ \E y \in sent : IsRequest(y) /\ y.m = x.re
            /\ x.m.kid = NoKid /\ x.m.sealed.aad = <<x.re.kid, x.re.piv>>
            /\ x.m.sealed.inner.echo \in 0 .. runs[p] /\ x.m.sealed.inner.r = x.re.sealed.inner.r

LEMMA Leads ==
  ASSUME ContextsRight, NEW p \in Peers
  PROVE  Lead(p) \in Nat /\ runs[p] \in Nat \ {0}
BY DEF ContextsRight, Lead, Up, Sound, ContextRecords

\* A window that is not initialized is the uninitialized one.
LEMMA NoWindow ==
  ASSUME NEW w \in Windows, ~ IsInitialized(w)
  PROVE  w = UninitializedWindow
BY DEF Windows, IsInitialized

\* A rendered request of q has a number that q has used.
LEMMA RenderedBelow ==
  ASSUME SentRight, RenderedRight, NEW m \in DOMAIN rendered
  PROVE  m.kid \in Peers /\ m.piv \in Nat /\ m.piv < Lead(m.kid)
BY DEF SentRight, RenderedRight, RequestRight

\* Nothing that was sent has a key and nonce of p with its next number.
LEMMA NextIsUnused ==
  ASSUME SentRight, NEW p \in Peers, Up(p), NEW x \in sent, x.m.sealed.key = p
  PROVE  x.m.sealed.nonce # <<p, ctx[p].seq>>
<1>1. Lead(p) = ctx[p].seq
  BY DEF Lead
<1>2. CASE IsRequest(x)
  BY <1>1, <1>2 DEF SentRight, RequestRight
<1>3. CASE ~ IsRequest(x)
  BY <1>1, <1>3, Others DEF SentRight, ResponseRight
<1> QED BY <1>2, <1>3

\* p goes on to d, and what it sends, if anything, has the number in hand.
CallsGo(p, d) ==
  /\ Shaped'
  /\ \A r \in Requests : Waiting(r)' =>
       \/ Waiting(r) /\ call'[r].rid = call[r].rid
       \/ /\ From(r) = p /\ call'[r].rid.kid = p
          /\ call'[r].rid.piv = ctx[p].seq /\ ctx[p].seq < d.seq
          /\ \E x \in sent' : IsRequest(x) /\ x.m.kid = p /\ x.m.piv = ctx[p].seq
                             /\ x.m.sealed.inner.r = r
TasksGo == \A u \in tasks' : u \in tasks \/ (u.rid.reuse = FALSE /\ TaskRight(u))
AddsTo(p, d, fresh) ==
  /\ sent' = sent \cup fresh
  /\ \A x \in fresh : Fresh(p, x) /\ ctx[p].seq < d.seq /\ \A y \in fresh : x = y
Step(p, d, fresh) ==
  /\ Advances(p, d) /\ AddsTo(p, d, fresh) /\ CallsGo(p, d) /\ TasksGo
  /\ UNCHANGED <<plan, runs, rendered>> /\ ResultsRight'

LEMMA Advance ==
  ASSUME Inv, NEW p \in Peers, NEW d, NEW fresh, Step(p, d, fresh)
  PROVE  Inv'
<1> USE DEF Inv, Step, AddsTo, CallsGo, TasksGo
<1>1. Lead(p) = ctx[p].seq /\ ctx[p].seq \in Nat /\ d.seq \in Nat /\ ctx[p].window \in Windows
  BY DEF Advances, Goes, Lead, ContextsRight, Sound, ContextRecords
<1>2. /\ ContextsRight' /\ ctx'[p] = d
      /\ \A q \in Peers : (Up(q)' <=> Up(q)) /\ (q # p => ctx'[q] = ctx[q] /\ disk'[q] = disk[q])
  BY <1>1, Becoming, NoWindow DEF Advances, Goes
<1>3. Lead(p)' = d.seq /\ \A q \in Peers : Lead(q) \in Nat /\ Lead(q)' \in Nat /\ Lead(q) <= Lead(q)'
  <2>1. Lead(p)' = d.seq
    BY <1>2 DEF Lead, Advances, Goes
  <2>2. ASSUME NEW q \in Peers, q # p PROVE Lead(q)' = Lead(q)
    BY <1>2, <2>2 DEF Lead
  <2> QED BY <1>1, <2>1, <2>2, Leads DEF Advances, Goes
<1>4. SentRight'
  <2> SUFFICES ASSUME NEW x \in sent'
               PROVE IF IsRequest(x) THEN RequestRight(x)' ELSE ResponseRight(x)'
    BY DEF SentRight, IsRequest
  <2>1. CASE x \in sent /\ IsRequest(x)
    BY <1>3, <2>1 DEF SentRight, RequestRight
  <2>2. CASE x \in sent /\ ~ IsRequest(x)
    <3>1. ResponseRight(x)
      BY <2>2 DEF SentRight
    <3>2. \E y \in sent' : IsRequest(y) /\ y.m = x.re
      BY <3>1 DEF ResponseRight
    <3> QED BY <1>3, <2>2, <3>1, <3>2 DEF ResponseRight, IsRequest
  <2>3. CASE x \in fresh
    <3>1. Fresh(p, x) /\ ctx[p].seq < d.seq
      BY <2>3
    <3>2. CASE IsRequest(x)
      BY <1>1, <1>3, <3>1, <3>2 DEF Fresh, RequestRight
    <3>3. CASE ~ IsRequest(x)
      <4>1. \E y \in sent' : IsRequest(y) /\ y.m = x.re
        BY <3>1, <3>3 DEF Fresh
      <4> QED BY <1>1, <1>3, <3>1, <3>3, <4>1 DEF Fresh, ResponseRight, IsRequest
    <3> QED BY <3>2, <3>3
  <2> QED BY <2>1, <2>2, <2>3
<1>5. RenderedRight'
  BY DEF RenderedRight, IsRequest
<1>6. WindowsRight'
  BY <1>2 DEF WindowsRight, Rejects, Advances, Goes
<1>7. RecentIsLate'
  <2> SUFFICES ASSUME NEW q \in Peers, Up(q)', ~ IsInitialized(ctx'[q].window),
                      NEW x \in sent', Recent(q, x)', NEW m \in DOMAIN rendered, m.kid = Other(q)
               PROVE  m.piv < x.m.piv
    BY DEF RecentIsLate
  <2>1. Up(q) /\ ~ IsInitialized(ctx[q].window)
    BY <1>2 DEF Advances, Goes
  <2>2. CASE x \in fresh
    <3>1. Fresh(p, x) /\ Other(q) = p
      BY <2>2, Others DEF Fresh, Recent, IsRequest
    <3> QED BY <1>1, <3>1, RenderedBelow DEF Fresh
  <2>3. CASE x \in sent
    <3>1. CASE Recent(q, x)
      BY <2>1, <2>3, <3>1 DEF RecentIsLate
    <3>2. CASE ~ Recent(q, x)
      <4>1. /\ ~ IsRequest(x) /\ x.m.sealed.key = Other(q)
            /\ \E r \in Requests : /\ Waiting(r)' /\ From(r) = q
                                   /\ x.m.sealed.aad[2] = call'[r].rid.piv
                                   /\ ~ (Waiting(r) /\ call'[r].rid = call[r].rid)
        BY <3>2 DEF Recent, IsRequest, From
      <4>2. q = p /\ x.m.sealed.aad[2] = ctx[p].seq
        BY <4>1
      <4>3. x.re.kid = p /\ x.re.piv = ctx[p].seq
        BY <2>3, <4>1, <4>2, Others DEF SentRight, ResponseRight
      <4> QED BY <1>1, <2>3, <4>1, <4>3 DEF SentRight, ResponseRight, RequestRight
    <3> QED BY <3>1, <3>2
  <2> QED BY <2>2, <2>3
<1>8. CallsRight'
  <2> SUFFICES ASSUME NEW r \in Requests, Waiting(r)'
               PROVE  /\ From(r)' \in Peers /\ Up(From(r)') /\ Up(From(r))'
                      /\ call'[r].rid.kid = From(r)'
                      /\ \E x \in sent' : IsRequest(x) /\ x.m.kid = From(r)' /\ x.m.piv = call'[r].rid.piv
                                         /\ x.m.sealed.inner.r = r
    BY DEF CallsRight, IsRequest
  <2>1. From(r)' = From(r)
    BY DEF From
  <2>2. CASE Waiting(r) /\ call'[r].rid = call[r].rid
    BY <1>2, <2>1, <2>2 DEF CallsRight
  <2>3. CASE ~ (Waiting(r) /\ call'[r].rid = call[r].rid)
    BY <1>2, <2>1, <2>3 DEF Advances, Goes
  <2> QED BY <2>2, <2>3
<1>9. TasksRight'
  <2> SUFFICES ASSUME NEW u \in tasks' PROVE TaskRight(u)'
    BY DEF TasksRight
  <2>1. TaskRight(u)
    BY DEF TasksRight
  <2>2. ASSUME u.rid.reuse, NEW x \in sent', ~ IsRequest(x), x.re = u.m PROVE x.m.piv # NoPiv
    BY <1>1, <2>1, <2>2 DEF TaskRight, Fresh, NoPiv
  <2>3. ASSUME u.rid.reuse, NEW t \in tasks', t.m = u.m, t.rid.reuse PROVE t = u
    <3>1. t \in tasks
      BY <2>3
    <3> QED BY <2>1, <2>3, <3>1 DEF TaskRight
  <2> QED BY <1>2, <2>1, <2>2, <2>3 DEF TaskRight, IsRequest
<1>10. NeverTwice'
  <2> SUFFICES ASSUME NEW x \in sent', NEW y \in sent', x.m.sealed.key = y.m.sealed.key,
                      x.m.sealed.nonce = y.m.sealed.nonce
               PROVE  x = y
    BY DEF NeverTwice
  <2>1. CASE x \in sent /\ y \in sent
    BY <2>1 DEF NeverTwice
  <2>2. CASE x \in fresh /\ y \in fresh
    BY <2>2
  <2>3. CASE x \in fresh /\ y \in sent
    BY <2>3, NextIsUnused DEF Fresh, Advances, Goes
  <2>4. CASE x \in sent /\ y \in fresh
    BY <2>4, NextIsUnused DEF Fresh, Advances, Goes
  <2> QED BY <2>1, <2>2, <2>3, <2>4
<1> QED BY <1>2, <1>4, <1>5, <1>6, <1>7, <1>8, <1>9, <1>10

LEMMA Quiet ==
  ASSUME Inv, UNCHANGED <<plan, ctx, disk, runs, call, tasks, sent, rendered, result>>
  PROVE  Inv'
<1>1. ContextsRight' /\ \A p \in Peers : Up(p)' = Up(p) /\ Lead(p)' = Lead(p)
  BY DEF Inv, ContextsRight, Up, Lead
<1>2. SentRight'
  BY <1>1 DEF Inv, SentRight, RequestRight, ResponseRight, IsRequest
<1>3. RenderedRight' /\ WindowsRight' /\ NeverTwice'
  BY <1>1 DEF Inv, RenderedRight, WindowsRight, Rejects, NeverTwice, IsRequest
<1>4. RecentIsLate'
  BY <1>1 DEF Inv, RecentIsLate, Recent, IsRequest, Waiting, From
<1>5. CallsRight'
  BY <1>1 DEF Inv, CallsRight, Shaped, Waiting, From, IsRequest
<1>6. TasksRight' /\ ResultsRight'
  BY <1>1 DEF Inv, TasksRight, TaskRight, IsRequest, ResultsRight
<1> QED BY <1>1, <1>2, <1>3, <1>4, <1>5, <1>6 DEF Inv

\* p gives the request m to the application, which it had not got, and goes on with a window
\* that accepts neither m nor what it got before.
LEMMA Rendering ==
  ASSUME Inv, NEW p \in Peers, NEW d, Up(p), Becomes(p, d),
         d \in ContextRecords, d.sender = p, d.recipient = Other(p), d.echo = runs[p],
         d.seq <= d.persisted, ctx[p].seq = d.seq,
         d.windowPersisted =>
           ctx[p].windowPersisted /\ (d.window = ctx[p].window \/ ctx[p].window = UninitializedWindow),
         IsInitialized(d.window), Rejects(d.window, Other(p)),
         NEW x \in sent, IsRequest(x), x.m.kid = Other(p), x.m \notin DOMAIN rendered,
         ~ IsValid(d.window, x.m.piv),
         NEW reuse \in BOOLEAN, NEW left,
         UNCHANGED <<plan, runs, call, sent, result>>,
         rendered' = [m \in DOMAIN rendered \cup {x.m} |->
                        IF m = x.m THEN <<runs[p]>> ELSE rendered[m]],
         tasks' = tasks \cup
           {[peer |-> p, m |-> x.m, rid |-> RequestId(Other(p), x.m.piv, reuse), left |-> left]}
  PROVE  Inv'
<1> USE DEF Inv
<1>1. /\ ContextsRight' /\ ctx'[p] = d
      /\ \A q \in Peers : (Up(q)' <=> Up(q)) /\ (q # p => ctx'[q] = ctx[q] /\ disk'[q] = disk[q])
  BY Becoming
<1>2. \A q \in Peers : Lead(q)' = Lead(q)
  BY <1>1 DEF Lead
<1>3. /\ DOMAIN rendered' = DOMAIN rendered \cup {x.m}
      /\ rendered'[x.m] = <<runs[p]>>
      /\ \A m \in DOMAIN rendered : rendered'[m] = rendered[m]
  OBVIOUS
<1>4. SentRight'
  BY <1>2, <1>3 DEF SentRight, RequestRight, ResponseRight, IsRequest
<1>5. RenderedRight'
  BY <1>3 DEF RenderedRight, IsRequest
<1>6. WindowsRight'
  <2> SUFFICES ASSUME NEW q \in Peers
               PROVE  IF Up(q)' THEN Rejects(ctx[q].window, Other(q))'
                                ELSE Rejects(disk[q].received, Other(q))'
    BY DEF WindowsRight, Up
  <2>1. CASE q = p
    BY <1>1, <1>3, <2>1 DEF Rejects
  <2>2. CASE q # p
    <3>1. Other(q) # Other(p)
      BY <2>2, Others
    <3> QED BY <1>1, <1>3, <2>2, <3>1 DEF WindowsRight, Rejects
  <2> QED BY <2>1, <2>2
<1>7. RecentIsLate'
  <2> SUFFICES ASSUME NEW q \in Peers, Up(q)', ~ IsInitialized(ctx'[q].window),
                      NEW y \in sent, Recent(q, y)', NEW m \in DOMAIN rendered', m.kid = Other(q)
               PROVE  m.piv < y.m.piv
    BY DEF RecentIsLate
  <2>1. q # p
    BY <1>1
  <2>2. m \in DOMAIN rendered
    BY <1>3, <2>1, Others
  <2>3. Recent(q, y)
    BY DEF Recent, IsRequest, Waiting, From
  <2> QED BY <1>1, <2>1, <2>2, <2>3 DEF RecentIsLate
<1>8. CallsRight'
  BY <1>1, <1>2 DEF CallsRight, Shaped, Waiting, From, IsRequest
<1>9. TasksRight'
  <2> SUFFICES ASSUME NEW u \in tasks' PROVE TaskRight(u)'
    BY DEF TasksRight
  <2> DEFINE new == [peer |-> p, m |-> x.m, rid |-> RequestId(Other(p), x.m.piv, reuse), left |-> left]
  <2>1. \A t \in tasks : TaskRight(t) /\ t.m \in DOMAIN rendered /\ t.m # x.m
    BY DEF TasksRight, TaskRight
  <2>2. new.peer = p /\ new.m = x.m /\ new.rid = RequestId(Other(p), x.m.piv, reuse) /\ new.left = left
    OBVIOUS
  <2>3. CASE u \in tasks
    BY <1>1, <1>3, <2>1, <2>3 DEF TaskRight, IsRequest
  <2>4. CASE u = new
    <3>1. \A y \in sent : ~ IsRequest(y) /\ y.re = x.m => y.m.piv # NoPiv
      BY DEF SentRight, ResponseRight, NoPiv
    <3>2. new.rid.reuse = reuse
      BY DEF RequestId
    <3>3. \A t \in tasks' : t.m = x.m => t = new
      BY <2>1
    <3> HIDE DEF new
    <3>4. /\ u = [peer |-> u.peer, m |-> u.m, rid |-> RequestId(u.m.kid, u.m.piv, u.rid.reuse),
                  left |-> u.left]
      BY <2>2, <2>4, <3>2 DEF new
    <3> QED BY <1>1, <1>3, <2>2, <2>4, <3>1, <3>2, <3>3, <3>4 DEF TaskRight, IsRequest
  <2> QED BY <2>3, <2>4
<1> QED BY <1>1, <1>4, <1>5, <1>6, <1>7, <1>8, <1>9 DEF NeverTwice, ResultsRight

\* A response takes the nonce of its request, once.
LEMMA Reusing ==
  ASSUME Inv, NEW t \in tasks, t.rid.reuse, NEW x,
         IF Up(t.peer) THEN ctx' = ctx /\ disk' = disk ELSE FALSE,
         x.m.piv = NoPiv, x.m.kid = NoKid, x.m.sealed.key = t.peer,
         x.m.sealed.nonce = <<t.m.kid, t.m.piv>>, x.m.sealed.aad = <<t.m.kid, t.m.piv>>,
         x.m.sealed.inner.echo = 0, x.re = t.m,
         sent' = sent \cup {x},
         \A u \in tasks' : u \in tasks \ {t} \/ (u.rid.reuse = FALSE /\ TaskRight(u)),
         x.m.sealed.inner.r = t.m.sealed.inner.r, UNCHANGED <<plan, runs, call, rendered, result>>
  PROVE  Inv'
<1> USE DEF Inv
<1> DEFINE p == t.peer
<1>1. /\ TaskRight(t) /\ p \in Peers /\ t.m.kid = Other(p) /\ t.m \in DOMAIN rendered
      /\ Other(p) \in Peers /\ Other(p) # p /\ Other(p) # "none"
  BY Others DEF TasksRight, TaskRight
<1>2. ~ IsRequest(x)
  BY <1>1 DEF IsRequest, NoMessage
<1>3. ContextsRight' /\ \A q \in Peers : Up(q)' = Up(q) /\ Lead(q)' = Lead(q)
  BY DEF ContextsRight, Up, Lead
<1>4. \E y \in sent : IsRequest(y) /\ y.m = t.m
  BY <1>1 DEF RenderedRight
<1>5. SentRight'
  <2> SUFFICES ASSUME NEW y \in sent'
               PROVE IF IsRequest(y) THEN RequestRight(y)' ELSE ResponseRight(y)'
    BY DEF SentRight, IsRequest
  <2>1. CASE y \in sent
    BY <1>3, <2>1 DEF SentRight, RequestRight, ResponseRight, IsRequest
  <2>2. CASE y = x
    <3>1. runs[p] \in Nat
      BY <1>1, Leads
    <3>2. \E z \in sent' : IsRequest(z) /\ z.m = t.m
      BY <1>4
    <3> QED BY <1>1, <1>2, <2>2, <3>1, <3>2 DEF ResponseRight, IsRequest
  <2> QED BY <2>1, <2>2
<1>6. RenderedRight' /\ WindowsRight'
  BY <1>3 DEF RenderedRight, WindowsRight, Rejects, IsRequest
<1>7. RecentIsLate'
  BY <1>2, <1>3 DEF RecentIsLate, Recent, IsRequest, Waiting, From
<1>8. CallsRight'
  BY <1>3 DEF CallsRight, Shaped, Waiting, From, IsRequest
<1>9. TasksRight'
  <2> SUFFICES ASSUME NEW u \in tasks' PROVE TaskRight(u)'
    BY DEF TasksRight
  <2>1. TaskRight(u)
    BY DEF TasksRight
  <2>2. u.rid.reuse => u.m # t.m
    BY <1>1 DEF TaskRight
  <2>3. ASSUME u.rid.reuse, NEW y \in sent', ~ IsRequest(y), y.re = u.m PROVE y.m.piv # NoPiv
    BY <2>1, <2>2, <2>3 DEF TaskRight
  <2>4. ASSUME u.rid.reuse, NEW v \in tasks', v.m = u.m, v.rid.reuse PROVE v = u
    BY <2>1, <2>4 DEF TaskRight
  <2> QED BY <1>3, <2>1, <2>3, <2>4 DEF TaskRight, IsRequest
<1>10. ASSUME NEW y \in sent, y.m.sealed.key = p, y.m.sealed.nonce = <<t.m.kid, t.m.piv>> PROVE FALSE
  <2>1. /\ ~ IsRequest(y) /\ ResponseRight(y) /\ y.re.kid = t.m.kid /\ y.re.piv = t.m.piv
        /\ y.m.piv = NoPiv
    BY <1>1, <1>10 DEF SentRight, RequestRight, ResponseRight
  <2>2. PICK z \in sent : IsRequest(z) /\ z.m = y.re
    BY <2>1 DEF ResponseRight
  <2>3. PICK v \in sent : IsRequest(v) /\ v.m = t.m
    BY <1>4
  <2>4. z.m.sealed.key = v.m.sealed.key /\ z.m.sealed.nonce = v.m.sealed.nonce
    BY <2>1, <2>2, <2>3 DEF SentRight, RequestRight
  <2>5. z = v
    BY <2>4 DEF NeverTwice
  <2> QED BY <1>1, <2>1, <2>2, <2>3, <2>5 DEF TaskRight
<1>11. NeverTwice'
  BY <1>10 DEF NeverTwice
<1> QED BY <1>3, <1>5, <1>6, <1>7, <1>8, <1>9, <1>11 DEF ResultsRight

-----------------------------------------------------------------------------
(* The client *)

LEMMA Called ==
  ASSUME Shaped, NEW r \in Requests, NEW c, call' = [call EXCEPT ![r] = c],
         c = [phase |-> c.phase, rid |-> c.rid, wire |-> c.wire, got |-> c.got]
  PROVE  Shaped' /\ call'[r] = c /\ \A q \in Requests : q # r => call'[q] = call[q]
<1>1. \A q \in Requests :
        call[q] = [phase |-> call[q].phase, rid |-> call[q].rid, wire |-> call[q].wire, got |-> call[q].got]
  BY DEF Shaped
<1>2. call' = [q \in Requests |-> IF q = r THEN c ELSE call[q]]
  BY DEF Shaped
<1>3. \A q \in Requests :
        call'[q] = [phase |-> call'[q].phase, rid |-> call'[q].rid, wire |-> call'[q].wire,
                    got |-> call'[q].got]
  BY <1>1, <1>2
<1> QED BY <1>2, <1>3 DEF Shaped

LEMMA Ended ==
  ASSUME Shaped, NEW r \in Requests, NEW phase \in {"failed", "done"}, End(r, phase)
  PROVE  Shaped' /\ \A q \in Requests : Waiting(q)' => Waiting(q) /\ call'[q].rid = call[q].rid
<1> DEFINE c == [phase |-> phase, rid |-> NoRid, wire |-> NoMessage, got |-> {}]
<1> DEFINE i == [Idle EXCEPT !.phase = phase]
<1>0. i = c
  BY DEF Idle
<1>1. call' = [call EXCEPT ![r] = i] /\ c.phase = phase
  BY DEF End
<1> HIDE DEF i
<1>2. Shaped' /\ call'[r] = c /\ \A q \in Requests : q # r => call'[q] = call[q]
  BY <1>0, <1>1, Called
<1> HIDE DEF c
<1> QED BY <1>1, <1>2 DEF Waiting

LEMMA Kept ==
  ASSUME Inv, UNCHANGED result
  PROVE  ResultsRight'
BY DEF Inv, ResultsRight

\* A context that is not used for a new number goes on as it was.
LEMMA Staying ==
  ASSUME Inv, NEW p \in Peers, Up(p)
  PROVE  Goes(p, ctx[p])
BY DEF Inv, Goes, ContextsRight, Sound, WindowsRight, ContextRecords

LEMMA Going ==
  ASSUME Inv, NEW p \in Peers, NEW c, Goes(p, c)
  PROVE  /\ Goes(p, NewSequenceNumber(c))
         /\ ctx[p].seq \in Nat /\ c.seq \in Nat /\ NewSequenceNumber(c).seq = c.seq + 1
<1>1. ctx[p].seq \in Nat /\ c.seq \in Nat
  BY DEF Inv, Goes, ContextsRight, Sound, ContextRecords
<1> DEFINE d == NewSequenceNumber(c)
<1>2. /\ d \in ContextRecords /\ d.seq = c.seq + 1 /\ d.seq <= d.persisted
      /\ d.sender = c.sender /\ d.recipient = c.recipient /\ d.echo = c.echo
      /\ d.window = c.window /\ d.windowPersisted = c.windowPersisted
  BY NextNumber DEF Goes
<1> HIDE DEF d
<1>3. Goes(p, d)
  BY <1>1, <1>2 DEF Goes
<1> QED BY <1>1, <1>2, <1>3 DEF d

\* p goes on to d without a message.
LEMMA Silent ==
  ASSUME Inv, NEW p \in Peers, NEW d, Advances(p, d), UNCHANGED <<plan, runs, rendered, sent>>,
         Shaped', ResultsRight',
         \A r \in Requests : Waiting(r)' => Waiting(r) /\ call'[r].rid = call[r].rid,
         tasks' \subseteq tasks
  PROVE  Inv'
<1>1. AddsTo(p, d, {})
  BY DEF AddsTo
<1>2. CallsGo(p, d)
  BY Zenon DEF CallsGo
<1>3. TasksGo
  BY DEF TasksGo
<1> QED BY <1>1, <1>2, <1>3, Advance DEF Step

LEMMA Sending ==
  ASSUME Inv, NEW r \in Requests, From(r) \in Peers, NEW c, Goes(From(r), c),
         c.seq = ctx[From(r)].seq, NEW phase, NEW echo \in 0 .. runs[Other(From(r))],
         Send(r, phase, c, echo), UNCHANGED <<plan, runs, rendered, tasks>>, ResultsRight'
  PROVE  Inv'
<1> DEFINE p == From(r)
           d == NewSequenceNumber(c)
<1> USE DEF Inv
<1>1. Shaped
  BY DEF CallsRight
<1>2. CASE Exhausted(c)
  <2>1. Advances(p, c) /\ End(r, "failed") /\ UNCHANGED sent
    BY <1>2 DEF Send, Advances
  <2> QED BY <1>1, <2>1, Ended, Silent
<1>3. CASE ~ Exhausted(c)
  <2> DEFINE rid == RequestId(p, ctx[p].seq, FALSE)
             msg == Message(p, ctx[p].seq, p, <<p, ctx[p].seq>>, rid, Inner(r, "request", echo))
             x == [m |-> msg, re |-> NoMessage]
             k == [phase |-> phase, rid |-> rid, wire |-> msg, got |-> {}]
  <2>1. c.sender = p /\ Goes(p, d) /\ ctx[p].seq < d.seq
    BY Going DEF Goes
  <2>2. Advances(p, d) /\ sent' = sent \cup {x} /\ call' = [call EXCEPT ![r] = k]
    BY <1>3, <2>1 DEF Send, ProtectRequest, Advances
  <2>3. Fresh(p, x) /\ IsRequest(x) /\ x.m.kid = p /\ x.m.piv = ctx[p].seq /\ x.m.sealed.inner.r = r
    BY DEF Fresh, IsRequest, Message, RequestId, Inner
  <2>4. k.rid.kid = p /\ k.rid.piv = ctx[p].seq
    BY DEF RequestId
  <2>5. k = [phase |-> k.phase, rid |-> k.rid, wire |-> k.wire, got |-> k.got]
    OBVIOUS
  <2> HIDE DEF x, k, msg, rid, d
  <2>6. Shaped' /\ call'[r] = k /\ \A q \in Requests : q # r => call'[q] = call[q]
    BY <1>1, <2>2, <2>5, Called
  <2>7. CallsGo(p, d)
    BY <2>1, <2>2, <2>3, <2>4, <2>6 DEF CallsGo, Waiting
  <2>8. AddsTo(p, d, {x})
    BY <2>1, <2>2, <2>3 DEF AddsTo
  <2>9. TasksGo
    BY DEF TasksGo
  <2> QED BY <2>2, <2>7, <2>8, <2>9, Advance DEF Step
<1> QED BY <1>2, <1>3

LEMMA Asks ==
  ASSUME Inv, NEW r \in Requests, Ask(r)
  PROVE  Inv'
<1>1. From(r) \in Peers
  BY PlansAssumption DEF Inv, Ask, From
<1>2. 0 \in 0 .. runs[Other(From(r))]
  BY <1>1, Others, Leads DEF Inv
<1>3. Goes(From(r), ctx[From(r)])
  BY <1>1, Staying DEF Ask
<1> QED BY <1>1, <1>2, <1>3, Sending, Kept DEF Ask

\* A response that was sealed for a request's identifiers was made for the request.
LEMMA Matching ==
  ASSUME Inv, NEW r \in Requests, Waiting(r), NEW s \in sent, ~ IsRequest(s),
         s.m.sealed.key = Other(From(r)),
         s.m.sealed.aad = <<call[r].rid.kid, call[r].rid.piv>>
  PROVE  s.m.sealed.inner.r = r
<1> USE DEF Inv
<1>1. /\ From(r) \in Peers /\ s.re.piv = call[r].rid.piv /\ s.re.kid = From(r)
      /\ s.m.sealed.inner.r = s.re.sealed.inner.r
  BY Others DEF CallsRight, SentRight, ResponseRight
<1>2. PICK y \in sent : IsRequest(y) /\ y.m = s.re
  BY DEF SentRight, ResponseRight
<1>3. PICK x \in sent : /\ IsRequest(x) /\ x.m.kid = From(r) /\ x.m.piv = call[r].rid.piv
                        /\ x.m.sealed.inner.r = r
  BY DEF CallsRight
<1>4. x.m.sealed.key = y.m.sealed.key /\ x.m.sealed.nonce = y.m.sealed.nonce
  BY <1>1, <1>2, <1>3 DEF SentRight, RequestRight
<1>5. x = y
  BY <1>4 DEF NeverTwice
<1> QED BY <1>1, <1>2, <1>3, <1>5

\* A response that opens may initialize the window: nothing that was rendered is valid then.
LEMMA Opened ==
  ASSUME Inv, NEW r \in Requests, Waiting(r), NEW s \in sent, ~ IsRequest(s)
  PROVE  LET u == UnprotectResponse(ctx[From(r)], s.m, call[r].rid)
         IN /\ Goes(From(r), u.ctx) /\ u.ctx.seq = ctx[From(r)].seq
            /\ u.result = "ok" => s.m.sealed.key = Other(From(r)) /\ s.m.sealed.inner.r = r
<1> DEFINE p == From(r)
           c == ctx[p]
           u == UnprotectResponse(c, s.m, call[r].rid)
           w == FreshlySeen(s.m.piv)
           moved == [c EXCEPT !.window = w]
<1> USE DEF Inv
<1>1. p \in Peers /\ Up(p)
  BY DEF CallsRight
<1>2. Goes(p, c) /\ c.recipient = Other(p) /\ c \in ContextRecords
  BY <1>1, Staying DEF Goes
<1>3. \/ u.ctx = c
      \/ /\ u.ctx = moved /\ ~ IsInitialized(c.window) /\ s.m.piv # NoPiv
         /\ s.m.sealed.key = Other(p) /\ s.m.sealed.aad[2] = call[r].rid.piv
  BY <1>2 DEF UnprotectResponse, Opens
<1>4. u.result = "ok" => s.m.sealed.key = Other(p) /\ s.m.sealed.inner.r = r
  <2> SUFFICES ASSUME u.result = "ok" PROVE s.m.sealed.key = Other(p) /\ s.m.sealed.inner.r = r
    OBVIOUS
  <2>1. /\ s.m.sealed.key = Other(p)
        /\ s.m.sealed.aad = <<call[r].rid.kid, call[r].rid.piv>>
    BY <1>2 DEF UnprotectResponse, Opens
  <2> QED BY <2>1, Matching
<1>5. ASSUME ~ IsInitialized(c.window), s.m.piv # NoPiv, s.m.sealed.key = Other(p),
             s.m.sealed.aad[2] = call[r].rid.piv
      PROVE  Goes(p, moved) /\ moved.seq = c.seq
  <2>1. s.m.piv \in Nat
    BY <1>5 DEF SentRight, ResponseRight
  <2>2. w \in Windows /\ IsInitialized(w)
    BY <2>1, WindowAssumption DEF FreshlySeen, Windows, IsInitialized
  <2>3. Recent(p, s)
    BY <1>5 DEF Recent
  <2>4. \A m \in DOMAIN rendered : m.kid = Other(p) => m.piv < s.m.piv /\ m.piv \in Nat
    BY <1>1, <1>5, <2>3, RenderedBelow DEF RecentIsLate
  <2>5. Rejects(w, Other(p))
    BY <2>1, <2>4 DEF Rejects, IsValid, FreshlySeen
  <2> HIDE DEF w
  <2>6. /\ moved \in ContextRecords /\ moved.window = w /\ moved.seq = c.seq
        /\ moved.persisted = c.persisted /\ moved.sender = c.sender
        /\ moved.recipient = c.recipient /\ moved.echo = c.echo
        /\ moved.windowPersisted = c.windowPersisted
    BY <1>2, <2>2 DEF ContextRecords
  <2> HIDE DEF moved
  <2> QED BY <1>2, <1>5, <2>2, <2>5, <2>6 DEF Goes
<1> HIDE DEF moved, u
<1>6. Goes(p, u.ctx) /\ u.ctx.seq = c.seq
  BY <1>2, <1>3, <1>5
<1> QED BY <1>4, <1>6 DEF u

\* An observation goes on: the same request identifiers.
LEMMA Observing ==
  ASSUME Shaped, NEW r \in Requests, Waiting(r), NEW s, Observe(r, s)
  PROVE  Shaped' /\ \A q \in Requests : Waiting(q)' => Waiting(q) /\ call'[q].rid = call[q].rid
<1> DEFINE k == [phase |-> "observing", rid |-> call[r].rid, wire |-> call[r].wire,
                 got |-> call[r].got \cup {s.m}]
<1>1. call' = [call EXCEPT ![r] = k]
  BY DEF Observe
<1>2. k.rid = call[r].rid /\ k = [phase |-> k.phase, rid |-> k.rid, wire |-> k.wire, got |-> k.got]
  OBVIOUS
<1> HIDE DEF k
<1>3. Shaped' /\ call'[r] = k /\ \A q \in Requests : q # r => call'[q] = call[q]
  BY <1>1, <1>2, Called
<1> QED BY <1>2, <1>3 DEF Waiting

LEMMA Receives ==
  ASSUME Inv, NEW r \in Requests, Receive(r)
  PROVE  Inv'
<1> USE DEF Inv
<1> DEFINE p == From(r)
<1>1. PICK s \in sent : s.re # NoMessage /\ (ReceiveFirst(r, s) \/ ReceiveNext(r, s))
  BY DEF Receive
<1> DEFINE u == UnprotectResponse(ctx[p], s.m, call[r].rid)
<1>2. Waiting(r) /\ ~ IsRequest(s) /\ UNCHANGED <<plan, runs, rendered, tasks>>
  BY <1>1 DEF Receive, IsRequest
<1>3. p \in Peers /\ Shaped
  BY <1>2 DEF CallsRight
<1>4. /\ Goes(p, u.ctx) /\ u.ctx.seq = ctx[p].seq
      /\ u.result = "ok" => s.m.sealed.key = Other(p) /\ s.m.sealed.inner.r = r
  BY <1>2, Opened
<1>4a. result' = result \/ (u.result = "ok" /\ result' = [result EXCEPT ![r] = s.m.sealed.inner])
  BY <1>1 DEF ReceiveFirst, ReceiveNext
<1>5. \/ u.result = "ok" /\ Send(r, "retried", u.ctx, s.m.sealed.inner.echo)
      \/ /\ Becomes(p, u.ctx) /\ UNCHANGED sent
         /\ End(r, "failed") \/ End(r, "done") \/ Observe(r, s)
  <2>1. CASE ReceiveFirst(r, s)
    BY <2>1 DEF ReceiveFirst
  <2>2. CASE ReceiveNext(r, s)
    BY <2>2 DEF ReceiveNext
  <2> QED BY <1>1, <2>1, <2>2
<1> HIDE DEF u
<1>5a. ResultsRight'
  BY <1>4, <1>4a DEF ResultsRight
<1>6. CASE u.result = "ok" /\ Send(r, "retried", u.ctx, s.m.sealed.inner.echo)
  <2>1. s.m.sealed.inner.echo \in 0 .. runs[Other(p)]
    BY <1>2, <1>4, <1>6 DEF SentRight, ResponseRight
  <2> QED BY <1>2, <1>3, <1>4, <1>5a, <1>6, <2>1, Sending
<1>7. CASE /\ Becomes(p, u.ctx) /\ UNCHANGED sent
           /\ End(r, "failed") \/ End(r, "done") \/ Observe(r, s)
  <2>1. Shaped' /\ \A q \in Requests : Waiting(q)' => Waiting(q) /\ call'[q].rid = call[q].rid
    BY <1>2, <1>3, <1>7, Ended, Observing
  <2> QED BY <1>2, <1>3, <1>4, <1>5a, <1>7, <2>1, Silent DEF Advances
<1> QED BY <1>5, <1>6, <1>7

LEMMA Fails ==
  ASSUME Inv, NEW r \in Requests, Waiting(r), End(r, "failed"),
         UNCHANGED <<plan, ctx, disk, runs, tasks, sent, rendered, result>>
  PROVE  Inv'
<1>1. From(r) \in Peers /\ Up(From(r)) /\ Shaped
  BY DEF Inv, CallsRight
<1>2. Becomes(From(r), ctx[From(r)])
  BY <1>1 DEF Inv, ContextsRight, Becomes, Stores
<1> QED BY <1>1, <1>2, Staying, Ended, Silent, Kept DEF Advances

-----------------------------------------------------------------------------
(* The server *)

\* A response with a number of its own, or none where there are no more.
LEMMA Replies ==
  ASSUME Inv, NEW p \in Peers, Up(p), NEW y \in sent, IsRequest(y), y.m.kid = Other(p),
         NEW inner, inner.echo \in 0 .. runs[p], NEW more,
         NEW rid, rid = RequestId(Other(p), y.m.piv, FALSE),
         Reply(ctx[p], p, inner, rid, y.m, more),
         inner.r = y.m.sealed.inner.r, UNCHANGED <<plan, runs, call, rendered, result>>, TasksGo
  PROVE  Inv'
<1> USE DEF Inv
<1> DEFINE c == ctx[p]
           d == NewSequenceNumber(c)
           x == [m |-> Message(NoKid, c.seq, p, <<p, c.seq>>, rid, inner), re |-> y.m, more |-> more]
<1>1. /\ Goes(p, c) /\ c.sender = p /\ Goes(p, d) /\ c.seq < d.seq
  BY Staying, Going DEF Goes
<1>2. rid.reuse = FALSE /\ rid.kid = y.m.kid /\ rid.piv = y.m.piv
  BY DEF RequestId
<1>3. \A e : CallsGo(p, e)
  BY DEF CallsGo, CallsRight, Shaped, Waiting
<1>4. CASE Exhausted(c)
  <2>1. Becomes(p, c) /\ UNCHANGED sent
    BY <1>2, <1>4 DEF Reply
  <2>2. AddsTo(p, c, {})
    BY <2>1 DEF AddsTo
  <2> QED BY <1>1, <1>3, <2>1, <2>2, Advance, Kept DEF Step, Advances
<1>5. CASE ~ Exhausted(c)
  <2>1. Becomes(p, d) /\ sent' = sent \cup {x}
    BY <1>1, <1>2, <1>5 DEF Reply, ProtectResponse
  <2>2. /\ x.m.kid = NoKid /\ x.m.piv = c.seq /\ x.m.sealed.key = p /\ x.m.sealed.nonce = <<p, c.seq>>
        /\ x.m.sealed.aad = <<rid.kid, rid.piv>> /\ x.m.sealed.inner = inner /\ x.re = y.m
    BY DEF Message
  <2>3. ~ (y.m = NoMessage)
    BY Others DEF NoMessage
  <2> HIDE DEF x, d
  <2>4. Fresh(p, x)
    BY <1>2, <2>2, <2>3 DEF Fresh, IsRequest
  <2>5. AddsTo(p, d, {x})
    BY <1>1, <2>1, <2>4 DEF AddsTo
  <2> QED BY <1>1, <1>3, <2>1, <2>5, Advance, Kept DEF Step, Advances
<1> QED BY <1>4, <1>5

\* A request that is in the window, or brings the echo value of this process, is rendered.
LEMMA Renders ==
  ASSUME Inv, NEW p \in Peers, Up(p), NEW x \in sent, IsRequest(x), x.m.kid = Other(p),
         UnprotectRequest(ctx[p], x.m).result = "ok",
         Render(p, x.m, UnprotectRequest(ctx[p], x.m)), UNCHANGED <<plan, runs, call, result>>
  PROVE  Inv'
<1> USE DEF Inv
<1> DEFINE c == ctx[p]
           m == x.m
           struck == StruckOut(c, m.piv)
           seen == [c EXCEPT !.window = FreshlySeen(m.piv)]
           left == plan.calls[m.sealed.inner.r].notes
           u == UnprotectRequest(c, m)
<1>1. /\ c \in ContextRecords /\ c.sender = p /\ c.recipient = Other(p) /\ c.echo = runs[p]
      /\ c.seq <= c.persisted
  BY DEF ContextsRight, Sound
<1>2. m.piv \in Nat
  BY DEF SentRight, RequestRight
<1>3. \/ /\ IsInitialized(c.window) /\ IsValid(c.window, m.piv)
         /\ u.ctx = struck /\ u.rid = RequestId(Other(p), m.piv, TRUE)
      \/ /\ ~ IsInitialized(c.window) /\ m.sealed.inner.echo = runs[p]
         /\ u.ctx = seen /\ u.rid = RequestId(Other(p), m.piv, FALSE)
  BY <1>1 DEF UnprotectRequest, EchoMatches
<1> HIDE DEF struck, seen
<1>4. /\ m \notin DOMAIN rendered
      /\ u.ctx \in ContextRecords /\ u.ctx.sender = p /\ u.ctx.recipient = Other(p)
      /\ u.ctx.echo = runs[p] /\ u.ctx.seq = c.seq /\ u.ctx.persisted = c.persisted
      /\ u.ctx.windowPersisted => c.windowPersisted /\ c.window = UninitializedWindow
      /\ IsInitialized(u.ctx.window) /\ Rejects(u.ctx.window, Other(p))
      /\ ~ IsValid(u.ctx.window, m.piv)
      /\ \E reuse \in BOOLEAN : u.rid = RequestId(Other(p), m.piv, reuse)
  <2>1. \A n \in DOMAIN rendered : n.kid = Other(p) => n.piv \in Nat
    BY RenderedBelow
  <2>2. CASE /\ IsInitialized(c.window) /\ IsValid(c.window, m.piv)
             /\ u.ctx = struck /\ u.rid = RequestId(Other(p), m.piv, TRUE)
    <3> DEFINE w == StrikeOut(c.window, m.piv)
    <3>1. Rejects(c.window, Other(p)) /\ c.window \in Windows
      BY <1>1 DEF WindowsRight, ContextRecords
    <3>2. /\ w \in Windows /\ IsInitialized(w) /\ ~ IsValid(w, m.piv)
          /\ \A k \in Nat : ~ IsValid(c.window, k) => ~ IsValid(w, k)
      BY <1>2, <2>2, <3>1, StrikeOutRejects
    <3>3. struck = [c EXCEPT !.window = w, !.windowPersisted = FALSE]
      BY DEF struck, StruckOut
    <3> HIDE DEF w
    <3>4. struck \in ContextRecords
      BY <1>1, <3>2, <3>3 DEF ContextRecords
    <3>5. /\ struck.sender = c.sender /\ struck.recipient = c.recipient /\ struck.echo = c.echo
          /\ struck.seq = c.seq /\ struck.persisted = c.persisted
          /\ struck.window = w /\ struck.windowPersisted = FALSE
      BY <1>1, <3>3 DEF ContextRecords
    <3>6. Rejects(w, Other(p)) /\ m \notin DOMAIN rendered
      BY <2>1, <2>2, <3>1, <3>2 DEF Rejects
    <3> HIDE DEF u
    <3> QED BY <1>1, <2>2, <3>2, <3>4, <3>5, <3>6
  <2>3. CASE /\ ~ IsInitialized(c.window) /\ m.sealed.inner.echo = runs[p]
             /\ u.ctx = seen /\ u.rid = RequestId(Other(p), m.piv, FALSE)
    <3> DEFINE w == FreshlySeen(m.piv)
    <3>1. Recent(p, x)
      BY <2>3 DEF Recent
    <3>2. \A n \in DOMAIN rendered : n.kid = Other(p) => n.piv < m.piv /\ n.piv \in Nat
      BY <2>1, <2>3, <3>1 DEF RecentIsLate
    <3>3. w \in Windows /\ IsInitialized(w) /\ ~ IsValid(w, m.piv)
      BY <1>2, WindowAssumption DEF Windows, IsInitialized, IsValid, FreshlySeen
    <3>4. Rejects(w, Other(p))
      BY <1>2, <3>2 DEF Rejects, IsValid, FreshlySeen
    <3>5. m \notin DOMAIN rendered
      BY <1>2, <3>2
    <3>6. seen = [c EXCEPT !.window = w]
      BY DEF seen
    <3> HIDE DEF w
    <3>7. /\ seen \in ContextRecords /\ seen.sender = c.sender /\ seen.recipient = c.recipient
          /\ seen.echo = c.echo /\ seen.seq = c.seq /\ seen.persisted = c.persisted
          /\ seen.window = w /\ seen.windowPersisted = c.windowPersisted
      BY <1>1, <3>3, <3>6 DEF ContextRecords
    <3>8. c.window = UninitializedWindow
      BY <1>1, <2>3, NoWindow DEF ContextRecords
    <3> HIDE DEF u
    <3> QED BY <1>1, <2>3, <3>3, <3>4, <3>5, <3>7, <3>8
  <2> QED BY <1>3, <2>2, <2>3
<1> HIDE DEF u
<1>5. PICK reuse \in BOOLEAN : u.rid = RequestId(Other(p), m.piv, reuse)
  BY <1>4
<1>6. /\ Becomes(p, u.ctx) /\ UNCHANGED sent
      /\ tasks' = tasks \cup {[peer |-> p, m |-> m, rid |-> RequestId(Other(p), m.piv, reuse), left |-> left]}
  BY <1>5 DEF Render, u
<1>7. RenderedBy(m) = <<>> /\ Append(<<>>, runs[p]) = <<runs[p]>>
  BY <1>4 DEF RenderedBy
<1>8. rendered' = [n \in DOMAIN rendered \cup {m} |-> IF n = m THEN <<runs[p]>> ELSE rendered[n]]
  BY <1>7 DEF Render, u
<1> QED BY <1>1, <1>4, <1>6, <1>8, Rendering

LEMMA Hears ==
  ASSUME Inv, NEW p \in Peers, Hear(p)
  PROVE  Inv'
<1> USE DEF Inv
<1>1. PICK x \in sent : x.re = NoMessage /\ x.m.kid = Other(p) /\ Serve(p, x.m)
  BY DEF Hear, Requested
<1> DEFINE u == UnprotectRequest(ctx[p], x.m)
<1>2. Up(p) /\ IsRequest(x) /\ UNCHANGED <<plan, runs, call, result>>
  BY <1>1 DEF Serve, IsRequest
<1>3. CASE u.result = "ok" /\ Render(p, x.m, u)
  BY <1>1, <1>2, <1>3, Renders
<1>4. CASE /\ u.result = "echo" /\ UNCHANGED <<tasks, rendered>>
           /\ Reply(u.ctx, p, Inner(x.m.sealed.inner.r, "4.01", ctx[p].echo), u.rid, x.m, FALSE)
  <2> DEFINE inner == Inner(x.m.sealed.inner.r, "4.01", ctx[p].echo)
  <2>1. ctx[p].recipient = Other(p) /\ ctx[p].echo = runs[p] /\ runs[p] \in Nat
    BY <1>2 DEF ContextsRight, Sound
  <2>2. u.ctx = ctx[p] /\ u.rid = RequestId(Other(p), x.m.piv, FALSE)
    BY <1>4, <2>1 DEF UnprotectRequest
  <2>3. inner.echo \in 0 .. runs[p] /\ inner.r = x.m.sealed.inner.r
    BY <2>1 DEF Inner
  <2>4. TasksGo
    BY <1>4 DEF TasksGo
  <2> HIDE DEF inner, u
  <2>5. Reply(ctx[p], p, inner, u.rid, x.m, FALSE)
    BY <1>4, <2>2 DEF inner
  <2> QED BY <1>1, <1>2, <1>4, <2>2, <2>3, <2>4, <2>5, Replies
<1>5. CASE UNCHANGED <<ctx, disk, tasks, sent, rendered>>
  BY <1>2, <1>5, Quiet
<1> QED BY <1>1, <1>3, <1>4, <1>5 DEF Serve

LEMMA Responds ==
  ASSUME Inv, NEW t \in tasks, Respond(t)
  PROVE  Inv'
<1> USE DEF Inv
<1> DEFINE p == t.peer
           c == ctx[p]
           inner == Inner(t.m.sealed.inner.r, "2.xx", 0)
           next == [peer |-> p, m |-> t.m, rid |-> ProtectResponse(c, inner, t.rid).rid,
                    left |-> t.left - 1]
           x == [m |-> ProtectResponse(c, inner, t.rid).msg, re |-> t.m, more |-> t.left > 0]
<1>1. TaskRight(t) /\ UNCHANGED <<plan, runs, call, rendered, result>>
  BY DEF TasksRight, Respond
<1>2. p \in Peers /\ Up(p) /\ t.m.kid = Other(p) /\ t.rid = RequestId(t.m.kid, t.m.piv, t.rid.reuse)
  BY <1>1 DEF TaskRight
<1>3. PICK y \in sent : IsRequest(y) /\ y.m = t.m
  BY <1>1 DEF TaskRight, RenderedRight
<1>4. runs[p] \in Nat /\ c.sender = p
  BY <1>2 DEF ContextsRight, Sound
<1>5. inner.echo = 0 /\ 0 \in 0 .. runs[p] /\ inner.r = t.m.sealed.inner.r
  BY <1>4 DEF Inner
<1>6. Reply(c, p, inner, t.rid, t.m, t.left > 0) /\ tasks' \subseteq (tasks \ {t}) \cup {next}
  BY DEF Respond
<1>7. ProtectResponse(c, inner, t.rid).rid = RequestId(t.m.kid, t.m.piv, FALSE)
  <2>1. CASE t.rid.reuse
    <3>1. ProtectResponse(c, inner, t.rid).rid = Spent(t.rid)
      BY <2>1 DEF ProtectResponse
    <3>2. t.rid.kid = t.m.kid /\ t.rid.piv = t.m.piv
      BY <1>2 DEF RequestId
    <3> QED BY <3>1, <3>2 DEF Spent
  <2>2. CASE t.rid.reuse = FALSE
    BY <1>2, <2>2 DEF ProtectResponse
  <2> QED BY <1>1, <2>1, <2>2 DEF TaskRight
<1>8. next.rid.reuse = FALSE /\ TaskRight(next)
  <2> DEFINE rid == RequestId(t.m.kid, t.m.piv, FALSE)
             k == [peer |-> p, m |-> t.m, rid |-> rid, left |-> t.left - 1]
  <2>1. next = k
    BY <1>7
  <2>2. k.peer = p /\ k.m = t.m /\ k.rid = rid /\ k.left = t.left - 1 /\ rid.reuse = FALSE
    BY DEF RequestId
  <2> HIDE DEF rid
  <2>3. k = [peer |-> k.peer, m |-> k.m, rid |-> RequestId(k.m.kid, k.m.piv, k.rid.reuse), left |-> k.left]
    BY <2>2 DEF rid
  <2> HIDE DEF k, next
  <2> QED BY <1>1, <2>1, <2>2, <2>3 DEF TaskRight
<1> HIDE DEF next
<1>9. CASE ~ t.rid.reuse
  <2>1. TasksGo
    BY <1>6, <1>8 DEF TasksGo
  <2>2. t.rid = RequestId(Other(p), y.m.piv, FALSE)
    BY <1>1, <1>2, <1>3, <1>9 DEF TaskRight
  <2> HIDE DEF inner
  <2> QED BY <1>1, <1>2, <1>3, <1>5, <1>6, <2>1, <2>2, Replies
<1>10. CASE t.rid.reuse
  <2>1. Becomes(p, c) /\ sent' = sent \cup {x}
    BY <1>6, <1>10 DEF Reply, ProtectResponse
  <2>2. /\ x.m.piv = NoPiv /\ x.m.kid = NoKid /\ x.m.sealed.key = p
        /\ x.m.sealed.nonce = <<t.m.kid, t.m.piv>> /\ x.m.sealed.aad = <<t.m.kid, t.m.piv>>
        /\ x.m.sealed.inner.echo = 0 /\ x.m.sealed.inner.r = t.m.sealed.inner.r /\ x.re = t.m
    <3>1. t.rid.kid = t.m.kid /\ t.rid.piv = t.m.piv
      BY <1>2 DEF RequestId
    <3> QED BY <1>4, <1>5, <1>10, <3>1 DEF ProtectResponse, Message
  <2>3. ctx' = ctx /\ disk' = disk
    BY <1>2, <2>1 DEF Becomes, Stores, ContextsRight
  <2> HIDE DEF x, inner
  <2>4. \A u \in tasks' : u \in tasks \ {t} \/ (u.rid.reuse = FALSE /\ TaskRight(u))
    BY <1>6, <1>8
  <2> QED BY <1>1, <1>2, <1>10, <2>1, <2>2, <2>3, <2>4, Reusing
<1> QED BY <1>9, <1>10

-----------------------------------------------------------------------------
(* Processes end and start *)

\* What the file holds when p is gone: a number that is not below the next one, and the
\* window or one that is not initialized.
LEMMA Ends ==
  ASSUME Inv, NEW p \in Peers, Gone(p), disk' = disk \/ disk' = [disk EXCEPT ![p] = Closed(ctx[p])]
  PROVE  Inv'
<1> USE DEF Inv
<1> DEFINE c == ctx[p]
<1>1. /\ Up(p) /\ ctx' = [ctx EXCEPT ![p] = Down] /\ tasks' = {t \in tasks : t.peer # p}
      /\ call' = [r \in Requests |-> IF From(r) = p /\ Waiting(r) THEN [Idle EXCEPT !.phase = "failed"]
                                     ELSE call[r]]
      /\ UNCHANGED <<plan, runs, sent, rendered, result>>
  BY DEF Gone
<1>2. /\ c \in ContextRecords /\ c.seq \in Nat /\ c.persisted \in Nat /\ c.seq <= c.persisted
      /\ c.window \in Windows /\ OnFile(c, disk[p]) /\ disk[p].next \in Nat
  BY <1>1 DEF ContextsRight, Sound, ContextRecords
<1>3. \A q \in Peers : (Up(q)' <=> q # p /\ Up(q)) /\ (q # p => ctx'[q] = ctx[q] /\ disk'[q] = disk[q])
  BY <1>1 DEF Up, ContextsRight
<1>4. /\ disk'[p].next >= c.seq /\ disk'[p] \in [next : Nat, received : Windows \cup {Unknown}]
      /\ disk'[p].received = c.window \/ ~ IsInitialized(disk'[p].received)
  <2>1. CASE disk' = disk
    BY <1>2, <2>1 DEF OnFile, ContextsRight, IsInitialized, Unknown, UninitializedWindow
  <2>2. CASE disk' = [disk EXCEPT ![p] = Closed(c)]
    <3> DEFINE e == [c EXCEPT !.persisted = c.seq, !.windowPersisted = TRUE]
    <3>1. e.persisted = c.seq /\ e.windowPersisted = TRUE /\ e.window = c.window
      BY <1>2 DEF ContextRecords
    <3>2. Closed(c) = File(e)
      BY DEF Closed
    <3> HIDE DEF e
    <3>3. Closed(c) = [next |-> c.seq, received |-> c.window]
      BY <3>1, <3>2 DEF File
    <3>4. disk'[p] = [next |-> c.seq, received |-> c.window]
      BY <2>2, <3>3 DEF ContextsRight
    <3> QED BY <1>2, <3>4
  <2> QED BY <2>1, <2>2
<1>5. ContextsRight'
  <2>1. ctx' \in [Peers -> ContextRecords \cup {Down}]
    BY <1>1 DEF ContextsRight
  <2>2. disk' \in [Peers -> [next : Nat, received : Windows \cup {Unknown}]]
    BY <1>4 DEF ContextsRight
  <2> QED BY <1>1, <1>3, <2>1, <2>2 DEF ContextsRight
<1>6. \A q \in Peers : Lead(q) \in Nat /\ Lead(q)' \in Nat /\ Lead(q) <= Lead(q)'
  <2>1. Lead(p) = c.seq /\ Lead(p)' = disk'[p].next /\ disk'[p].next \in Nat
    BY <1>1, <1>3, <1>4 DEF Lead
  <2>2. \A q \in Peers : q # p => Lead(q)' = Lead(q)
    BY <1>3 DEF Lead
  <2> QED BY <1>2, <1>4, <2>1, <2>2, Leads
<1>7. SentRight'
  BY <1>1, <1>6 DEF SentRight, RequestRight, ResponseRight, IsRequest
<1>8. RenderedRight' /\ NeverTwice'
  BY <1>1 DEF RenderedRight, NeverTwice, IsRequest
<1>9. WindowsRight'
  BY <1>1, <1>3, <1>4 DEF WindowsRight, Rejects
<1>10. \A r \in Requests : Waiting(r)' => Waiting(r) /\ From(r) # p /\ call'[r] = call[r]
  BY <1>1 DEF Waiting, Idle
<1>11. RecentIsLate'
  <2>1. \A q \in Peers, x \in sent : Recent(q, x)' => Recent(q, x)
    BY <1>1, <1>10 DEF Recent, IsRequest, From
  <2> QED BY <1>1, <1>3, <2>1 DEF RecentIsLate
<1>12. CallsRight'
  <2>1. Shaped'
    <3> DEFINE k == [phase |-> "failed", rid |-> NoRid, wire |-> NoMessage, got |-> {}]
    <3>1. [Idle EXCEPT !.phase = "failed"] = k
      BY DEF Idle
    <3>2. \A r \in Requests : call'[r] = k \/ call'[r] = call[r]
      BY <1>1, <3>1
    <3>3. k = [phase |-> k.phase, rid |-> k.rid, wire |-> k.wire, got |-> k.got]
      OBVIOUS
    <3> HIDE DEF k
    <3>4. \A r \in Requests :
            call'[r] = [phase |-> call'[r].phase, rid |-> call'[r].rid, wire |-> call'[r].wire,
                        got |-> call'[r].got]
      BY <3>2, <3>3 DEF CallsRight, Shaped
    <3> QED BY <1>1, <3>4 DEF Shaped
  <2>2. ASSUME NEW r \in Requests, Waiting(r)'
        PROVE  /\ From(r) \in Peers /\ Up(From(r))' /\ call'[r].rid.kid = From(r)
               /\ \E x \in sent' : IsRequest(x) /\ x.m.kid = From(r) /\ x.m.piv = call'[r].rid.piv
                                  /\ x.m.sealed.inner.r = r
    <3>1. /\ From(r) \in Peers /\ Up(From(r)) /\ call[r].rid.kid = From(r) /\ From(r) # p
          /\ call'[r] = call[r]
          /\ \E x \in sent : IsRequest(x) /\ x.m.kid = From(r) /\ x.m.piv = call[r].rid.piv
                            /\ x.m.sealed.inner.r = r
      BY <1>10, <2>2 DEF CallsRight
    <3>2. From(r)' = From(r)
      BY <1>1 DEF From
    <3> QED BY <1>1, <1>3, <3>1, <3>2
  <2> QED BY <1>1, <2>1, <2>2 DEF CallsRight, From, IsRequest
<1>13. TasksRight'
  BY <1>1, <1>3 DEF TasksRight, TaskRight, IsRequest
<1> QED BY <1>1, <1>5, <1>7, <1>8, <1>9, <1>11, <1>12, <1>13, Kept

LEMMA Starts ==
  ASSUME Inv, NEW p \in Peers, Start(p)
  PROVE  Inv'
<1> USE DEF Inv
<1> DEFINE f == disk[p]
           c == Load(p, Other(p), f, runs[p] + 1)
<1>1. /\ ~ Up(p) /\ ctx' = [ctx EXCEPT ![p] = c] /\ runs' = [runs EXCEPT ![p] = runs[p] + 1]
      /\ UNCHANGED <<plan, disk, call, tasks, sent, rendered, result>>
  BY DEF Start
<1>2. /\ f \in [next : Nat, received : Windows \cup {Unknown}] /\ f.next \in Nat
      /\ runs[p] \in Nat \ {0} /\ Other(p) \in Peers
  BY Others DEF ContextsRight
<1>3. /\ c.sender = p /\ c.recipient = Other(p) /\ c.echo = runs[p] + 1 /\ c.seq = f.next
      /\ c.persisted = f.next
      /\ c.window = IF f.received = Unknown THEN UninitializedWindow ELSE f.received
      /\ c.windowPersisted = (f.received # Unknown)
  BY DEF Load
<1>4. c \in ContextRecords /\ OnFile(c, f)
  <2>1. c.window \in Windows
    BY <1>2, <1>3 DEF Windows
  <2>2. c \in ContextRecords
    BY <1>2, <2>1, ChunkAssumption DEF ContextRecords, Load
  <2> QED BY <1>3, <2>2 DEF OnFile
<1>5. c # Down
  BY <1>3, Others DEF Down
<1> HIDE DEF c
<1>6. /\ ctx' \in [Peers -> ContextRecords \cup {Down}] /\ ctx'[p] = c
      /\ runs' \in [Peers -> Nat \ {0}] /\ runs'[p] = runs[p] + 1
      /\ \A q \in Peers : q # p => ctx'[q] = ctx[q] /\ runs'[q] = runs[q]
  BY <1>1, <1>2, <1>4 DEF ContextsRight
<1>7. \A q \in Peers : (Up(q)' <=> q = p \/ Up(q)) /\ runs[q] \in Nat /\ runs'[q] \in Nat /\ runs[q] <= runs'[q]
  BY <1>2, <1>5, <1>6 DEF Up, ContextsRight
<1>8. ContextsRight'
  BY <1>1, <1>2, <1>3, <1>4, <1>6, <1>7 DEF ContextsRight, Sound
<1>9. \A q \in Peers : Lead(q)' = Lead(q)
  BY <1>1, <1>3, <1>6, <1>7 DEF Lead
<1>10. SentRight'
  <2> SUFFICES ASSUME NEW x \in sent
               PROVE IF IsRequest(x) THEN RequestRight(x)' ELSE ResponseRight(x)'
    BY <1>1 DEF SentRight, IsRequest
  <2>1. CASE IsRequest(x)
    BY <1>7, <1>9, <2>1, Others DEF SentRight, RequestRight
  <2>2. CASE ~ IsRequest(x)
    BY <1>1, <1>7, <1>9, <2>2 DEF SentRight, ResponseRight, IsRequest
  <2> QED BY <2>1, <2>2
<1>11. RenderedRight' /\ NeverTwice'
  BY <1>1 DEF RenderedRight, NeverTwice, IsRequest
<1>12. WindowsRight'
  BY <1>1, <1>3, <1>6, <1>7 DEF WindowsRight, Rejects, IsInitialized, UninitializedWindow
<1>13. RecentIsLate'
  <2> SUFFICES ASSUME NEW q \in Peers, Up(q)', ~ IsInitialized(ctx'[q].window),
                      NEW x \in sent, Recent(q, x)', NEW m \in DOMAIN rendered, m.kid = Other(q)
               PROVE  m.piv < x.m.piv
    BY <1>1 DEF RecentIsLate
  <2>1. CASE q = p
    <3>1. CASE IsRequest(x) /\ x.m.kid = Other(p) /\ x.m.sealed.inner.echo = runs[p] + 1
      <4>1. x.m.sealed.inner.echo \in 0 .. runs[p]
        BY <3>1, Others DEF SentRight, RequestRight
      <4> QED BY <1>2, <3>1, <4>1
    <3>2. CASE \E r \in Requests : Waiting(r) /\ From(r) = p
      BY <1>1, <3>2 DEF CallsRight
    <3> QED BY <1>1, <1>6, <2>1, <3>1, <3>2 DEF Recent, IsRequest, Waiting, From
  <2>2. CASE q # p
    <3>1. Recent(q, x)
      BY <1>1, <1>6, <2>2 DEF Recent, IsRequest, Waiting, From
    <3> QED BY <1>6, <1>7, <2>2, <3>1 DEF RecentIsLate
  <2> QED BY <2>1, <2>2
<1>14. CallsRight'
  BY <1>1, <1>7, <1>9 DEF CallsRight, Shaped, Waiting, From, IsRequest
<1>15. TasksRight'
  BY <1>1, <1>7 DEF TasksRight, TaskRight, IsRequest
<1> QED BY <1>1, <1>8, <1>10, <1>11, <1>12, <1>13, <1>14, <1>15, Kept

-----------------------------------------------------------------------------
(* The steps of all *)

LEMMA Begins ==
  ASSUME Init
  PROVE  Inv
<1> DEFINE load(p) == Load(p, Other(p), NewFile, 1)
<1>1. /\ plan \in Plans /\ ctx = [p \in Peers |-> load(p)] /\ disk = [p \in Peers |-> NewFile]
      /\ runs = [p \in Peers |-> 1] /\ call = [r \in Requests |-> Idle]
      /\ tasks = {} /\ sent = {} /\ rendered = <<>> /\ result = [r \in Requests |-> NoResult]
  BY DEF Init
<1>2. DOMAIN rendered = {}
  BY <1>1
<1>3. ASSUME NEW p \in Peers
      PROVE  /\ load(p) \in ContextRecords /\ load(p).sender = p /\ load(p).recipient = Other(p)
             /\ load(p).echo = 1 /\ load(p).seq = 0 /\ load(p).persisted = 0
             /\ OnFile(load(p), NewFile) /\ load(p) # Down
  <2>1. NewFile.received # Unknown /\ NewFile.next = 0 /\ NewFile.received = EmptyWindow
    BY DEF NewFile, EmptyWindow, Unknown
  <2>2. load(p) = [sender |-> p, recipient |-> Other(p), echo |-> 1, seq |-> 0, persisted |-> 0,
                   chunk |-> ChunkStart, window |-> EmptyWindow, windowPersisted |-> TRUE]
    BY <2>1 DEF Load
  <2>3. EmptyWindow \in Windows
    BY DEF EmptyWindow, Windows
  <2>4. p # "none" /\ Other(p) \in Peers
    BY Others
  <2> HIDE DEF load
  <2>5. load(p) \in ContextRecords
    BY <2>2, <2>3, <2>4, ChunkAssumption DEF ContextRecords
  <2>6. /\ load(p).sender = p /\ load(p).recipient = Other(p) /\ load(p).echo = 1 /\ load(p).seq = 0
        /\ load(p).persisted = 0 /\ load(p).windowPersisted = TRUE /\ load(p).window = EmptyWindow
    BY <2>2
  <2> QED BY <2>1, <2>4, <2>5, <2>6 DEF OnFile, Down
<1> HIDE DEF load
<1>4. \A p \in Peers : ctx[p] = load(p) /\ disk[p] = NewFile /\ runs[p] = 1 /\ Up(p)
  BY <1>1, <1>3 DEF Up
<1>5. NewFile \in [next : Nat, received : Windows \cup {Unknown}]
  BY DEF NewFile, EmptyWindow, Windows
<1>6. ContextsRight
  BY <1>1, <1>3, <1>4, <1>5 DEF ContextsRight, Sound
<1>7. SentRight /\ RenderedRight /\ RecentIsLate /\ TasksRight /\ NeverTwice
  BY <1>1, <1>2 DEF SentRight, RenderedRight, RecentIsLate, TasksRight, NeverTwice
<1>8. WindowsRight
  BY <1>2 DEF WindowsRight, Rejects
<1>9. CallsRight
  <2>1. Idle = [phase |-> Idle.phase, rid |-> Idle.rid, wire |-> Idle.wire, got |-> Idle.got]
        /\ Idle.phase = "idle"
    BY DEF Idle
  <2>2. \A r \in Requests : call[r] = Idle
    BY <1>1
  <2> QED BY <1>1, <2>1, <2>2 DEF CallsRight, Shaped, Waiting
<1>10. ResultsRight
  BY <1>1 DEF ResultsRight, NoResult
<1> QED BY <1>1, <1>6, <1>7, <1>8, <1>9, <1>10 DEF Inv

LEMMA Steps ==
  ASSUME Inv, [Next]_vars, ~ unsaved'
  PROVE  Inv'
<1>1. ASSUME NEW r \in Requests, Ask(r) \/ Receive(r) \/ ReceivePlain(r) \/ GiveUp(r)
      PROVE  Inv'
  <2>1. CASE Ask(r)
    BY <2>1, Asks
  <2>2. CASE Receive(r)
    BY <2>2, Receives
  <2>3. CASE ReceivePlain(r)
    BY <2>3, Fails DEF ReceivePlain
  <2>4. CASE GiveUp(r)
    BY <2>4, Fails DEF GiveUp
  <2> QED BY <1>1, <2>1, <2>2, <2>3, <2>4
<1>2. ASSUME NEW p \in Peers, Hear(p) \/ Crash(p) \/ Close(p) \/ Start(p)
      PROVE  Inv'
  <2>1. CASE Hear(p)
    BY <2>1, Hears
  <2>2. CASE Crash(p) \/ Close(p)
    BY <2>2, Ends DEF Crash, Close
  <2>3. CASE Start(p)
    BY <2>3, Starts
  <2> QED BY <1>2, <2>1, <2>2, <2>3
<1>3. CASE Answer
  BY <1>3, Responds DEF Answer
<1>4. CASE DiskFull
  BY <1>4 DEF DiskFull
<1>5. CASE UNCHANGED vars
  BY <1>5, Quiet DEF vars
<1> QED BY <1>1, <1>2, <1>3, <1>4, <1>5 DEF Next

\* A file that could once not be written stays one that could not.
LEMMA Unsaved ==
  ASSUME [Next]_vars, ~ unsaved'
  PROVE  ~ unsaved
BY DEF Next, vars, Ask, Receive, ReceivePlain, GiveUp, Hear, Serve, Crash, Close, Gone, Start,
       Answer, Respond, DiskFull

\* As long as the files can be written, IInv holds in every state.
LEMMA Invariance == Spec => []IInv
<1>1. Init => IInv
  BY Begins DEF IInv
<1>2. IInv /\ [Next]_vars => IInv'
  BY Steps, Unsaved DEF IInv
<1> QED BY <1>1, <1>2, PTL DEF Spec

-----------------------------------------------------------------------------
(* Types *)

LEMMA Saving ==
  ASSUME ContextsTyped, NEW p \in Peers, Up(p), NEW d, Proper(d), ctx' = [ctx EXCEPT ![p] = d],
         disk' = disk \/ disk' = [disk EXCEPT ![p] = File(d)], UNCHANGED runs
  PROVE  ContextsTyped' /\ \A q \in Peers : Up(q)' <=> Up(q)
<1>1. d # Down /\ d \in ContextRecords
  BY Others DEF Proper, ContextRecords, Down
<1>2. File(d) \in [next : Nat, received : Windows \cup {Unknown}]
  BY <1>1 DEF File, ContextRecords
<1>3. /\ ctx' \in [Peers -> ContextRecords \cup {Down}] /\ ctx'[p] = d
      /\ \A q \in Peers : q # p => ctx'[q] = ctx[q]
  BY <1>1 DEF ContextsTyped
<1>4. disk' \in [Peers -> [next : Nat, received : Windows \cup {Unknown}]]
  BY <1>2 DEF ContextsTyped
<1> QED BY <1>1, <1>3, <1>4 DEF ContextsTyped, Up

LEMMA BecomesTyped ==
  ASSUME ContextsTyped, NEW p \in Peers, Up(p), NEW d, Proper(d), Becomes(p, d), UNCHANGED runs
  PROVE  ContextsTyped' /\ \A q \in Peers : Up(q)' <=> Up(q)
BY Saving DEF Becomes

LEMMA ProperNext ==
  ASSUME NEW c, Proper(c)
  PROVE  Proper(NewSequenceNumber(c)) /\ c.seq \in Nat
BY NextNumber DEF Proper, ContextRecords

LEMMA ProperWindow ==
  ASSUME NEW c, Proper(c), NEW w \in Windows, NEW b \in BOOLEAN
  PROVE  /\ Proper([c EXCEPT !.window = w])
         /\ Proper([c EXCEPT !.window = w, !.windowPersisted = b])
<1>1. ASSUME NEW d, d = [c EXCEPT !.window = w] \/ d = [c EXCEPT !.window = w, !.windowPersisted = b]
      PROVE  Proper(d)
  <2>1. d \in ContextRecords
    BY <1>1 DEF Proper, ContextRecords
  <2>2. d.seq = c.seq /\ d.persisted = c.persisted
    BY <1>1 DEF Proper, ContextRecords
  <2> QED BY <2>1, <2>2 DEF Proper
<1> QED BY <1>1

LEMMA ProperSeen ==
  ASSUME NEW n \in Nat
  PROVE  FreshlySeen(n) \in Windows
BY WindowAssumption DEF FreshlySeen, Windows

LEMMA ProperRequest ==
  ASSUME NEW c, Proper(c), NEW m, m.piv \in Nat
  PROVE  Proper(UnprotectRequest(c, m).ctx)
<1>1. CASE IsInitialized(c.window) /\ IsValid(c.window, m.piv)
  <2>1. StrikeOut(c.window, m.piv) \in Windows
    BY <1>1, StrikeOutRejects DEF Proper, ContextRecords
  <2>2. Proper(StruckOut(c, m.piv))
    BY <2>1, ProperWindow DEF StruckOut
  <2> QED BY <1>1, <2>2 DEF UnprotectRequest
<1>2. CASE ~ (IsInitialized(c.window) /\ IsValid(c.window, m.piv))
  <2>1. Proper([c EXCEPT !.window = FreshlySeen(m.piv)])
    BY ProperWindow, ProperSeen
  <2> QED BY <1>2, <2>1 DEF UnprotectRequest
<1> QED BY <1>1, <1>2

LEMMA ProperResponse ==
  ASSUME NEW c, Proper(c), NEW m, m.piv \in Nat \cup {NoPiv}, NEW rid
  PROVE  Proper(UnprotectResponse(c, m, rid).ctx)
<1>1. CASE m.piv = NoPiv
  BY <1>1 DEF UnprotectResponse
<1>2. CASE m.piv \in Nat
  <2>1. Proper([c EXCEPT !.window = FreshlySeen(m.piv)])
    BY <1>2, ProperWindow, ProperSeen
  <2> QED BY <1>2, <2>1 DEF UnprotectResponse
<1> QED BY <1>1, <1>2

LEMMA CallTyped ==
  ASSUME CallsTyped, \A q \in Peers : Up(q)' <=> Up(q), UNCHANGED plan,
         NEW r \in Requests, NEW k, call' = [call EXCEPT ![r] = k],
         \/ k.phase \in {"failed", "done"}
         \/ k.phase \in {"sent", "retried", "observing"} /\ From(r) \in Peers /\ Up(From(r))
  PROVE  CallsTyped'
<1>1. call' = [q \in Requests |-> IF q = r THEN k ELSE call[q]]
  BY DEF CallsTyped
<1>2. \A q \in Requests : From(q)' = From(q)
  BY DEF From
<1>3. ASSUME NEW q \in Requests
      PROVE  /\ call'[q].phase \in {"idle", "sent", "retried", "observing", "done", "failed"}
             /\ Waiting(q)' => From(q)' \in Peers /\ Up(From(q))'
  BY <1>1, <1>2 DEF CallsTyped, Waiting
<1> QED BY <1>1, <1>3 DEF CallsTyped

LEMMA EndTyped ==
  ASSUME CallsTyped, \A q \in Peers : Up(q)' <=> Up(q), UNCHANGED plan,
         NEW r \in Requests, End(r, "failed") \/ End(r, "done")
  PROVE  CallsTyped'
<1>1. [Idle EXCEPT !.phase = "failed"].phase = "failed" /\ [Idle EXCEPT !.phase = "done"].phase = "done"
  BY DEF Idle
<1> QED BY <1>1, CallTyped DEF End

LEMMA SendTyped ==
  ASSUME Typed, NEW r \in Requests, From(r) \in Peers, Up(From(r)), NEW c, Proper(c),
         NEW phase \in {"sent", "retried"}, NEW echo,
         Send(r, phase, c, echo), UNCHANGED <<plan, runs>>
  PROVE  ContextsTyped' /\ SentTyped' /\ CallsTyped' /\ \A q \in Peers : Up(q)' <=> Up(q)
<1> USE DEF Typed
<1>1. CASE Exhausted(c)
  <2>1. ContextsTyped' /\ \A q \in Peers : Up(q)' <=> Up(q)
    BY <1>1, BecomesTyped DEF Send
  <2>2. CallsTyped'
    BY <1>1, <2>1, EndTyped DEF Send
  <2>3. SentTyped'
    BY <1>1 DEF Send, SentTyped, IsRequest
  <2> QED BY <2>1, <2>2, <2>3
<1>2. CASE ~ Exhausted(c)
  <2> DEFINE p == ProtectRequest(c, Inner(r, "request", echo))
             k == [phase |-> phase, rid |-> p.rid, wire |-> p.msg, got |-> {}]
             x == [m |-> p.msg, re |-> NoMessage]
  <2>1. /\ Becomes(From(r), p.ctx) /\ call' = [call EXCEPT ![r] = k] /\ sent' = sent \cup {x}
    BY <1>2 DEF Send
  <2>2. p.ctx = NewSequenceNumber(c) /\ k.phase = phase
    BY DEF ProtectRequest
  <2>3. x.m.piv = c.seq /\ x.m.sealed.inner.r = r
    BY DEF ProtectRequest, Message, Inner
  <2>4. c.seq \in Nat /\ Proper(p.ctx)
    BY <2>2, ProperNext
  <2> HIDE DEF p, k, x
  <2>5. ContextsTyped' /\ \A q \in Peers : Up(q)' <=> Up(q)
    BY <2>1, <2>4, BecomesTyped
  <2>6. CallsTyped'
    BY <2>1, <2>2, <2>5, CallTyped
  <2>7. SentTyped'
    BY <2>1, <2>3, <2>4 DEF SentTyped, IsRequest
  <2> QED BY <2>5, <2>6, <2>7
<1> QED BY <1>1, <1>2

LEMMA FaultTyped ==
  ASSUME FaultsTyped, UNCHANGED plan, UNCHANGED faults \/ Fault
  PROVE  FaultsTyped'
BY PlansAssumption DEF FaultsTyped, Fault

LEMMA RestTyped ==
  ASSUME Typed, UNCHANGED plan, \A q \in Peers : Up(q)' <=> Up(q)
  PROVE  /\ UNCHANGED sent => SentTyped'
         /\ UNCHANGED tasks => TasksTyped'
         /\ UNCHANGED call => CallsTyped'
<1>1. UNCHANGED sent => SentTyped'
  BY DEF Typed, SentTyped, IsRequest
<1>2. UNCHANGED tasks => TasksTyped'
  BY DEF Typed, TasksTyped
<1>3. \A q \in Requests : From(q)' = From(q)
  BY DEF From
<1>4. UNCHANGED call => CallsTyped'
  BY <1>3 DEF Typed, CallsTyped, Waiting
<1> QED BY <1>1, <1>2, <1>4

LEMMA ReplyTyped ==
  ASSUME Typed, NEW p \in Peers, Up(p), NEW c, Proper(c), NEW inner, NEW rid, NEW m, m # NoMessage,
         NEW more, Reply(c, p, inner, rid, m, more), UNCHANGED runs
  PROVE  ContextsTyped' /\ SentTyped' /\ \A q \in Peers : Up(q)' <=> Up(q)
<1> USE DEF Typed
<1>1. CASE Exhausted(c) /\ ~ rid.reuse
  BY <1>1, BecomesTyped DEF Reply, SentTyped, IsRequest
<1>2. CASE ~ (Exhausted(c) /\ ~ rid.reuse)
  <2> DEFINE a == ProtectResponse(c, inner, rid)
             x == [m |-> a.msg, re |-> m, more |-> more]
  <2>1. Becomes(p, a.ctx) /\ sent' = sent \cup {x}
    BY <1>2 DEF Reply
  <2>2. /\ a.ctx = c \/ a.ctx = NewSequenceNumber(c)
        /\ a.msg.piv = NoPiv \/ a.msg.piv = c.seq
    BY DEF ProtectResponse, Message
  <2>3. Proper(a.ctx) /\ a.msg.piv \in Nat \cup {NoPiv}
    BY <2>2, ProperNext
  <2> HIDE DEF a
  <2>4. ~ (x.re = NoMessage) /\ x.m = a.msg
    OBVIOUS
  <2> HIDE DEF x
  <2>5. SentTyped'
    BY <2>1, <2>3, <2>4 DEF SentTyped, IsRequest
  <2> QED BY <2>1, <2>3, <2>5, BecomesTyped
<1> QED BY <1>1, <1>2

LEMMA ClientTyped ==
  ASSUME Typed, NEW r \in Requests, Ask(r) \/ Receive(r) \/ ReceivePlain(r) \/ GiveUp(r)
  PROVE  Typed'
<1> USE DEF Typed
<1>1. CASE Ask(r)
  <2>1. From(r) \in Peers /\ Proper(ctx[From(r)])
    BY <1>1, PlansAssumption DEF Ask, From, FaultsTyped, ContextsTyped
  <2>2. ContextsTyped' /\ SentTyped' /\ CallsTyped' /\ \A q \in Peers : Up(q)' <=> Up(q)
    BY <1>1, <2>1, SendTyped DEF Ask
  <2> QED BY <1>1, <2>2, RestTyped, FaultTyped DEF Ask
<1>2. CASE Receive(r)
  <2> DEFINE p == From(r)
  <2>1. PICK s \in sent : Reaches(s, r) /\ (ReceiveFirst(r, s) \/ ReceiveNext(r, s))
    BY <1>2 DEF Receive
  <2> DEFINE u == UnprotectResponse(ctx[p], s.m, call[r].rid)
  <2>2. /\ Waiting(r) /\ p \in Peers /\ Up(p) /\ Proper(ctx[p])
        /\ UNCHANGED <<plan, runs, tasks>> /\ (UNCHANGED faults \/ Fault)
    BY <1>2, <2>1 DEF Receive, Reaches, CallsTyped, ContextsTyped
  <2>3. Proper(u.ctx)
    <3>1. s.m.piv \in Nat \cup {NoPiv}
      BY DEF SentTyped
    <3> QED BY <2>2, <3>1, ProperResponse
  <2>4. \/ Send(r, "retried", u.ctx, s.m.sealed.inner.echo)
        \/ /\ Becomes(p, u.ctx) /\ UNCHANGED sent
           /\ End(r, "failed") \/ End(r, "done") \/ Observe(r, s)
    BY <2>1 DEF ReceiveFirst, ReceiveNext
  <2> HIDE DEF u
  <2>5. CASE Send(r, "retried", u.ctx, s.m.sealed.inner.echo)
    <3>1. ContextsTyped' /\ SentTyped' /\ CallsTyped' /\ \A q \in Peers : Up(q)' <=> Up(q)
      BY <2>2, <2>3, <2>5, SendTyped
    <3> QED BY <2>2, <3>1, RestTyped, FaultTyped
  <2>6. CASE /\ Becomes(p, u.ctx) /\ UNCHANGED sent
             /\ End(r, "failed") \/ End(r, "done") \/ Observe(r, s)
    <3>1. ContextsTyped' /\ \A q \in Peers : Up(q)' <=> Up(q)
      BY <2>2, <2>3, <2>6, BecomesTyped
    <3>2. CASE Observe(r, s)
      <4> DEFINE k == [phase |-> "observing", rid |-> call[r].rid, wire |-> call[r].wire,
                       got |-> call[r].got \cup {s.m}]
      <4>1. call' = [call EXCEPT ![r] = k] /\ k.phase = "observing"
        BY <3>2 DEF Observe
      <4> HIDE DEF k
      <4>2. CallsTyped'
        BY <2>2, <3>1, <4>1, CallTyped
      <4> QED BY <2>2, <2>6, <3>1, <4>2, RestTyped, FaultTyped
    <3>3. CASE End(r, "failed") \/ End(r, "done")
      <4>1. CallsTyped'
        BY <2>2, <3>1, <3>3, EndTyped
      <4> QED BY <2>2, <2>6, <3>1, <4>1, RestTyped, FaultTyped
    <3> QED BY <2>6, <3>2, <3>3
  <2> QED BY <2>4, <2>5, <2>6
<1>3. CASE ReceivePlain(r) \/ GiveUp(r)
  <2>1. /\ End(r, "failed") /\ UNCHANGED <<plan, ctx, disk, runs, tasks, sent>>
        /\ UNCHANGED faults \/ Fault
    BY <1>3 DEF ReceivePlain, GiveUp
  <2>2. ContextsTyped' /\ \A q \in Peers : Up(q)' <=> Up(q)
    BY <2>1 DEF ContextsTyped, Up
  <2>3. CallsTyped'
    BY <2>1, <2>2, EndTyped
  <2> QED BY <2>1, <2>2, <2>3, RestTyped, FaultTyped
<1> QED BY <1>1, <1>2, <1>3

LEMMA ServerTyped ==
  ASSUME Typed, NEW p \in Peers, Hear(p)
  PROVE  Typed'
<1> USE DEF Typed
<1>1. PICK x \in sent : x.re = NoMessage /\ x.m.kid = Other(p) /\ Serve(p, x.m)
  BY DEF Hear, Requested
<1> DEFINE u == UnprotectRequest(ctx[p], x.m)
<1>2. /\ Up(p) /\ Proper(ctx[p]) /\ UNCHANGED <<plan, runs, call>> /\ (UNCHANGED faults \/ Fault)
      /\ x.m.piv \in Nat /\ x.m.sealed.inner.r \in Requests
  <2>1. Up(p) /\ UNCHANGED <<plan, runs, call>> /\ (UNCHANGED faults \/ Fault)
    BY <1>1 DEF Serve
  <2>2. Proper(ctx[p])
    BY <2>1 DEF ContextsTyped
  <2>3. x.m.piv \in Nat /\ x.m.sealed.inner.r \in Requests
    BY <1>1 DEF SentTyped, IsRequest
  <2> QED BY <2>1, <2>2, <2>3
<1>3. Proper(u.ctx)
  BY <1>2, ProperRequest
<1>4. x.m # NoMessage
  BY <1>1, Others DEF NoMessage
<1>5. CASE Render(p, x.m, u)
  <2> DEFINE t == [peer |-> p, m |-> x.m, rid |-> u.rid, left |-> plan.calls[x.m.sealed.inner.r].notes]
  <2>1. ContextsTyped' /\ \A q \in Peers : Up(q)' <=> Up(q)
    BY <1>2, <1>3, <1>5, BecomesTyped DEF Render
  <2>2. UNCHANGED sent /\ tasks' = tasks \cup {t}
    BY <1>5 DEF Render
  <2>3. t.peer = p /\ t.m = x.m /\ t.left \in Nat
    BY <1>2, PlansAssumption DEF FaultsTyped
  <2> HIDE DEF t
  <2>4. TasksTyped'
    BY <1>2, <1>4, <2>1, <2>2, <2>3 DEF TasksTyped
  <2> QED BY <1>2, <2>1, <2>2, <2>4, RestTyped, FaultTyped
<1>6. CASE Reply(u.ctx, p, Inner(x.m.sealed.inner.r, "4.01", ctx[p].echo), u.rid, x.m, FALSE)
           /\ UNCHANGED tasks
  <2> DEFINE inner == Inner(x.m.sealed.inner.r, "4.01", ctx[p].echo)
  <2> HIDE DEF inner, u
  <2>1. ContextsTyped' /\ SentTyped' /\ \A q \in Peers : Up(q)' <=> Up(q)
    BY <1>2, <1>3, <1>4, <1>6, ReplyTyped
  <2> QED BY <1>2, <1>6, <2>1, RestTyped, FaultTyped
<1>7. CASE UNCHANGED <<ctx, disk, tasks, sent>>
  <2>1. ContextsTyped' /\ \A q \in Peers : Up(q)' <=> Up(q)
    BY <1>2, <1>7 DEF ContextsTyped, Up
  <2> QED BY <1>2, <1>7, <2>1, RestTyped, FaultTyped
<1> QED BY <1>1, <1>5, <1>6, <1>7 DEF Serve

LEMMA AnswerTyped ==
  ASSUME Typed, NEW t \in tasks, Respond(t)
  PROVE  Typed'
<1> USE DEF Typed
<1> DEFINE c == ctx[t.peer]
           inner == Inner(t.m.sealed.inner.r, "2.xx", 0)
           next == [peer |-> t.peer, m |-> t.m, rid |-> ProtectResponse(c, inner, t.rid).rid,
                    left |-> t.left - 1]
<1>1. t.peer \in Peers /\ Up(t.peer) /\ Proper(c) /\ t.left \in Nat /\ t.m # NoMessage
  BY DEF TasksTyped, ContextsTyped
<1>2. /\ Reply(c, t.peer, inner, t.rid, t.m, t.left > 0) /\ UNCHANGED <<plan, runs, call, faults>>
      /\ \A v \in tasks' : v \in tasks \/ (v = next /\ t.left # 0)
  BY DEF Respond
<1>3. next.peer = t.peer /\ next.m = t.m /\ next.left = t.left - 1
  OBVIOUS
<1> HIDE DEF inner, next
<1>4. ContextsTyped' /\ SentTyped' /\ \A q \in Peers : Up(q)' <=> Up(q)
  BY <1>1, <1>2, ReplyTyped
<1>5. TasksTyped'
  BY <1>1, <1>2, <1>3, <1>4 DEF TasksTyped
<1> QED BY <1>2, <1>4, <1>5, RestTyped, FaultTyped

LEMMA FullTyped ==
  ASSUME Typed, DiskFull
  PROVE  Typed'
<1> USE DEF Typed
<1>1. Fault /\ UNCHANGED <<plan, disk, runs, tasks, sent>>
  BY DEF DiskFull
<1>2. ASSUME NEW r \in Requests, FullAsking(r)
      PROVE  Typed'
  <2>1. From(r) \in Peers /\ Up(From(r)) /\ Proper(ctx[From(r)])
    BY <1>2, PlansAssumption DEF FullAsking, From, FaultsTyped, ContextsTyped
  <2>2. Proper(NewSequenceNumber(ctx[From(r)]))
    BY <2>1, ProperNext
  <2>3. ContextsTyped' /\ \A q \in Peers : Up(q)' <=> Up(q)
    BY <1>1, <1>2, <2>1, <2>2, Saving DEF FullAsking
  <2>4. CallsTyped'
    BY <1>1, <1>2, <2>3, EndTyped DEF FullAsking
  <2> QED BY <1>1, <2>3, <2>4, RestTyped, FaultTyped
<1>3. ASSUME NEW p \in Peers, NEW m \in Requested(p), FullServing(p, m)
      PROVE  Typed'
  <2>1. Up(p) /\ Proper(ctx[p]) /\ m.piv \in Nat
    <3>1. Up(p) /\ Proper(ctx[p])
      BY <1>3 DEF FullServing, ContextsTyped
    <3>2. PICK x \in sent : IsRequest(x) /\ x.m = m
      BY DEF Requested, IsRequest
    <3> QED BY <3>1, <3>2 DEF SentTyped
  <2>2. Proper(UnprotectRequest(ctx[p], m).ctx)
    BY <2>1, ProperRequest
  <2>3. ContextsTyped' /\ \A q \in Peers : Up(q)' <=> Up(q)
    BY <1>1, <1>3, <2>1, <2>2, Saving DEF FullServing
  <2>4. UNCHANGED call
    BY <1>3 DEF FullServing
  <2> QED BY <1>1, <2>3, <2>4, RestTyped, FaultTyped
<1> QED BY <1>2, <1>3 DEF DiskFull

LEMMA ProcessTyped ==
  ASSUME Typed, NEW p \in Peers, Crash(p) \/ Close(p) \/ Start(p)
  PROVE  Typed'
<1> USE DEF Typed
<1>1. CASE Crash(p) \/ Close(p)
  <2>1. /\ Up(p) /\ Fault /\ ctx' = [ctx EXCEPT ![p] = Down] /\ tasks' = {t \in tasks : t.peer # p}
        /\ call' = [r \in Requests |-> IF From(r) = p /\ Waiting(r) THEN [Idle EXCEPT !.phase = "failed"]
                                       ELSE call[r]]
        /\ UNCHANGED <<plan, runs, sent>>
        /\ disk' = disk \/ disk' = [disk EXCEPT ![p] = Closed(ctx[p])]
    BY <1>1 DEF Crash, Close, Gone
  <2>2. Closed(ctx[p]) \in [next : Nat, received : Windows \cup {Unknown}]
    <3> DEFINE c == ctx[p]
               e == [c EXCEPT !.persisted = c.seq, !.windowPersisted = TRUE]
    <3>1. e.persisted = c.seq /\ e.window = c.window /\ c.seq \in Nat /\ c.window \in Windows
      BY <2>1 DEF ContextsTyped, Proper, ContextRecords
    <3>2. Closed(c) = File(e)
      BY DEF Closed
    <3> HIDE DEF e
    <3> QED BY <3>1, <3>2 DEF File
  <2>3. disk' \in [Peers -> [next : Nat, received : Windows \cup {Unknown}]]
    BY <2>1, <2>2 DEF ContextsTyped
  <2>4. \A q \in Peers : (Up(q)' <=> q # p /\ Up(q)) /\ (q # p => ctx'[q] = ctx[q])
    BY <2>1 DEF Up, ContextsTyped
  <2>5. ContextsTyped'
    BY <2>1, <2>3, <2>4 DEF ContextsTyped
  <2>6. CallsTyped'
    <3>1. [Idle EXCEPT !.phase = "failed"].phase = "failed"
      BY DEF Idle
    <3>2. \A r \in Requests : From(r)' = From(r)
      BY <2>1 DEF From
    <3>3. ASSUME NEW r \in Requests
          PROVE  /\ call'[r].phase \in {"idle", "sent", "retried", "observing", "done", "failed"}
                 /\ Waiting(r)' => From(r)' \in Peers /\ Up(From(r))'
      BY <2>1, <2>4, <3>1, <3>2 DEF CallsTyped, Waiting
    <3> QED BY <2>1, <3>3 DEF CallsTyped
  <2>7. TasksTyped'
    BY <2>1, <2>4 DEF TasksTyped
  <2>8. SentTyped'
    BY <2>1 DEF SentTyped, IsRequest
  <2> QED BY <2>1, <2>5, <2>6, <2>7, <2>8, FaultTyped
<1>2. CASE Start(p)
  <2> DEFINE f == disk[p]
             c == Load(p, Other(p), f, runs[p] + 1)
  <2>1. /\ ~ Up(p) /\ ctx' = [ctx EXCEPT ![p] = c] /\ runs' = [runs EXCEPT ![p] = runs[p] + 1]
        /\ UNCHANGED <<plan, disk, call, tasks, sent, faults>>
    BY <1>2 DEF Start
  <2>2. /\ f \in [next : Nat, received : Windows \cup {Unknown}] /\ runs[p] \in Nat \ {0}
        /\ Other(p) \in Peers /\ p # "none"
    BY Others DEF ContextsTyped
  <2>3. /\ c.sender = p /\ c.seq = f.next /\ c.persisted = f.next
        /\ c.window = IF f.received = Unknown THEN UninitializedWindow ELSE f.received
    BY DEF Load
  <2>4. c.window \in Windows
    BY <2>2, <2>3 DEF Windows
  <2>5. c \in ContextRecords /\ c.seq <= c.persisted
    BY <2>2, <2>3, <2>4, ChunkAssumption DEF ContextRecords, Load
  <2>6. c # Down
    BY <2>2, <2>3 DEF Down
  <2> HIDE DEF c
  <2>7. /\ ctx' \in [Peers -> ContextRecords \cup {Down}] /\ runs' \in [Peers -> Nat \ {0}]
        /\ ctx'[p] = c /\ \A q \in Peers : q # p => ctx'[q] = ctx[q]
    BY <2>1, <2>2, <2>5 DEF ContextsTyped
  <2>8. ContextsTyped'
    BY <2>1, <2>5, <2>7 DEF ContextsTyped, Proper, Up
  <2>9. \A q \in Peers : Up(q) => Up(q)'
    BY <2>1, <2>6, <2>7 DEF Up
  <2>10. SentTyped' /\ FaultsTyped' /\ TasksTyped'
    BY <2>1, <2>9 DEF SentTyped, FaultsTyped, TasksTyped, IsRequest
  <2>11. \A r \in Requests : From(r)' = From(r) /\ (Waiting(r)' <=> Waiting(r))
    BY <2>1 DEF From, Waiting
  <2>12. CallsTyped'
    BY <2>1, <2>9, <2>11 DEF CallsTyped
  <2> QED BY <2>8, <2>10, <2>12
<1> QED BY <1>1, <1>2

LEMMA BeginsTyped ==
  ASSUME Init
  PROVE  Typed
<1>1. Inv
  BY Begins
<1>2. ContextsTyped
  BY <1>1 DEF Inv, ContextsRight, ContextsTyped, Proper, Sound
<1>3. SentTyped /\ TasksTyped
  BY DEF Init, SentTyped, TasksTyped
<1>4. CallsTyped
  <2>1. call = [r \in Requests |-> Idle] /\ Idle.phase = "idle"
    BY DEF Init, Idle
  <2> HIDE DEF Idle
  <2> QED BY <2>1 DEF CallsTyped, Waiting
<1>5. FaultsTyped
  BY PlansAssumption DEF Init, FaultsTyped
<1> QED BY <1>2, <1>3, <1>4, <1>5 DEF Typed

\* Types hold whether or not the files can be written.
LEMMA Typing == Spec => []Typed
<1>1. Typed /\ [Next]_vars => Typed'
  <2> SUFFICES ASSUME Typed, [Next]_vars PROVE Typed'
    OBVIOUS
  <2>1. CASE UNCHANGED vars
    <3>1. ContextsTyped' /\ \A q \in Peers : Up(q)' <=> Up(q)
      BY <2>1 DEF vars, Typed, ContextsTyped, Up
    <3> QED BY <2>1, <3>1, RestTyped, FaultTyped DEF vars, Typed
  <2> QED BY <2>1, ClientTyped, ServerTyped, AnswerTyped, FullTyped, ProcessTyped DEF Next, Answer
<1> QED BY <1>1, BeginsTyped, PTL DEF Spec

-----------------------------------------------------------------------------
(* The theorems *)

\* No key is used twice with one nonce: whatever crashes, is closed and started again, and
\* however requests and responses cross, as long as the files can be written.
THEOREM NoncesOnce == Spec => []NonceOnce
<1>1. IInv => NonceOnce
  BY DEF IInv, Inv, NonceOnce
<1> QED BY <1>1, Invariance, PTL

\* Types; no request is rendered twice, in all processes together; and no response is taken
\* for another request's: whatever is repeated, reordered, mixed up or lost in a crash.
THEOREM OscoreRight == Spec => []OscoreInv
<1>1. Typed /\ IInv => TypeOK
  <2> SUFFICES ASSUME Typed, IInv PROVE TypeOK
    OBVIOUS
  <2>1. ASSUME NEW p \in Peers
        PROVE  /\ runs[p] \in Nat \ {0}
               /\ Up(p) => ctx[p].window.bits \subseteq 0 .. WindowSize - 1
    BY <2>1 DEF Typed, ContextsTyped, Proper, ContextRecords, Windows, UninitializedWindow
  <2>2. ASSUME NEW p \in Peers, Up(p), ~ unsaved
        PROVE  /\ ctx[p].seq <= disk[p].next /\ ctx[p].persisted = disk[p].next
               /\ disk[p].received \in {Unknown, ctx[p].window, UninitializedWindow}
    BY <2>2 DEF IInv, Inv, ContextsRight, Sound, OnFile
  <2> QED BY <2>1, <2>2 DEF TypeOK, Typed, FaultsTyped, CallsTyped, TasksTyped
<1>2. IInv => NoReplay /\ Matched
  BY DEF IInv, Inv, RenderedRight, NoReplay, ResultsRight, Matched
<1> QED BY <1>1, <1>2, Typing, Invariance, PTL DEF OscoreInv
=============================================================================
