--------------------------- MODULE ExchangeProofs ---------------------------
(***************************************************************************)
(* CoapExchange implements RequestService, its exchanges, backlogs and     *)
(* requests account for each other, no update is lost and none is seen out *)
(* of order: proved for any number of requests, versions, retransmissions  *)
(* and faults.                                                             *)
(***************************************************************************)
EXTENDS CoapExchange, FiniteSetTheorems, TLAPS

Ids == 0 .. Mids - 1
Kinds == [observe : BOOLEAN, quiet : BOOLEAN, mtype : {"CON", "NON", "none"}]

\* The ID of the request with the token t, and that request.
MidOf(t) == LET n == FirstId["c"] + t - 1 IN IF n < Mids THEN n ELSE n - Mids
RequestOf(t) ==
  Message(plan.kinds[t].mtype, "REQ", MidOf(t), t, IF plan.kinds[t].observe THEN 1 ELSE 0,
          IF plan.kinds[t].quiet THEN 1 ELSE 0)

Asks == {RequestOf(t) : t \in {u \in Tokens : requests[u].result # "new"}}
Empties == {EmptyMessage(mtype, mid) : mtype \in {"ACK", "RST"}, mid \in Ids}

Confirmable(S) == {m \in S : m.mtype = "CON"}

\* A manager by its fields.
Record(a, b, q, r, p, i, o) ==
  [active_exchanges |-> a, in_backlogs |-> b, backlog |-> q, recent_messages |-> r,
   piggyback |-> p, message_id |-> i, out |-> o]
Whole(M) ==
  M = Record(M.active_exchanges, M.in_backlogs, M.backlog, M.recent_messages, M.piggyback,
             M.message_id, M.out)

\* A manager whose messages are in S and were repeated at most k times.
Holds(M, S, k) ==
  /\ Whole(M)
  /\ \A x \in DOMAIN M.active_exchanges :
       /\ x \in Ids
       /\ M.active_exchanges[x] \in [msg : Confirmable(S), tries : 0 .. k]
       /\ M.active_exchanges[x].msg.mid = x
       /\ \A y \in DOMAIN M.active_exchanges : x = y
  /\ M.backlog \in Seq(Confirmable(S))
  /\ \A x \in DOMAIN M.recent_messages :
       /\ x \in Ids
       /\ M.recent_messages[x] # NoMessage =>
            M.recent_messages[x] \in S /\ M.recent_messages[x].mid = x
  /\ M.message_id \in Ids
  /\ M.out \subseteq S

\* Such a manager between two operations.
Manager(M, S, k) ==
  /\ Holds(M, S, k)
  /\ M.in_backlogs = (DOMAIN M.active_exchanges # {})
  /\ M.backlog # <<>> => M.in_backlogs

\* A request with the ID x was rendered.
Served(x) == \E t \in Tokens : x = MidOf(t) /\ rendered[t] # 0

\* What a server that has rendered what it has may send.
Notifies(m, t) == m.code = "RESP" /\ m.token = t /\ m.obs # 0
Answers(m) ==
  /\ m \in Messages
  /\ m.mtype = "ACK" => Served(m.mid)
  /\ \/ m.code = "EMPTY" /\ m.mtype = "ACK"
     \/ /\ m.code = "RESP" /\ m.token \in Tokens /\ rendered[m.token] # 0
        /\ m.val \in 0 .. version /\ m.obs <= version
        /\ m.obs = 0 /\ plan.kinds[m.token].observe => m.val = 0

\* What is numbered later shows a later state.
Ordered(S) ==
  \A t \in Tokens : \A m, n \in S :
    Notifies(m, t) /\ Notifies(n, t) /\ m.obs <= n.obs => m.val <= n.val

AnswersRight(S) == (\A m \in S : Answers(m)) /\ Ordered(S)

WireRight(S) ==
  \A p \in wire : /\ p = [to |-> p.to, msg |-> p.msg]
                  /\ \/ p.to = "s" /\ p.msg \in Asks \cup Empties
                     \/ p.to = "c" /\ p.msg \in S

ManagersRight(S) ==
  /\ mm = [n \in Nodes |-> mm[n]]
  /\ Manager(mm["c"], Asks \cup Empties, plan.tries) /\ mm["c"].out = {}
  /\ Manager(mm["s"], S, plan.tries) /\ mm["s"].out = {}
  /\ DOMAIN mm["c"].piggyback = {}
  /\ \A t \in DOMAIN mm["s"].piggyback :
       t \in Tokens /\ rendered[t] # 0 /\ mm["s"].piggyback[t] = MidOf(t)
  /\ \A x \in DOMAIN mm["s"].recent_messages : Served(x)

\* The client numbers its requests in turn.
NextIs(t) == \A u \in Tokens : requests[u].result = "new" <=> u >= t
NumbersRight == \A t \in Tokens : NextIs(t) => mm["c"].message_id = MidOf(t)

InExchange(t) == MidOf(t) \in DOMAIN mm["c"].active_exchanges
InBacklog(t) == \E i \in DOMAIN mm["c"].backlog : mm["c"].backlog[i].token = t
OnWire(t) == \E p \in wire : p.to = "s" /\ p.msg.code = "REQ" /\ p.msg.token = t
Known(t) == MidOf(t) \in DOMAIN mm["s"].recent_messages

\* Where a request is: kept back, before it is sent at all; or remembered, as long as a copy
\* of it may arrive.
PlacesRight ==
  /\ \A t \in Tokens :
       /\ InBacklog(t) => rendered[t] = 0 /\ ~ OnWire(t) /\ ~ InExchange(t)
       /\ rendered[t] # 0 => Known(t) \/ ~ (InExchange(t) \/ OnWire(t))
  /\ \A i, j \in DOMAIN mm["c"].backlog :
       mm["c"].backlog[i].token = mm["c"].backlog[j].token => i = j

Requested == [kind : Kinds, result : {"new", "pending", "answered", "failed", "cancelled"},
              obs : {"none", "on", "cancelled", "over"}, open : BOOLEAN, v1 : Nat, last : Nat,
              late : BOOLEAN]

RequestRight(t, r, S) ==
  /\ r.kind = plan.kinds[t]
  /\ r.last <= version
  /\ r.open => r.result \in {"pending", "answered"}
  /\ r.result \in {"new", "pending"} => r.last = 0
  /\ r.result = "new" => rendered[t] = 0
  /\ r.result # "new" => r.kind.mtype # "none"
  /\ r.open /\ r.result = "answered" =>
       r.kind.observe /\ \E m \in S : Notifies(m, t) /\ m.obs = r.v1 /\ m.val = r.last

RequestsRight(S) ==
  /\ requests \in [Tokens -> Requested]
  /\ rendered \in [Tokens -> {0, 1}]
  /\ \A t \in Tokens : RequestRight(t, requests[t], S)

Piped == [observe : BOOLEAN, quiet : BOOLEAN, mtype : {"CON", "NON"},
          stage : {"new", "render", "wait"}, since : Nat, trigger : {"idle", "render", "end"},
          num : Nat, sent : Nat]

\* How far a rendering task is: every number it gave out belongs to an update it saw.
PipeRight(t, q, S) ==
  /\ t \in Tokens /\ rendered[t] # 0
  /\ q \in Piped /\ q.observe = plan.kinds[t].observe
  /\ q.since <= version /\ q.sent <= version
  /\ q.stage = "new" => q.num = 0 /\ q.sent = 0 /\ q.trigger = "idle" /\ q.since = 0
  /\ q.stage = "render" => q.num < q.since /\ q.sent <= q.since
  /\ q.stage = "wait" => q.observe /\ q.num <= q.since /\ q.since <= q.sent
  /\ q.stage = "render" /\ q.observe /\ q.trigger = "idle" => q.since = version
  /\ q.stage = "wait" /\ q.trigger = "idle" => q.sent = version
  /\ q.trigger = "render" => q.since < version
  /\ \A m \in S : Notifies(m, t) => m.obs <= q.num /\ m.val <= q.sent

PipesRight(S) ==
  /\ pipes = [t \in DOMAIN pipes |-> pipes[t]]
  /\ \A t \in DOMAIN pipes : PipeRight(t, pipes[t], S)

\* S holds all that the server has sent.
Inv(S) ==
  /\ plan \in Plans /\ version \in 1 .. plan.versions
  /\ AnswersRight(S) /\ WireRight(S) /\ ManagersRight(S)
  /\ NumbersRight /\ PlacesRight /\ Tracked /\ RequestsRight(S) /\ PipesRight(S)

IInv == \E S : Inv(S)

\* Updates of one field.
LEMMA Updates ==
  ASSUME NEW M, Whole(M), NEW v
  PROVE
    /\ [M EXCEPT !.active_exchanges = v] =
         Record(v, M.in_backlogs, M.backlog, M.recent_messages,
                 M.piggyback, M.message_id, M.out)
    /\ [M EXCEPT !.in_backlogs = v] =
         Record(M.active_exchanges, v, M.backlog, M.recent_messages,
                 M.piggyback, M.message_id, M.out)
    /\ [M EXCEPT !.backlog = v] =
         Record(M.active_exchanges, M.in_backlogs, v, M.recent_messages,
                 M.piggyback, M.message_id, M.out)
    /\ [M EXCEPT !.recent_messages = v] =
         Record(M.active_exchanges, M.in_backlogs, M.backlog, v,
                 M.piggyback, M.message_id, M.out)
    /\ [M EXCEPT !.piggyback = v] =
         Record(M.active_exchanges, M.in_backlogs, M.backlog, M.recent_messages,
                 v, M.message_id, M.out)
    /\ [M EXCEPT !.message_id = v] =
         Record(M.active_exchanges, M.in_backlogs, M.backlog, M.recent_messages,
                 M.piggyback, v, M.out)
    /\ [M EXCEPT !.out = v] =
         Record(M.active_exchanges, M.in_backlogs, M.backlog, M.recent_messages,
                 M.piggyback, M.message_id, v)
<1>1. [M EXCEPT !.active_exchanges = v] =
         Record(v, M.in_backlogs, M.backlog, M.recent_messages,
                 M.piggyback, M.message_id, M.out)
  BY DEF Whole, Record
<1>2. [M EXCEPT !.in_backlogs = v] =
         Record(M.active_exchanges, v, M.backlog, M.recent_messages,
                 M.piggyback, M.message_id, M.out)
  BY DEF Whole, Record
<1>3. [M EXCEPT !.backlog = v] =
         Record(M.active_exchanges, M.in_backlogs, v, M.recent_messages,
                 M.piggyback, M.message_id, M.out)
  BY DEF Whole, Record
<1>4. [M EXCEPT !.recent_messages = v] =
         Record(M.active_exchanges, M.in_backlogs, M.backlog, v,
                 M.piggyback, M.message_id, M.out)
  BY DEF Whole, Record
<1>5. [M EXCEPT !.piggyback = v] =
         Record(M.active_exchanges, M.in_backlogs, M.backlog, M.recent_messages,
                 v, M.message_id, M.out)
  BY DEF Whole, Record
<1>6. [M EXCEPT !.message_id = v] =
         Record(M.active_exchanges, M.in_backlogs, M.backlog, M.recent_messages,
                 M.piggyback, v, M.out)
  BY DEF Whole, Record
<1>7. [M EXCEPT !.out = v] =
         Record(M.active_exchanges, M.in_backlogs, M.backlog, M.recent_messages,
                 M.piggyback, M.message_id, v)
  BY DEF Whole, Record
<1> QED BY <1>1, <1>2, <1>3, <1>4, <1>5, <1>6, <1>7

LEMMA Fields ==
  ASSUME NEW a, NEW b, NEW q, NEW r, NEW p, NEW i, NEW o, NEW M, M = Record(a, b, q, r, p, i, o)
  PROVE  /\ Whole(M)
         /\ M.active_exchanges = a /\ M.in_backlogs = b /\ M.backlog = q
         /\ M.recent_messages = r /\ M.piggyback = p /\ M.message_id = i /\ M.out = o
BY DEF Whole, Record

LEMMA Twice ==
  ASSUME NEW M, Whole(M), NEW v, NEW w
  PROVE  [M EXCEPT !.active_exchanges = v, !.in_backlogs = w] =
           Record(v, w, M.backlog, M.recent_messages, M.piggyback, M.message_id, M.out)
<1> DEFINE N == [M EXCEPT !.active_exchanges = v]
<1>1. [M EXCEPT !.active_exchanges = v, !.in_backlogs = w] = [N EXCEPT !.in_backlogs = w]
  OBVIOUS
<1>2. N = Record(v, M.in_backlogs, M.backlog, M.recent_messages, M.piggyback, M.message_id, M.out)
  BY Updates
<1> HIDE DEF N
<1>3. /\ Whole(N) /\ N.active_exchanges = v /\ N.backlog = M.backlog
      /\ N.recent_messages = M.recent_messages /\ N.piggyback = M.piggyback
      /\ N.message_id = M.message_id /\ N.out = M.out
  BY <1>2, Fields
<1>4. [N EXCEPT !.in_backlogs = w] =
        Record(N.active_exchanges, w, N.backlog, N.recent_messages, N.piggyback, N.message_id, N.out)
  BY <1>3, Updates
<1> QED BY <1>1, <1>3, <1>4

LEMMA Thrice ==
  ASSUME NEW M, Whole(M), NEW v, NEW w, NEW u
  PROVE  [M EXCEPT !.active_exchanges = v, !.in_backlogs = w, !.backlog = u] =
           Record(v, w, u, M.recent_messages, M.piggyback, M.message_id, M.out)
<1> DEFINE N == [M EXCEPT !.active_exchanges = v, !.in_backlogs = w]
<1>1. [M EXCEPT !.active_exchanges = v, !.in_backlogs = w, !.backlog = u] = [N EXCEPT !.backlog = u]
  OBVIOUS
<1>2. N = Record(v, w, M.backlog, M.recent_messages, M.piggyback, M.message_id, M.out)
  BY Twice, Zenon
<1> HIDE DEF N
<1>3. /\ Whole(N) /\ N.active_exchanges = v /\ N.in_backlogs = w
      /\ N.recent_messages = M.recent_messages /\ N.piggyback = M.piggyback
      /\ N.message_id = M.message_id /\ N.out = M.out
  BY <1>2, Fields
<1>4. [N EXCEPT !.backlog = u] =
        Record(N.active_exchanges, N.in_backlogs, u, N.recent_messages, N.piggyback, N.message_id, N.out)
  BY <1>3, Updates
<1> QED BY <1>1, <1>3, <1>4
-----------------------------------------------------------------------------
\* The client's IDs.
LEMMA MidsOfTokens ==
  /\ Mids \in Nat \ {0} /\ MaxRequests \in Nat /\ MaxRequests <= Mids
  /\ \A t \in Tokens : MidOf(t) \in Ids /\ t \in Nat
  /\ \A t, u \in Tokens : MidOf(t) = MidOf(u) => t = u
  /\ \A t, u \in Tokens : u = t + 1 => (MidOf(t) + 1) % Mids = MidOf(u)
  /\ 1 \in Tokens => MidOf(1) = FirstId["c"]
<1>1. Mids \in Nat \ {0} /\ MaxRequests \in Nat /\ MaxRequests <= Mids
  BY MidsAssumption, RequestsAssumption
<1>2. FirstId["c"] \in 0 .. Mids - 1
  BY FirstIdAssumption DEF Nodes
<1>3. \A t \in Tokens : MidOf(t) \in Ids /\ t \in Nat
  BY <1>1, <1>2 DEF MidOf, Tokens, Ids
<1>4. \A t, u \in Tokens : MidOf(t) = MidOf(u) => t = u
  BY <1>1, <1>2 DEF MidOf, Tokens, Ids
<1>5. \A x \in Ids : (x + 1) % Mids = IF x + 1 = Mids THEN 0 ELSE x + 1
  <2> SUFFICES ASSUME NEW x \in Ids
               PROVE (x + 1) % Mids = IF x + 1 = Mids THEN 0 ELSE x + 1
    OBVIOUS
  <2>1. CASE x + 1 = Mids
    BY <1>1, <2>1 DEF Ids
  <2>2. CASE x + 1 < Mids
    BY <1>1, <2>2 DEF Ids
  <2> QED BY <1>1, <2>1, <2>2 DEF Ids
<1>6. \A t, u \in Tokens : u = t + 1 => (MidOf(t) + 1) % Mids = MidOf(u)
  BY <1>1, <1>2, <1>3, <1>5 DEF MidOf, Tokens, Ids
<1>7. 1 \in Tokens => MidOf(1) = FirstId["c"]
  BY <1>1, <1>2 DEF MidOf, Tokens, Ids
<1> QED BY <1>1, <1>3, <1>4, <1>6, <1>7

-----------------------------------------------------------------------------
\* What the methods of MessageManager do to a manager.
LEMMA Widened ==
  ASSUME NEW M, NEW k \in Nat, NEW S, NEW T, S \subseteq T, Manager(M, S, k)
  PROVE  Manager(M, T, k)
<1>1. Confirmable(S) \subseteq Confirmable(T)
  BY DEF Confirmable
<1>2. M.backlog \in Seq(Confirmable(T))
  BY <1>1 DEF Manager, Holds
<1>3. \A x \in DOMAIN M.active_exchanges :
        M.active_exchanges[x] \in [msg : Confirmable(T), tries : 0 .. k]
  BY <1>1 DEF Manager, Holds
<1> QED BY <1>2, <1>3 DEF Manager, Holds

\* N differs from M in what is sent, in whose answer is remembered, and in its exchange.
Sent(M, N, m) ==
  /\ N.out = M.out \cup {m}
  /\ N.backlog = M.backlog /\ N.message_id = M.message_id /\ N.piggyback = M.piggyback
  /\ DOMAIN N.recent_messages = DOMAIN M.recent_messages
  /\ m.mtype # "CON" => N.active_exchanges = M.active_exchanges
  /\ m.mtype = "CON" => DOMAIN N.active_exchanges = {m.mid} /\ N.active_exchanges[m.mid].msg = m

LEMMA Sends ==
  ASSUME NEW S \in SUBSET Messages, NEW k \in Nat, NEW M, Holds(M, S, k), NEW m \in S,
         IF m.mtype = "CON" THEN DOMAIN M.active_exchanges = {} ELSE Manager(M, S, k)
  PROVE  Manager(SendInitially(M, m), S, k) /\ Sent(M, SendInitially(M, m), m)
<1> DEFINE A == IF m.mtype = "CON" THEN AddExchange(M, m) ELSE M
           B == StoreResponseForDuplicates(A, m)
           C == Transmit(B, m)
<1>1. SendInitially(M, m) = C
  BY DEF SendInitially
<1>2. m \in Messages /\ m.mid \in Ids
  BY DEF Messages, Ids
<1>3. /\ Manager(A, S, k) /\ A.out = M.out /\ A.backlog = M.backlog
      /\ A.message_id = M.message_id /\ A.piggyback = M.piggyback
      /\ A.recent_messages = M.recent_messages
      /\ m.mtype # "CON" => A.active_exchanges = M.active_exchanges
      /\ m.mtype = "CON" => DOMAIN A.active_exchanges = {m.mid} /\ A.active_exchanges[m.mid].msg = m
  <2>1. CASE m.mtype # "CON"
    BY <2>1
  <2>2. CASE m.mtype = "CON"
    <3> DEFINE e == [msg |-> m, tries |-> 0]
               f == With(M.active_exchanges, m.mid, e)
    <3>1. DOMAIN M.active_exchanges = {}
      BY <2>2
    <3>2. DOMAIN f = {m.mid} /\ f[m.mid] = e
      BY <3>1 DEF With
    <3>3. e \in [msg : Confirmable(S), tries : 0 .. k] /\ e.msg = m
      BY <2>2 DEF Confirmable
    <3> HIDE DEF f, e
    <3>4. A = [M EXCEPT !.active_exchanges = f, !.in_backlogs = TRUE]
      BY <2>2 DEF AddExchange, f, e
    <3> DEFINE on == TRUE
    <3> HIDE DEF on
    <3>0. Whole(M) /\ A = [M EXCEPT !.active_exchanges = f, !.in_backlogs = on]
      BY <3>4 DEF Holds, on
    <3>5. A = Record(f, on, M.backlog, M.recent_messages, M.piggyback, M.message_id, M.out)
      BY <3>0, Twice, Zenon
    <3> HIDE DEF A
    <3>6. /\ Whole(A) /\ A.active_exchanges = f /\ A.in_backlogs = on /\ A.backlog = M.backlog
          /\ A.recent_messages = M.recent_messages /\ A.piggyback = M.piggyback
          /\ A.message_id = M.message_id /\ A.out = M.out
      BY <3>5, Fields
    <3>8. A.in_backlogs = (DOMAIN A.active_exchanges # {})
      <4>1. (DOMAIN f # {}) = TRUE
        BY <3>2
      <4> QED BY <3>6, <4>1, Zenon DEF on
    <3>9. Holds(A, S, k)
      BY <3>2, <3>3, <3>6, <1>2 DEF Holds
    <3>7. Manager(A, S, k)
      BY <3>2, <3>6, <3>8, <3>9, Zenon DEF Manager, on
    <3> QED BY <2>2, <3>2, <3>3, <3>6, <3>7
  <2> QED BY <2>1, <2>2
<1> HIDE DEF A
<1>4. /\ Manager(B, S, k) /\ B.out = A.out /\ B.backlog = A.backlog
      /\ B.message_id = A.message_id /\ B.piggyback = A.piggyback
      /\ DOMAIN B.recent_messages = DOMAIN A.recent_messages
      /\ B.active_exchanges = A.active_exchanges
  <2>1. CASE m.mid \notin DOMAIN A.recent_messages
    BY <2>1, <1>3 DEF StoreResponseForDuplicates
  <2>2. CASE m.mid \in DOMAIN A.recent_messages
    <3> DEFINE f == [A.recent_messages EXCEPT ![m.mid] = m]
    <3>1. /\ DOMAIN f = DOMAIN A.recent_messages /\ f[m.mid] = m
          /\ \A x \in DOMAIN f : x # m.mid => f[x] = A.recent_messages[x]
      BY <2>2
    <3>2. B = [A EXCEPT !.recent_messages = f]
      BY <2>2 DEF StoreResponseForDuplicates
    <3>0. Whole(A)
      BY <1>3 DEF Manager, Holds
    <3>3. B = Record(A.active_exchanges, A.in_backlogs, A.backlog, f, A.piggyback, A.message_id, A.out)
      BY <3>0, <3>2, Updates, ZenonT(60)
    <3> HIDE DEF f, B
    <3>4. /\ Whole(B) /\ B.active_exchanges = A.active_exchanges /\ B.in_backlogs = A.in_backlogs
          /\ B.backlog = A.backlog /\ B.recent_messages = f /\ B.piggyback = A.piggyback
          /\ B.message_id = A.message_id /\ B.out = A.out
      BY <3>3, Fields
    <3>5. Manager(B, S, k)
      BY <3>1, <3>4, <1>2, <1>3 DEF Manager, Holds
    <3> QED BY <3>1, <3>4, <3>5
  <2> QED BY <2>1, <2>2
<1> HIDE DEF B
<1> DEFINE o == B.out \cup {m}
<1>5. C = [B EXCEPT !.out = o]
  BY DEF Transmit
<1> HIDE DEF o
<1>0. Whole(B)
  BY <1>4 DEF Manager, Holds
<1>6. C = Record(B.active_exchanges, B.in_backlogs, B.backlog, B.recent_messages, B.piggyback,
                 B.message_id, o)
  BY <1>0, <1>5, Updates, ZenonT(60)
<1> HIDE DEF C
<1>7. /\ Whole(C) /\ C.active_exchanges = B.active_exchanges /\ C.in_backlogs = B.in_backlogs
      /\ C.backlog = B.backlog /\ C.recent_messages = B.recent_messages
      /\ C.piggyback = B.piggyback /\ C.message_id = B.message_id /\ C.out = B.out \cup {m}
  BY <1>6, Fields DEF o
<1>8. Manager(C, S, k)
  BY <1>4, <1>7 DEF Manager, Holds
<1>9. Sent(M, C, m)
  BY <1>3, <1>4, <1>7 DEF Sent
<1> QED BY <1>1, <1>8, <1>9

\* N is M without its exchange; what waited for its end was sent.
Removed(M, N) ==
  /\ N.message_id = M.message_id /\ N.piggyback = M.piggyback
  /\ DOMAIN N.recent_messages = DOMAIN M.recent_messages
  /\ M.backlog = <<>> => DOMAIN N.active_exchanges = {} /\ N.backlog = <<>> /\ N.out = M.out
  /\ M.backlog # <<>> => /\ DOMAIN N.active_exchanges = {Head(M.backlog).mid}
                         /\ N.active_exchanges[Head(M.backlog).mid].msg = Head(M.backlog)
                         /\ N.backlog = Tail(M.backlog)
                         /\ N.out = M.out \cup {Head(M.backlog)}

LEMMA Removes ==
  ASSUME NEW S \in SUBSET Messages, NEW k \in Nat, NEW M, Manager(M, S, k),
         NEW x \in DOMAIN M.active_exchanges
  PROVE  Manager(RemoveExchange(M, x), S, k) /\ Removed(M, RemoveExchange(M, x))
<1> DEFINE f == Without(M.active_exchanges, x)
           A == [M EXCEPT !.active_exchanges = f]
           h == Head(M.backlog)
           B == [A EXCEPT !.backlog = Tail(A.backlog)]
           D == [A EXCEPT !.in_backlogs = FALSE]
           N == RemoveExchange(M, x)
<1>1. DOMAIN f = {}
  BY DEF Without, Restrict, Manager, Holds
<1>2. A = Record(f, M.in_backlogs, M.backlog, M.recent_messages, M.piggyback, M.message_id, M.out)
  BY Updates DEF Manager, Holds
<1>3. N = ContinueBacklog(A)
  BY DEF RemoveExchange
<1> HIDE DEF f, A
<1>0. /\ Whole(A) /\ A.active_exchanges = f /\ A.in_backlogs = M.in_backlogs /\ A.backlog = M.backlog
      /\ A.recent_messages = M.recent_messages /\ A.piggyback = M.piggyback
      /\ A.message_id = M.message_id /\ A.out = M.out
  BY <1>2, Fields
<1>4. N = IF A.backlog # <<>> THEN SendInitially(B, h) ELSE D
  BY <1>0, <1>1, <1>3 DEF ContinueBacklog
<1>5. CASE M.backlog = <<>>
  <2> DEFINE off == FALSE
  <2> HIDE DEF off
  <2>0. Whole(A) /\ D = [A EXCEPT !.in_backlogs = off]
    BY <1>0 DEF off
  <2>1. D = Record(A.active_exchanges, off, A.backlog, A.recent_messages, A.piggyback,
                   A.message_id, A.out)
    BY <2>0, Updates, ZenonT(60)
  <2> HIDE DEF D
  <2>2. /\ Whole(D) /\ D.active_exchanges = f /\ D.in_backlogs = off /\ D.backlog = M.backlog
        /\ D.recent_messages = M.recent_messages /\ D.piggyback = M.piggyback
        /\ D.message_id = M.message_id /\ D.out = M.out
    BY <1>0, <2>1, Fields
  <2>3. Manager(D, S, k)
    BY <1>1, <1>5, <2>2 DEF Manager, Holds, off
  <2>4. N = D
    BY <1>0, <1>4, <1>5
  <2> HIDE DEF N
  <2> QED BY <1>1, <1>5, <2>2, <2>3, <2>4 DEF Removed, N
<1>6. CASE M.backlog # <<>>
  <2> DEFINE t == Tail(M.backlog)
  <2>1. M.backlog \in Seq(Confirmable(S))
    BY DEF Manager, Holds
  <2>2. t \in Seq(Confirmable(S)) /\ h \in Confirmable(S)
    BY <1>6, <2>1
  <2>3. h \in S /\ h.mtype = "CON"
    BY <2>2 DEF Confirmable
  <2> HIDE DEF t, h
  <2>9. B = [A EXCEPT !.backlog = t]
    BY <1>0 DEF t
  <2>4. B = Record(A.active_exchanges, A.in_backlogs, t, A.recent_messages, A.piggyback,
                   A.message_id, A.out)
    BY <1>0, <2>9, Updates
  <2>5. N = SendInitially(B, h)
    BY <1>0, <1>4, <1>6
  <2> HIDE DEF B, N
  <2>6. /\ Whole(B) /\ B.active_exchanges = f /\ B.in_backlogs = M.in_backlogs /\ B.backlog = t
        /\ B.recent_messages = M.recent_messages /\ B.piggyback = M.piggyback
        /\ B.message_id = M.message_id /\ B.out = M.out
    BY <1>0, <2>4, Fields
  <2>7. Holds(B, S, k) /\ DOMAIN B.active_exchanges = {}
    BY <1>1, <2>2, <2>6 DEF Manager, Holds
  <2>8. Manager(N, S, k) /\ Sent(B, N, h)
    BY <2>3, <2>5, <2>7, Sends
  <2> QED BY <1>6, <2>3, <2>6, <2>8 DEF Removed, Sent, h, t, N
<1> QED BY <1>5, <1>6

\* N is M, but for what is to be sent.
Alike(M, N) ==
  /\ N.active_exchanges = M.active_exchanges /\ N.in_backlogs = M.in_backlogs
  /\ N.backlog = M.backlog /\ N.recent_messages = M.recent_messages
  /\ N.piggyback = M.piggyback /\ N.message_id = M.message_id

LEMMA Clears ==
  ASSUME NEW S, NEW k \in Nat, NEW M, Manager(M, S, k)
  PROVE  LET N == [M EXCEPT !.out = {}]
         IN Manager(N, S, k) /\ Alike(M, N) /\ N.out = {}
<1> DEFINE N == [M EXCEPT !.out = {}]
<1>1. Whole(M)
  BY DEF Manager, Holds
<1>2. N = Record(M.active_exchanges, M.in_backlogs, M.backlog, M.recent_messages,
                 M.piggyback, M.message_id, {})
  BY <1>1, Updates, ZenonT(60)
<1> HIDE DEF N
<1>3. Whole(N) /\ Alike(M, N) /\ N.out = {}
  BY <1>2, Fields DEF Alike
<1>4. Manager(N, S, k)
  BY <1>3 DEF Manager, Holds, Alike
<1> QED BY <1>3, <1>4 DEF N

\* What Act makes of the managers.
LEMMA Acts ==
  ASSUME NEW n \in Nodes, NEW M, NEW left, Act(n, M, left), mm = [q \in Nodes |-> mm[q]],
         NEW S, NEW k \in Nat, Manager(M, S, k)
  PROVE  /\ mm' = [q \in Nodes |-> mm'[q]]
         /\ Manager(mm'[n], S, k) /\ Alike(M, mm'[n]) /\ mm'[n].out = {}
         /\ \A q \in Nodes : q # n => mm'[q] = mm[q]
         /\ wire' = left \cup {[to |-> Peer(n), msg |-> m] : m \in M.out}
<1> DEFINE N == [M EXCEPT !.out = {}]
<1>1. Manager(N, S, k) /\ Alike(M, N) /\ N.out = {}
  BY Clears
<1>2. mm' = [mm EXCEPT ![n] = N] /\ wire' = left \cup {[to |-> Peer(n), msg |-> m] : m \in M.out}
  BY DEF Act
<1> HIDE DEF N
<1>3. mm' = [q \in Nodes |-> IF q = n THEN N ELSE mm[q]]
  BY <1>2
<1>4. mm'[n] = N /\ \A q \in Nodes : q # n => mm'[q] = mm[q]
  BY <1>3
<1>5. mm' = [q \in Nodes |-> mm'[q]]
  BY <1>3
<1> QED BY <1>1, <1>2, <1>4, <1>5

\* N is M with its open exchanges and its backlog gone.
Dropped(M, N) ==
  /\ DOMAIN N.active_exchanges = {} /\ N.backlog = <<>>
  /\ N.recent_messages = M.recent_messages
  /\ N.piggyback = M.piggyback /\ N.message_id = M.message_id /\ N.out = M.out

LEMMA Drops ==
  ASSUME NEW S, NEW k \in Nat, NEW M, Manager(M, S, k)
  PROVE  Manager(DropExchanges(M), S, k) /\ Dropped(M, DropExchanges(M))
<1> DEFINE none == <<>>
           off == FALSE
           N == DropExchanges(M)
<1>1. DOMAIN none = {} /\ none \in Seq(Confirmable(S)) /\ off = FALSE
  OBVIOUS
<1>2. N = [M EXCEPT !.active_exchanges = none, !.in_backlogs = off, !.backlog = none]
  BY DEF DropExchanges
<1>3. Whole(M)
  BY DEF Manager, Holds
<1> HIDE DEF none, off, N
<1>4. N = Record(none, off, none, M.recent_messages, M.piggyback, M.message_id, M.out)
  BY <1>2, <1>3, Thrice, Zenon
<1>5. /\ Whole(N) /\ N.active_exchanges = none /\ N.in_backlogs = off /\ N.backlog = none
      /\ N.recent_messages = M.recent_messages /\ N.piggyback = M.piggyback
      /\ N.message_id = M.message_id /\ N.out = M.out
  BY <1>4, Fields
<1>6. Manager(N, S, k)
  <2>1. Holds(N, S, k)
    BY <1>1, <1>5 DEF Manager, Holds
  <2>2. N.in_backlogs = (DOMAIN N.active_exchanges # {})
    BY <1>1, <1>5
  <2>3. N.backlog = <<>>
    BY <1>5 DEF none
  <2> QED BY <2>1, <2>2, <2>3 DEF Manager
<1>7. Dropped(M, N)
  BY <1>1, <1>5 DEF Dropped, none
<1> QED BY <1>6, <1>7 DEF N

LEMMA GivesUp ==
  ASSUME NEW S, NEW k \in Nat, NEW M, Manager(M, S, k), NEW x \in DOMAIN M.active_exchanges
  PROVE  Manager(GiveUp(M, x), S, k) /\ Dropped(M, GiveUp(M, x))
<1> DEFINE none == Without(M.active_exchanges, x)
           off == FALSE
           empty == <<>>
           N == GiveUp(M, x)
<1>1. DOMAIN none = {} /\ empty \in Seq(Confirmable(S)) /\ off = FALSE
  BY DEF Without, Restrict, Manager, Holds
<1>2. N = [M EXCEPT !.active_exchanges = none, !.in_backlogs = off, !.backlog = empty]
  BY DEF GiveUp
<1>3. Whole(M)
  BY DEF Manager, Holds
<1> HIDE DEF none, off, empty, N
<1>4. N = Record(none, off, empty, M.recent_messages, M.piggyback, M.message_id, M.out)
  BY <1>2, <1>3, Thrice, Zenon
<1>5. /\ Whole(N) /\ N.active_exchanges = none /\ N.in_backlogs = off /\ N.backlog = empty
      /\ N.recent_messages = M.recent_messages /\ N.piggyback = M.piggyback
      /\ N.message_id = M.message_id /\ N.out = M.out
  BY <1>4, Fields
<1>6. Manager(N, S, k)
  <2>1. Holds(N, S, k)
    BY <1>1, <1>5 DEF Manager, Holds
  <2>2. N.in_backlogs = (DOMAIN N.active_exchanges # {})
    BY <1>1, <1>5
  <2>3. N.backlog = <<>>
    BY <1>5 DEF empty
  <2> QED BY <2>1, <2>2, <2>3 DEF Manager
<1>7. Dropped(M, N)
  BY <1>1, <1>5 DEF Dropped, empty
<1> QED BY <1>6, <1>7 DEF N

LEMMA Retransmits ==
  ASSUME NEW S, NEW k \in Nat, NEW M, Manager(M, S, k), NEW x \in DOMAIN M.active_exchanges,
         MayRetransmit(M, x, k)
  PROVE  LET N == Retransmit(M, x)
         IN /\ Manager(N, S, k)
            /\ DOMAIN N.active_exchanges = DOMAIN M.active_exchanges
            /\ N.active_exchanges[x].msg = M.active_exchanges[x].msg
            /\ N.backlog = M.backlog /\ N.recent_messages = M.recent_messages
            /\ N.piggyback = M.piggyback /\ N.message_id = M.message_id
            /\ N.out = M.out \cup {M.active_exchanges[x].msg}
<1> DEFINE e == M.active_exchanges[x]
           d == [e EXCEPT !.tries = e.tries + 1]
           f == [M.active_exchanges EXCEPT ![x] = d]
           o == M.out \cup {e.msg}
           A == [M EXCEPT !.active_exchanges = f]
           N == Retransmit(M, x)
<1>1. e \in [msg : Confirmable(S), tries : 0 .. k] /\ e.tries < k
  BY DEF Manager, Holds, MayRetransmit
<1>2. d \in [msg : Confirmable(S), tries : 0 .. k] /\ d.msg = e.msg
  BY <1>1
<1>3. DOMAIN f = DOMAIN M.active_exchanges /\ f[x] = d /\ DOMAIN f = {x}
  BY DEF Manager, Holds
<1>4. A = [M EXCEPT !.active_exchanges[x].tries = e.tries + 1]
  OBVIOUS
<1>5. Whole(M)
  BY DEF Manager, Holds
<1>6. N = [A EXCEPT !.out = A.out \cup {e.msg}]
  BY <1>4 DEF Retransmit, Transmit
<1> HIDE DEF f, d
<1>7. A = Record(f, M.in_backlogs, M.backlog, M.recent_messages, M.piggyback, M.message_id, M.out)
  BY <1>5, Updates, ZenonT(60)
<1> HIDE DEF A, N, e
<1>8. /\ Whole(A) /\ A.active_exchanges = f /\ A.in_backlogs = M.in_backlogs /\ A.backlog = M.backlog
      /\ A.recent_messages = M.recent_messages /\ A.piggyback = M.piggyback
      /\ A.message_id = M.message_id /\ A.out = M.out
  BY <1>7, Fields
<1>9. N = [A EXCEPT !.out = o]
  BY <1>6, <1>8
<1> HIDE DEF o
<1>10. N = Record(A.active_exchanges, A.in_backlogs, A.backlog, A.recent_messages,
                  A.piggyback, A.message_id, o)
  BY <1>8, <1>9, Updates, ZenonT(60)
<1>11. /\ Whole(N) /\ N.active_exchanges = f /\ N.in_backlogs = M.in_backlogs /\ N.backlog = M.backlog
       /\ N.recent_messages = M.recent_messages /\ N.piggyback = M.piggyback
       /\ N.message_id = M.message_id /\ N.out = o
  BY <1>8, <1>10, Fields
<1>12. o \subseteq S
  BY <1>1 DEF o, Manager, Holds, Confirmable
<1>13. M.active_exchanges[x].msg.mid = x
  BY DEF Manager, Holds
<1>14. Holds(N, S, k)
  BY <1>2, <1>3, <1>11, <1>12, <1>13 DEF Manager, Holds, e
<1>15. Manager(N, S, k)
  BY <1>3, <1>11, <1>14 DEF Manager
<1> QED BY <1>2, <1>3, <1>11, <1>15 DEF N, o, e

\* N is M, expecting the answer to m.
Expecting(M, N, m) ==
  /\ N.out = M.out
  /\ DOMAIN N.recent_messages = DOMAIN M.recent_messages \cup {m.mid}
  /\ \A t \in DOMAIN N.piggyback :
       \/ t \in DOMAIN M.piggyback /\ N.piggyback[t] = M.piggyback[t]
       \/ t = m.token /\ N.piggyback[t] = m.mid

LEMMA Expects ==
  ASSUME NEW S, NEW k \in Nat, NEW M, Manager(M, S, k), NEW m, m.mid \in Ids
  PROVE  Manager(ExpectAnswer(M, m), S, k) /\ Expecting(M, ExpectAnswer(M, m), m)
<1> DEFINE f == With(M.recent_messages, m.mid, NoMessage)
           g == With(M.piggyback, m.token, m.mid)
           A == [M EXCEPT !.recent_messages = f]
           B == [A EXCEPT !.piggyback = With(A.piggyback, m.token, m.mid)]
           N == ExpectAnswer(M, m)
<1>1. /\ DOMAIN f = DOMAIN M.recent_messages \cup {m.mid} /\ f[m.mid] = NoMessage
      /\ \A x \in DOMAIN f : x # m.mid => x \in DOMAIN M.recent_messages /\ f[x] = M.recent_messages[x]
  BY DEF With
<1>2. /\ g[m.token] = m.mid
      /\ \A t \in DOMAIN g : t # m.token => t \in DOMAIN M.piggyback /\ g[t] = M.piggyback[t]
  BY DEF With
<1>3. Whole(M)
  BY DEF Manager, Holds
<1>4. N = IF m.mtype = "CON" THEN B ELSE A
  BY DEF ExpectAnswer
<1> HIDE DEF f, N
<1>5. A = Record(M.active_exchanges, M.in_backlogs, M.backlog, f, M.piggyback, M.message_id, M.out)
  BY <1>3, Updates, ZenonT(60)
<1> HIDE DEF A
<1>6. /\ Whole(A) /\ A.active_exchanges = M.active_exchanges /\ A.in_backlogs = M.in_backlogs
      /\ A.backlog = M.backlog /\ A.recent_messages = f /\ A.piggyback = M.piggyback
      /\ A.message_id = M.message_id /\ A.out = M.out
  BY <1>5, Fields
<1>7. Manager(A, S, k)
  BY <1>1, <1>6 DEF Manager, Holds
<1>8. CASE m.mtype = "CON"
  <2>1. B = [A EXCEPT !.piggyback = g]
    BY <1>6
  <2> HIDE DEF g, B
  <2>2. B = Record(A.active_exchanges, A.in_backlogs, A.backlog, A.recent_messages, g,
                   A.message_id, A.out)
    BY <1>6, <2>1, Updates, ZenonT(60)
  <2>3. /\ Whole(B) /\ B.active_exchanges = M.active_exchanges /\ B.in_backlogs = M.in_backlogs
        /\ B.backlog = M.backlog /\ B.recent_messages = f /\ B.piggyback = g
        /\ B.message_id = M.message_id /\ B.out = M.out
    BY <1>6, <2>2, Fields
  <2>4. Manager(B, S, k)
    BY <1>1, <2>3 DEF Manager, Holds
  <2> QED BY <1>1, <1>2, <1>4, <1>8, <2>3, <2>4 DEF N, Expecting
<1>9. CASE m.mtype # "CON"
  BY <1>1, <1>4, <1>6, <1>7, <1>9 DEF N, Expecting
<1> QED BY <1>8, <1>9

\* N is M, the message with the next ID r given out.
Numbering(M, N, r) ==
  /\ N.message_id = (M.message_id + 1) % Mids /\ N.piggyback = M.piggyback
  /\ DOMAIN N.recent_messages = DOMAIN M.recent_messages
  /\ \/ /\ r.mtype = "CON" /\ M.in_backlogs
        /\ N.backlog = Append(M.backlog, r) /\ N.active_exchanges = M.active_exchanges
        /\ N.out = M.out
     \/ /\ r.mtype = "CON" /\ ~ M.in_backlogs
        /\ N.backlog = M.backlog /\ N.out = M.out \cup {r}
        /\ DOMAIN N.active_exchanges = {r.mid} /\ N.active_exchanges[r.mid].msg = r
     \/ /\ r.mtype # "CON"
        /\ N.backlog = M.backlog /\ N.out = M.out \cup {r}
        /\ N.active_exchanges = M.active_exchanges

LEMMA SendsNext ==
  ASSUME NEW S \in SUBSET Messages, NEW k \in Nat, NEW M, Manager(M, S, k), NEW r \in S,
         r.mid = M.message_id
  PROVE  Manager(SendNext(M, r), S, k) /\ Numbering(M, SendNext(M, r), r)
<1> DEFINE i == (M.message_id + 1) % Mids
           A == [M EXCEPT !.message_id = i]
           q == Append(M.backlog, r)
           B == [A EXCEPT !.backlog = Append(A.backlog, r)]
           N == SendNext(M, r)
<1>1. i \in Ids
  BY MidsAssumption DEF Manager, Holds, Ids
<1>2. Whole(M)
  BY DEF Manager, Holds
<1>8. N = IF r.mtype = "CON" /\ M.in_backlogs THEN B ELSE SendInitially(A, r)
  BY DEF SendNext
<1> HIDE DEF i, N
<1>3. A = Record(M.active_exchanges, M.in_backlogs, M.backlog, M.recent_messages, M.piggyback, i, M.out)
  BY <1>2, Updates, ZenonT(60)
<1> HIDE DEF A
<1>4. /\ Whole(A) /\ A.active_exchanges = M.active_exchanges /\ A.in_backlogs = M.in_backlogs
      /\ A.backlog = M.backlog /\ A.recent_messages = M.recent_messages
      /\ A.piggyback = M.piggyback /\ A.message_id = i /\ A.out = M.out
  BY <1>3, Fields
<1>5. Manager(A, S, k)
  BY <1>1, <1>4 DEF Manager, Holds
<1>6. CASE r.mtype = "CON" /\ M.in_backlogs
  <2>1. B = [A EXCEPT !.backlog = q]
    BY <1>4
  <2>2. r \in Confirmable(S)
    BY <1>6 DEF Confirmable
  <2>3. q \in Seq(Confirmable(S))
    BY <2>2 DEF Manager, Holds
  <2>4. N = B
    BY <1>6, <1>8
  <2> HIDE DEF q, B
  <2>5. B = Record(A.active_exchanges, A.in_backlogs, q, A.recent_messages, A.piggyback,
                   A.message_id, A.out)
    BY <1>4, <2>1, Updates, ZenonT(60)
  <2>6. /\ Whole(B) /\ B.active_exchanges = M.active_exchanges /\ B.in_backlogs = M.in_backlogs
        /\ B.backlog = q /\ B.recent_messages = M.recent_messages
        /\ B.piggyback = M.piggyback /\ B.message_id = i /\ B.out = M.out
    BY <1>4, <2>5, Fields
  <2>7. Manager(B, S, k)
    BY <1>1, <1>6, <2>3, <2>6, ZenonT(60) DEF Manager, Holds
  <2> QED BY <1>4, <1>6, <2>4, <2>6, <2>7 DEF Numbering, q, i, N
<1>7. CASE ~ (r.mtype = "CON" /\ M.in_backlogs)
  <2>1. N = SendInitially(A, r)
    BY <1>7, <1>8
  <2>2. IF r.mtype = "CON" THEN DOMAIN A.active_exchanges = {} ELSE Manager(A, S, k)
    BY <1>4, <1>5, <1>7 DEF Manager
  <2>3. Manager(N, S, k) /\ Sent(A, N, r)
    BY <1>5, <2>1, <2>2, Sends DEF Manager
  <2>4. Numbering(M, N, r)
    BY <1>4, <1>7, <2>3 DEF Numbering, Sent, i
  <2> QED BY <2>3, <2>4 DEF N
<1> QED BY <1>6, <1>7

\* The client sends a request.
LEMMA SendsRequest ==
  ASSUME NEW S \in SUBSET Messages, NEW k \in Nat, NEW M, Manager(M, S, k),
         NEW m, m.code = "REQ", m.mtype \in {"CON", "NON"}, NEW r \in S,
         r = Numbered(m, m.mtype, M.message_id)
  PROVE  Manager(SendMessage(M, m, FALSE), S, k) /\ Numbering(M, SendMessage(M, m, FALSE), r)
<1>1. r.mid = M.message_id /\ SendMessage(M, m, FALSE) = SendNext(M, r)
  BY DEF Numbered, Message, SendMessage
<1> QED BY <1>1, SendsNext

\* Opportunities to piggyback are only taken.
Taken(M, N) ==
  \A t \in DOMAIN N.piggyback : t \in DOMAIN M.piggyback /\ N.piggyback[t] = M.piggyback[t]

\* N is the server's M after it sent nothing but r.
Replying(M, N, S, k, r) ==
  /\ Manager(N, S \cup {r}, k)
  /\ DOMAIN N.recent_messages = DOMAIN M.recent_messages
  /\ Taken(M, N)
  /\ N.out \subseteq M.out \cup {r}

\* What takes an opportunity of M.
LEMMA Piggybacks ==
  ASSUME NEW S \in SUBSET Messages, NEW k \in Nat, NEW M, Manager(M, S, k),
         NEW t, NEW r \in Messages, r.mtype = "ACK"
  PROVE  Replying(M, SendInitially([M EXCEPT !.piggyback = Without(M.piggyback, t)], r), S, k, r)
<1> DEFINE f == Without(M.piggyback, t)
           A == [M EXCEPT !.piggyback = f]
           T == S \cup {r}
           N == SendInitially(A, r)
<1>1. \A u \in DOMAIN f : u \in DOMAIN M.piggyback /\ f[u] = M.piggyback[u]
  BY DEF Without, Restrict
<1>2. Whole(M) /\ Manager(M, T, k)
  BY Widened DEF Manager, Holds
<1> HIDE DEF f
<1>3. A = Record(M.active_exchanges, M.in_backlogs, M.backlog, M.recent_messages, f, M.message_id, M.out)
  BY <1>2, Updates, ZenonT(60)
<1> HIDE DEF A
<1>4. /\ Whole(A) /\ A.active_exchanges = M.active_exchanges /\ A.in_backlogs = M.in_backlogs
      /\ A.backlog = M.backlog /\ A.recent_messages = M.recent_messages
      /\ A.piggyback = f /\ A.message_id = M.message_id /\ A.out = M.out
  BY <1>3, Fields
<1>5. Manager(A, T, k)
  BY <1>2, <1>4, ZenonT(60) DEF Manager, Holds
<1>6. Holds(A, T, k) /\ T \in SUBSET Messages /\ r \in T
  BY <1>5 DEF Manager
<1>7. Manager(N, T, k) /\ Sent(A, N, r)
  BY <1>5, <1>6, Sends
<1> HIDE DEF N
<1>8. Replying(M, N, S, k, r)
  BY <1>1, <1>4, <1>7 DEF Replying, Taken, Sent
<1> QED BY <1>8 DEF N, A, f

LEMMA AcksLate ==
  ASSUME NEW S \in SUBSET Messages, NEW k \in Nat, NEW M, Manager(M, S, k),
         NEW t, M.piggyback[t] \in Ids
  PROVE  /\ EmptyMessage("ACK", M.piggyback[t]) \in Messages
         /\ Replying(M, SendEmptyAck(M, t), S, k, EmptyMessage("ACK", M.piggyback[t]))
<1> DEFINE r == EmptyMessage("ACK", M.piggyback[t])
<1>1. r \in Messages /\ r.mtype = "ACK"
  BY DEF EmptyMessage, Message, Messages, Types, NoToken, Ids
<1>2. SendEmptyAck(M, t) = SendInitially([M EXCEPT !.piggyback = Without(M.piggyback, t)], r)
  BY DEF SendEmptyAck
<1> HIDE DEF r
<1>3. Replying(M, SendInitially([M EXCEPT !.piggyback = Without(M.piggyback, t)], r), S, k, r)
  BY <1>1, Piggybacks
<1> QED BY <1>1, <1>2, <1>3 DEF r

\* The server sends a response to the request with the token t.
Responding(M, N, S, k, t, obs, val) ==
  \E r \in Messages :
    /\ Replying(M, N, S, k, r)
    /\ r.mtype = "ACK" => t \in DOMAIN M.piggyback /\ r.mid = M.piggyback[t]
    /\ \/ r.code = "EMPTY" /\ r.mtype = "ACK"
       \/ r.code = "RESP" /\ r.token = t /\ r.obs = obs /\ r.val = val

LEMMA SendsResponse ==
  ASSUME NEW S \in SUBSET Messages, NEW k \in Nat, NEW M, Manager(M, S, k),
         NEW mtype \in {"NON", "none"}, NEW t \in Tokens, NEW obs \in Nat, NEW val \in Nat,
         NEW no_response, t \in DOMAIN M.piggyback => M.piggyback[t] \in Ids
  PROVE  Responding(M, SendMessage(M, Message(mtype, "RESP", Mids, t, obs, val), no_response),
                    S, k, t, obs, val)
<1> DEFINE m == Message(mtype, "RESP", Mids, t, obs, val)
           N == SendMessage(M, m, no_response)
<1> SUFFICES \E r \in Messages :
               /\ Replying(M, N, S, k, r)
               /\ r.mtype = "ACK" => t \in DOMAIN M.piggyback /\ r.mid = M.piggyback[t]
               /\ \/ r.code = "EMPTY" /\ r.mtype = "ACK"
                  \/ r.code = "RESP" /\ r.token = t /\ r.obs = obs /\ r.val = val
  BY DEF Responding
<1>1. m.mtype = mtype /\ m.code = "RESP" /\ m.token = t /\ m.obs = obs /\ m.val = val
  BY DEF Message
<1>2. M.message_id \in Ids
  BY DEF Manager, Holds
<1> HIDE DEF m
<1>3. CASE t \in DOMAIN M.piggyback
  <2> DEFINE r == IF no_response THEN EmptyMessage("ACK", M.piggyback[t])
                  ELSE Numbered(m, "ACK", M.piggyback[t])
  <2>1. /\ r \in Messages /\ r.mtype = "ACK" /\ r.mid = M.piggyback[t]
        /\ \/ r.code = "EMPTY"
           \/ r.code = "RESP" /\ r.token = t /\ r.obs = obs /\ r.val = val
    <3>1. CASE no_response
      BY <3>1, <1>3 DEF EmptyMessage, Message, Messages, Types, NoToken, Ids
    <3>2. CASE ~ no_response
      BY <3>2, <1>1, <1>3 DEF Numbered, Message, Messages, Types, Ids
    <3> QED BY <3>1, <3>2
  <2>2. N = SendInitially([M EXCEPT !.piggyback = Without(M.piggyback, t)], r)
    BY <1>1, <1>3 DEF SendMessage
  <2> HIDE DEF r, N
  <2>3. Replying(M, SendInitially([M EXCEPT !.piggyback = Without(M.piggyback, t)], r), S, k, r)
    BY <2>1, Piggybacks
  <2>4. Replying(M, N, S, k, r)
    BY <2>2, <2>3
  <2> QED BY <1>3, <2>1, <2>4 DEF N, m
<1>4. CASE t \notin DOMAIN M.piggyback /\ no_response
  <2>1. N = M
    BY <1>1, <1>4 DEF SendMessage
  <2> DEFINE r == Numbered(m, "NON", M.message_id)
  <2>2. r \in Messages /\ r.mtype = "NON" /\ r.code = "RESP" /\ r.token = t /\ r.obs = obs /\ r.val = val
    BY <1>1, <1>2 DEF Numbered, Message, Messages, Types, Ids
  <2> HIDE DEF r, N
  <2>3. Replying(M, N, S, k, r)
    BY <2>1, Widened DEF Replying, Taken
  <2> QED BY <2>2, <2>3 DEF N, m
<1>5. CASE t \notin DOMAIN M.piggyback /\ ~ no_response
  <2> DEFINE r == Numbered(m, IF m.mtype = "none" THEN "CON" ELSE m.mtype, M.message_id)
             T == S \cup {r}
  <2>1. /\ r \in Messages /\ r.mtype \in {"CON", "NON"} /\ r.mid = M.message_id
        /\ r.code = "RESP" /\ r.token = t /\ r.obs = obs /\ r.val = val
    BY <1>1, <1>2 DEF Numbered, Message, Messages, Types, Ids
  <2>2. Manager(M, T, k) /\ T \in SUBSET Messages /\ r \in T
    BY <2>1, Widened
  <2>3. N = SendNext(M, r)
    BY <1>1, <1>5 DEF SendMessage
  <2> HIDE DEF r, T, N
  <2>4. Manager(N, T, k) /\ Numbering(M, N, r)
    BY <2>1, <2>2, <2>3, SendsNext
  <2>5. Replying(M, N, S, k, r)
    BY <2>4 DEF Replying, Taken, Numbering, T
  <2> QED BY <2>1, <2>5 DEF N, m
<1> QED BY <1>3, <1>4, <1>5

\* The answer to a duplicate is one that was given before.
LEMMA AnswersAgain ==
  ASSUME NEW S \in SUBSET Messages, NEW k \in Nat, NEW M, Manager(M, S, k), NEW m,
         m.mid \in DOMAIN M.recent_messages
  PROVE  LET N == AnswerDuplicate(M, m)
         IN /\ Manager(N, S, k)
            /\ DOMAIN N.recent_messages = DOMAIN M.recent_messages
            /\ Taken(M, N) /\ N.out \subseteq M.out \cup S
<1> DEFINE r == M.recent_messages[m.mid]
           N == AnswerDuplicate(M, m)
<1>1. CASE m.mtype = "CON" /\ r # NoMessage /\ r.mtype # "CON"
  <2>1. r \in S
    BY <1>1 DEF Manager, Holds
  <2>2. N = SendInitially(M, r)
    BY <1>1 DEF AnswerDuplicate
  <2> HIDE DEF r, N
  <2>3. Manager(N, S, k) /\ Sent(M, N, r)
    BY <1>1, <2>1, <2>2, Sends DEF Manager
  <2> QED BY <2>1, <2>3 DEF Taken, Sent, N
<1>2. CASE ~ (m.mtype = "CON" /\ r # NoMessage /\ r.mtype # "CON")
  <2>1. N = M
    BY <1>2 DEF AnswerDuplicate
  <2> QED BY <2>1 DEF Taken
<1> QED BY <1>1, <1>2

-----------------------------------------------------------------------------
\* What the invariant gives at once.
LEMMA WindowIsNatural == Window \in Nat
  BY SMT DEF Window

LEMMA Planned ==
  ASSUME plan \in Plans
  PROVE  /\ plan.tries \in Nat /\ plan.versions \in 1 .. Window
         /\ \A t \in Tokens : plan.kinds[t] \in Kinds
<1>1. plan.kinds \in [1 .. MaxRequests -> Kinds] /\ plan.tries \in Nat /\ plan.versions \in 1 .. Window
  BY PlansAssumption DEF Kinds
<1> QED BY <1>1 DEF Tokens

LEMMA Asking ==
  ASSUME plan \in Plans, NEW t \in Tokens, plan.kinds[t].mtype # "none"
  PROVE  LET r == RequestOf(t)
         IN /\ r \in Messages /\ r.mtype = plan.kinds[t].mtype /\ r.mtype \in {"CON", "NON"}
            /\ r.code = "REQ" /\ r.mid = MidOf(t) /\ r.token = t
            /\ r.obs = 1 <=> plan.kinds[t].observe
<1>1. plan.kinds[t] \in Kinds /\ MidOf(t) \in Ids
  BY Planned, MidsOfTokens
<1>2. plan.kinds[t].mtype \in {"CON", "NON"} /\ plan.kinds[t].observe \in BOOLEAN
  BY <1>1 DEF Kinds
<1> QED BY <1>1, <1>2 DEF RequestOf, Message, Messages, Types, Ids

LEMMA Emptied ==
  /\ Empties \subseteq Messages
  /\ \A m \in Empties : m.code = "EMPTY" /\ m.mtype \in {"ACK", "RST"}
  BY DEF Empties, EmptyMessage, Message, Messages, Types, NoToken, Ids

\* What the client may have sent.
LEMMA Asked ==
  ASSUME NEW S, Inv(S)
  PROVE  /\ Asks \cup Empties \in SUBSET Messages /\ S \in SUBSET Messages
         /\ \A m \in Asks : /\ m.token \in Tokens /\ requests[m.token].result # "new"
                            /\ m = RequestOf(m.token) /\ m.code = "REQ" /\ m.mid = MidOf(m.token)
                            /\ m.mtype = plan.kinds[m.token].mtype /\ m.mtype \in {"CON", "NON"}
<1>1. \A t \in Tokens : requests[t].result # "new" => plan.kinds[t].mtype # "none"
  BY DEF Inv, RequestsRight, RequestRight
<1>2. \A m \in Asks : \E t \in Tokens : requests[t].result # "new" /\ m = RequestOf(t)
  BY DEF Asks
<1>3. plan \in Plans
  BY DEF Inv
<1>4. \A m \in Asks : /\ m.token \in Tokens /\ requests[m.token].result # "new"
                      /\ m = RequestOf(m.token) /\ m.code = "REQ" /\ m.mid = MidOf(m.token)
                      /\ m.mtype = plan.kinds[m.token].mtype /\ m.mtype \in {"CON", "NON"}
                      /\ m \in Messages
  BY <1>1, <1>2, <1>3, Asking
<1>5. \A m \in S : m \in Messages
  BY DEF Inv, AnswersRight, Answers
<1> QED BY <1>4, <1>5, Emptied

\* An exchange of the client is one of a request that it made.
LEMMA Exchanging ==
  ASSUME NEW S, Inv(S), NEW M, Manager(M, Asks \cup Empties, plan.tries)
  PROVE  /\ \A x \in DOMAIN M.active_exchanges :
              LET m == M.active_exchanges[x].msg
              IN m \in Asks /\ m.mtype = "CON" /\ x = MidOf(m.token) /\ m.token \in Tokens
         /\ \A i \in DOMAIN M.backlog :
              LET m == M.backlog[i]
              IN m \in Asks /\ m.mtype = "CON" /\ m.mid = MidOf(m.token) /\ m.token \in Tokens
<1>1. \A x \in DOMAIN M.active_exchanges :
        LET m == M.active_exchanges[x].msg
        IN m \in Asks \cup Empties /\ m.mtype = "CON" /\ m.mid = x
  BY DEF Manager, Holds, Confirmable
<1>2. \A i \in DOMAIN M.backlog : M.backlog[i] \in Confirmable(Asks \cup Empties)
  BY DEF Manager, Holds
<1>3. \A i \in DOMAIN M.backlog : M.backlog[i] \in Asks \cup Empties /\ M.backlog[i].mtype = "CON"
  BY <1>2 DEF Confirmable
<1> QED BY <1>1, <1>3, Asked, Emptied

LEMMA SameAsks ==
  ASSUME plan' = plan,
         \A t \in Tokens : requests'[t].result = "new" <=> requests[t].result = "new"
  PROVE  Asks' = Asks /\ \A t : RequestOf(t)' = RequestOf(t)
<1>1. \A t : RequestOf(t)' = RequestOf(t)
  BY DEF RequestOf
<1> QED BY <1>1 DEF Asks

\* What was rendered stays rendered.
LEMMA StillAnswers ==
  ASSUME NEW S, AnswersRight(S), plan' = plan, version \in Nat, version' \in Nat, version <= version',
         \A t \in Tokens : rendered[t] # 0 => rendered'[t] # 0
  PROVE  AnswersRight(S)' /\ \A x : Served(x) => Served(x)'
<1>1. \A x : Served(x) => Served(x)'
  BY DEF Served
<1>2. \A m \in S : Answers(m)'
  <2> SUFFICES ASSUME NEW m \in S PROVE Answers(m)'
    OBVIOUS
  <2>1. Answers(m)
    BY DEF AnswersRight
  <2>2. m.obs <= version => m.obs <= version'
    BY <2>1 DEF Answers, Messages
  <2> QED BY <2>1, <2>2, <1>1 DEF Answers
<1>3. Ordered(S)'
  BY DEF AnswersRight, Ordered, Notifies
<1> QED BY <1>1, <1>2, <1>3 DEF AnswersRight

\* A step of the server's manager, which may send what is in T.
LEMMA ServerActs ==
  ASSUME NEW S, Inv(S), NEW T, S \subseteq T, T \in SUBSET Messages, AnswersRight(T),
         plan' = plan, UNCHANGED <<version, rendered, requests>>,
         mm' = [n \in Nodes |-> mm'[n]], mm'["c"] = mm["c"],
         Manager(mm'["s"], T, plan.tries), mm'["s"].out = {}, Taken(mm["s"], mm'["s"]),
         DOMAIN mm'["s"].recent_messages = DOMAIN mm["s"].recent_messages,
         \A p \in wire' : p \in wire \/ (p = [to |-> "c", msg |-> p.msg] /\ p.msg \in T),
         PipesRight(T)'
  PROVE  Inv(T)'
<1>1. Asks' = Asks
  BY SameAsks
<1>2. plan' \in Plans /\ version' \in 1 .. plan'.versions
  BY DEF Inv
<1>3. AnswersRight(T)' /\ \A x : Served(x) => Served(x)'
  BY Planned, StillAnswers DEF Inv
<1>4. WireRight(T)'
  BY <1>1 DEF Inv, WireRight
<1>5. ManagersRight(T)'
  BY <1>1, <1>3 DEF Inv, ManagersRight, Taken
<1>6. NumbersRight'
  BY DEF Inv, NumbersRight, NextIs
<1>7. \A t : OnWire(t)' => OnWire(t)
  BY DEF OnWire
<1>8. \A t : (InExchange(t)' <=> InExchange(t)) /\ (InBacklog(t)' <=> InBacklog(t)) /\ (Known(t)' <=> Known(t))
  BY DEF InExchange, InBacklog, Known
<1>9. PlacesRight'
  BY <1>7, <1>8 DEF Inv, PlacesRight
<1>10. Tracked'
  BY DEF Inv, Tracked
<1>11. RequestsRight(T)'
  BY DEF Inv, RequestsRight, RequestRight, Notifies
<1> QED BY <1>2, <1>3, <1>4, <1>5, <1>6, <1>9, <1>10, <1>11 DEF Inv

-----------------------------------------------------------------------------
\* The client's requests, one by one.
LEMMA Fails ==
  ASSUME NEW r \in Requested
  PROVE  LET s == Failed(r)
         IN /\ s \in Requested /\ ~ s.open /\ s.kind = r.kind /\ s.last = r.last
            /\ s.result = IF r.result = "pending" THEN "failed" ELSE r.result
  BY DEF Failed, Requested

LEMMA Cancels ==
  ASSUME NEW r \in Requested
  PROVE  LET s == [r EXCEPT !.result = "cancelled", !.open = FALSE]
         IN s \in Requested /\ ~ s.open /\ s.kind = r.kind /\ s.last = r.last /\ s.result = "cancelled"
  BY DEF Requested

LEMMA AnsweredFirst ==
  ASSUME NEW r \in Requested, NEW m \in Messages
  PROVE  LET s == FirstResponse(r, m)
         IN /\ s \in Requested /\ s.kind = r.kind /\ s.last = m.val /\ s.v1 = m.obs
            /\ s.result = "answered" /\ s.open = ~ Final(r, m)
  BY DEF FirstResponse, Requested, Messages, Final

LEMMA Notified ==
  ASSUME NEW r \in Requested, NEW m \in Messages
  PROVE  LET s == Notification(r, m)
         IN /\ s \in Requested /\ s.kind = r.kind /\ s.result = r.result
            /\ s.open => ~ Final(r, m)
            /\ \/ s.last = r.last /\ s.v1 = r.v1
               \/ s.last = m.val /\ m.obs = 0
               \/ s.last = m.val /\ s.v1 = m.obs /\ (IsRecent(r.v1, m.obs) \/ r.late)
  BY DEF Notification, Requested, Messages, Final

\* What changes no place of a request but by sending it, after it was kept back or again.
LEMMA Placing ==
  ASSUME PlacesRight, UNCHANGED rendered, \A t \in Tokens : Known(t) => Known(t)',
         \A t \in Tokens : InBacklog(t)' => InBacklog(t) /\ ~ OnWire(t)' /\ ~ InExchange(t)',
         \A t \in Tokens : OnWire(t)' \/ InExchange(t)' => OnWire(t) \/ InExchange(t) \/ InBacklog(t),
         \A i, j \in DOMAIN mm'["c"].backlog :
           mm'["c"].backlog[i].token = mm'["c"].backlog[j].token => i = j
  PROVE  PlacesRight'
<1>1. \A t \in Tokens : InBacklog(t)' => (rendered[t] = 0)' /\ ~ OnWire(t)' /\ ~ InExchange(t)'
  BY DEF PlacesRight
<1>2. \A t \in Tokens : (rendered[t] # 0)' => Known(t)' \/ ~ (InExchange(t) \/ OnWire(t))'
  BY DEF PlacesRight
<1> QED BY <1>1, <1>2 DEF PlacesRight

\* A step of the client's manager after which all messages are those of before, or requests.
LEMMA ClientActs ==
  ASSUME NEW S, Inv(S), plan' = plan, UNCHANGED <<version, rendered, pipes>>,
         \A t \in Tokens : requests'[t].result = "new" <=> requests[t].result = "new",
         mm' = [n \in Nodes |-> mm'[n]], mm'["s"] = mm["s"],
         Manager(mm'["c"], Asks \cup Empties, plan.tries), mm'["c"].out = {},
         mm'["c"].piggyback = mm["c"].piggyback, mm'["c"].message_id = mm["c"].message_id,
         \A p \in wire' : p \in wire \/ (p = [to |-> "s", msg |-> p.msg] /\ p.msg \in Asks \cup Empties),
         PlacesRight', Tracked', RequestsRight(S)'
  PROVE  Inv(S)'
<1>1. Asks' = Asks
  BY SameAsks
<1>2. plan' \in Plans /\ version' \in 1 .. plan'.versions
  BY DEF Inv
<1>3. AnswersRight(S)' /\ \A x : Served(x) => Served(x)'
  BY Planned, StillAnswers DEF Inv
<1>4. WireRight(S)'
  BY <1>1 DEF Inv, WireRight, Empties
<1>5. ManagersRight(S)'
  <2>1. ManagersRight(S)
    BY DEF Inv
  <2>2. Manager(mm["c"], Asks \cup Empties, plan.tries)' /\ Manager(mm["s"], S, plan.tries)'
    BY <1>1, <2>1 DEF ManagersRight, Empties
  <2>3. \A t \in DOMAIN mm["s"].piggyback :
          t \in Tokens /\ rendered[t] # 0 /\ mm["s"].piggyback[t] = MidOf(t)
    BY <2>1 DEF ManagersRight
  <2> QED BY <1>1, <1>3, <2>1, <2>2, <2>3 DEF ManagersRight
<1>6. NumbersRight'
  BY DEF Inv, NumbersRight, NextIs
<1>7. PipesRight(S)'
  BY DEF Inv, PipesRight, PipeRight
<1> QED BY <1>2, <1>3, <1>4, <1>5, <1>6, <1>7 DEF Inv

\* The client's exchange and backlog stay; what it sends is an acknowledgement, a reset, or
\* its open message again.
LEMMA Rests ==
  ASSUME NEW S, Inv(S), plan' = plan, UNCHANGED <<version, rendered, pipes>>,
         mm' = [n \in Nodes |-> mm'[n]], mm'["s"] = mm["s"],
         DOMAIN mm'["c"].active_exchanges = DOMAIN mm["c"].active_exchanges,
         \A x \in DOMAIN mm["c"].active_exchanges :
           mm'["c"].active_exchanges[x].msg = mm["c"].active_exchanges[x].msg,
         mm'["c"].backlog = mm["c"].backlog, mm'["c"].piggyback = mm["c"].piggyback,
         mm'["c"].message_id = mm["c"].message_id,
         mm'["c"].out = {}, Manager(mm'["c"], Asks \cup Empties, plan.tries),
         \A p \in wire' :
           \/ p \in wire
           \/ /\ p = [to |-> "s", msg |-> p.msg]
              /\ \/ p.msg \in Empties
                 \/ \E x \in DOMAIN mm["c"].active_exchanges : p.msg = mm["c"].active_exchanges[x].msg,
         \A t \in Tokens : requests'[t].result = "new" <=> requests[t].result = "new",
         \A t \in Tokens : /\ requests'[t].kind = requests[t].kind
                           /\ requests'[t].open => requests[t].open
                           /\ requests'[t].result = "pending" => requests[t].result = "pending",
         RequestsRight(S)'
  PROVE  Inv(S)'
<1> DEFINE C == mm["c"]
<1>1. PlacesRight /\ Tracked /\ Manager(C, Asks \cup Empties, plan.tries)
  BY DEF Inv, ManagersRight
<1>2. \A x \in DOMAIN C.active_exchanges :
        LET m == C.active_exchanges[x].msg
        IN m \in Asks /\ m.mtype = "CON" /\ x = MidOf(m.token) /\ m.token \in Tokens
  BY <1>1, Exchanging
<1>3. \A t \in Tokens : OnWire(t)' => OnWire(t) \/ InExchange(t)
  BY <1>2, Emptied DEF OnWire, InExchange
<1>4. \A t \in Tokens : (InExchange(t)' <=> InExchange(t)) /\ (InBacklog(t)' <=> InBacklog(t))
  BY DEF InExchange, InBacklog
<1>5. \A t \in Tokens : Known(t) => Known(t)'
  BY DEF Known
<1>6. PlacesRight'
  <2>1. \A i, j \in DOMAIN C.backlog : C.backlog[i].token = C.backlog[j].token => i = j
    BY <1>1 DEF PlacesRight
  <2>2. \A t \in Tokens : InBacklog(t)' => InBacklog(t) /\ ~ OnWire(t)' /\ ~ InExchange(t)'
    BY <1>1, <1>3, <1>4 DEF PlacesRight
  <2> QED BY <1>1, <1>3, <1>4, <1>5, <2>1, <2>2, Placing
<1>7. Tracked'
  BY <1>1 DEF Tracked
<1>8. \A p \in wire' : p \in wire \/ (p = [to |-> "s", msg |-> p.msg] /\ p.msg \in Asks \cup Empties)
  BY <1>2
<1> QED BY <1>6, <1>7, <1>8, ClientActs

LEMMA Countings ==
  ASSUME NEW S, Inv(S)
  PROVE  \A t \in Tokens : rendered[t] \in {0, 1} /\ (rendered[t] # 0 <=> rendered[t] > 0)
  BY DEF Inv, RequestsRight

\* The exchange of a request that was rendered is over.
LEMMA Finishes ==
  ASSUME NEW S, Inv(S), plan' = plan, UNCHANGED <<version, rendered, pipes>>,
         NEW x, Served(x), NEW M, M = RemoveExchange(mm["c"], x),
         mm' = [n \in Nodes |-> mm'[n]], mm'["s"] = mm["s"],
         Alike(M, mm'["c"]), mm'["c"].out = {}, Manager(mm'["c"], Asks \cup Empties, plan.tries),
         \A p \in wire' : \/ p \in wire
                          \/ p = [to |-> "s", msg |-> p.msg] /\ p.msg \in Empties \cup M.out,
         \A t \in Tokens : requests'[t].result = "new" <=> requests[t].result = "new",
         \A t \in Tokens : /\ requests'[t].kind = requests[t].kind
                           /\ requests'[t].open => requests[t].open
                           /\ requests'[t].result = "pending" => requests[t].result = "pending",
         RequestsRight(S)'
  PROVE  Inv(S)'
<1> DEFINE C == mm["c"]
           N == mm'["c"]
<1>1. Manager(C, Asks \cup Empties, plan.tries) /\ plan.tries \in Nat /\ C.out = {}
  BY Planned DEF Inv, ManagersRight
<1>2. PlacesRight /\ Tracked /\ Asks \cup Empties \in SUBSET Messages
  BY Asked DEF Inv
<1>3. \A t \in Tokens : Known(t) => Known(t)'
  BY DEF Known
<1>4. CASE x \notin DOMAIN C.active_exchanges
  <2>1. M = C
    BY <1>4 DEF RemoveExchange
  <2>2. \A p \in wire' : p \in wire \/ (p = [to |-> "s", msg |-> p.msg] /\ p.msg \in Empties)
    BY <1>1, <2>1
  <2> QED BY <1>1, <2>1, <2>2, Rests DEF Alike
<1>5. CASE x \in DOMAIN C.active_exchanges
  <2>1. Removed(C, M)
    BY <1>1, <1>2, <1>5, Removes
  <2>2. DOMAIN C.active_exchanges = {x} /\ C.backlog \in Seq(Confirmable(Asks \cup Empties))
    <3>1. Holds(C, Asks \cup Empties, plan.tries)
      BY <1>1 DEF Manager
    <3>2. \A y, z \in DOMAIN C.active_exchanges : y = z
      BY <3>1 DEF Holds
    <3>3. C.backlog \in Seq(Confirmable(Asks \cup Empties))
      BY <3>1 DEF Holds
    <3> QED BY <1>5, <3>2, <3>3
  <2>7. /\ \A y \in DOMAIN C.active_exchanges :
             LET m == C.active_exchanges[y].msg
             IN m \in Asks /\ m.mtype = "CON" /\ y = MidOf(m.token) /\ m.token \in Tokens
        /\ \A i \in DOMAIN C.backlog :
             LET m == C.backlog[i]
             IN m \in Asks /\ m.mtype = "CON" /\ m.mid = MidOf(m.token) /\ m.token \in Tokens
    BY <1>1, Exchanging
  <2>3. C.active_exchanges[x].msg.token \in Tokens /\ x = MidOf(C.active_exchanges[x].msg.token)
    BY <1>5, <2>7
  <2>4. rendered[C.active_exchanges[x].msg.token] # 0
    BY <2>3, MidsOfTokens DEF Served
  <2>5. CASE C.backlog = <<>>
    <3>1. N.backlog = <<>> /\ DOMAIN N.active_exchanges = {} /\ M.out = {}
      BY <1>1, <2>1, <2>5 DEF Removed, Alike
    <3>2. \A p \in wire' : p \in wire \/ (p = [to |-> "s", msg |-> p.msg] /\ p.msg \in Empties)
      BY <3>1
    <3>3. \A t \in Tokens : OnWire(t)' => OnWire(t)
      BY <3>2, Emptied DEF OnWire
    <3>4. \A t \in Tokens : ~ InExchange(t)' /\ ~ InBacklog(t)'
      BY <3>1 DEF InExchange, InBacklog
    <3>5. PlacesRight'
      BY <1>2, <1>3, <3>1, <3>3, <3>4, Placing
    <3>6. Tracked'
      BY <1>2, <2>2, <2>4, <2>5, Countings DEF Tracked
    <3> QED BY <1>1, <2>1, <3>2, <3>5, <3>6, ClientActs DEF Alike, Removed
  <2>6. CASE C.backlog # <<>>
    <3> DEFINE h == Head(C.backlog)
               q == Tail(C.backlog)
    <3>1. /\ N.backlog = q /\ DOMAIN N.active_exchanges = {h.mid}
          /\ N.active_exchanges[h.mid].msg = h /\ M.out = {h}
      BY <1>1, <2>1, <2>6 DEF Removed, Alike
    <3>2. /\ h = C.backlog[1] /\ 1 \in DOMAIN C.backlog /\ Len(C.backlog) \in Nat
          /\ DOMAIN q = 1 .. Len(C.backlog) - 1 /\ DOMAIN C.backlog = 1 .. Len(C.backlog)
          /\ \A i \in DOMAIN q : i + 1 \in DOMAIN C.backlog /\ q[i] = C.backlog[i + 1]
      BY <2>2, <2>6
    <3>3. h \in Asks /\ h.mid = MidOf(h.token) /\ h.token \in Tokens
      BY <2>7, <3>2
    <3> HIDE DEF h, q
    <3>4. \A i, j \in DOMAIN C.backlog : C.backlog[i].token = C.backlog[j].token => i = j
      BY <1>2 DEF PlacesRight
    <3>5. \A t \in Tokens : InBacklog(t)' => InBacklog(t) /\ t # h.token
      <4> SUFFICES ASSUME NEW t \in Tokens, InBacklog(t)' PROVE InBacklog(t) /\ t # h.token
        OBVIOUS
      <4>1. PICK i \in DOMAIN q : q[i].token = t
        BY <3>1 DEF InBacklog
      <4>2. i + 1 \in DOMAIN C.backlog /\ C.backlog[i + 1].token = t /\ i + 1 # 1
        BY <3>2, <4>1
      <4>3. InBacklog(t)
        BY <4>2 DEF InBacklog
      <4>4. h.token # C.backlog[i + 1].token
        BY <3>2, <3>4, <4>2
      <4> QED BY <4>2, <4>3, <4>4
    <3>6. InBacklog(h.token)
      BY <3>2 DEF InBacklog
    <3>7. \A t \in Tokens : InExchange(t)' => t = h.token
      BY <3>1, <3>3, MidsOfTokens DEF InExchange
    <3>8. \A t \in Tokens : OnWire(t)' => OnWire(t) \/ t = h.token
      BY <3>1, Emptied DEF OnWire
    <3>9. \A i, j \in DOMAIN q : q[i].token = q[j].token => i = j
      <4> SUFFICES ASSUME NEW i \in DOMAIN q, NEW j \in DOMAIN q, q[i].token = q[j].token PROVE i = j
        OBVIOUS
      <4>0. /\ i + 1 \in DOMAIN C.backlog /\ j + 1 \in DOMAIN C.backlog
            /\ C.backlog[i + 1].token = C.backlog[j + 1].token
        BY <3>2
      <4>1. i + 1 = j + 1
        BY <3>4, <4>0
      <4> QED BY <3>2, <4>1
    <3>10. PlacesRight'
      <4>1. \A t \in Tokens : InBacklog(t)' => InBacklog(t) /\ ~ OnWire(t)' /\ ~ InExchange(t)'
        BY <1>2, <3>5, <3>7, <3>8 DEF PlacesRight
      <4>2. \A t \in Tokens : OnWire(t)' \/ InExchange(t)' => OnWire(t) \/ InExchange(t) \/ InBacklog(t)
        BY <3>6, <3>7, <3>8
      <4> QED BY <1>2, <1>3, <3>1, <3>9, <4>1, <4>2, Placing
    <3>11. Tracked'
      <4> SUFFICES ASSUME NEW t \in Tokens, requests[t].open, requests[t].kind.mtype = "CON",
                          requests[t].result = "pending", ~ (rendered[t] > 0)
                   PROVE  \/ h.token = t
                          \/ \E i \in DOMAIN q : q[i].token = t
        BY <3>1 DEF Tracked
      <4>1. ~ (C.active_exchanges[x].msg.token = t)
        BY <2>4, Countings
      <4>2. PICK i \in DOMAIN C.backlog : C.backlog[i].token = t
        BY <1>2, <2>2, <4>1 DEF Tracked
      <4>3. i = 1 \/ (i - 1 \in DOMAIN q /\ q[i - 1] = C.backlog[i])
        BY <3>2
      <4> QED BY <3>2, <4>2, <4>3
    <3>12. \A p \in wire' : p \in wire \/ (p = [to |-> "s", msg |-> p.msg] /\ p.msg \in Asks \cup Empties)
      BY <3>1, <3>3
    <3> QED BY <1>1, <2>1, <3>10, <3>11, <3>12, ClientActs DEF Alike, Removed
  <2> QED BY <2>5, <2>6
<1> QED BY <1>4, <1>5

\* Everything the client waits for fails.
LEMMA FailsAll ==
  ASSUME NEW S, Inv(S), plan' = plan, UNCHANGED <<version, rendered>>, requests' = FailAll
  PROVE  /\ RequestsRight(S)'
         /\ \A t \in Tokens : ~ requests'[t].open /\ requests'[t].last = requests[t].last
         /\ \A t \in Tokens : requests'[t].result = "new" <=> requests[t].result = "new"
<1>1. requests \in [Tokens -> Requested] /\ \A t \in Tokens : RequestRight(t, requests[t], S)
  BY DEF Inv, RequestsRight
<1>2. \A t \in Tokens :
        requests'[t] = IF requests[t].open THEN Failed(requests[t]) ELSE requests[t]
  BY DEF FailAll
<1>3. \A t \in Tokens :
        /\ requests'[t] \in Requested /\ ~ requests'[t].open
        /\ requests'[t].kind = requests[t].kind /\ requests'[t].last = requests[t].last
        /\ requests'[t].result # requests[t].result =>
             requests[t].result = "pending" /\ requests'[t].result = "failed"
  <2> SUFFICES ASSUME NEW t \in Tokens
               PROVE  /\ requests'[t] \in Requested /\ ~ requests'[t].open
                      /\ requests'[t].kind = requests[t].kind /\ requests'[t].last = requests[t].last
                      /\ requests'[t].result # requests[t].result =>
                           requests[t].result = "pending" /\ requests'[t].result = "failed"
    OBVIOUS
  <2> DEFINE r == requests[t]
  <2>1. r \in Requested
    BY <1>1
  <2>2. r.open \in BOOLEAN
    BY <2>1 DEF Requested
  <2>3. CASE r.open
    BY <2>1, <2>3, <1>2, Fails
  <2>4. CASE ~ r.open
    BY <2>1, <2>4, <1>2
  <2> QED BY <2>2, <2>3, <2>4
<1>4. requests' \in [Tokens -> Requested]
  BY <1>3 DEF FailAll
<1>5. \A t \in Tokens : RequestRight(t, requests[t], S)'
  BY <1>1, <1>3 DEF RequestRight
<1> QED BY <1>3, <1>4, <1>5 DEF Inv, RequestsRight

\* One request changes.
LEMMA OneChanges ==
  ASSUME NEW S, RequestsRight(S), plan' = plan, UNCHANGED <<version, rendered>>,
         NEW t \in Tokens, NEW r \in Requested, requests' = [requests EXCEPT ![t] = r],
         RequestRight(t, r, S)
  PROVE  /\ RequestsRight(S)' /\ requests'[t] = r
         /\ \A u \in Tokens : u # t => requests'[u] = requests[u]
<1>1. requests'[t] = r /\ \A u \in Tokens : u # t => requests'[u] = requests[u]
  BY DEF RequestsRight
<1>2. requests' \in [Tokens -> Requested]
  BY DEF RequestsRight
<1>3. \A u \in Tokens : RequestRight(u, requests[u], S)'
  BY <1>1 DEF RequestsRight, RequestRight
<1> QED BY <1>1, <1>2, <1>3 DEF RequestsRight

\* The client has lost its exchange, its backlog and all requests.
LEMMA LosesAll ==
  ASSUME NEW S, Inv(S), plan' = plan, UNCHANGED <<version, rendered, pipes>>,
         mm' = [n \in Nodes |-> mm'[n]], mm'["s"] = mm["s"],
         Manager(mm'["c"], Asks \cup Empties, plan.tries), mm'["c"].out = {},
         NEW M, Dropped(mm["c"], M), Alike(M, mm'["c"]),
         wire' \subseteq wire, requests' = FailAll
  PROVE  Inv(S)'
<1>1. DOMAIN mm'["c"].active_exchanges = {} /\ mm'["c"].backlog = <<>>
      /\ mm'["c"].piggyback = mm["c"].piggyback /\ mm'["c"].message_id = mm["c"].message_id
  BY DEF Dropped, Alike
<1>2. RequestsRight(S)' /\ \A t \in Tokens : ~ requests'[t].open
      /\ (requests'[t].result = "new" <=> requests[t].result = "new")
  BY FailsAll
<1>3. Tracked'
  BY <1>2 DEF Tracked
<1>4. \A t \in Tokens : ~ InExchange(t)' /\ ~ InBacklog(t)' /\ (OnWire(t)' => OnWire(t))
  BY <1>1 DEF InExchange, InBacklog, OnWire
<1>5. \A t \in Tokens : Known(t) => Known(t)'
  BY DEF Known
<1>6. PlacesRight'
  BY <1>1, <1>4, <1>5, Placing DEF Inv
<1> QED BY <1>1, <1>2, <1>3, <1>6, ClientActs

\* What arrives comes from what is under way.
LEMMA Arriving ==
  ASSUME NEW S, Inv(S), NEW n \in Nodes, NEW p \in wire, NEW left, Arrives(n, p, left)
  PROVE  /\ left \subseteq wire /\ p.to = n
         /\ n = "c" => p.msg \in S /\ Answers(p.msg)
         /\ n = "s" => p.msg \in Asks \cup Empties
<1>1. left \subseteq wire /\ p.to = n
  BY DEF Arrives
<1>2. WireRight(S) /\ \A m \in S : Answers(m)
  BY DEF Inv, AnswersRight
<1>3. \/ p.to = "s" /\ p.msg \in Asks \cup Empties
      \/ p.to = "c" /\ p.msg \in S
  BY <1>2 DEF WireRight
<1> QED BY <1>1, <1>2, <1>3

LEMMA OpenRequests ==
  ASSUME NEW S, Inv(S), NEW t \in Tokens
  PROVE  /\ requests[t] \in Requested /\ RequestRight(t, requests[t], S)
         /\ requests[t].open \in BOOLEAN /\ requests[t].kind \in Kinds
         /\ requests[t].kind.observe \in BOOLEAN
  BY DEF Inv, RequestsRight, Requested, Kinds

\* A response that the client waits for.
LEMMA Receives ==
  ASSUME NEW S, Inv(S), plan' = plan, UNCHANGED <<version, rendered>>,
         NEW m \in S, Answers(m), m.code = "RESP", requests[m.token].open,
         requests' = [requests EXCEPT ![m.token] = Received(requests[m.token], m)]
  PROVE  /\ RequestsRight(S)'
         /\ \A t \in Tokens : /\ requests'[t].result = "new" <=> requests[t].result = "new"
                              /\ requests'[t].kind = requests[t].kind
                              /\ requests'[t].open => requests[t].open
                              /\ requests'[t].result = "pending" => requests[t].result = "pending"
<1> DEFINE t == m.token
           r == requests[t]
           s == Received(r, m)
<1>1. t \in Tokens /\ rendered[t] # 0 /\ m.val \in 0 .. version /\ m \in Messages /\ m.obs \in Nat
  BY DEF Answers, Messages
<1>2. r \in Requested /\ RequestRight(t, r, S) /\ r.kind.observe \in BOOLEAN
  BY <1>1, OpenRequests
<1>3. r.result \in {"pending", "answered"} /\ r.kind.mtype # "none"
  BY <1>2 DEF RequestRight
<1> HIDE DEF t, r
<1>4. s \in Requested /\ RequestRight(t, s, S) /\ s.kind = r.kind /\ s.result = "answered"
  <2>1. ~ Final(r, m) => r.kind.observe /\ Notifies(m, t)
    BY <1>2 DEF Final, Notifies, t
  <2>2. CASE r.result = "pending"
    <3>1. s = FirstResponse(r, m)
      BY <2>2 DEF Received
    <3> HIDE DEF s
    <3>2. /\ s \in Requested /\ s.kind = r.kind /\ s.last = m.val /\ s.v1 = m.obs
          /\ s.result = "answered" /\ s.open = ~ Final(r, m)
      BY <1>1, <1>2, <3>1, AnsweredFirst
    <3>3. s.open => s.kind.observe /\ \E w \in S : Notifies(w, t) /\ w.obs = s.v1 /\ w.val = s.last
      BY <2>1, <3>2
    <3>4. s.kind = plan.kinds[t] /\ s.last <= version /\ s.kind.mtype # "none"
      BY <1>1, <1>2, <1>3, <3>2 DEF RequestRight
    <3>5. RequestRight(t, s, S)
      BY <3>2, <3>3, <3>4 DEF RequestRight
    <3> QED BY <3>2, <3>5
  <2>3. CASE r.result = "answered"
    <3>1. s = Notification(r, m)
      BY <2>3 DEF Received
    <3> HIDE DEF s
    <3>2. /\ s \in Requested /\ s.kind = r.kind /\ s.result = "answered"
          /\ s.open => ~ Final(r, m)
          /\ \/ s.last = r.last /\ s.v1 = r.v1
             \/ s.last = m.val /\ m.obs = 0
             \/ s.last = m.val /\ s.v1 = m.obs
      BY <1>1, <1>2, <2>3, <3>1, Notified
    <3>3. s.last <= version
      BY <1>1, <1>2, <3>2 DEF RequestRight
    <3>4. s.open => \E w \in S : Notifies(w, t) /\ w.obs = s.v1 /\ w.val = s.last
      BY <1>2, <2>1, <2>3, <3>2 DEF RequestRight, Notifies, r, t
    <3>5. RequestRight(t, s, S)
      BY <1>2, <1>3, <2>1, <3>2, <3>3, <3>4 DEF RequestRight
    <3> QED BY <3>2, <3>5
  <2> QED BY <1>3, <2>2, <2>3
<1>5. requests' = [requests EXCEPT ![t] = s]
  BY DEF t, r
<1> HIDE DEF s
<1>6. /\ RequestsRight(S)' /\ requests'[t] = s
      /\ \A u \in Tokens : u # t => requests'[u] = requests[u]
  BY <1>1, <1>4, <1>5, OneChanges DEF Inv
<1>7. \A u \in Tokens : /\ requests'[u].result = "new" <=> requests[u].result = "new"
                        /\ requests'[u].kind = requests[u].kind
                        /\ requests'[u].open => requests[u].open
                        /\ requests'[u].result = "pending" => requests[u].result = "pending"
  BY <1>3, <1>4, <1>6 DEF r, t
<1> QED BY <1>6, <1>7

\* What the steps of the client preserve.
LEMMA SameRequests ==
  ASSUME NEW S, Inv(S), plan' = plan, UNCHANGED <<version, rendered, requests>>
  PROVE  RequestsRight(S)'
  BY DEF Inv, RequestsRight, RequestRight

LEMMA RemovesAny ==
  ASSUME NEW S \in SUBSET Messages, NEW k \in Nat, NEW M, Manager(M, S, k), NEW x
  PROVE  LET N == RemoveExchange(M, x)
         IN /\ Manager(N, S, k) /\ N.piggyback = M.piggyback
            /\ DOMAIN N.recent_messages = DOMAIN M.recent_messages
            /\ N.out \subseteq M.out \cup S
<1> DEFINE N == RemoveExchange(M, x)
<1>1. CASE x \notin DOMAIN M.active_exchanges
  BY <1>1 DEF RemoveExchange
<1>2. CASE x \in DOMAIN M.active_exchanges
  <2>1. Manager(N, S, k) /\ Removed(M, N)
    BY <1>2, Removes
  <2> HIDE DEF N
  <2>2. Holds(N, S, k)
    BY <2>1 DEF Manager
  <2>3. N.out \subseteq S
    BY <2>2 DEF Holds
  <2> QED BY <2>1, <2>3 DEF Removed, N
<1> QED BY <1>1, <1>2

LEMMA ClientsManager ==
  ASSUME NEW S, Inv(S)
  PROVE  /\ Manager(mm["c"], Asks \cup Empties, plan.tries) /\ mm["c"].out = {}
         /\ mm = [n \in Nodes |-> mm[n]] /\ plan.tries \in Nat
         /\ Asks \cup Empties \in SUBSET Messages
         /\ "c" \in Nodes /\ "s" \in Nodes /\ Peer("c") = "s" /\ Peer("s") = "c"
<1>1. plan.tries \in Nat /\ Asks \cup Empties \in SUBSET Messages
  BY Planned, Asked DEF Inv
<1> QED BY <1>1 DEF Inv, ManagersRight, Nodes, Peer

\* Act of the client, as the lemmas on its steps want it.
LEMMA ClientsAct ==
  ASSUME NEW S, Inv(S), NEW M, NEW left, left \subseteq wire, Act("c", M, left),
         Manager(M, Asks \cup Empties, plan.tries)
  PROVE  /\ mm' = [n \in Nodes |-> mm'[n]] /\ mm'["s"] = mm["s"]
         /\ Manager(mm'["c"], Asks \cup Empties, plan.tries) /\ Alike(M, mm'["c"])
         /\ mm'["c"].out = {}
         /\ \A p \in wire' : p \in wire \/ (p = [to |-> "s", msg |-> p.msg] /\ p.msg \in M.out)
<1>1. /\ mm' = [n \in Nodes |-> mm'[n]] /\ \A q \in Nodes : q # "c" => mm'[q] = mm[q]
      /\ Manager(mm'["c"], Asks \cup Empties, plan.tries) /\ Alike(M, mm'["c"])
      /\ mm'["c"].out = {}
      /\ wire' = left \cup {[to |-> Peer("c"), msg |-> m] : m \in M.out}
  BY ClientsManager, Acts
<1>2. \A p \in wire' : p \in wire \/ (p = [to |-> "s", msg |-> p.msg] /\ p.msg \in M.out)
  BY <1>1, ClientsManager
<1> QED BY <1>1, <1>2, ClientsManager

LEMMA ClientTakesEmpty ==
  ASSUME NEW S, Inv(S), plan' = plan, NEW p \in wire, NEW left, TakeEmpty("c", p, left)
  PROVE  Inv(S)' /\ UNCHANGED <<requests, rendered>>
<1> DEFINE x == p.msg.mid
           M == RemoveExchange(mm["c"], x)
<1>1. left \subseteq wire /\ Answers(p.msg)
  BY Arriving, ClientsManager DEF TakeEmpty
<1>2. p.msg.mtype = "ACK" /\ Served(x)
  BY <1>1 DEF Answers, TakeEmpty
<1>3. requests' = requests /\ pipes' = pipes /\ UNCHANGED <<version, rendered>>
  BY <1>2 DEF TakeEmpty
<1>4. Manager(M, Asks \cup Empties, plan.tries)
  BY ClientsManager, RemovesAny
<1>5. Act("c", M, left)
  BY DEF TakeEmpty
<1> HIDE DEF M
<1>6. /\ mm' = [n \in Nodes |-> mm'[n]] /\ mm'["s"] = mm["s"]
      /\ Manager(mm'["c"], Asks \cup Empties, plan.tries) /\ Alike(M, mm'["c"])
      /\ mm'["c"].out = {}
      /\ \A q \in wire' : q \in wire \/ (q = [to |-> "s", msg |-> q.msg] /\ q.msg \in M.out)
  BY <1>1, <1>4, <1>5, ClientsAct
<1>7. RequestsRight(S)'
  BY <1>3, SameRequests
<1>8. M = RemoveExchange(mm["c"], x)
  BY DEF M
<1> QED BY <1>2, <1>3, <1>6, <1>7, <1>8, Finishes

\* What a response does to the requests.
LEMMA Responded ==
  ASSUME NEW S, Inv(S), plan' = plan, NEW p \in wire, NEW left, TakeResponse(p, left)
  PROVE  /\ UNCHANGED <<version, rendered, pipes>> /\ RequestsRight(S)'
         /\ left \subseteq wire /\ p.msg \in S /\ Answers(p.msg)
         /\ \A t \in Tokens : /\ requests'[t].result = "new" <=> requests[t].result = "new"
                              /\ requests'[t].kind = requests[t].kind
                              /\ requests'[t].open => requests[t].open
                              /\ requests'[t].result = "pending" => requests[t].result = "pending"
<1> DEFINE m == p.msg
<1>1. left \subseteq wire /\ m \in S /\ Answers(m) /\ m.code = "RESP"
  BY Arriving, ClientsManager DEF TakeResponse
<1>2. /\ UNCHANGED <<version, rendered, pipes>>
      /\ requests' = IF requests[m.token].open
                       THEN [requests EXCEPT ![m.token] = Received(requests[m.token], m)]
                       ELSE requests
  BY DEF TakeResponse
<1> HIDE DEF m
<1>3. CASE requests[m.token].open
  <2>1. requests' = [requests EXCEPT ![m.token] = Received(requests[m.token], m)]
    BY <1>2, <1>3
  <2> QED BY <1>1, <1>2, <2>1, <1>3, Receives DEF m
<1>4. CASE ~ requests[m.token].open
  BY <1>1, <1>2, <1>4, SameRequests DEF m
<1> QED BY <1>3, <1>4

LEMMA ClientTakesResponse ==
  ASSUME NEW S, Inv(S), plan' = plan, NEW p \in wire, NEW left, TakeResponse(p, left)
  PROVE  Inv(S)'
<1> DEFINE x == p.msg.mid
           t == p.msg.token
           C == mm["c"]
           reply == EmptyMessage(IF requests[t].open THEN "ACK" ELSE "RST", x)
<1>1. /\ UNCHANGED <<version, rendered, pipes>> /\ RequestsRight(S)'
      /\ left \subseteq wire /\ p.msg \in S /\ Answers(p.msg)
      /\ \A u \in Tokens : /\ requests'[u].result = "new" <=> requests[u].result = "new"
                           /\ requests'[u].kind = requests[u].kind
                           /\ requests'[u].open => requests[u].open
                           /\ requests'[u].result = "pending" => requests[u].result = "pending"
  BY Responded
<1>2. Manager(C, Asks \cup Empties, plan.tries) /\ C.out = {} /\ plan.tries \in Nat
      /\ Asks \cup Empties \in SUBSET Messages
  BY ClientsManager
<1>3. CASE p.msg.mtype = "ACK"
  <2> DEFINE M == RemoveExchange(C, x)
  <2>1. Served(x)
    BY <1>1, <1>3 DEF Answers
  <2>2. Act("c", M, left)
    BY <1>3 DEF TakeResponse
  <2>3. Manager(M, Asks \cup Empties, plan.tries)
    BY <1>2, RemovesAny
  <2>4. M = RemoveExchange(mm["c"], x)
    OBVIOUS
  <2> HIDE DEF M
  <2>5. /\ mm' = [n \in Nodes |-> mm'[n]] /\ mm'["s"] = mm["s"]
        /\ Manager(mm'["c"], Asks \cup Empties, plan.tries) /\ Alike(M, mm'["c"])
        /\ mm'["c"].out = {}
        /\ \A q \in wire' : q \in wire \/ (q = [to |-> "s", msg |-> q.msg] /\ q.msg \in M.out)
    BY <1>1, <2>2, <2>3, ClientsAct
  <2> QED BY <1>1, <2>1, <2>4, <2>5, Finishes
<1>4. CASE p.msg.mtype = "CON"
  <2> DEFINE M == SendInitially(C, reply)
  <2>1. Act("c", M, left)
    BY <1>4 DEF TakeResponse
  <2>2. reply \in Empties /\ reply \in Asks \cup Empties /\ reply.mtype # "CON"
    <3>1. x \in Ids
      BY <1>1 DEF Answers, Messages, Ids
    <3> QED BY <3>1 DEF Empties, EmptyMessage, Message
  <2> HIDE DEF reply
  <2>3. Holds(C, Asks \cup Empties, plan.tries)
    BY <1>2 DEF Manager
  <2>4. Manager(M, Asks \cup Empties, plan.tries) /\ Sent(C, M, reply)
    BY <1>2, <2>2, <2>3, Sends
  <2> HIDE DEF M
  <2>5. /\ mm' = [n \in Nodes |-> mm'[n]] /\ mm'["s"] = mm["s"]
        /\ Manager(mm'["c"], Asks \cup Empties, plan.tries) /\ Alike(M, mm'["c"])
        /\ mm'["c"].out = {}
        /\ \A q \in wire' : q \in wire \/ (q = [to |-> "s", msg |-> q.msg] /\ q.msg \in M.out)
    BY <1>1, <2>1, <2>4, ClientsAct
  <2>6. /\ M.out = {reply} /\ mm'["c"].active_exchanges = C.active_exchanges
        /\ mm'["c"].backlog = C.backlog /\ mm'["c"].piggyback = C.piggyback
        /\ mm'["c"].message_id = C.message_id
    BY <1>2, <2>2, <2>4, <2>5 DEF Sent, Alike
  <2>7. \A q \in wire' : q \in wire \/ (q = [to |-> "s", msg |-> q.msg] /\ q.msg \in Empties)
    BY <2>2, <2>5, <2>6
  <2> QED BY <1>1, <2>5, <2>6, <2>7, Rests
<1>5. CASE p.msg.mtype \notin {"ACK", "CON"}
  <2>1. Act("c", C, left)
    BY <1>5 DEF TakeResponse
  <2>2. /\ mm' = [n \in Nodes |-> mm'[n]] /\ mm'["s"] = mm["s"]
        /\ Manager(mm'["c"], Asks \cup Empties, plan.tries) /\ Alike(C, mm'["c"])
        /\ mm'["c"].out = {}
        /\ \A q \in wire' : q \in wire \/ (q = [to |-> "s", msg |-> q.msg] /\ q.msg \in C.out)
    BY <1>1, <1>2, <2>1, ClientsAct
  <2>3. \A q \in wire' : q \in wire
    BY <1>2, <2>2
  <2> QED BY <1>1, <2>2, <2>3, Rests DEF Alike
<1> QED BY <1>3, <1>4, <1>5

LEMMA ClientTimesOut ==
  ASSUME NEW S, Inv(S), plan' = plan, NEW x, TimeOut("c", x)
  PROVE  Inv(S)' /\ UNCHANGED rendered /\ (requests' = requests \/ requests' = FailAll)
<1> DEFINE C == mm["c"]
<1>1. Manager(C, Asks \cup Empties, plan.tries) /\ C.out = {} /\ plan.tries \in Nat
  BY ClientsManager
<1>2. UNCHANGED <<version, rendered>> /\ x \in DOMAIN C.active_exchanges
  BY DEF TimeOut
<1>3. CASE MayRetransmit(C, x, plan.tries)
  <2> DEFINE M == Retransmit(C, x)
  <2>1. Act("c", M, wire) /\ UNCHANGED <<requests, pipes>>
    BY <1>3 DEF TimeOut
  <2>2. /\ Manager(M, Asks \cup Empties, plan.tries)
        /\ DOMAIN M.active_exchanges = DOMAIN C.active_exchanges
        /\ M.active_exchanges[x].msg = C.active_exchanges[x].msg
        /\ M.backlog = C.backlog /\ M.recent_messages = C.recent_messages
        /\ M.piggyback = C.piggyback /\ M.message_id = C.message_id
        /\ M.out = C.out \cup {C.active_exchanges[x].msg}
    BY <1>1, <1>2, <1>3, Retransmits
  <2> HIDE DEF M
  <2>3. /\ mm' = [n \in Nodes |-> mm'[n]] /\ mm'["s"] = mm["s"]
        /\ Manager(mm'["c"], Asks \cup Empties, plan.tries) /\ Alike(M, mm'["c"])
        /\ mm'["c"].out = {}
        /\ \A q \in wire' : q \in wire \/ (q = [to |-> "s", msg |-> q.msg] /\ q.msg \in M.out)
    BY <2>1, <2>2, ClientsAct
  <2>4. \A y \in DOMAIN C.active_exchanges : y = x
    BY <1>1, <1>2 DEF Manager, Holds
  <2>5. RequestsRight(S)'
    BY <1>2, <2>1, SameRequests
  <2>6. \A q \in wire' :
           \/ q \in wire
           \/ /\ q = [to |-> "s", msg |-> q.msg]
              /\ \E y \in DOMAIN C.active_exchanges : q.msg = C.active_exchanges[y].msg
    BY <1>1, <1>2, <2>2, <2>3
  <2>7. /\ DOMAIN mm'["c"].active_exchanges = DOMAIN C.active_exchanges
        /\ \A y \in DOMAIN C.active_exchanges :
             mm'["c"].active_exchanges[y].msg = C.active_exchanges[y].msg
        /\ mm'["c"].backlog = C.backlog /\ mm'["c"].piggyback = C.piggyback
        /\ mm'["c"].message_id = C.message_id
    BY <2>2, <2>3, <2>4 DEF Alike
  <2>8. Inv(S)'
    BY <1>2, <2>1, <2>3, <2>5, <2>6, <2>7, Rests
  <2> QED BY <1>2, <2>1, <2>8
<1>4. CASE ~ MayRetransmit(C, x, plan.tries)
  <2> DEFINE M == GiveUp(C, x)
  <2>1. Act("c", M, wire) /\ requests' = FailAll /\ UNCHANGED pipes
    BY <1>4 DEF TimeOut, DispatchError
  <2>2. Manager(M, Asks \cup Empties, plan.tries) /\ Dropped(C, M)
    BY <1>1, <1>2, GivesUp
  <2> HIDE DEF M
  <2>3. /\ mm' = [n \in Nodes |-> mm'[n]] /\ mm'["s"] = mm["s"]
        /\ Manager(mm'["c"], Asks \cup Empties, plan.tries) /\ Alike(M, mm'["c"])
        /\ mm'["c"].out = {}
        /\ \A q \in wire' : q \in wire \/ (q = [to |-> "s", msg |-> q.msg] /\ q.msg \in M.out)
    BY <2>1, <2>2, ClientsAct
  <2>4. wire' \subseteq wire
    BY <1>1, <2>2, <2>3 DEF Dropped
  <2>5. Inv(S)'
    BY <1>2, <2>1, <2>2, <2>3, <2>4, LosesAll
  <2> QED BY <1>2, <2>1, <2>5
<1> QED BY <1>3, <1>4

LEMMA ClientsNetworkFails ==
  ASSUME NEW S, Inv(S), plan' = plan, NetworkError("c") \/ Shutdown("c")
  PROVE  Inv(S)' /\ UNCHANGED rendered /\ requests' = FailAll
<1> DEFINE C == mm["c"]
           M == DropExchanges(C)
<1>1. Manager(C, Asks \cup Empties, plan.tries) /\ C.out = {} /\ plan.tries \in Nat
  BY ClientsManager
<1>2. Manager(M, Asks \cup Empties, plan.tries) /\ Dropped(C, M)
  BY <1>1, Drops
<1>3. UNCHANGED <<version, rendered, pipes>> /\ requests' = FailAll
  BY DEF NetworkError, Shutdown, DispatchError
<1>4. CASE NetworkError("c")
  <2>1. Act("c", M, wire)
    BY <1>4 DEF NetworkError
  <2> HIDE DEF M
  <2>3. /\ mm' = [n \in Nodes |-> mm'[n]] /\ mm'["s"] = mm["s"]
        /\ Manager(mm'["c"], Asks \cup Empties, plan.tries) /\ Alike(M, mm'["c"])
        /\ mm'["c"].out = {}
        /\ \A q \in wire' : q \in wire \/ (q = [to |-> "s", msg |-> q.msg] /\ q.msg \in M.out)
    BY <1>2, <2>1, ClientsAct
  <2>4. wire' \subseteq wire
    BY <1>1, <1>2, <2>3 DEF Dropped
  <2> QED BY <1>2, <1>3, <2>3, <2>4, LosesAll
<1>5. CASE Shutdown("c")
  <2>1. mm' = [mm EXCEPT !["c"] = M] /\ wire' = wire
    BY <1>5 DEF Shutdown
  <2> HIDE DEF M
  <2>2. mm = [n \in Nodes |-> mm[n]] /\ "c" \in Nodes /\ "s" \in Nodes
    BY ClientsManager
  <2>3. mm' = [n \in Nodes |-> mm'[n]] /\ mm'["s"] = mm["s"] /\ mm'["c"] = M
    BY <2>1, <2>2
  <2>4. Alike(M, mm'["c"]) /\ mm'["c"].out = {} /\ Manager(mm'["c"], Asks \cup Empties, plan.tries)
    BY <1>1, <1>2, <2>3 DEF Alike, Dropped
  <2> QED BY <1>2, <1>3, <2>1, <2>3, <2>4, LosesAll
<1> QED BY <1>3, <1>4, <1>5

\* A request changes, and neither manager.
LEMMA Withdraws ==
  ASSUME NEW S, Inv(S), plan' = plan, UNCHANGED <<version, rendered, pipes, mm, wire>>,
         NEW t \in Tokens, NEW r \in Requested, requests' = [requests EXCEPT ![t] = r],
         RequestRight(t, r, S), r.result = "new" <=> requests[t].result = "new",
         r.kind = requests[t].kind, r.open => requests[t].open,
         r.result = "pending" => requests[t].result = "pending"
  PROVE  Inv(S)'
<1>1. /\ RequestsRight(S)' /\ requests'[t] = r
      /\ \A u \in Tokens : u # t => requests'[u] = requests[u]
  BY OneChanges DEF Inv
<1>2. \A u \in Tokens : /\ requests'[u].result = "new" <=> requests[u].result = "new"
                        /\ requests'[u].kind = requests[u].kind
                        /\ requests'[u].open => requests[u].open
                        /\ requests'[u].result = "pending" => requests[u].result = "pending"
  BY <1>1
<1>3. /\ Manager(mm["c"], Asks \cup Empties, plan.tries) /\ mm["c"].out = {}
      /\ mm = [n \in Nodes |-> mm[n]]
  BY ClientsManager
<1> QED BY <1>1, <1>2, <1>3, Rests

LEMMA ClientCancels ==
  ASSUME NEW S, Inv(S), plan' = plan, NEW t \in Tokens,
         CancelResponse(t) \/ CancelObservation(t) \/ BecomeLate(t)
  PROVE  Inv(S)'
<1> DEFINE r == requests[t]
<1>1. r \in Requested /\ RequestRight(t, r, S)
  BY OpenRequests
<1>2. UNCHANGED <<version, rendered, pipes, mm, wire>>
  BY DEF CancelResponse, CancelObservation, BecomeLate
<1>3. CASE CancelResponse(t)
  <2> DEFINE s == [r EXCEPT !.result = "cancelled", !.open = FALSE]
  <2>1. requests' = [requests EXCEPT ![t] = s] /\ r.result = "pending"
    BY <1>3 DEF CancelResponse
  <2>2. s \in Requested /\ ~ s.open /\ s.kind = r.kind /\ s.last = r.last /\ s.result = "cancelled"
    BY <1>1, Cancels, Zenon
  <2> HIDE DEF s
  <2>3. RequestRight(t, s, S)
    BY <1>1, <2>1, <2>2 DEF RequestRight
  <2> QED BY <1>1, <1>2, <2>1, <2>2, <2>3, Withdraws
<1>4. CASE CancelObservation(t)
  <2> DEFINE s == [r EXCEPT !.obs = "cancelled"]
  <2>1. requests' = [requests EXCEPT ![t] = s]
    BY <1>4 DEF CancelObservation
  <2>2. /\ s \in Requested /\ s.open = r.open /\ s.kind = r.kind /\ s.last = r.last
        /\ s.result = r.result /\ s.v1 = r.v1
    BY <1>1 DEF Requested
  <2> HIDE DEF s
  <2>3. RequestRight(t, s, S)
    BY <1>1, <2>1, <2>2 DEF RequestRight
  <2> QED BY <1>1, <1>2, <2>1, <2>2, <2>3, Withdraws
<1>5. CASE BecomeLate(t)
  <2> DEFINE s == [r EXCEPT !.late = TRUE]
  <2>1. requests' = [requests EXCEPT ![t] = s]
    BY <1>5 DEF BecomeLate
  <2>2. /\ s \in Requested /\ s.open = r.open /\ s.kind = r.kind /\ s.last = r.last
        /\ s.result = r.result /\ s.v1 = r.v1
    BY <1>1 DEF Requested
  <2> HIDE DEF s
  <2>3. RequestRight(t, s, S)
    BY <1>1, <2>1, <2>2 DEF RequestRight
  <2> QED BY <1>1, <1>2, <2>1, <2>2, <2>3, Withdraws
<1> QED BY <1>3, <1>4, <1>5

\* What the steps of the server preserve.
LEMMA ServersManager ==
  ASSUME NEW S, Inv(S)
  PROVE  /\ Manager(mm["s"], S, plan.tries) /\ mm["s"].out = {}
         /\ mm = [n \in Nodes |-> mm[n]] /\ plan.tries \in Nat /\ S \in SUBSET Messages
         /\ AnswersRight(S) /\ version \in Nat /\ version # 0
         /\ \A t \in DOMAIN mm["s"].piggyback :
              t \in Tokens /\ rendered[t] # 0 /\ mm["s"].piggyback[t] = MidOf(t)
<1>1. plan.tries \in Nat /\ plan.versions \in 1 .. Window /\ S \in SUBSET Messages
  BY Planned, Asked DEF Inv
<1>2. version \in Nat /\ version # 0
  BY <1>1, WindowIsNatural DEF Inv
<1> QED BY <1>1, <1>2 DEF Inv, ManagersRight

\* Act of the server.
LEMMA Serves ==
  ASSUME NEW S, Inv(S), NEW T, S \subseteq T, T \in SUBSET Messages, AnswersRight(T),
         plan' = plan, UNCHANGED <<version, rendered, requests>>,
         NEW M, NEW left, left \subseteq wire, Act("s", M, left), Manager(M, T, plan.tries),
         M.out \subseteq T, Taken(mm["s"], M),
         DOMAIN M.recent_messages = DOMAIN mm["s"].recent_messages, PipesRight(T)'
  PROVE  Inv(T)'
<1>0. mm = [n \in Nodes |-> mm[n]] /\ plan.tries \in Nat
      /\ "c" \in Nodes /\ "s" \in Nodes /\ Peer("s") = "c"
  BY ClientsManager
<1>1. /\ mm' = [n \in Nodes |-> mm'[n]] /\ \A q \in Nodes : q # "s" => mm'[q] = mm[q]
      /\ Manager(mm'["s"], T, plan.tries) /\ Alike(M, mm'["s"])
      /\ mm'["s"].out = {}
      /\ wire' = left \cup {[to |-> Peer("s"), msg |-> m] : m \in M.out}
  BY <1>0, Acts
<1>2. \A p \in wire' : p \in wire \/ (p = [to |-> "c", msg |-> p.msg] /\ p.msg \in T)
  BY <1>0, <1>1
<1>3. mm'["c"] = mm["c"]
  BY <1>0, <1>1
<1>4. Taken(mm["s"], mm'["s"]) /\ DOMAIN mm'["s"].recent_messages = DOMAIN mm["s"].recent_messages
  BY <1>1 DEF Taken, Alike
<1> QED BY <1>1, <1>2, <1>3, <1>4, ServerActs

\* Pipes are only taken away, and nothing is sent to the observers of those that stay.
LEMMA PipesStay ==
  ASSUME NEW S, Inv(S), plan' = plan, UNCHANGED <<version, rendered>>, NEW T, S \subseteq T,
         DOMAIN pipes' \subseteq DOMAIN pipes, pipes' = [t \in DOMAIN pipes' |-> pipes[t]],
         \A m \in T : m \in S \/ \A t \in DOMAIN pipes' : ~ Notifies(m, t)
  PROVE  PipesRight(T)'
<1>1. PipesRight(S)
  BY DEF Inv
<1>2. \A t \in DOMAIN pipes' : pipes'[t] = pipes[t]
  OBVIOUS
<1>3. ASSUME NEW t \in DOMAIN pipes' PROVE PipeRight(t, pipes[t], T)'
  <2>1. PipeRight(t, pipes[t], S) /\ pipes'[t] = pipes[t]
    BY <1>1, <1>2, <1>3 DEF PipesRight
  <2> QED BY <2>1 DEF PipeRight, Notifies
<1>4. pipes' = [t \in DOMAIN pipes' |-> pipes'[t]]
  BY <1>2
<1> QED BY <1>3, <1>4 DEF PipesRight

LEMMA Stops ==
  ASSUME NEW x
  PROVE  /\ DOMAIN StopPipe(x) \subseteq DOMAIN pipes /\ x \notin DOMAIN StopPipe(x)
         /\ StopPipe(x) = [t \in DOMAIN StopPipe(x) |-> pipes[t]]
  BY DEF StopPipe, Without, Restrict

\* A step of the server that sends nothing new.
LEMMA ServesAgain ==
  ASSUME NEW S, Inv(S), plan' = plan, UNCHANGED <<version, rendered, requests>>,
         NEW M, NEW left, left \subseteq wire, Act("s", M, left), Manager(M, S, plan.tries),
         M.out \subseteq S, Taken(mm["s"], M),
         DOMAIN M.recent_messages = DOMAIN mm["s"].recent_messages,
         \/ pipes' = pipes \/ pipes' = <<>> \/ \E x : pipes' = StopPipe(x)
  PROVE  Inv(S)'
<1>1. DOMAIN pipes' \subseteq DOMAIN pipes /\ pipes' = [t \in DOMAIN pipes' |-> pipes[t]]
  <2>1. pipes = [t \in DOMAIN pipes |-> pipes[t]]
    BY DEF Inv, PipesRight
  <2>2. CASE pipes' = pipes
    BY <2>1, <2>2
  <2>3. CASE pipes' = <<>>
    BY <2>3
  <2>4. CASE \E x : pipes' = StopPipe(x)
    BY <2>4, Stops
  <2> QED BY <2>2, <2>3, <2>4
<1>2. PipesRight(S)'
  BY <1>1, PipesStay
<1> QED BY <1>2, Serves, ServersManager

LEMMA ServerTakesDuplicate ==
  ASSUME NEW S, Inv(S), plan' = plan, NEW p \in wire, NEW left, TakeDuplicate(p, left)
  PROVE  Inv(S)'
<1> DEFINE M == AnswerDuplicate(mm["s"], p.msg)
<1>1. left \subseteq wire
  BY Arriving, ClientsManager DEF TakeDuplicate
<1>2. /\ Act("s", M, left) /\ UNCHANGED <<version, rendered, requests, pipes>>
      /\ p.msg.mid \in DOMAIN mm["s"].recent_messages
  BY DEF TakeDuplicate, IsDuplicate
<1>5. Manager(mm["s"], S, plan.tries) /\ plan.tries \in Nat /\ S \in SUBSET Messages
  BY ServersManager
<1>3. /\ Manager(M, S, plan.tries) /\ DOMAIN M.recent_messages = DOMAIN mm["s"].recent_messages
      /\ Taken(mm["s"], M) /\ M.out \subseteq mm["s"].out \cup S
  BY <1>2, <1>5, AnswersAgain
<1> HIDE DEF M
<1>4. M.out \subseteq S
  BY <1>3, ServersManager
<1> QED BY <1>1, <1>2, <1>3, <1>4, ServesAgain

LEMMA ServerTakesEmpty ==
  ASSUME NEW S, Inv(S), plan' = plan, NEW p \in wire, NEW left, TakeEmpty("s", p, left)
  PROVE  Inv(S)' /\ UNCHANGED <<requests, rendered>>
<1> DEFINE M == RemoveExchange(mm["s"], p.msg.mid)
<1>1. left \subseteq wire
  BY Arriving, ClientsManager DEF TakeEmpty
<1>2. Act("s", M, left) /\ UNCHANGED <<version, rendered, requests>>
  BY DEF TakeEmpty
<1>3. pipes' = pipes \/ \E x : pipes' = StopPipe(x)
  BY DEF TakeEmpty
<1>4. /\ Manager(M, S, plan.tries) /\ M.piggyback = mm["s"].piggyback
      /\ DOMAIN M.recent_messages = DOMAIN mm["s"].recent_messages
      /\ M.out \subseteq mm["s"].out \cup S
  BY ServersManager, RemovesAny
<1> HIDE DEF M
<1>5. M.out \subseteq S /\ Taken(mm["s"], M)
  BY <1>4, ServersManager DEF Taken
<1> QED BY <1>1, <1>2, <1>3, <1>4, <1>5, ServesAgain

LEMMA ServerTimesOut ==
  ASSUME NEW S, Inv(S), plan' = plan, NEW x, TimeOut("s", x)
  PROVE  Inv(S)' /\ UNCHANGED <<requests, rendered>>
<1> DEFINE C == mm["s"]
<1>1. Manager(C, S, plan.tries) /\ C.out = {} /\ plan.tries \in Nat
  BY ServersManager
<1>2. UNCHANGED <<version, rendered, requests>> /\ x \in DOMAIN C.active_exchanges
  BY DEF TimeOut, DispatchError
<1>3. CASE MayRetransmit(C, x, plan.tries)
  <2> DEFINE M == Retransmit(C, x)
  <2>1. Act("s", M, wire) /\ pipes' = pipes
    BY <1>3 DEF TimeOut
  <2>5. M = Retransmit(C, x)
    OBVIOUS
  <2> HIDE DEF C, M
  <2>2. /\ Manager(M, S, plan.tries)
        /\ DOMAIN M.active_exchanges = DOMAIN C.active_exchanges
        /\ M.active_exchanges[x].msg = C.active_exchanges[x].msg
        /\ M.backlog = C.backlog /\ M.recent_messages = C.recent_messages
        /\ M.piggyback = C.piggyback /\ M.message_id = C.message_id
        /\ M.out = C.out \cup {C.active_exchanges[x].msg}
    BY <1>1, <1>2, <1>3, <2>5, Retransmits, Z3
  <2>3. C.active_exchanges[x].msg \in S
    BY <1>1, <1>2 DEF Manager, Holds, Confirmable
  <2>4. M.out \subseteq S /\ Taken(C, M)
    BY <1>1, <2>2, <2>3 DEF Taken
  <2> QED BY <1>2, <2>1, <2>2, <2>4, ServesAgain DEF C
<1>4. CASE ~ MayRetransmit(C, x, plan.tries)
  <2> DEFINE M == GiveUp(C, x)
  <2>1. Act("s", M, wire) /\ pipes' = <<>>
    BY <1>4 DEF TimeOut, DispatchError
  <2>2. Manager(M, S, plan.tries) /\ Dropped(C, M)
    BY <1>1, <1>2, GivesUp
  <2> HIDE DEF M
  <2>3. /\ M.out \subseteq S /\ Taken(C, M)
        /\ DOMAIN M.recent_messages = DOMAIN C.recent_messages
    BY <1>1, <2>2 DEF Dropped, Taken
  <2> QED BY <1>2, <2>1, <2>2, <2>3, ServesAgain
<1> QED BY <1>3, <1>4

LEMMA ServersNetworkFails ==
  ASSUME NEW S, Inv(S), plan' = plan, NetworkError("s") \/ Shutdown("s")
  PROVE  Inv(S)' /\ UNCHANGED <<requests, rendered>>
<1> DEFINE C == mm["s"]
           M == DropExchanges(C)
<1>1. Manager(C, S, plan.tries) /\ C.out = {} /\ plan.tries \in Nat
  BY ServersManager
<1>2. Manager(M, S, plan.tries) /\ Dropped(C, M)
  BY <1>1, Drops
<1>3. UNCHANGED <<version, rendered, requests>> /\ pipes' = <<>>
  BY DEF NetworkError, Shutdown, DispatchError
<1>4. /\ M.out \subseteq S /\ Taken(C, M)
      /\ DOMAIN M.recent_messages = DOMAIN C.recent_messages
  BY <1>1, <1>2 DEF Dropped, Taken
<1>5. CASE NetworkError("s")
  <2>1. Act("s", M, wire)
    BY <1>5 DEF NetworkError
  <2> QED BY <1>2, <1>3, <1>4, <2>1, ServesAgain
<1>6. CASE Shutdown("s")
  <2>1. mm' = [mm EXCEPT !["s"] = M] /\ wire' = wire
    BY <1>6 DEF Shutdown
  <2> HIDE DEF M
  <2>2. mm = [n \in Nodes |-> mm[n]] /\ "c" \in Nodes /\ "s" \in Nodes
    BY ClientsManager
  <2>3. mm' = [n \in Nodes |-> mm'[n]] /\ mm'["c"] = mm["c"] /\ mm'["s"] = M
    BY <2>1, <2>2
  <2>4. PipesRight(S)'
    BY <1>3, PipesStay
  <2>5. M.out = {} /\ S \in SUBSET Messages /\ AnswersRight(S)
    BY <1>1, <1>2, ServersManager DEF Dropped
  <2> QED BY <1>2, <1>3, <1>4, <2>1, <2>3, <2>4, <2>5, ServerActs
<1> QED BY <1>3, <1>5, <1>6

\* A message that the server has not sent before.
LEMMA AnswersMore ==
  ASSUME NEW S, AnswersRight(S), NEW r, Answers(r), version \in Nat,
         \A t \in Tokens : Notifies(r, t) =>
           \A m \in S : Notifies(m, t) => m.obs < r.obs /\ m.val <= r.val
  PROVE  AnswersRight(S \cup {r})
<1>1. \A m \in S \cup {r} : Answers(m) /\ m.obs \in Nat /\ m.val \in Nat
  BY DEF AnswersRight, Answers, Messages
<1>2. Ordered(S)
  BY DEF AnswersRight
<1>3. Ordered(S \cup {r})
  <2> SUFFICES ASSUME NEW t \in Tokens, NEW m \in S \cup {r}, NEW n \in S \cup {r},
                      Notifies(m, t), Notifies(n, t), m.obs <= n.obs
               PROVE  m.val <= n.val
    BY DEF Ordered
  <2>1. CASE m \in S /\ n \in S
    BY <1>2, <2>1 DEF Ordered
  <2>2. CASE m \in S /\ n = r
    BY <2>2
  <2>3. CASE m = r /\ n \in S
    BY <1>1, <2>3
  <2>4. CASE m = r /\ n = r
    BY <1>1, <2>4
  <2> QED BY <2>1, <2>2, <2>3, <2>4
<1> QED BY <1>1, <1>3 DEF AnswersRight

\* A pipe gives a response to the manager.
LEMMA ServerSends ==
  ASSUME NEW S, Inv(S), NEW t \in Tokens, NEW obs \in Nat, NEW val \in Nat, NEW no_response
  PROVE  Responding(mm["s"], Response(t, obs, val, no_response), S, plan.tries, t, obs, val)
<1> DEFINE C == mm["s"]
           mtype == IF pipes[t].mtype = "NON" THEN "NON" ELSE "none"
<1>1. Manager(C, S, plan.tries) /\ plan.tries \in Nat /\ S \in SUBSET Messages
  BY ServersManager
<1>2. t \in DOMAIN C.piggyback => C.piggyback[t] \in Ids
  BY ServersManager, MidsOfTokens
<1>3. mtype \in {"NON", "none"}
  OBVIOUS
<1>4. Response(t, obs, val, no_response) =
        SendMessage(C, Message(mtype, "RESP", Mids, t, obs, val), no_response)
  BY DEF Response
<1> HIDE DEF mtype
<1>5. Responding(C, SendMessage(C, Message(mtype, "RESP", Mids, t, obs, val), no_response),
                 S, plan.tries, t, obs, val)
  BY <1>1, <1>2, <1>3, SendsResponse
<1> QED BY <1>4, <1>5

\* What comes of it: a message r, and the invariant when r and the pipes fit each other.
GivesOut(S, t, obs, val) ==
  \E r : /\ Answers(r)
         /\ \A u \in Tokens :
              Notifies(r, u) => u = t /\ r.obs = obs /\ r.val = val /\ obs # 0
         /\ AnswersRight(S \cup {r}) /\ PipesRight(S \cup {r})' => Inv(S \cup {r})'

LEMMA Responds ==
  ASSUME NEW S, Inv(S), plan' = plan, UNCHANGED <<version, rendered, requests>>,
         NEW t \in DOMAIN pipes, NEW obs \in Nat, NEW val \in Nat, obs <= version, val <= version,
         obs # 0 \/ ~ plan.kinds[t].observe \/ val = 0, NEW no_response,
         Act("s", Response(t, obs, val, no_response), wire)
  PROVE  GivesOut(S, t, obs, val)
<1> DEFINE C == mm["s"]
           k == plan.tries
           M == Response(t, obs, val, no_response)
<1>1. /\ Manager(C, S, k) /\ C.out = {} /\ k \in Nat /\ S \in SUBSET Messages
      /\ \A u \in DOMAIN C.piggyback : u \in Tokens /\ rendered[u] # 0 /\ C.piggyback[u] = MidOf(u)
      /\ version \in Nat
  BY ServersManager
<1>2. t \in Tokens /\ rendered[t] # 0
  BY DEF Inv, PipesRight, PipeRight
<1>3. \A u \in DOMAIN C.piggyback : C.piggyback[u] \in Ids /\ Served(C.piggyback[u])
  BY <1>1, MidsOfTokens DEF Served
<1> HIDE DEF C, k
<1>6. Responding(C, M, S, k, t, obs, val)
  BY <1>2, ServerSends DEF C, k
<1> HIDE DEF M
<1>7. PICK r \in Messages :
        /\ Replying(C, M, S, k, r)
        /\ r.mtype = "ACK" => t \in DOMAIN C.piggyback /\ r.mid = C.piggyback[t]
        /\ \/ r.code = "EMPTY" /\ r.mtype = "ACK"
           \/ r.code = "RESP" /\ r.token = t /\ r.obs = obs /\ r.val = val
  BY <1>6 DEF Responding
<1>8. Answers(r)
  BY <1>1, <1>2, <1>3, <1>7 DEF Answers
<1>9. \A u \in Tokens : Notifies(r, u) => u = t /\ r.obs = obs /\ r.val = val /\ obs # 0
  BY <1>7 DEF Notifies
<1>10. ASSUME AnswersRight(S \cup {r}), PipesRight(S \cup {r})'
       PROVE  Inv(S \cup {r})'
  <2>1. /\ Manager(M, S \cup {r}, k) /\ Taken(C, M) /\ M.out \subseteq S \cup {r}
        /\ DOMAIN M.recent_messages = DOMAIN C.recent_messages
    BY <1>1, <1>7 DEF Replying
  <2>2. S \subseteq S \cup {r} /\ S \cup {r} \in SUBSET Messages /\ Act("s", M, wire)
    BY <1>1, <1>7 DEF M
  <2> DEFINE T == S \cup {r}
  <2> HIDE DEF T
  <2>3. /\ Manager(M, T, plan.tries) /\ Taken(mm["s"], M) /\ M.out \subseteq T
        /\ DOMAIN M.recent_messages = DOMAIN mm["s"].recent_messages
        /\ S \subseteq T /\ T \in SUBSET Messages /\ AnswersRight(T) /\ PipesRight(T)'
    BY <1>10, <2>1, <2>2 DEF T, C, k
  <2>4. Inv(T)'
    BY <2>2, <2>3, Serves
  <2> QED BY <2>4 DEF T
<1> QED BY <1>8, <1>9, <1>10 DEF GivesOut

\* The last response of a pipe.
LEMMA Ends ==
  ASSUME NEW S, Inv(S), plan' = plan, UNCHANGED <<version, rendered, requests>>,
         NEW t \in DOMAIN pipes, NEW val \in Nat, val <= version,
         plan.kinds[t].observe => val = 0, NEW no_response,
         Act("s", Response(t, 0, val, no_response), wire), pipes' = StopPipe(t)
  PROVE  \E T : Inv(T)'
<1>0. PICK obs \in Nat : obs = 0 /\ obs <= version
  BY ServersManager
<1>6. Act("s", Response(t, obs, val, no_response), wire) /\ (~ plan.kinds[t].observe \/ val = 0)
  BY <1>0
<1>1. PICK r : /\ Answers(r)
               /\ \A u \in Tokens :
                    Notifies(r, u) => u = t /\ r.obs = obs /\ r.val = val /\ obs # 0
               /\ AnswersRight(S \cup {r}) /\ PipesRight(S \cup {r})' => Inv(S \cup {r})'
  <2>1. GivesOut(S, t, obs, val)
    BY <1>0, <1>6, Responds
  <2> QED BY <2>1 DEF GivesOut
<1>2. \A u \in Tokens : ~ Notifies(r, u)
  BY <1>0, <1>1
<1>3. AnswersRight(S \cup {r})
  BY <1>1, <1>2, ServersManager, AnswersMore
<1>4. /\ DOMAIN pipes' \subseteq DOMAIN pipes /\ pipes' = [u \in DOMAIN pipes' |-> pipes[u]]
      /\ \A u \in DOMAIN pipes' : u \in Tokens
  BY Stops DEF Inv, PipesRight, PipeRight
<1>5. PipesRight(S \cup {r})'
  BY <1>2, <1>4, PipesStay
<1> QED BY <1>1, <1>3, <1>5

LEMMA ServerRenders ==
  ASSUME NEW S, Inv(S), plan' = plan, NEW t \in DOMAIN pipes, Render(t)
  PROVE  \E T : Inv(T)'
<1>1. UNCHANGED <<version, rendered, requests>> /\ pipes' = StopPipe(t) /\ ~ pipes[t].observe
  BY DEF Render
<1>2. PICK val \in pipes[t].since .. version : Act("s", Response(t, 0, val, pipes[t].quiet), wire)
  BY DEF Render
<1>3. PipeRight(t, pipes[t], S)
  BY DEF Inv, PipesRight
<1>4. /\ val \in Nat /\ val <= version /\ ~ plan.kinds[t].observe
  BY <1>1, <1>3, ServersManager DEF PipeRight, Piped
<1> QED BY <1>1, <1>2, <1>4, Ends

LEMMA ServerEnds ==
  ASSUME NEW S, Inv(S), plan' = plan, NEW t \in DOMAIN pipes, EndResponses(t)
  PROVE  \E T : Inv(T)'
<1>1. /\ UNCHANGED <<version, rendered, requests>> /\ pipes' = StopPipe(t)
      /\ Act("s", Response(t, 0, 0, FALSE), wire)
  BY DEF EndResponses
<1>2. 0 \in Nat /\ 0 <= version
  BY ServersManager
<1> QED BY <1>1, <1>2, Ends

LEMMA ServerAcks ==
  ASSUME NEW S, Inv(S), plan' = plan, NEW t \in DOMAIN mm["s"].piggyback, AckTimer(t)
  PROVE  \E T : Inv(T)'
<1> DEFINE C == mm["s"]
           M == SendEmptyAck(C, t)
<1>0. PICK r : r = EmptyMessage("ACK", C.piggyback[t])
  OBVIOUS
<1> DEFINE T == S \cup {r}
<1>1. /\ Act("s", M, wire) /\ UNCHANGED <<version, rendered, requests, pipes>>
  BY DEF AckTimer
<1>2. /\ Manager(C, S, plan.tries) /\ C.out = {} /\ plan.tries \in Nat /\ S \in SUBSET Messages
      /\ AnswersRight(S) /\ version \in Nat
      /\ t \in Tokens /\ rendered[t] # 0 /\ C.piggyback[t] = MidOf(t)
  BY ServersManager
<1>3. C.piggyback[t] \in Ids /\ Served(C.piggyback[t])
  BY <1>2, MidsOfTokens DEF Served
<1>4. r \in Messages /\ Replying(C, M, S, plan.tries, r)
  BY <1>0, <1>2, <1>3, AcksLate
<1>5. /\ r.code = "EMPTY" /\ r.mtype = "ACK" /\ r.mid = C.piggyback[t]
  BY <1>0 DEF EmptyMessage, Message
<1> HIDE DEF M
<1>6. Answers(r) /\ \A u : ~ Notifies(r, u)
  BY <1>3, <1>4, <1>5 DEF Answers, Notifies
<1>7. AnswersRight(T)
  BY <1>2, <1>6, AnswersMore
<1>8. PipesRight(T)'
  <2>1. pipes = [u \in DOMAIN pipes |-> pipes[u]]
    BY DEF Inv, PipesRight
  <2>2. /\ DOMAIN pipes' \subseteq DOMAIN pipes /\ pipes' = [u \in DOMAIN pipes' |-> pipes[u]]
        /\ UNCHANGED <<version, rendered>>
    BY <1>1, <2>1
  <2>3. S \subseteq T /\ \A m \in T : m \in S \/ \A u \in DOMAIN pipes' : ~ Notifies(m, u)
    BY <1>6
  <2> HIDE DEF T
  <2> QED BY <2>2, <2>3, PipesStay
<1>9. /\ Manager(M, T, plan.tries) /\ Taken(mm["s"], M) /\ M.out \subseteq T
      /\ DOMAIN M.recent_messages = DOMAIN mm["s"].recent_messages
      /\ S \subseteq T /\ T \in SUBSET Messages
  BY <1>2, <1>4 DEF Replying
<1> HIDE DEF T
<1>11. UNCHANGED <<version, rendered, requests>> /\ wire \subseteq wire
  BY <1>1
<1>10. Inv(T)'
  BY <1>1, <1>11, <1>7, <1>8, <1>9, Serves
<1> QED BY <1>10

\* One pipe changes.
LEMMA PipeChanges ==
  ASSUME NEW S, Inv(S), plan' = plan, UNCHANGED <<version, rendered>>, NEW T, S \subseteq T,
         NEW t \in DOMAIN pipes, NEW q, pipes' = [pipes EXCEPT ![t] = q], PipeRight(t, q, T),
         \A m \in T : m \in S \/ \A u \in Tokens : u # t => ~ Notifies(m, u)
  PROVE  PipesRight(T)'
<1>1. PipesRight(S)
  BY DEF Inv
<1>2. /\ DOMAIN pipes' = DOMAIN pipes /\ pipes'[t] = q
      /\ \A u \in DOMAIN pipes : u # t => pipes'[u] = pipes[u]
      /\ pipes' = [u \in DOMAIN pipes' |-> pipes'[u]]
  OBVIOUS
<1>3. ASSUME NEW u \in DOMAIN pipes PROVE PipeRight(u, pipes[u], T)'
  <2>1. CASE u = t
    BY <1>2, <2>1 DEF PipeRight, Notifies
  <2>2. CASE u # t
    <3>1. PipeRight(u, pipes[u], S) /\ pipes'[u] = pipes[u]
      BY <1>1, <1>2, <2>2 DEF PipesRight
    <3>2. u \in Tokens
      BY <3>1 DEF PipeRight
    <3>3. \A m \in T : Notifies(m, u) => m \in S
      BY <2>2, <3>2
    <3> QED BY <3>1, <3>3 DEF PipeRight, Notifies
  <2> QED BY <2>1, <2>2
<1> QED BY <1>2, <1>3 DEF PipesRight

LEMMA ServerNotifies ==
  ASSUME NEW S, Inv(S), plan' = plan, NEW t \in DOMAIN pipes, Notify(t)
  PROVE  \E T : Inv(T)'
<1> DEFINE p == pipes[t]
<1>1. UNCHANGED <<version, rendered, requests>> /\ p.stage = "render" /\ p.observe
  BY DEF Notify
<1>2. PICK val \in p.since .. version :
        /\ Act("s", Response(t, p.num + 1, val, p.quiet), wire)
        /\ pipes' = [pipes EXCEPT ![t] = Waiting(p, val)]
  BY DEF Notify
<1>3. PICK q : q = Waiting(p, val)
  OBVIOUS
<1>4. pipes' = [pipes EXCEPT ![t] = q]
  BY <1>2, <1>3
<1>5. PipeRight(t, p, S) /\ p \in Piped /\ p.num \in Nat /\ p.since \in Nat /\ p.sent \in Nat
  BY DEF Inv, PipesRight, PipeRight, Piped
<1>6. p.num < p.since /\ p.sent <= p.since /\ p.since <= version /\ t \in Tokens
  BY <1>1, <1>5 DEF PipeRight
<1>7. val \in Nat /\ p.since <= val /\ val <= version /\ version \in Nat /\ AnswersRight(S)
  BY <1>5, ServersManager
<1>8. /\ q \in Piped /\ q.stage = "wait" /\ q.num = p.num + 1 /\ q.sent = val
      /\ q.since = p.since /\ q.trigger = p.trigger /\ q.observe = p.observe
  <2>1. p.num + 1 \in Nat /\ val \in Nat
    BY <1>5, <1>7
  <2> HIDE DEF p
  <2>2. q.num = p.num + 1
    BY <1>3, <1>5 DEF Piped, Waiting
  <2>3. /\ q.stage = "wait" /\ q.sent = val /\ q.since = p.since /\ q.trigger = p.trigger
        /\ q.observe = p.observe
    BY <1>3, <1>5 DEF Piped, Waiting
  <2>4. q \in Piped
    BY <1>3, <1>5, <2>1 DEF Piped, Waiting
  <2> QED BY <2>2, <2>3, <2>4
<1>9. PICK obs \in Nat : obs = p.num + 1 /\ obs # 0 /\ obs <= version
  BY <1>5, <1>6, <1>7
<1>10. PICK r : /\ Answers(r)
                /\ \A u \in Tokens :
                     Notifies(r, u) => u = t /\ r.obs = obs /\ r.val = val /\ obs # 0
                /\ AnswersRight(S \cup {r}) /\ PipesRight(S \cup {r})' => Inv(S \cup {r})'
  <2>1. Act("s", Response(t, obs, val, p.quiet), wire)
    BY <1>2, <1>9
  <2> HIDE DEF p
  <2>2. GivesOut(S, t, obs, val)
    BY <1>1, <1>7, <1>9, <2>1, Responds
  <2> QED BY <2>2 DEF GivesOut
<1>11. \A m \in S : Notifies(m, t) => m.obs <= p.num /\ m.val <= p.sent
  BY <1>5 DEF PipeRight
<1>12. \A m \in S : m.obs \in Nat /\ m.val \in Nat
  BY <1>7 DEF AnswersRight, Answers, Messages
<1> HIDE DEF p
<1>13. AnswersRight(S \cup {r})
  <2>1. \A u \in Tokens : Notifies(r, u) =>
           \A m \in S : Notifies(m, u) => m.obs < r.obs /\ m.val <= r.val
    BY <1>5, <1>6, <1>7, <1>9, <1>10, <1>11, <1>12
  <2> QED BY <1>7, <1>10, <2>1, AnswersMore
<1>14. PipeRight(t, q, S \cup {r})
  <2>1. \A m \in S \cup {r} : Notifies(m, t) => m.obs <= q.num /\ m.val <= q.sent
    BY <1>5, <1>6, <1>7, <1>8, <1>9, <1>10, <1>11, <1>12
  <2>2. q.trigger = "idle" => q.sent = version
    BY <1>1, <1>5, <1>7, <1>8 DEF PipeRight
  <2>3. q.trigger = "render" => q.since < version
    BY <1>5, <1>8 DEF PipeRight
  <2>4. rendered[t] # 0 /\ q.observe = plan.kinds[t].observe
    BY <1>5, <1>8 DEF PipeRight
  <2>5. q.num <= q.since /\ q.since <= q.sent /\ q.since <= version /\ q.sent <= version
    BY <1>5, <1>6, <1>7, <1>8
  <2> QED BY <1>1, <1>6, <1>8, <2>1, <2>2, <2>3, <2>4, <2>5 DEF PipeRight
<1>15. PipesRight(S \cup {r})'
  <2>1. \A m \in S \cup {r} : m \in S \/ \A u \in Tokens : u # t => ~ Notifies(m, u)
    BY <1>10
  <2> QED BY <1>1, <1>4, <1>14, <2>1, PipeChanges
<1> QED BY <1>10, <1>13, <1>15

\* Only the pipes change, and the resource.
LEMMA PipesChange ==
  ASSUME NEW S, Inv(S), plan' = plan, UNCHANGED <<mm, wire, requests, rendered>>,
         version' \in 1 .. plan.versions, version <= version', PipesRight(S)'
  PROVE  Inv(S)'
<1>0. /\ version \in Nat /\ version' \in Nat /\ plan \in Plans
      /\ mm["c"] = mm["c"] /\ mm = mm
  BY Planned, WindowIsNatural, ServersManager DEF Inv
<1>1. Asks' = Asks
  BY SameAsks
<1>2. AnswersRight(S)' /\ \A x : Served(x) => Served(x)'
  BY <1>0, StillAnswers DEF Inv
<1>3. WireRight(S)'
  BY <1>1 DEF Inv, WireRight, Empties
<1>4. ManagersRight(S)'
  <2>1. ManagersRight(S)
    BY DEF Inv
  <2>2. Manager(mm["c"], Asks \cup Empties, plan.tries)' /\ Manager(mm["s"], S, plan.tries)'
    BY <1>1, <2>1 DEF ManagersRight, Empties
  <2>3. \A t \in DOMAIN mm["s"].piggyback :
          t \in Tokens /\ rendered[t] # 0 /\ mm["s"].piggyback[t] = MidOf(t)
    BY <2>1 DEF ManagersRight
  <2> QED BY <1>1, <1>2, <2>1, <2>2, <2>3 DEF ManagersRight
<1>5. NumbersRight' /\ Tracked'
  BY DEF Inv, NumbersRight, NextIs, Tracked
<1>6. PlacesRight'
  <2>1. PlacesRight
    BY DEF Inv
  <2>2. \A t \in Tokens : /\ InBacklog(t)' <=> InBacklog(t)
                          /\ OnWire(t)' <=> OnWire(t)
                          /\ InExchange(t)' <=> InExchange(t)
                          /\ Known(t)' <=> Known(t)
    BY DEF InBacklog, OnWire, InExchange, Known
  <2> QED BY <2>1, <2>2 DEF PlacesRight
<1>7. RequestsRight(S)'
  <2>1. RequestsRight(S)
    BY DEF Inv
  <2>2. \A t \in Tokens : requests[t].last \in Nat
    BY <2>1 DEF RequestsRight, Requested
  <2>3. \A t \in Tokens : RequestRight(t, requests[t], S)'
    BY <1>0, <2>1, <2>2 DEF RequestsRight, RequestRight
  <2> QED BY <2>1, <2>3 DEF RequestsRight
<1> QED BY <1>0, <1>1, <1>2, <1>3, <1>4, <1>5, <1>6, <1>7 DEF Inv

LEMMA ServerBegins ==
  ASSUME NEW S, Inv(S), plan' = plan, NEW t \in DOMAIN pipes, Begin(t) \/ TakeTrigger(t)
  PROVE  Inv(S)'
<1> DEFINE p == pipes[t]
<1>1. UNCHANGED <<mm, wire, requests, version, rendered>>
  BY DEF Begin, TakeTrigger
<1>2. PipeRight(t, p, S)
  BY DEF Inv, PipesRight
<1>3. version \in Nat /\ version # 0
  BY ServersManager
<1>4. p \in Piped /\ p.num \in Nat /\ p.since \in Nat /\ p.sent \in Nat
  BY <1>2 DEF PipeRight, Piped
<1>5. PICK q : /\ pipes' = [pipes EXCEPT ![t] = q] /\ PipeRight(t, q, S)
  <2>1. CASE Begin(t)
    <3>1. PICK q : q = [p EXCEPT !.stage = "render", !.since = version]
      OBVIOUS
    <3>2. pipes' = [pipes EXCEPT ![t] = q] /\ p.stage = "new"
      BY <2>1, <3>1 DEF Begin
    <3>3. /\ q \in Piped /\ q.stage = "render" /\ q.since = version /\ q.num = p.num
          /\ q.sent = p.sent /\ q.trigger = p.trigger /\ q.observe = p.observe
      BY <1>3, <1>4, <3>1 DEF Piped
    <3>4. p.num = 0 /\ p.sent = 0 /\ p.trigger = "idle"
      BY <1>2, <3>2 DEF PipeRight
    <3>5. PipeRight(t, q, S)
      BY <1>2, <1>3, <3>3, <3>4 DEF PipeRight
    <3> QED BY <3>2, <3>5
  <2>2. CASE TakeTrigger(t)
    <3>1. PICK q : q = [p EXCEPT !.stage = "render", !.since = version, !.trigger = "idle"]
      OBVIOUS
    <3>2. pipes' = [pipes EXCEPT ![t] = q] /\ p.stage = "wait" /\ p.trigger = "render"
      BY <2>2, <3>1 DEF TakeTrigger
    <3>3. /\ q \in Piped /\ q.stage = "render" /\ q.since = version /\ q.num = p.num
          /\ q.sent = p.sent /\ q.trigger = "idle" /\ q.observe = p.observe
      BY <1>3, <1>4, <3>1 DEF Piped
    <3>4. p.num <= p.since /\ p.since < version /\ p.sent <= version
      BY <1>2, <3>2 DEF PipeRight
    <3>5. q.num < q.since /\ q.sent <= q.since
      BY <1>3, <1>4, <3>3, <3>4
    <3>6. PipeRight(t, q, S)
      BY <1>2, <1>3, <3>3, <3>5 DEF PipeRight
    <3> QED BY <3>2, <3>6
  <2> QED BY <2>1, <2>2
<1>6. PipesRight(S)'
  BY <1>1, <1>5, PipeChanges
<1>7. version' \in 1 .. plan.versions /\ version <= version'
  BY <1>1, <1>3 DEF Inv
<1> QED BY <1>1, <1>6, <1>7, PipesChange

LEMMA ServerUpdates ==
  ASSUME NEW S, Inv(S), plan' = plan, Update \/ CloseResource
  PROVE  Inv(S)' /\ UNCHANGED <<requests, rendered>>
<1>1. UNCHANGED <<mm, wire, requests, rendered>>
  BY DEF Update, CloseResource
<1>2. /\ version \in Nat /\ version # 0 /\ plan.versions \in Nat /\ version <= plan.versions
      /\ PipesRight(S)
  BY Planned, WindowIsNatural, ServersManager DEF Inv
<1>3. PICK how \in {"render", "end"} :
        /\ pipes' = Triggered(how)
        /\ version' \in Nat /\ version <= version' /\ version' <= plan.versions
        /\ how = "render" => version < version'
  BY <1>2 DEF Update, CloseResource
<1>4. \A t \in DOMAIN pipes :
        pipes'[t] = IF pipes[t].observe /\ pipes[t].stage # "new"
                      THEN [pipes[t] EXCEPT !.trigger = how] ELSE pipes[t]
  BY <1>3 DEF Triggered
<1>5. DOMAIN pipes' = DOMAIN pipes /\ pipes' = [t \in DOMAIN pipes' |-> pipes'[t]]
  BY <1>3 DEF Triggered
<1>6. ASSUME NEW t \in DOMAIN pipes PROVE PipeRight(t, pipes[t], S)'
  <2> DEFINE p == pipes[t]
  <2>1. PipeRight(t, p, S)
    BY <1>2 DEF PipesRight
  <2>2. p \in Piped /\ p.num \in Nat /\ p.since \in Nat /\ p.sent \in Nat /\ p.observe \in BOOLEAN
    BY <2>1 DEF PipeRight, Piped
  <2>3. p.since <= version /\ p.sent <= version /\ (p.trigger = "render" => p.since < version)
    BY <2>1 DEF PipeRight
  <2>4. p.since <= version' /\ p.sent <= version' /\ (p.trigger = "render" => p.since < version')
    BY <1>2, <1>3, <2>2, <2>3
  <2>5. CASE p.observe /\ p.stage # "new"
    <3>1. PICK q : q = [p EXCEPT !.trigger = how]
      OBVIOUS
    <3>2. /\ q \in Piped /\ q.stage = p.stage /\ q.since = p.since /\ q.num = p.num
          /\ q.sent = p.sent /\ q.trigger = how /\ q.observe = p.observe
      BY <2>2, <3>1 DEF Piped
    <3>3. pipes'[t] = q
      BY <1>4, <2>5, <3>1
    <3>4. q.trigger = "render" => q.since < version'
      BY <1>2, <1>3, <2>2, <2>3, <3>2
    <3> QED BY <1>1, <2>1, <2>4, <2>5, <3>2, <3>3, <3>4 DEF PipeRight, Notifies
  <2>6. CASE ~ (p.observe /\ p.stage # "new")
    <3>1. pipes'[t] = p
      BY <1>4, <2>6
    <3>2. ~ (p.observe /\ p.stage = "render") /\ p.stage # "wait"
      BY <2>1, <2>6 DEF PipeRight
    <3> QED BY <1>1, <2>1, <2>4, <3>1, <3>2 DEF PipeRight, Notifies
  <2> QED BY <2>5, <2>6
<1>7. PipesRight(S)'
  BY <1>5, <1>6 DEF PipesRight
<1> QED BY <1>1, <1>2, <1>3, <1>7, PipesChange

\* A request that is not made yet is nowhere.
LEMMA Unheard ==
  ASSUME NEW S, Inv(S), NEW t \in Tokens, requests[t].result = "new"
  PROVE  rendered[t] = 0 /\ ~ InExchange(t) /\ ~ InBacklog(t) /\ ~ OnWire(t)
<1>1. \A m \in Asks : m.token # t
  BY Asked
<1>2. /\ \A x \in DOMAIN mm["c"].active_exchanges :
           LET m == mm["c"].active_exchanges[x].msg
           IN m \in Asks /\ m.mtype = "CON" /\ x = MidOf(m.token) /\ m.token \in Tokens
      /\ \A i \in DOMAIN mm["c"].backlog :
           LET m == mm["c"].backlog[i]
           IN m \in Asks /\ m.mtype = "CON" /\ m.mid = MidOf(m.token) /\ m.token \in Tokens
  BY ClientsManager, Exchanging
<1>3. ~ InExchange(t)
  BY <1>1, <1>2, MidsOfTokens DEF InExchange
<1>4. ~ InBacklog(t)
  BY <1>1, <1>2 DEF InBacklog
<1>5. ~ OnWire(t)
  <2>1. WireRight(S)
    BY DEF Inv
  <2>2. \A p \in wire : p.to = "s" => p.msg \in Asks \/ p.msg \in Empties
    BY <2>1 DEF WireRight
  <2> QED BY <1>1, <2>2, Emptied DEF OnWire
<1>6. rendered[t] = 0
  BY OpenRequests DEF RequestRight
<1> QED BY <1>3, <1>4, <1>5, <1>6

\* The request with the token t is asked next.
LEMMA AsksNext ==
  ASSUME NEW S, Inv(S), plan' = plan, NEW t \in Tokens, Ask(t)
  PROVE  /\ requests[t].result = "new" /\ plan.kinds[t].mtype # "none"
         /\ mm["c"].message_id = MidOf(t)
         /\ \E r \in Requested :
              /\ requests' = [requests EXCEPT ![t] = r] /\ RequestRight(t, r, S)
              /\ r.result = "pending" /\ r.kind = plan.kinds[t]
<1> DEFINE p == requests[t]
<1>1. NextIs(t) /\ p.kind.mtype # "none"
  BY DEF Ask, NextIs
<1>2. p.result = "new" /\ mm["c"].message_id = MidOf(t)
  <2>1. NumbersRight /\ t >= t
    BY MidsOfTokens DEF Inv
  <2> QED BY <1>1, <2>1 DEF NextIs, NumbersRight
<1>3. p \in Requested /\ RequestRight(t, p, S) /\ version \in Nat
  BY OpenRequests, ServersManager
<1>4. PICK r : r = [p EXCEPT !.result = "pending", !.open = TRUE]
  OBVIOUS
<1>5. requests' = [requests EXCEPT ![t] = r]
  BY <1>4 DEF Ask
<1>6. /\ r \in Requested /\ r.result = "pending" /\ r.kind = p.kind /\ r.last = p.last
      /\ p.last \in Nat
  BY <1>3, <1>4 DEF Requested
<1>7. RequestRight(t, r, S) /\ p.kind = plan.kinds[t]
  BY <1>1, <1>2, <1>3, <1>6 DEF RequestRight
<1> QED BY <1>1, <1>2, <1>5, <1>6, <1>7

\* What the client's manager does with it.
LEMMA AskActs ==
  ASSUME NEW S, Inv(S), plan' = plan, NEW t \in Tokens, Ask(t)
  PROVE  LET r == RequestOf(t)
             T == Asks \cup Empties \cup {r}
         IN /\ mm' = [n \in Nodes |-> mm'[n]] /\ mm'["s"] = mm["s"] /\ mm'["c"].out = {}
            /\ Manager(mm'["c"], T, plan.tries)
            /\ \E M : Numbering(mm["c"], M, r) /\ Alike(M, mm'["c"])
                      /\ wire' = wire \cup {[to |-> "s", msg |-> m] : m \in M.out}
<1> DEFINE C == mm["c"]
           k == plan.tries
<1>0. PICK r : r = RequestOf(t)
  OBVIOUS
<1>1. PICK m : m = Message(plan.kinds[t].mtype, "REQ", Mids, t,
                           IF plan.kinds[t].observe THEN 1 ELSE 0,
                           IF plan.kinds[t].quiet THEN 1 ELSE 0)
  OBVIOUS
<1>2. /\ requests[t].result = "new" /\ plan.kinds[t].mtype # "none" /\ C.message_id = MidOf(t)
      /\ requests[t].kind = plan.kinds[t] /\ plan \in Plans
  BY AsksNext, OpenRequests DEF RequestRight, Inv
<1>3. r \in Messages /\ plan.kinds[t].mtype \in {"CON", "NON"}
  BY <1>0, <1>2, Asking
<1>4. m.code = "REQ" /\ m.mtype \in {"CON", "NON"} /\ r = Numbered(m, m.mtype, C.message_id)
  BY <1>0, <1>1, <1>2, <1>3 DEF RequestOf, Numbered, Message
<1>5. Act("c", SendMessage(C, m, FALSE), wire)
  BY <1>1, <1>2 DEF Ask
<1> DEFINE T == Asks \cup Empties \cup {r}
           M == SendMessage(C, m, FALSE)
<1>6. Manager(C, T, k) /\ k \in Nat /\ T \in SUBSET Messages /\ r \in T
  BY <1>3, ClientsManager, Widened
<1>7. Manager(M, T, k) /\ Numbering(C, M, r)
  <2> HIDE DEF T, C, k
  <2> QED BY <1>4, <1>6, SendsRequest
<1> HIDE DEF M
<1>8. /\ mm' = [n \in Nodes |-> mm'[n]]
      /\ Manager(mm'["c"], T, k) /\ Alike(M, mm'["c"]) /\ mm'["c"].out = {}
      /\ \A q \in Nodes : q # "c" => mm'[q] = mm[q]
      /\ wire' = wire \cup {[to |-> Peer("c"), msg |-> n] : n \in M.out}
  <2>1. Act("c", M, wire) /\ mm = [n \in Nodes |-> mm[n]] /\ "c" \in Nodes
    BY <1>5, ClientsManager DEF M
  <2> HIDE DEF T, k
  <2> QED BY <1>6, <1>7, <2>1, Acts
<1>9. mm'["s"] = mm["s"] /\ wire' = wire \cup {[to |-> "s", msg |-> n] : n \in M.out}
  BY <1>8, ClientsManager
<1> QED BY <1>0, <1>7, <1>8, <1>9

\* The request is kept back, or sent.
LEMMA AskPlaces ==
  ASSUME NEW S, Inv(S), plan' = plan, UNCHANGED rendered, NEW t \in Tokens,
         requests[t].result = "new", plan.kinds[t].mtype # "none", mm'["s"] = mm["s"],
         NEW M, Numbering(mm["c"], M, RequestOf(t)), Alike(M, mm'["c"]),
         wire' = wire \cup {[to |-> "s", msg |-> m] : m \in M.out}
  PROVE  /\ PlacesRight'
         /\ \A u \in Tokens : u # t => /\ InExchange(u) => InExchange(u)' \/ rendered[u] # 0
                                       /\ InBacklog(u) => InBacklog(u)'
         /\ RequestOf(t).mtype = "CON" => InExchange(t)' \/ InBacklog(t)'
<1> DEFINE C == mm["c"]
           N == mm'["c"]
<1>0. PICK r : r = RequestOf(t)
  OBVIOUS
<1>1. r \in Messages /\ r.token = t /\ r.mid = MidOf(t) /\ r.code = "REQ"
  BY <1>0, Asking DEF Inv
<1>2. rendered[t] = 0 /\ ~ InExchange(t) /\ ~ InBacklog(t) /\ ~ OnWire(t)
  BY Unheard
<1>3. PlacesRight
  BY DEF Inv
<1>4. Numbering(C, M, r) /\ C.out = {}
  BY <1>0, ClientsManager
<1>5. \A u \in Tokens : Known(u)' <=> Known(u)
  BY DEF Known
<1>6. C.backlog \in Seq(Confirmable(Asks \cup Empties))
      /\ C.in_backlogs = (DOMAIN C.active_exchanges # {}) /\ (C.backlog # <<>> => C.in_backlogs)
  BY ClientsManager DEF Manager, Holds
<1>7. \A i, j \in DOMAIN C.backlog : C.backlog[i].token = C.backlog[j].token => i = j
  BY <1>3 DEF PlacesRight
<1>8. CASE r.mtype = "CON" /\ C.in_backlogs
  <2>1. N.backlog = Append(C.backlog, r) /\ N.active_exchanges = C.active_exchanges /\ M.out = {}
    BY <1>4, <1>8 DEF Numbering, Alike
  <2>2. /\ DOMAIN N.backlog = DOMAIN C.backlog \cup {Len(C.backlog) + 1}
        /\ N.backlog[Len(C.backlog) + 1] = r /\ Len(C.backlog) + 1 \notin DOMAIN C.backlog
        /\ \A i \in DOMAIN C.backlog : N.backlog[i] = C.backlog[i]
    BY <1>6, <2>1
  <2>3. \A u \in Tokens : InBacklog(u)' <=> InBacklog(u) \/ u = t
    BY <1>1, <2>2 DEF InBacklog
  <2>4. wire' = wire
    BY <2>1
  <2>5. \A u \in Tokens : (OnWire(u)' <=> OnWire(u)) /\ (InExchange(u)' <=> InExchange(u))
    BY <2>1, <2>4 DEF OnWire, InExchange
  <2>6. \A i, j \in DOMAIN N.backlog : N.backlog[i].token = N.backlog[j].token => i = j
    <3>1. \A i \in DOMAIN C.backlog : C.backlog[i].token # t
      BY <1>2 DEF InBacklog
    <3> QED BY <1>1, <1>7, <2>2, <3>1
  <2>7. PlacesRight'
    BY <1>2, <1>3, <1>5, <2>3, <2>5, <2>6 DEF PlacesRight
  <2> QED BY <2>3, <2>5, <2>7
<1>9. CASE ~ (r.mtype = "CON" /\ C.in_backlogs)
  <2>1. N.backlog = C.backlog /\ M.out = {r}
    BY <1>4, <1>9 DEF Numbering, Alike
  <2>2. \A u \in Tokens : InBacklog(u)' <=> InBacklog(u)
    BY <2>1 DEF InBacklog
  <2>3. \A u \in Tokens : u # t => (OnWire(u)' <=> OnWire(u))
    BY <1>1, <2>1 DEF OnWire
  <2>4. CASE r.mtype = "CON"
    <3>1. /\ DOMAIN N.active_exchanges = {MidOf(t)}
          /\ DOMAIN C.active_exchanges = {} /\ C.backlog = <<>>
      BY <1>1, <1>4, <1>6, <1>9, <2>4 DEF Numbering, Alike
    <3>2. \A u \in Tokens : ~ InExchange(u) /\ (InExchange(u)' <=> u = t) /\ ~ InBacklog(u)
      BY <3>1, <1>6, MidsOfTokens DEF InExchange, InBacklog
    <3>3. PlacesRight'
      BY <1>2, <1>3, <1>5, <1>7, <2>1, <2>2, <2>3, <3>2 DEF PlacesRight
    <3> QED BY <2>2, <3>2, <3>3
  <2>5. CASE r.mtype # "CON"
    <3>1. N.active_exchanges = C.active_exchanges
      BY <1>4, <2>5 DEF Numbering, Alike
    <3>2. \A u \in Tokens : InExchange(u)' <=> InExchange(u)
      BY <3>1 DEF InExchange
    <3>3. PlacesRight'
      BY <1>2, <1>3, <1>5, <1>7, <2>1, <2>2, <2>3, <3>2 DEF PlacesRight
    <3> QED BY <1>0, <2>2, <2>5, <3>2, <3>3
  <2> QED BY <2>4, <2>5
<1> QED BY <1>8, <1>9

\* Tracked, in terms of places.
LEMMA Tracks ==
  ASSUME NEW S, Inv(S), NEW M, Manager(M, Asks \cup Empties, plan.tries), NEW t \in Tokens
  PROVE  (\E x \in DOMAIN M.active_exchanges : M.active_exchanges[x].msg.token = t)
           => MidOf(t) \in DOMAIN M.active_exchanges
<1> SUFFICES ASSUME NEW x \in DOMAIN M.active_exchanges, M.active_exchanges[x].msg.token = t
             PROVE  MidOf(t) \in DOMAIN M.active_exchanges
  OBVIOUS
<1>1. x = MidOf(M.active_exchanges[x].msg.token)
  BY Exchanging
<1> QED BY <1>1

LEMMA ClientAsks ==
  ASSUME NEW S, Inv(S), plan' = plan, NEW t \in Tokens, Ask(t)
  PROVE  Inv(S)'
<1> DEFINE k == plan.tries
<1>0. PICK r : r = RequestOf(t)
  OBVIOUS
<1> DEFINE T == Asks \cup Empties \cup {r}
<1>1. UNCHANGED <<pipes, version, rendered>>
  BY DEF Ask
<1>2. /\ requests[t].result = "new" /\ plan.kinds[t].mtype # "none"
      /\ mm["c"].message_id = MidOf(t)
  BY AsksNext
<1>3. PICK q \in Requested :
        /\ requests' = [requests EXCEPT ![t] = q] /\ RequestRight(t, q, S)
        /\ q.result = "pending" /\ q.kind = plan.kinds[t]
  BY AsksNext
<1>4. /\ RequestsRight(S)' /\ requests'[t] = q
      /\ \A u \in Tokens : u # t => requests'[u] = requests[u]
  BY <1>1, <1>3, OneChanges DEF Inv
<1>5. PICK M : /\ mm' = [n \in Nodes |-> mm'[n]] /\ mm'["s"] = mm["s"] /\ mm'["c"].out = {}
               /\ Manager(mm'["c"], T, k)
               /\ Numbering(mm["c"], M, r) /\ Alike(M, mm'["c"])
               /\ wire' = wire \cup {[to |-> "s", msg |-> m] : m \in M.out}
  BY <1>0, AskActs
<1>6. Asks' = Asks \cup {r}
  <2>1. \A u : RequestOf(u)' = RequestOf(u)
    BY DEF RequestOf
  <2>2. {u \in Tokens : requests[u].result # "new"}' = {u \in Tokens : requests[u].result # "new"} \cup {t}
    BY <1>3, <1>4
  <2> QED BY <1>0, <2>1, <2>2 DEF Asks
<1>7. (Asks \cup Empties)' = T /\ Asks \cup Empties \subseteq T
  BY <1>6 DEF Empties
<1>8. AnswersRight(S)' /\ \A x : Served(x) => Served(x)'
  BY <1>1, Planned, ServersManager, StillAnswers DEF Inv
<1>9. WireRight(S)'
  <2>1. WireRight(S)
    BY DEF Inv
  <2>2. M.out \subseteq {r}
    BY <1>5, ClientsManager DEF Numbering
  <2>3. \A p \in wire' : p \in wire \/ p = [to |-> "s", msg |-> r]
    BY <1>5, <2>2
  <2>4. \A p \in wire' : /\ p = [to |-> p.to, msg |-> p.msg]
                         /\ \/ p.to = "s" /\ p.msg \in T
                            \/ p.to = "c" /\ p.msg \in S
    BY <1>7, <2>1, <2>3 DEF WireRight
  <2> HIDE DEF T
  <2> QED BY <1>7, <2>4 DEF WireRight
<1>10. ManagersRight(S)'
  <2>1. ManagersRight(S)
    BY DEF Inv
  <2>2. mm'["c"].piggyback = mm["c"].piggyback
    BY <1>5 DEF Numbering, Alike
  <2>3. \A u \in DOMAIN mm["s"].piggyback :
          u \in Tokens /\ rendered[u] # 0 /\ mm["s"].piggyback[u] = MidOf(u)
    BY <2>1 DEF ManagersRight
  <2> HIDE DEF T
  <2>4. Manager(mm["c"], Asks \cup Empties, plan.tries)'
    BY <1>5, <1>7
  <2> QED BY <1>1, <1>5, <1>8, <2>1, <2>2, <2>3, <2>4 DEF ManagersRight
<1>11. NumbersRight'
  <2> SUFFICES ASSUME NEW u \in Tokens, NextIs(u)' PROVE (mm["c"].message_id)' = MidOf(u)
    BY DEF NumbersRight, MidOf
  <2>1. NextIs(t)
    BY DEF Ask, NextIs
  <2>2. \A v \in Tokens : requests'[v].result = "new" <=> v >= t /\ v # t
    BY <1>3, <1>4, <2>1 DEF NextIs
  <2>3. \A v \in Tokens : v >= u <=> v >= t /\ v # t
    BY <2>2 DEF NextIs
  <2>4. u = t + 1
    BY <2>3, MidsOfTokens DEF Tokens
  <2>5. mm'["c"].message_id = (MidOf(t) + 1) % Mids
    BY <1>2, <1>5 DEF Numbering, Alike
  <2> QED BY <2>4, <2>5, MidsOfTokens
<1>12. /\ PlacesRight'
       /\ \A u \in Tokens : u # t => /\ InExchange(u) => InExchange(u)' \/ rendered[u] # 0
                                     /\ InBacklog(u) => InBacklog(u)'
       /\ r.mtype = "CON" => InExchange(t)' \/ InBacklog(t)'
  BY <1>0, <1>1, <1>2, <1>5, AskPlaces
<1>13. Tracked'
  <2> SUFFICES ASSUME NEW u \in Tokens, requests'[u].open, requests'[u].kind.mtype = "CON",
                      requests'[u].result = "pending", rendered[u] = 0
               PROVE  \/ \E mid \in DOMAIN mm'["c"].active_exchanges :
                           mm'["c"].active_exchanges[mid].msg.token = u
                      \/ \E i \in DOMAIN mm'["c"].backlog : mm'["c"].backlog[i].token = u
    BY <1>1, Countings DEF Tracked
  <2>1. InExchange(u)' \/ InBacklog(u)'
    <3>1. CASE u = t
      <4>1. r.mtype = "CON"
        BY <1>0, <1>2, <1>3, <1>4, <3>1, Asking DEF Inv
      <4> QED BY <1>12, <3>1, <4>1
    <3>2. CASE u # t
      <4>1. /\ Tracked /\ requests[u].open /\ requests[u].kind.mtype = "CON"
            /\ requests[u].result = "pending" /\ ~ (rendered[u] > 0)
        BY <1>4, <3>2, Countings DEF Inv
      <4>2. \/ \E mid \in DOMAIN mm["c"].active_exchanges :
                 mm["c"].active_exchanges[mid].msg.token = u
            \/ InBacklog(u)
        BY <4>1 DEF Tracked, InBacklog
      <4>3. InExchange(u) \/ InBacklog(u)
        BY <4>2, ClientsManager, Tracks DEF InExchange
      <4> QED BY <1>12, <3>2, <4>3
    <3> QED BY <3>1, <3>2
  <2>2. CASE InBacklog(u)'
    BY <2>2 DEF InBacklog
  <2>3. CASE InExchange(u)'
    <3>1. MidOf(u) \in DOMAIN mm'["c"].active_exchanges
      BY <2>3 DEF InExchange, MidOf
    <3>2. LET m == mm'["c"].active_exchanges[MidOf(u)].msg
          IN m \in T /\ m.mtype = "CON" /\ m.mid = MidOf(u)
      BY <1>5, <3>1 DEF Manager, Holds, Confirmable
    <3>3. \A m \in T : m.mtype = "CON" => m.mid = MidOf(m.token) /\ m.token \in Tokens
      BY <1>0, <1>2, Asked, Asking, Emptied DEF Inv
    <3>4. mm'["c"].active_exchanges[MidOf(u)].msg.token = u
      BY <3>2, <3>3, MidsOfTokens
    <3> QED BY <3>1, <3>4
  <2> QED BY <2>1, <2>2, <2>3
<1>14. PipesRight(S)'
  BY <1>1 DEF Inv, PipesRight, PipeRight, Notifies
<1>15. plan' \in Plans /\ version' \in 1 .. plan'.versions
  BY <1>1 DEF Inv
<1> QED BY <1>4, <1>8, <1>9, <1>10, <1>11, <1>12, <1>13, <1>14, <1>15 DEF Inv

\* A request arrives that is not remembered.
LEMMA NewRequest ==
  ASSUME NEW S, Inv(S), NEW p \in wire, NEW left, TakeRequest(p, left)
  PROVE  /\ left \subseteq wire /\ p.msg.token \in Tokens /\ rendered[p.msg.token] = 0
         /\ p.msg = RequestOf(p.msg.token) /\ p.msg.mid = MidOf(p.msg.token)
         /\ p.msg.mtype \in {"CON", "NON"} /\ requests[p.msg.token].result # "new"
         /\ ~ InBacklog(p.msg.token)
<1>1. left \subseteq wire /\ p.msg \in Asks \cup Empties /\ p.to = "s"
  BY Arriving, ClientsManager DEF TakeRequest
<1>2. p.msg.code = "REQ" /\ p.msg.mid \notin DOMAIN mm["s"].recent_messages
  BY DEF TakeRequest, IsDuplicate
<1>3. p.msg \in Asks
  BY <1>1, <1>2, Emptied
<1>4. /\ p.msg.token \in Tokens /\ p.msg.mid = MidOf(p.msg.token) /\ p.msg = RequestOf(p.msg.token)
      /\ p.msg.mtype \in {"CON", "NON"} /\ requests[p.msg.token].result # "new"
  BY <1>3, Asked
<1>5. OnWire(p.msg.token) /\ ~ Known(p.msg.token) /\ PlacesRight
  BY <1>1, <1>2, <1>4 DEF OnWire, Known, Inv
<1> QED BY <1>1, <1>4, <1>5 DEF PlacesRight

LEMMA ServerTakesRequest ==
  ASSUME NEW S, Inv(S), plan' = plan, NEW p \in wire, NEW left, TakeRequest(p, left)
  PROVE  Inv(S)'
<1> DEFINE C == mm["s"]
           k == plan.tries
<1>0. PICK m, t : m = p.msg /\ t = p.msg.token
  OBVIOUS
<1>1. /\ left \subseteq wire /\ t \in Tokens /\ rendered[t] = 0 /\ m.token = t
      /\ m = RequestOf(t) /\ m.mid = MidOf(t)
      /\ m.mtype \in {"CON", "NON"} /\ requests[t].result # "new" /\ ~ InBacklog(t)
  BY <1>0, NewRequest
<1>2. /\ UNCHANGED <<requests, version>> /\ Act("s", ExpectAnswer(C, m), left)
      /\ pipes' = With(pipes, t, NewPipe(m))
      /\ rendered' = [rendered EXCEPT ![t] = rendered[t] + 1]
  BY <1>0 DEF TakeRequest
<1>3. rendered \in [Tokens -> {0, 1}] /\ RequestsRight(S) /\ version \in Nat /\ m.mid \in Ids
  BY <1>1, MidsOfTokens, ServersManager DEF Inv, RequestsRight
<1>4. /\ rendered' \in [Tokens -> {0, 1}] /\ rendered'[t] = 1
      /\ \A u \in Tokens : u # t => rendered'[u] = rendered[u]
  BY <1>1, <1>2, <1>3
<1>5. PICK M : M = ExpectAnswer(C, m)
  OBVIOUS
<1>6. /\ Manager(M, S, k) /\ M.out = C.out
      /\ DOMAIN M.recent_messages = DOMAIN C.recent_messages \cup {m.mid}
      /\ \A u \in DOMAIN M.piggyback :
           \/ u \in DOMAIN C.piggyback /\ M.piggyback[u] = C.piggyback[u]
           \/ u = m.token /\ M.piggyback[u] = m.mid
  <2>1. Manager(C, S, k) /\ k \in Nat
    BY ServersManager
  <2> HIDE DEF C, k
  <2>2. Manager(M, S, k) /\ Expecting(C, M, m)
    BY <1>3, <1>5, <2>1, Expects
  <2> QED BY <2>2 DEF Expecting
<1>7. /\ mm' = [n \in Nodes |-> mm'[n]] /\ mm'["c"] = mm["c"]
      /\ Manager(mm'["s"], S, k) /\ Alike(M, mm'["s"]) /\ mm'["s"].out = {}
      /\ wire' = left
  <2>1. Act("s", M, left) /\ mm = [n \in Nodes |-> mm[n]] /\ "s" \in Nodes /\ k \in Nat
    BY <1>2, <1>5, ClientsManager
  <2>2. /\ mm' = [n \in Nodes |-> mm'[n]] /\ \A q \in Nodes : q # "s" => mm'[q] = mm[q]
        /\ Manager(mm'["s"], S, k) /\ Alike(M, mm'["s"]) /\ mm'["s"].out = {}
        /\ wire' = left \cup {[to |-> Peer("s"), msg |-> n] : n \in M.out}
    BY <1>6, <2>1, Acts
  <2>3. M.out = {} /\ "c" \in Nodes
    BY <1>6, ServersManager, ClientsManager
  <2> QED BY <2>2, <2>3
<1>8. Asks' = Asks
  BY <1>2, SameAsks
<1>9. AnswersRight(S)' /\ \A x : Served(x) => Served(x)'
  <2>1. \A u \in Tokens : rendered[u] # 0 => rendered'[u] # 0
    BY <1>4
  <2> QED BY <1>2, <1>3, <2>1, StillAnswers DEF Inv
<1>10. WireRight(S)'
  BY <1>1, <1>7, <1>8 DEF Inv, WireRight, Empties
<1>11. ManagersRight(S)'
  <2>1. ManagersRight(S)
    BY DEF Inv
  <2>2. Manager(mm["c"], Asks \cup Empties, plan.tries)' /\ Manager(mm["s"], S, plan.tries)'
    BY <1>7, <1>8, <2>1 DEF ManagersRight, Empties
  <2>3. \A u \in DOMAIN mm'["s"].piggyback :
          u \in Tokens /\ rendered'[u] # 0 /\ mm'["s"].piggyback[u] = MidOf(u)
    <3>1. \A u \in DOMAIN C.piggyback :
            u \in Tokens /\ rendered[u] # 0 /\ C.piggyback[u] = MidOf(u)
      BY <2>1 DEF ManagersRight
    <3>2. mm'["s"].piggyback = M.piggyback
      BY <1>7 DEF Alike
    <3> QED BY <1>1, <1>4, <1>6, <3>1, <3>2
  <2>4. \A x \in DOMAIN mm'["s"].recent_messages : Served(x)'
    <3>1. \A x \in DOMAIN C.recent_messages : Served(x)
      BY <2>1 DEF ManagersRight
    <3>2. Served(MidOf(t))'
      BY <1>1, <1>4 DEF Served, MidOf
    <3>3. mm'["s"].recent_messages = M.recent_messages
      BY <1>7 DEF Alike
    <3> QED BY <1>1, <1>6, <1>9, <3>1, <3>2, <3>3
  <2>5. \A u : MidOf(u)' = MidOf(u)
    BY DEF MidOf
  <2> QED BY <1>7, <2>1, <2>2, <2>3, <2>4, <2>5 DEF ManagersRight
<1>12. NumbersRight'
  BY <1>2, <1>7 DEF Inv, NumbersRight, NextIs, MidOf
<1>13. PlacesRight'
  <2>1. PlacesRight
    BY DEF Inv
  <2>2. \A u \in Tokens : /\ InBacklog(u)' <=> InBacklog(u)
                          /\ InExchange(u)' <=> InExchange(u)
                          /\ OnWire(u)' => OnWire(u)
    BY <1>1, <1>7 DEF InBacklog, InExchange, OnWire, MidOf
  <2>3. Known(t)' /\ \A u \in Tokens : Known(u) => Known(u)'
    BY <1>1, <1>6, <1>7 DEF Known, Alike, MidOf
  <2>4. \A u \in Tokens : InBacklog(u)' => (rendered[u] = 0 /\ ~ OnWire(u) /\ ~ InExchange(u))'
    BY <1>1, <1>4, <2>1, <2>2 DEF PlacesRight
  <2>5. \A u \in Tokens : (rendered[u] # 0 => Known(u) \/ ~ (InExchange(u) \/ OnWire(u)))'
    BY <1>4, <2>1, <2>2, <2>3 DEF PlacesRight
  <2> QED BY <1>7, <2>1, <2>4, <2>5 DEF PlacesRight
<1>14. Tracked'
  <2>1. \A u \in Tokens : rendered[u] > 0 => rendered'[u] > 0
    BY <1>3, <1>4
  <2> QED BY <1>2, <1>7, <2>1 DEF Inv, Tracked
<1>15. RequestsRight(S)'
  BY <1>1, <1>2, <1>3, <1>4 DEF RequestsRight, RequestRight
<1>16. PipesRight(S)'
  <2>0. PipesRight(S)
    BY DEF Inv
  <2>1. PICK q : q = NewPipe(m)
    OBVIOUS
  <2>2. /\ DOMAIN pipes' = DOMAIN pipes \cup {t} /\ pipes'[t] = q
        /\ \A u \in DOMAIN pipes : u # t => pipes'[u] = pipes[u]
        /\ pipes' = [u \in DOMAIN pipes' |-> pipes'[u]]
    BY <1>2, <2>1 DEF With
  <2>3. PipeRight(t, q, S)'
    <3>1. plan.kinds[t] \in Kinds /\ plan.kinds[t].mtype # "none" /\ plan \in Plans
      BY <1>1, Planned, OpenRequests DEF Inv, RequestRight
    <3>2. (m.obs = 1) <=> plan.kinds[t].observe
      BY <1>1, <3>1, Asking
    <3>3. /\ q \in Piped /\ q.observe = (m.obs = 1) /\ q.stage = "new" /\ q.num = 0
          /\ q.sent = 0 /\ q.trigger = "idle" /\ q.since = 0
      BY <1>1, <2>1 DEF NewPipe, Piped
    <3>4. q.observe = plan.kinds[t].observe
      BY <3>1, <3>2, <3>3 DEF Kinds
    <3>5. \A n \in S : ~ Notifies(n, t)
      BY <1>1 DEF Inv, AnswersRight, Answers, Notifies
    <3> QED BY <1>1, <1>2, <1>3, <1>4, <3>3, <3>4, <3>5 DEF PipeRight, Notifies
  <2>4. ASSUME NEW u \in DOMAIN pipes, u # t PROVE PipeRight(u, pipes[u], S)'
    <3>1. PipeRight(u, pipes[u], S) /\ pipes'[u] = pipes[u] /\ u \in Tokens
      BY <2>0, <2>2, <2>4 DEF PipesRight, PipeRight
    <3> QED BY <1>2, <1>4, <2>4, <3>1 DEF PipeRight, Notifies
  <2> QED BY <2>2, <2>3, <2>4 DEF PipesRight
<1>17. plan' \in Plans /\ version' \in 1 .. plan'.versions
  BY <1>2 DEF Inv
<1> QED BY <1>9, <1>10, <1>11, <1>12, <1>13, <1>14, <1>15, <1>16, <1>17 DEF Inv

\* The memory of a request, or of its answer, is dropped.
LEMMA Forgets ==
  ASSUME NEW S, NEW k \in Nat, NEW M, Manager(M, S, k), NEW x
  PROVE  LET N == [M EXCEPT !.recent_messages = Without(M.recent_messages, x)]
         IN /\ Manager(N, S, k) /\ N.piggyback = M.piggyback /\ N.out = M.out
            /\ DOMAIN N.recent_messages = DOMAIN M.recent_messages \ {x}
<1> DEFINE f == Without(M.recent_messages, x)
           N == [M EXCEPT !.recent_messages = f]
<1>1. Whole(M)
  BY DEF Manager, Holds
<1>2. DOMAIN f = DOMAIN M.recent_messages \ {x} /\ \A y \in DOMAIN f : f[y] = M.recent_messages[y]
  BY DEF Without, Restrict
<1> HIDE DEF f
<1>4. N = Record(M.active_exchanges, M.in_backlogs, M.backlog, f, M.piggyback, M.message_id, M.out)
  BY <1>1, Updates, ZenonT(60)
<1> HIDE DEF N
<1>5. /\ Whole(N)
      /\ N.active_exchanges = M.active_exchanges /\ N.in_backlogs = M.in_backlogs
      /\ N.backlog = M.backlog /\ N.recent_messages = f /\ N.piggyback = M.piggyback
      /\ N.message_id = M.message_id /\ N.out = M.out
  BY <1>4, Fields
<1>6. Holds(N, S, k)
  BY <1>2, <1>5 DEF Manager, Holds
<1>7. Manager(N, S, k)
  BY <1>5, <1>6 DEF Manager
<1> QED BY <1>2, <1>5, <1>7 DEF N, f

LEMMA ServerForgets ==
  ASSUME NEW S, Inv(S), plan' = plan, NEW x, Forget(x)
  PROVE  Inv(S)'
<1> DEFINE C == mm["s"]
           k == plan.tries
<1>1. /\ UNCHANGED <<requests, pipes, version, rendered>>
      /\ mm' = [mm EXCEPT !["s"] = [C EXCEPT !.recent_messages = Without(C.recent_messages, x)]]
      /\ wire' = {p \in wire : ~ (p.msg.code = "REQ" /\ p.msg.mid = x)}
      /\ x \notin DOMAIN mm["c"].active_exchanges
  BY DEF Forget
<1> DEFINE N == [C EXCEPT !.recent_messages = Without(C.recent_messages, x)]
<1>3. /\ mm = [n \in Nodes |-> mm[n]] /\ "c" \in Nodes /\ "s" \in Nodes
      /\ Manager(C, S, k) /\ k \in Nat /\ C.out = {} /\ version \in Nat
  BY ClientsManager, ServersManager
<1>2. mm' = [mm EXCEPT !["s"] = N]
  BY <1>1
<1>5. /\ Manager(N, S, k) /\ N.piggyback = C.piggyback /\ N.out = {}
      /\ DOMAIN N.recent_messages = DOMAIN C.recent_messages \ {x}
  <2>1. Manager(C, S, k) /\ k \in Nat
    BY <1>3
  <2> HIDE DEF C, k
  <2>2. /\ Manager(N, S, k) /\ N.piggyback = C.piggyback /\ N.out = C.out
        /\ DOMAIN N.recent_messages = DOMAIN C.recent_messages \ {x}
    BY <2>1, Forgets
  <2> QED BY <1>3, <2>2 DEF C, k
<1> HIDE DEF N
<1>4. mm' = [n \in Nodes |-> mm'[n]] /\ mm'["c"] = mm["c"] /\ mm'["s"] = N
  BY <1>2, <1>3
<1>6. wire' \subseteq wire
  BY <1>1
<1>7. Asks' = Asks
  BY <1>1, SameAsks
<1>8. AnswersRight(S)' /\ \A y : Served(y) => Served(y)'
  BY <1>1, <1>3, StillAnswers DEF Inv
<1>9. WireRight(S)'
  BY <1>6, <1>7 DEF Inv, WireRight, Empties
<1>10. ManagersRight(S)'
  <2>1. ManagersRight(S)
    BY DEF Inv
  <2>2. Manager(mm["c"], Asks \cup Empties, plan.tries)' /\ Manager(mm["s"], S, plan.tries)'
    BY <1>4, <1>5, <1>7, <2>1 DEF ManagersRight, Empties
  <2>3. \A u \in DOMAIN C.piggyback : u \in Tokens /\ rendered[u] # 0 /\ C.piggyback[u] = MidOf(u)
    BY <2>1 DEF ManagersRight
  <2>4. \A y \in DOMAIN mm'["s"].recent_messages : Served(y)'
    BY <1>4, <1>5, <1>8, <2>1 DEF ManagersRight
  <2>5. \A u : MidOf(u)' = MidOf(u)
    BY DEF MidOf
  <2> QED BY <1>1, <1>4, <1>5, <2>1, <2>2, <2>3, <2>4, <2>5 DEF ManagersRight
<1>11. NumbersRight' /\ Tracked'
  BY <1>1, <1>4 DEF Inv, NumbersRight, NextIs, MidOf, Tracked
<1>12. PlacesRight'
  <2>1. PlacesRight
    BY DEF Inv
  <2>2. \A u \in Tokens : /\ InBacklog(u)' <=> InBacklog(u)
                          /\ InExchange(u)' <=> InExchange(u)
                          /\ OnWire(u)' => OnWire(u)
    BY <1>4, <1>6 DEF InBacklog, InExchange, OnWire, MidOf
  <2>3. \A u \in Tokens : MidOf(u) # x => (Known(u) => Known(u)')
    BY <1>4, <1>5 DEF Known, MidOf
  <2>4. \A u \in Tokens : MidOf(u) = x => ~ InExchange(u) /\ ~ OnWire(u)'
    <3> SUFFICES ASSUME NEW u \in Tokens, MidOf(u) = x, NEW p \in wire', p.to = "s",
                        p.msg.code = "REQ", p.msg.token = u
                 PROVE  FALSE
      BY <1>1 DEF InExchange, OnWire
    <3>1. WireRight(S)
      BY DEF Inv
    <3>2. p \in wire /\ (p.msg \in Asks \/ p.msg \in Empties)
      BY <1>6, <3>1 DEF WireRight
    <3>3. p.msg.mid = x
      BY <3>2, Asked, Emptied
    <3> QED BY <1>1, <3>3
  <2>5. \A u \in Tokens : InBacklog(u)' => (rendered[u] = 0 /\ ~ OnWire(u) /\ ~ InExchange(u))'
    BY <1>1, <2>1, <2>2 DEF PlacesRight
  <2>6. \A u \in Tokens : (rendered[u] # 0 => Known(u) \/ ~ (InExchange(u) \/ OnWire(u)))'
    BY <1>1, <2>1, <2>2, <2>3, <2>4 DEF PlacesRight
  <2> QED BY <1>4, <2>1, <2>5, <2>6 DEF PlacesRight
<1>13. RequestsRight(S)'
  BY <1>1, SameRequests
<1>14. PipesRight(S)'
  <2>1. pipes = [u \in DOMAIN pipes |-> pipes[u]]
    BY DEF Inv, PipesRight
  <2>2. /\ DOMAIN pipes' \subseteq DOMAIN pipes /\ pipes' = [u \in DOMAIN pipes' |-> pipes[u]]
        /\ UNCHANGED <<version, rendered>>
    BY <1>1, <2>1
  <2> QED BY <2>2, PipesStay
<1>15. plan' \in Plans /\ version' \in 1 .. plan'.versions
  BY <1>1 DEF Inv
<1> QED BY <1>8, <1>9, <1>10, <1>11, <1>12, <1>13, <1>14, <1>15 DEF Inv

LEMMA NewManagers ==
  ASSUME NEW i \in Ids, NEW S, NEW k \in Nat
  PROVE  LET M == NewManager(i)
         IN /\ Manager(M, S, k) /\ M.out = {} /\ M.message_id = i /\ M.backlog = <<>>
            /\ DOMAIN M.active_exchanges = {} /\ DOMAIN M.piggyback = {}
            /\ DOMAIN M.recent_messages = {}
<1> DEFINE none == <<>>
           off == FALSE
           nobody == {}
           M == NewManager(i)
<1>1. DOMAIN none = {} /\ none \in Seq(Confirmable(S)) /\ off = FALSE /\ nobody = {} /\ none = <<>>
  OBVIOUS
<1>2. M = Record(none, off, none, none, none, i, nobody)
  BY DEF NewManager, Record
<1> HIDE DEF none, off, nobody, M
<1>3. /\ Whole(M)
      /\ M.active_exchanges = none /\ M.in_backlogs = off /\ M.backlog = none
      /\ M.recent_messages = none /\ M.piggyback = none /\ M.message_id = i /\ M.out = nobody
  BY <1>2, Fields
<1>4. Holds(M, S, k)
  BY <1>1, <1>3 DEF Holds
<1>5. Manager(M, S, k)
  BY <1>1, <1>3, <1>4 DEF Manager
<1> QED BY <1>1, <1>3, <1>5 DEF M, none

LEMMA Starts ==
  ASSUME Init
  PROVE  IInv
<1>1. plan \in Plans /\ version = 1 /\ wire = {} /\ pipes = <<>>
  BY DEF Init
<1>2. plan.tries \in Nat /\ plan.versions \in 1 .. Window /\ \A t \in Tokens : plan.kinds[t] \in Kinds
  BY <1>1, Planned
<1>3. version \in 1 .. plan.versions
  BY <1>1, <1>2, WindowIsNatural
<1>4. AnswersRight({}) /\ WireRight({})
  BY <1>1 DEF AnswersRight, Ordered, WireRight
<1>5. /\ mm = [n \in Nodes |-> mm[n]] /\ FirstId["c"] \in Ids
      /\ mm["c"] = NewManager(FirstId["c"]) /\ mm["s"] = NewManager(FirstId["s"])
      /\ FirstId["s"] \in Ids
  BY FirstIdAssumption DEF Init, Nodes, Ids
<1>6. \A S : \A n \in Nodes :
        LET M == mm[n]
        IN /\ Manager(M, S, plan.tries) /\ M.out = {} /\ M.message_id = FirstId[n]
           /\ M.backlog = <<>> /\ DOMAIN M.active_exchanges = {} /\ DOMAIN M.piggyback = {}
           /\ DOMAIN M.recent_messages = {}
  <2> SUFFICES ASSUME NEW S, NEW n \in Nodes
               PROVE  LET M == mm[n]
                      IN /\ Manager(M, S, plan.tries) /\ M.out = {} /\ M.message_id = FirstId[n]
                         /\ M.backlog = <<>> /\ DOMAIN M.active_exchanges = {}
                         /\ DOMAIN M.piggyback = {} /\ DOMAIN M.recent_messages = {}
    OBVIOUS
  <2>1. mm[n] = NewManager(FirstId[n]) /\ FirstId[n] \in Ids
    BY <1>5 DEF Nodes
  <2> QED BY <1>2, <2>1, NewManagers
<1>7. ManagersRight({})
  BY <1>5, <1>6 DEF ManagersRight, Nodes
<1>8. /\ \A t \in Tokens : requests[t] = Unasked(plan.kinds[t]) /\ rendered[t] = 0
      /\ requests = [t \in Tokens |-> Unasked(plan.kinds[t])]
      /\ rendered = [t \in Tokens |-> 0]
  BY DEF Init
<1>9. \A t \in Tokens : /\ requests[t] \in Requested /\ requests[t].result = "new"
                        /\ requests[t].kind = plan.kinds[t] /\ requests[t].last = 0
                        /\ ~ requests[t].open
  BY <1>2, <1>8 DEF Unasked, Requested
<1>10. NumbersRight
  <2> SUFFICES ASSUME NEW t \in Tokens, NextIs(t) PROVE mm["c"].message_id = MidOf(t)
    BY DEF NumbersRight
  <2>1. t = 1
    BY <1>9, MidsOfTokens DEF NextIs, Tokens
  <2> QED BY <1>6, <2>1, MidsOfTokens DEF Nodes
<1>11. PlacesRight /\ Tracked
  BY <1>1, <1>6, <1>8, <1>9 DEF PlacesRight, Tracked, InBacklog, InExchange, OnWire, Nodes
<1>12. RequestsRight({})
  <2>1. requests \in [Tokens -> Requested] /\ rendered \in [Tokens -> {0, 1}]
    BY <1>8, <1>9
  <2> QED BY <1>1, <1>8, <1>9, <2>1 DEF RequestsRight, RequestRight
<1>13. PipesRight({})
  BY <1>1 DEF PipesRight
<1> QED BY <1>1, <1>3, <1>4, <1>7, <1>10, <1>11, <1>12, <1>13 DEF IInv, Inv

LEMMA Stutters ==
  ASSUME NEW S, Inv(S), UNCHANGED vars
  PROVE  Inv(S)'
<1>1. plan' = plan /\ UNCHANGED <<mm, wire, requests, rendered, pipes, version>>
  BY DEF vars
<1>2. pipes = [t \in DOMAIN pipes |-> pipes[t]] /\ version \in 1 .. plan.versions /\ version \in Nat
  BY ServersManager DEF Inv, PipesRight
<1>3. PipesRight(S)'
  BY <1>1, <1>2, PipesStay
<1> QED BY <1>1, <1>2, <1>3, PipesChange

LEMMA Steps ==
  ASSUME NEW S, Inv(S), Next
  PROVE  \E T : Inv(T)'
<1>1. plan' = plan
  BY DEF Next
<1>2. CASE \E t \in Tokens : Ask(t) \/ CancelResponse(t) \/ CancelObservation(t) \/ BecomeLate(t)
  BY <1>1, <1>2, ClientAsks, ClientCancels
<1>3. CASE Deliver
  <2>1. PICK p, left : /\ p \in wire
                       /\ \/ TakeRequest(p, left)
                          \/ TakeDuplicate(p, left)
                          \/ \E n \in Nodes : TakeEmpty(n, p, left)
                          \/ TakeResponse(p, left)
    BY <1>3 DEF Deliver
  <2>2. CASE TakeRequest(p, left)
    BY <1>1, <2>1, <2>2, ServerTakesRequest
  <2>3. CASE TakeDuplicate(p, left)
    BY <1>1, <2>1, <2>3, ServerTakesDuplicate
  <2>4. CASE TakeEmpty("c", p, left)
    BY <1>1, <2>1, <2>4, ClientTakesEmpty
  <2>5. CASE TakeEmpty("s", p, left)
    BY <1>1, <2>1, <2>5, ServerTakesEmpty
  <2>6. CASE TakeResponse(p, left)
    BY <1>1, <2>1, <2>6, ClientTakesResponse
  <2> QED BY <2>1, <2>2, <2>3, <2>4, <2>5, <2>6 DEF Nodes
<1>4. CASE Timers
  <2>1. CASE \E x : TimeOut("c", x)
    BY <1>1, <2>1, ClientTimesOut
  <2>2. CASE \E x : TimeOut("s", x)
    BY <1>1, <2>2, ServerTimesOut
  <2>3. CASE \E t \in DOMAIN mm["s"].piggyback : AckTimer(t)
    BY <1>1, <2>3, ServerAcks
  <2> QED BY <1>4, <2>1, <2>2, <2>3 DEF Timers, Nodes
<1>5. CASE \E x \in DOMAIN mm["s"].recent_messages : Forget(x)
  BY <1>1, <1>5, ServerForgets
<1>6. CASE \E n \in Nodes : NetworkError(n) \/ Shutdown(n)
  BY <1>1, <1>6, ClientsNetworkFails, ServersNetworkFails DEF Nodes
<1>7. CASE Responder
  <2>1. PICK t \in DOMAIN pipes :
          Begin(t) \/ Render(t) \/ EndResponses(t) \/ Notify(t) \/ TakeTrigger(t)
    BY <1>7 DEF Responder
  <2>2. CASE Begin(t) \/ TakeTrigger(t)
    BY <1>1, <2>2, ServerBegins
  <2>3. CASE Render(t)
    BY <1>1, <2>3, ServerRenders
  <2>4. CASE EndResponses(t)
    BY <1>1, <2>4, ServerEnds
  <2>5. CASE Notify(t)
    BY <1>1, <2>5, ServerNotifies
  <2> QED BY <2>1, <2>2, <2>3, <2>4, <2>5
<1>8. CASE Update \/ CloseResource
  BY <1>1, <1>8, ServerUpdates
<1> QED BY <1>2, <1>3, <1>4, <1>5, <1>6, <1>7, <1>8 DEF Next

LEMMA Invariance == Spec => []IInv
<1>1. Init => IInv
  BY Starts
<1>2. IInv /\ [Next]_vars => IInv'
  <2> SUFFICES ASSUME IInv, [Next]_vars PROVE IInv'
    OBVIOUS
  <2>1. PICK S : Inv(S)
    BY DEF IInv
  <2>2. \E T : Inv(T)'
    BY <2>1, Steps, Stutters
  <2> QED BY <2>2 DEF IInv
<1> QED BY <1>1, <1>2, PTL DEF Spec

LEMMA NoneAndOne ==
  ASSUME NEW D, \A x, y \in D : x = y
  PROVE  Cardinality(D) <= 1
<1>1. CASE D = {}
  BY <1>1, FS_EmptySet
<1>2. CASE D # {}
  <2>1. PICK x \in D : D = {x}
    BY <1>2
  <2> QED BY <2>1, FS_Singleton
<1> QED BY <1>1, <1>2

LEMMA ManagerTyped ==
  ASSUME NEW T \in SUBSET Messages, NEW M, Manager(M, T, plan.tries), M.out = {},
         \A t \in DOMAIN M.piggyback : t \in Tokens /\ M.piggyback[t] \in Ids
  PROVE  ManagerType(M)
<1>1. Holds(M, T, plan.tries) /\ Confirmable(T) \subseteq Messages
  BY DEF Manager, Confirmable
<1>2. \A x \in DOMAIN M.active_exchanges :
        /\ M.active_exchanges[x].msg \in Messages
        /\ M.active_exchanges[x].tries \in 0 .. plan.tries
  BY <1>1 DEF Holds
<1>3. M.backlog \in Seq(Messages)
  <2>1. M.backlog \in Seq(Confirmable(T))
    BY <1>1 DEF Holds
  <2>2. \A i \in DOMAIN M.backlog : M.backlog[i] \in Confirmable(T)
    BY <2>1
  <2> QED BY <1>1, <2>1, <2>2
<1>4. \A x \in DOMAIN M.recent_messages : M.recent_messages[x] \in Messages \cup {NoMessage}
  BY <1>1 DEF Holds
<1>5. M.message_id \in Ids
  BY <1>1 DEF Holds
<1> QED BY <1>2, <1>3, <1>4, <1>5 DEF ManagerType, Ids

LEMMA Typed ==
  ASSUME NEW S, Inv(S)
  PROVE  TypeOK
<1>1. /\ mm = [n \in Nodes |-> mm[n]] /\ plan.tries \in Nat
      /\ Asks \cup Empties \in SUBSET Messages /\ S \in SUBSET Messages
      /\ version \in Nat /\ version # 0
  BY ClientsManager, ServersManager
<1>2. ManagerType(mm["c"])
  <2>1. Manager(mm["c"], Asks \cup Empties, plan.tries) /\ mm["c"].out = {}
        /\ DOMAIN mm["c"].piggyback = {}
    BY DEF Inv, ManagersRight
  <2> QED BY <1>1, <2>1, ManagerTyped
<1>3. ManagerType(mm["s"])
  <2>1. Manager(mm["s"], S, plan.tries) /\ mm["s"].out = {}
        /\ \A t \in DOMAIN mm["s"].piggyback :
             t \in Tokens /\ rendered[t] # 0 /\ mm["s"].piggyback[t] = MidOf(t)
    BY ServersManager
  <2>2. \A t \in DOMAIN mm["s"].piggyback : t \in Tokens /\ mm["s"].piggyback[t] \in Ids
    BY <2>1, MidsOfTokens
  <2> QED BY <1>1, <2>1, <2>2, ManagerTyped
<1>4. \A p \in wire : p.to \in Nodes /\ p.msg \in Messages
  <2>1. WireRight(S)
    BY DEF Inv
  <2> QED BY <1>1, <2>1 DEF WireRight, Nodes
<1>5. \A t \in Tokens :
       /\ requests[t].result \in {"new", "pending", "answered", "failed", "cancelled"}
       /\ requests[t].obs \in {"none", "on", "cancelled", "over"}
       /\ requests[t].last \in 0 .. plan.versions
  <2>1. plan.versions \in Nat /\ version <= plan.versions
    BY Planned, WindowIsNatural DEF Inv
  <2>2. \A t \in Tokens : requests[t] \in Requested /\ requests[t].last <= version
    BY OpenRequests DEF RequestRight
  <2> QED BY <1>1, <2>1, <2>2 DEF Requested
<1>6. \A t \in DOMAIN pipes : t \in Tokens /\ pipes[t].stage \in {"new", "render", "wait"}
  BY DEF Inv, PipesRight, PipeRight, Piped
<1>7. DOMAIN mm = Nodes
  BY <1>1
<1>8. version \in 1 .. plan.versions
  BY DEF Inv
<1> QED BY <1>2, <1>3, <1>4, <1>5, <1>6, <1>7, <1>8 DEF TypeOK, Nodes

\* The exchanges, the backlogs and the requests of both ends account for each other: at most
\* one exchange with a remote is open, messages wait only behind one (what _continue_backlog
\* and send_message assert), and every pending confirmable request is repeated, kept back
\* or has been rendered.
THEOREM ExchangeRight == Spec => []ExchangeInv
<1>1. IInv => ExchangeInv
  <2> SUFFICES ASSUME NEW S, Inv(S) PROVE ExchangeInv
    BY DEF IInv
  <2>1. OneExchange
    <3> SUFFICES ASSUME NEW n \in Nodes
                 PROVE  /\ Cardinality(DOMAIN mm[n].active_exchanges) <= 1
                        /\ mm[n].in_backlogs <=> DOMAIN mm[n].active_exchanges # {}
                        /\ mm[n].backlog # <<>> => mm[n].in_backlogs
      BY DEF OneExchange
    <3>1. PICK T : Manager(mm[n], T, plan.tries)
      BY ClientsManager, ServersManager DEF Nodes
    <3>2. \A x, y \in DOMAIN mm[n].active_exchanges : x = y
      BY <3>1 DEF Manager, Holds
    <3>3. Cardinality(DOMAIN mm[n].active_exchanges) <= 1
      BY <3>2, NoneAndOne
    <3> QED BY <3>1, <3>3 DEF Manager
  <2>2. Tracked
    BY DEF Inv
  <2> QED BY <2>1, <2>2, Typed DEF ExchangeInv
<1> QED BY <1>1, Invariance, PTL

\* Whatever updates do between a trigger, the rendering it asks for and the notification:
\* an observation that waits and was not triggered has sent the present state.
THEOREM UpdatesArrive == Spec => []NoLostUpdate
<1>1. IInv => NoLostUpdate
  BY DEF IInv, Inv, PipesRight, PipeRight, NoLostUpdate
<1> QED BY <1>1, Invariance, PTL

\* What a step does to the client's requests, and to what was rendered.
LEMMA Effects ==
  ASSUME NEW S, Inv(S), Next
  PROVE  \/ UNCHANGED <<requests, rendered>>
         \/ requests' = FailAll /\ UNCHANGED rendered
         \/ \E t \in Tokens : Ask(t) \/ CancelResponse(t) \/ CancelObservation(t) \/ BecomeLate(t)
         \/ \E p \in wire : \E left : TakeRequest(p, left) \/ TakeResponse(p, left)
<1>1. plan' = plan
  BY DEF Next
<1>2. CASE \E t \in Tokens : Ask(t) \/ CancelResponse(t) \/ CancelObservation(t) \/ BecomeLate(t)
  BY <1>2
<1>3. CASE Deliver
  <2>1. PICK p, left : /\ p \in wire
                       /\ \/ TakeRequest(p, left)
                          \/ TakeDuplicate(p, left)
                          \/ \E n \in Nodes : TakeEmpty(n, p, left)
                          \/ TakeResponse(p, left)
    BY <1>3 DEF Deliver
  <2>2. CASE TakeRequest(p, left) \/ TakeResponse(p, left)
    BY <2>1, <2>2
  <2>3. CASE TakeDuplicate(p, left)
    BY <2>3 DEF TakeDuplicate
  <2>4. CASE TakeEmpty("c", p, left)
    BY <1>1, <2>1, <2>4, ClientTakesEmpty
  <2>5. CASE TakeEmpty("s", p, left)
    BY <1>1, <2>1, <2>5, ServerTakesEmpty
  <2> QED BY <2>1, <2>2, <2>3, <2>4, <2>5 DEF Nodes
<1>4. CASE Timers
  <2>1. CASE \E x : TimeOut("c", x)
    BY <1>1, <2>1, ClientTimesOut
  <2>2. CASE \E x : TimeOut("s", x)
    BY <1>1, <2>2, ServerTimesOut
  <2>3. CASE \E t \in DOMAIN mm["s"].piggyback : AckTimer(t)
    BY <2>3 DEF AckTimer
  <2> QED BY <1>4, <2>1, <2>2, <2>3 DEF Timers, Nodes
<1>5. CASE \E x \in DOMAIN mm["s"].recent_messages : Forget(x)
  BY <1>5 DEF Forget
<1>6. CASE \E n \in Nodes : NetworkError(n) \/ Shutdown(n)
  BY <1>1, <1>6, ClientsNetworkFails, ServersNetworkFails DEF Nodes
<1>7. CASE Responder
  BY <1>7 DEF Responder, Begin, Render, EndResponses, Notify, TakeTrigger
<1>8. CASE Update \/ CloseResource
  BY <1>1, <1>8, ServerUpdates
<1> QED BY <1>2, <1>3, <1>4, <1>5, <1>6, <1>7, <1>8 DEF Next

\* A response changes the request it belongs to, and no other.
LEMMA Responses ==
  ASSUME NEW S, Inv(S), NEW p \in wire, NEW left, TakeResponse(p, left)
  PROVE  \/ UNCHANGED <<requests, rendered>>
         \/ \E t \in Tokens, m \in S :
              /\ Answers(m) /\ m.code = "RESP" /\ m.token = t /\ rendered[t] # 0
              /\ m \in Messages /\ m.val \in 0 .. version /\ m.obs <= version
              /\ requests[t].open /\ UNCHANGED rendered
              /\ requests' = [requests EXCEPT ![t] = Received(requests[t], m)]
<1>1. p.msg \in S /\ Answers(p.msg) /\ p.msg.code = "RESP"
  BY Arriving, ClientsManager DEF TakeResponse
<1>2. /\ p.msg.token \in Tokens /\ rendered[p.msg.token] # 0 /\ p.msg \in Messages
      /\ p.msg.val \in 0 .. version /\ p.msg.obs <= version
  BY <1>1 DEF Answers
<1>3. /\ UNCHANGED rendered
      /\ requests' = IF requests[p.msg.token].open
                       THEN [requests EXCEPT ![p.msg.token] = Received(requests[p.msg.token], p.msg)]
                       ELSE requests
  BY DEF TakeResponse
<1>4. CASE requests[p.msg.token].open
  <2> DEFINE m == p.msg
             t == m.token
  <2>1. requests' = [requests EXCEPT ![t] = Received(requests[t], m)]
    BY <1>3, <1>4
  <2> QED BY <1>1, <1>2, <1>3, <1>4, <2>1
<1>5. CASE ~ requests[p.msg.token].open
  BY <1>3, <1>5
<1> QED BY <1>4, <1>5

\* The state that an observation shows next is not older.
LEMMA NotOlder ==
  ASSUME NEW S, Inv(S), NEW t \in Tokens, NEW m \in S,
         Answers(m), m.code = "RESP", m.token = t, m \in Messages, m.val \in 0 .. version,
         m.obs <= version, requests[t].open
  PROVE  LET s == Received(requests[t], m)
         IN \/ s.last = 0 \/ requests[t].late
            \/ s.last \in Nat /\ requests[t].last <= s.last /\ s.last <= version
<1> DEFINE r == requests[t]
           s == Received(r, m)
<1>1. r \in Requested /\ RequestRight(t, r, S) /\ r.last \in Nat /\ r.v1 \in Nat
  BY OpenRequests DEF Requested
<1>2. version \in Nat /\ AnswersRight(S) /\ version <= Window /\ Window \in Nat
  BY ServersManager, Planned, WindowIsNatural DEF Inv
<1>3. r.result \in {"pending", "answered"} /\ r.open /\ r.last <= version
  BY <1>1 DEF RequestRight
<1>4. m.val \in Nat /\ m.obs \in Nat
  BY <1>2 DEF Messages
<1> HIDE DEF r
<1>5. CASE r.result = "pending"
  <2>1. s = FirstResponse(r, m)
    BY <1>5 DEF Received
  <2> HIDE DEF s
  <2>2. s.last = m.val
    BY <1>1, <2>1, AnsweredFirst
  <2>3. r.last = 0
    BY <1>1, <1>5 DEF RequestRight
  <2> QED BY <1>2, <1>4, <2>2, <2>3 DEF r, s
<1>6. CASE r.result = "answered"
  <2>1. s = Notification(r, m)
    BY <1>6 DEF Received
  <2> HIDE DEF s
  <2>2. \/ s.last = r.last /\ s.v1 = r.v1
        \/ s.last = m.val /\ m.obs = 0
        \/ s.last = m.val /\ s.v1 = m.obs /\ (IsRecent(r.v1, m.obs) \/ r.late)
    BY <1>1, <2>1, Notified
  <2>3. PICK w \in S : Notifies(w, t) /\ w.obs = r.v1 /\ w.val = r.last /\ r.kind.observe
    BY <1>1, <1>3, <1>6 DEF RequestRight
  <2>4. r.kind = plan.kinds[t]
    BY <1>1 DEF RequestRight
  <2>5. CASE s.last = r.last
    BY <1>1, <1>3, <2>5 DEF r, s
  <2>6. CASE s.last = m.val /\ m.obs = 0
    <3>1. m.val = 0
      BY <2>3, <2>4, <2>6 DEF Answers
    <3> QED BY <2>6, <3>1 DEF r, s
  <2>7. CASE s.last = m.val /\ s.v1 = m.obs /\ IsRecent(r.v1, m.obs) /\ m.obs # 0
    <3>1. w.obs \in Nat /\ w.obs <= version
      BY <1>2, <2>3 DEF AnswersRight, Answers, Notifies, Messages
    <3>2. r.v1 < m.obs
      BY <1>1, <1>2, <1>4, <2>3, <2>7, <3>1 DEF IsRecent
    <3>3. Notifies(m, t) /\ w.obs <= m.obs
      BY <1>4, <2>3, <2>7, <3>1, <3>2 DEF Notifies
    <3>4. w.val <= m.val
      BY <1>2, <2>3, <3>3 DEF AnswersRight, Ordered
    <3> QED BY <1>2, <1>4, <2>3, <2>7, <3>4 DEF r, s
  <2>8. CASE r.late
    BY <2>8 DEF r, s
  <2> QED BY <2>2, <2>5, <2>6, <2>7, <2>8
<1> QED BY <1>3, <1>5, <1>6

LEMMA Fresher ==
  ASSUME NEW S, Inv(S), Next
  PROVE  \A t \in Tokens : requests'[t].last \in {0} \cup requests[t].last .. plan.versions
                             \/ requests[t].late
<1>1. plan' = plan
  BY DEF Next
<1>2. version \in Nat /\ plan.versions \in Nat /\ version <= plan.versions
  BY ServersManager, Planned, WindowIsNatural DEF Inv
<1>3. \A t \in Tokens : requests[t].last \in 0 .. version
  <2>1. \A t \in Tokens : requests[t] \in Requested /\ requests[t].last <= version
    BY OpenRequests DEF RequestRight
  <2> QED BY <1>2, <2>1 DEF Requested
<1>4. ASSUME \A t \in Tokens : requests'[t].last = requests[t].last
      PROVE  \A t \in Tokens : requests'[t].last \in requests[t].last .. plan.versions
  BY <1>2, <1>3, <1>4
<1>5. CASE UNCHANGED <<requests, rendered>>
  BY <1>4, <1>5
<1>6. CASE requests' = FailAll /\ UNCHANGED rendered
  <2>1. ASSUME NEW t \in Tokens PROVE requests'[t].last = requests[t].last
    <3>1. requests[t] \in Requested /\ requests[t].open \in BOOLEAN
      BY OpenRequests
    <3>2. requests'[t] = IF requests[t].open THEN Failed(requests[t]) ELSE requests[t]
      BY <1>6 DEF FailAll
    <3> QED BY <3>1, <3>2, Fails
  <2> QED BY <1>4, <2>1
<1>7. CASE \E t \in Tokens : Ask(t) \/ CancelResponse(t) \/ CancelObservation(t) \/ BecomeLate(t)
  <2>1. PICK t \in Tokens : Ask(t) \/ CancelResponse(t) \/ CancelObservation(t) \/ BecomeLate(t)
    BY <1>7
  <2>2. requests \in [Tokens -> Requested] /\ requests[t] \in Requested
    BY OpenRequests DEF Inv, RequestsRight
  <2>3. PICK r : requests' = [requests EXCEPT ![t] = r] /\ r.last = requests[t].last
    <3>1. CASE Ask(t)
      <4>1. PICK r : r = [requests[t] EXCEPT !.result = "pending", !.open = TRUE]
        OBVIOUS
      <4>2. requests' = [requests EXCEPT ![t] = r]
        BY <3>1, <4>1 DEF Ask
      <4>3. r.last = requests[t].last
        BY <2>2, <4>1 DEF Requested
      <4> QED BY <4>2, <4>3
    <3>2. CASE CancelResponse(t)
      <4>1. PICK r : r = [requests[t] EXCEPT !.result = "cancelled", !.open = FALSE]
        OBVIOUS
      <4>2. requests' = [requests EXCEPT ![t] = r]
        BY <3>2, <4>1 DEF CancelResponse
      <4>3. r.last = requests[t].last
        BY <2>2, <4>1 DEF Requested
      <4> QED BY <4>2, <4>3
    <3>3. CASE CancelObservation(t)
      <4>1. PICK r : r = [requests[t] EXCEPT !.obs = "cancelled"]
        OBVIOUS
      <4>2. requests' = [requests EXCEPT ![t] = r]
        BY <3>3, <4>1 DEF CancelObservation
      <4>3. r.last = requests[t].last
        BY <2>2, <4>1 DEF Requested
      <4> QED BY <4>2, <4>3
    <3>4. CASE BecomeLate(t)
      <4>1. PICK r : r = [requests[t] EXCEPT !.late = TRUE]
        OBVIOUS
      <4>2. requests' = [requests EXCEPT ![t] = r]
        BY <3>4, <4>1 DEF BecomeLate
      <4>3. r.last = requests[t].last
        BY <2>2, <4>1 DEF Requested
      <4> QED BY <4>2, <4>3
    <3> QED BY <2>1, <3>1, <3>2, <3>3, <3>4
  <2>4. \A u \in Tokens : requests'[u].last = requests[u].last
    BY <2>2, <2>3
  <2> QED BY <1>4, <2>4
<1>8. CASE \E p \in wire : \E left : TakeRequest(p, left) \/ TakeResponse(p, left)
  <2>1. PICK p, left : p \in wire /\ (TakeRequest(p, left) \/ TakeResponse(p, left))
    BY <1>8
  <2>2. CASE TakeRequest(p, left)
    BY <1>4, <2>2 DEF TakeRequest
  <2>3. CASE TakeResponse(p, left)
    <3>1. CASE UNCHANGED <<requests, rendered>>
      BY <1>4, <3>1
    <3>2. CASE ~ UNCHANGED <<requests, rendered>>
      <4>1. PICK t \in Tokens, m \in S :
              /\ Answers(m) /\ m.code = "RESP" /\ m.token = t /\ rendered[t] # 0
              /\ m \in Messages /\ m.val \in 0 .. version /\ m.obs <= version
              /\ requests[t].open /\ UNCHANGED rendered
              /\ requests' = [requests EXCEPT ![t] = Received(requests[t], m)]
        BY <2>1, <2>3, <3>2, Responses
      <4> DEFINE s == Received(requests[t], m)
      <4>2. \/ s.last = 0 \/ requests[t].late
            \/ s.last \in Nat /\ requests[t].last <= s.last /\ s.last <= version
        BY <4>1, NotOlder
      <4>3. requests' = [requests EXCEPT ![t] = s]
        BY <4>1
      <4> HIDE DEF s
      <4>4. requests'[t] = s /\ \A u \in Tokens : u # t => requests'[u] = requests[u]
        BY <4>3 DEF Inv, RequestsRight
      <4> QED BY <1>2, <1>3, <4>2, <4>4
    <3> QED BY <3>1, <3>2
  <2> QED BY <2>1, <2>2, <2>3
<1> QED BY <1>5, <1>6, <1>7, <1>8, Effects

\* Late, repeated and reordered notifications never take an observer back to a state it
\* has seen a successor of: what ClientObservation delivers is in the order of the updates.
THEOREM FreshStates == Spec => Fresh
<1>1. IInv /\ [Next]_vars =>
        [\A t \in Tokens : requests'[t].last \in {0} \cup requests[t].last .. plan.versions
                             \/ requests[t].late]_vars
  BY Fresher DEF IInv
<1> QED BY <1>1, Invariance, PTL DEF Spec, Fresh

\* The client's requests in the terms of RequestService.
LEMMA Settles ==
  ASSUME NEW S, Inv(S), Next
  PROVE  [Service!Next]_(Service!vars)
<1> DEFINE status == [t \in Tokens |-> requests[t].result]
<1>1. plan' = plan
  BY DEF Next
<1>2. /\ requests \in [Tokens -> Requested] /\ rendered \in [Tokens -> {0, 1}]
      /\ \A t \in Tokens : requests[t] \in Requested
  BY OpenRequests DEF Inv, RequestsRight
<1>3. ASSUME \A t \in Tokens : requests'[t].result = requests[t].result, UNCHANGED rendered
      PROVE  [Service!Next]_(Service!vars)
  <2>1. status' = status
    BY <1>3
  <2> QED BY <1>3, <2>1 DEF Service!vars
<1>4. CASE UNCHANGED <<requests, rendered>>
  BY <1>3, <1>4
<1>5. CASE requests' = FailAll /\ UNCHANGED rendered
  <2>1. PICK lost \in SUBSET Tokens :
          lost = {t \in Tokens : requests[t].open /\ requests[t].result = "pending"}
    OBVIOUS
  <2>2. ASSUME NEW t \in Tokens
        PROVE  requests'[t].result = IF t \in lost THEN "failed" ELSE requests[t].result
    <3>1. requests[t] \in Requested /\ requests[t].open \in BOOLEAN
      BY OpenRequests
    <3>2. requests'[t] = IF requests[t].open THEN Failed(requests[t]) ELSE requests[t]
      BY <1>5 DEF FailAll
    <3> QED BY <2>1, <3>1, <3>2, Fails
  <2>3. status' = [t \in Tokens |-> IF t \in lost THEN "failed" ELSE status[t]]
    BY <2>2
  <2>4. \A t \in lost : status[t] = "pending"
    BY <2>1
  <2>5. Service!Fail(lost)
    BY <1>5, <2>3, <2>4 DEF Service!Fail
  <2> QED BY <2>5 DEF Service!Next
<1>6. CASE \E t \in Tokens : Ask(t) \/ CancelResponse(t) \/ CancelObservation(t) \/ BecomeLate(t)
  <2>1. PICK t \in Tokens : Ask(t) \/ CancelResponse(t) \/ CancelObservation(t) \/ BecomeLate(t)
    BY <1>6
  <2>2. UNCHANGED rendered
    BY <2>1 DEF Ask, CancelResponse, CancelObservation, BecomeLate
  <2>3. CASE Ask(t)
    <3>1. PICK r \in Requested : requests' = [requests EXCEPT ![t] = r] /\ r.result = "pending"
      BY <1>1, <2>3, AsksNext
    <3>2. requests[t].result = "new"
      BY <1>1, <2>3, AsksNext
    <3>3. status' = [status EXCEPT ![t] = "pending"] /\ status[t] = "new"
      BY <1>2, <3>1, <3>2
    <3>4. Service!Ask(t)
      BY <2>2, <3>3 DEF Service!Ask
    <3> QED BY <3>4 DEF Service!Next
  <2>4. CASE CancelResponse(t)
    <3>1. PICK r : r = [requests[t] EXCEPT !.result = "cancelled", !.open = FALSE]
      OBVIOUS
    <3>2. requests' = [requests EXCEPT ![t] = r] /\ requests[t].result = "pending"
      BY <2>4, <3>1 DEF CancelResponse
    <3>3. r.result = "cancelled"
      BY <1>2, <3>1 DEF Requested
    <3>4. status' = [status EXCEPT ![t] = "cancelled"] /\ status[t] = "pending"
      BY <1>2, <3>2, <3>3
    <3>5. Service!Withdraw(t)
      BY <2>2, <3>4 DEF Service!Withdraw
    <3> QED BY <3>5 DEF Service!Next
  <2>5. CASE CancelObservation(t) \/ BecomeLate(t)
    <3>1. PICK r : requests' = [requests EXCEPT ![t] = r] /\ r.result = requests[t].result
      <4>1. CASE CancelObservation(t)
        <5>1. PICK r : r = [requests[t] EXCEPT !.obs = "cancelled"]
          OBVIOUS
        <5>2. requests' = [requests EXCEPT ![t] = r]
          BY <4>1, <5>1 DEF CancelObservation
        <5>3. r.result = requests[t].result
          BY <1>2, <5>1 DEF Requested
        <5> QED BY <5>2, <5>3
      <4>2. CASE BecomeLate(t)
        <5>1. PICK r : r = [requests[t] EXCEPT !.late = TRUE]
          OBVIOUS
        <5>2. requests' = [requests EXCEPT ![t] = r]
          BY <4>2, <5>1 DEF BecomeLate
        <5>3. r.result = requests[t].result
          BY <1>2, <5>1 DEF Requested
        <5> QED BY <5>2, <5>3
      <4> QED BY <2>5, <4>1, <4>2
    <3>2. \A u \in Tokens : requests'[u].result = requests[u].result
      BY <1>2, <3>1
    <3> QED BY <1>3, <2>2, <3>2
  <2> QED BY <2>1, <2>3, <2>4, <2>5
<1>7. CASE \E p \in wire : \E left : TakeRequest(p, left)
  <2>1. PICK p, left : p \in wire /\ TakeRequest(p, left)
    BY <1>7
  <2>2. PICK t \in Tokens : t = p.msg.token
    BY <2>1, NewRequest
  <2>3. rendered[t] = 0 /\ requests[t].result # "new"
    BY <2>1, <2>2, NewRequest
  <2>4. requests' = requests /\ rendered' = [rendered EXCEPT ![t] = rendered[t] + 1]
    BY <2>1, <2>2 DEF TakeRequest
  <2>5. rendered' = [rendered EXCEPT ![t] = 1] /\ status' = status /\ status[t] # "new"
    BY <2>3, <2>4
  <2>6. Service!Serve(t)
    BY <2>3, <2>5 DEF Service!Serve
  <2> QED BY <2>6 DEF Service!Next
<1>8. CASE \E p \in wire : \E left : TakeResponse(p, left)
  <2>1. PICK p, left : p \in wire /\ TakeResponse(p, left)
    BY <1>8
  <2>2. CASE UNCHANGED <<requests, rendered>>
    BY <1>3, <2>2
  <2>3. CASE ~ UNCHANGED <<requests, rendered>>
    <3>1. PICK t \in Tokens, m \in S :
            /\ Answers(m) /\ m.code = "RESP" /\ m.token = t /\ rendered[t] # 0
            /\ m \in Messages /\ m.val \in 0 .. version /\ m.obs <= version
            /\ requests[t].open /\ UNCHANGED rendered
            /\ requests' = [requests EXCEPT ![t] = Received(requests[t], m)]
      BY <2>1, <2>3, Responses
    <3> DEFINE s == Received(requests[t], m)
    <3>2. requests' = [requests EXCEPT ![t] = s]
      BY <3>1
    <3>3. requests[t].result \in {"pending", "answered"} /\ requests[t] \in Requested
      BY <3>1, OpenRequests DEF RequestRight
    <3>4. CASE requests[t].result = "pending"
      <4>1. s = FirstResponse(requests[t], m)
        BY <3>4 DEF Received
      <4> HIDE DEF s
      <4>2. s.result = "answered"
        BY <3>1, <3>3, <4>1, AnsweredFirst
      <4>3. status' = [status EXCEPT ![t] = "answered"] /\ status[t] = "pending"
        BY <1>2, <3>2, <3>4, <4>2
      <4>4. rendered[t] = 1
        BY <1>2, <3>1
      <4>5. Service!Answer(t)
        BY <3>1, <4>3, <4>4 DEF Service!Answer
      <4> QED BY <4>5 DEF Service!Next
    <3>5. CASE requests[t].result = "answered"
      <4>1. s = Notification(requests[t], m)
        BY <3>5 DEF Received
      <4> HIDE DEF s
      <4>2. s.result = requests[t].result
        BY <3>1, <3>3, <4>1, Notified
      <4>3. \A u \in Tokens : requests'[u].result = requests[u].result
        BY <1>2, <3>2, <4>2
      <4> QED BY <1>3, <3>1, <4>3
    <3> QED BY <3>3, <3>4, <3>5
  <2> QED BY <2>2, <2>3
<1> QED BY <1>4, <1>5, <1>6, <1>7, <1>8, Effects

\* The whole of message layer, token layer, pipes and observations implements the service:
\* a request is rendered at most once whatever is repeated, an answer is the answer to a
\* request that was rendered, and no request is settled twice.
THEOREM ServiceRefined == Spec => ImplementsService
<1>1. Init => Service!Init
  <2> SUFFICES ASSUME Init PROVE Service!Init
    OBVIOUS
  <2>1. \A t \in Tokens : requests[t].result = "new"
    BY DEF Init, Unasked
  <2> QED BY <2>1 DEF Init, Service!Init
<1>2. IInv /\ [Next]_vars => [Service!Next]_(Service!vars)
  <2> SUFFICES ASSUME IInv, [Next]_vars PROVE [Service!Next]_(Service!vars)
    OBVIOUS
  <2>1. CASE Next
    BY <2>1, Settles DEF IInv
  <2>2. CASE UNCHANGED vars
    BY <2>2 DEF vars, Service!vars
  <2> QED BY <2>1, <2>2
<1> QED BY <1>1, <1>2, Invariance, PTL DEF Spec, ImplementsService, Service!Spec
=============================================================================
