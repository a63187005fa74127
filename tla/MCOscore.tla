------------------------------ MODULE MCOscore ------------------------------
(* OscoreSessions, the exchange that sets up contexts (EdhocExchange), and the transports below
   (DatagramTransport), on small instances, each in a part of its own. *)
EXTENDS OscoreSessions, DatagramTransport

VARIABLES
  part,
  scene, maps, context, request, harm                   \* EdhocExchange

MCPeers == {"c", "s"}
MCRequests == {1, 2, 3}
Plan(calls, serial, full, bound) ==
  [calls |-> calls, serial |-> serial, full |-> full, faults |-> bound]
Call(from, notes) == [from |-> from, notes |-> notes]
NoCall == Call("none", 0)
Quiet == Plan(<<NoCall, NoCall, NoCall>>, FALSE, FALSE, 0)
\* Two requests of one peer at once, and three one after the other; one in each direction;
\* an observation; a disk that fills up.
MCPlans ==
  { Plan(<<Call("c", 0), Call("c", 0), NoCall>>, FALSE, FALSE, 1),
    Plan(<<Call("c", 0), Call("c", 0), Call("c", 0)>>, TRUE, FALSE, 1),
    Plan(<<Call("c", 0), Call("c", 0), NoCall>>, TRUE, FALSE, 2),
    Plan(<<Call("c", 0), Call("s", 0), NoCall>>, FALSE, FALSE, 2),
    Plan(<<Call("c", 2), NoCall, NoCall>>, FALSE, FALSE, 2),
    Plan(<<Call("c", 0), Call("c", 0), NoCall>>, TRUE, TRUE, 2),
    Quiet }

Host(address, zone) == [address |-> address, zone |-> zone]
Asked(scheme, host) == [scheme |-> scheme, host |-> host]
Unasked == Asked("none", Host("none", 0))
Setting(interfaces, asks, visitors, ends, bound, errors) ==
  [interfaces |-> interfaces, asks |-> asks, visitors |-> visitors, ends |-> ends,
   mishaps |-> bound, errors |-> errors]
\* The interfaces of a Linux client, with two zones of one address; of another client, with one
\* socket fewer than hosts; DTLS alone, with two requests to one host; all of them ended, with
\* requests on the way; a DTLS server that also sends a request; a server without udp6.
MCSettings ==
  LET h == Host("h", 0)
      i == Host("h", 1)
      j == Host("j", 0)
  IN { Setting(ClientTransports(TRUE), <<Asked("coap", h), Asked("coap", i), Asked("coaps", h)>>, {}, FALSE, 1, 2),
       Setting(ClientTransports(FALSE), <<Asked("coap", h), Asked("coap", j), Asked("coap", h)>>, {}, FALSE, 1, 1),
       Setting(ClientTransports(FALSE), <<Asked("coap", h), Asked("coap", j), Asked("coap", h)>>, {}, TRUE, 0, 0),
       Setting(ClientTransports(TRUE), <<Asked("coaps", h), Asked("coaps", h), Unasked>>, {}, FALSE, 2, 1),
       Setting(ClientTransports(TRUE), <<Asked("coaps", h), Asked("coaps", h), Asked("coaps", j)>>, {}, TRUE, 0, 0),
       Setting(ClientTransports(TRUE), <<Asked("coap", h), Unasked, Asked("coaps", h)>>, {}, TRUE, 1, 0),
       Setting(ServerTransports(TRUE, TRUE), <<Asked("coap", h), Unasked, Unasked>>, {h, j}, TRUE, 1, 0),
       Setting(<<"simplesocketserver">>, <<Asked("coap", h), Asked("coap", i), Asked("coaps", h)>>, {}, TRUE, 1, 1) }
MCLinks == {"k1", "k2", "k3"}
ASSUME SomeLinks == DatagramAssumption

Own(owner, kid, style) == [own |-> [owner |-> owner, kid |-> kid], style |-> style, key |-> "file"]
Nobody == [own |-> [owner |-> "none", kid |-> 0], style |-> "none", key |-> "none"]
Anonymous == [own |-> [owner |-> "anyone", kid |-> 0], style |-> "none", key |-> "none"]
Peer(owner, kid) == [owner |-> owner, kid |-> kid]
Edhoc(own, peer, combined) ==
  [type |-> "edhoc-oscore", own |-> own.own, style |-> own.style, key |-> own.key, peer |-> peer,
   combined |-> combined]
Oscore(kid, with) == [type |-> "oscore", recipient |-> kid, context |-> with]
Dtls(identity, psk) == [type |-> "dtls", identity |-> identity, psk |-> psk]
Reference(key) == [type |-> "reference", target |-> key, colon |-> TRUE]
Of(type) == [type |-> type]
E(key, item) == [key |-> key, item |-> item]

\* The patterns of one host, and the names of other entries.
MCLength ==
  [k \in {"*", "coap://s/*", "coap://s/a*", "coaps://s/*", "coaps+tcp://s/*", "coaps+tcp://*",
          ":c", ":d", ":any", ":more", ":psk", ":edhoc", ":1", ":2", ":3"} |->
     CASE k = "*" -> 1 [] k = "coaps+tcp://s/*" -> 15 [] k = "coaps+tcp://*" -> 13
       [] k \in {"coaps://s/*", "coap://s/a*"} -> 11 [] OTHER -> 10]
MCCovers ==
  [k \in DOMAIN MCLength |->
     CASE k = "*" -> {"a", "b", "a over DTLS"} [] k = "coap://s/*" -> {"a", "b"}
       [] k = "coap://s/a*" -> {"a"} [] k = "coaps://s/*" -> {"a over DTLS"} [] OTHER -> {}]
To(uri) == [scheme |-> "coap", uri |-> uri, after |-> 0, key |-> "*"]
After(r) == [scheme |-> "coap", uri |-> "a", after |-> r, key |-> "*"]
Over(scheme) == [scheme |-> scheme, uri |-> "a over DTLS", after |-> 0, key |-> "coaps+tcp://s/*"]
NotCalled == [scheme |-> "none", uri |-> "a", after |-> 0, key |-> "*"]
Scene(client, server, reload, calls, agree, harms) ==
  [files |-> [client |-> client, server |-> server],
   reload |-> reload, calls |-> calls, agree |-> agree, harms |-> harms,
   origin |-> "coap://s/*"]
Never == [client |-> <<>>, server |-> <<>>]
StillScene == Scene(<<>>, <<>>, Never, <<NotCalled, NotCalled, NotCalled>>, FALSE, 0)
MCScenes ==
  LET anyone == Peer("anyone", 0)
      c == Own("c", 2, "by-key-id")
      d == Own("d", 2, "by-key-id")
      byValue == Own("c", 2, "by-value")
      Server(style) == E("coap://s/*", Edhoc(Own("s", 1, style), Peer("none", 0), TRUE))
      KnowsC == E(":c", Edhoc(Nobody, Peer("c", 2), TRUE))
      KnowsD == E(":d", Edhoc(Nobody, Peer("d", 2), TRUE))
      Anyone(key) == E(key, Edhoc(Nobody, anyone, TRUE))
  IN { \* Both know each other: combined, with a follow-up; explicit, until the identifiers run out.
       Scene(<<E("coap://s/*", Edhoc(c, Peer("s", 1), TRUE))>>, <<Server("by-key-id"), KnowsC>>,
             Never, <<To("a"), To("b"), After(1)>>, TRUE, 2),
       Scene(<<E("coap://s/*", Edhoc(byValue, Peer("s", 1), FALSE))>>, <<Server("by-value"), KnowsC>>,
             Never, <<To("a"), To("b"), To("a")>>, TRUE, 2),
       \* A client for whom a key is generated, beside a context from a file; its entry is removed.
       Scene(<<E("coap://s/*", Edhoc(Anonymous, anyone, TRUE))>>,
             <<Server("by-value"), Anyone(":any"), E(":c", Oscore(22, FALSE))>>,
             [Never EXCEPT !.server = <<E(":any", [type |-> "null"])>>],
             <<To("a"), After(1), To("b")>>, FALSE, 1),
       Scene(<<E("coap://s/*", Edhoc(Anonymous, anyone, FALSE))>>,
             <<Server("by-value"), E(":d", Oscore(23, TRUE)), Anyone(":any")>>,
             [Never EXCEPT !.server = <<E(":c", Oscore(22, FALSE))>>],
             <<To("a"), To("b"), NotCalled>>, TRUE, 1),
       \* A server that names its key only to a client that has never seen it.
       Scene(<<E("coap://s/*", Edhoc(c, anyone, TRUE))>>, <<Server("by-key-id"), KnowsC>>,
             Never, <<To("a"), NotCalled, NotCalled>>, FALSE, 0),
       \* Two clients with one kid; a client nobody knows, with one and with two entries for anyone.
       Scene(<<E("coap://s/*", Edhoc(c, Peer("s", 1), TRUE)), E("coap://s/a*", Edhoc(d, Peer("s", 1), FALSE))>>,
             <<Server("by-key-id"), KnowsC, KnowsD>>, Never, <<To("a"), To("b"), After(2)>>, FALSE, 1),
       Scene(<<E("*", Edhoc(c, Peer("s", 1), TRUE))>>, <<Server("by-value"), Anyone(":any")>>,
             [client |-> <<E("*", Edhoc(byValue, Peer("s", 1), TRUE))>>,
              server |-> <<Anyone(":more")>>], <<To("a"), To("b"), NotCalled>>, FALSE, 0),
       \* Files with entries that are not accepted; a server without an identity, or a key of its own.
       Scene(<<E("*", Edhoc(c, Peer("t", 1), TRUE)), E(":d", Of("unknown")), E("coap://s/a*", Reference("*"))>>,
             <<KnowsC, E(":d", Of("list"))>>,
             [client |-> <<E("coap://s/a*", Reference("*")), E(":psk", Of("all-of"))>>,
              server |-> <<E("coap://s/*", Edhoc(Nobody, anyone, TRUE)), E(":any", Edhoc([c EXCEPT !.key = "both"], anyone, TRUE)),
                           Server("by-value")>>],
             <<To("a"), To("b"), NotCalled>>, FALSE, 0),
       Scene(<<E("*", Edhoc(c, Peer("t", 1), TRUE))>>, <<Server("by-value"), KnowsC>>,
             Never, <<To("a"), NotCalled, NotCalled>>, FALSE, 0),
       \* Other transports, by references; a reference to credentials for EDHOC.
       Scene(<<E("coaps://s/*", Reference(":psk")), E(":psk", Dtls("c", 1)), E("coaps+tcp://*", Of("tlscert")),
               E("coap://s/a*", Reference(":edhoc")), E(":edhoc", Edhoc(c, Peer("s", 1), TRUE))>>,
             <<E(":d", Dtls("d", 2)), E(":c", Reference(":psk")), E(":psk", Dtls("c", 1))>>,
             [client |-> <<E("coaps+tcp://s/*", Of("tlscert")), E(":psk", [type |-> "null"])>>,
              server |-> <<E(":d", Reference(":c")), E(":psk", Reference(":d"))>>],
             <<Over("coaps"), Over("coaps+tcp"), To("a")>>, FALSE, 0) }
ED == INSTANCE EdhocExchange WITH
        Length <- MCLength, Covers <- MCCovers, Requests <- MCRequests, InitiatorIds <- {21},
        Candidates <- <<21, 22, 23>>, Uuid <- <<":1", ":2", ":3">>,
        EdhocSettings <- MCScenes \cup {StillScene}
edhocVars == <<scene, maps, context, request, harm>>

IdleDatagrams == InitDatagrams /\ setting = CHOOSE s \in MCSettings : TRUE
IdleEdhoc == ED!InitEdhoc /\ scene = StillScene
MCInit ==
  \/ part = "sessions" /\ Init /\ plan # Quiet /\ IdleDatagrams /\ IdleEdhoc
  \/ part = "datagrams" /\ Init /\ plan = Quiet /\ InitDatagrams /\ IdleEdhoc
  \/ part = "edhoc" /\ Init /\ plan = Quiet /\ IdleDatagrams /\ ED!InitEdhoc /\ scene # StillScene
MCNext ==
  /\ UNCHANGED part
  /\ \/ part = "sessions" /\ Next /\ UNCHANGED <<datagramVars, edhocVars>>
     \/ part = "datagrams" /\ NextDatagrams /\ UNCHANGED <<vars, edhocVars>>
     \/ part = "edhoc" /\ ED!NextEdhoc /\ UNCHANGED <<vars, datagramVars>>
MCSpec == MCInit /\ [][MCNext]_<<part, vars, datagramVars, edhocVars>> /\ Fairness

\* The safety of the exchanges of EDHOC.
EdhocInv == ED!EdhocInv
==============================================================================
