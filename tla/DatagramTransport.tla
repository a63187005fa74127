-------------------------- MODULE DatagramTransport --------------------------
(***************************************************************************)
(* aiocoap's message interfaces over datagrams, as one context has them    *)
(* side by side: UDP through a single socket (transports/udp6.py, with     *)
(* util/asyncio/recvmsg.py), through one connected socket per host         *)
(* (simple6.py) and through one server socket (simplesocketserver.py),     *)
(* and DTLS as client (tinydtls.py) and as server (tinydtls_server.py).    *)
(* What the message layer does between them and the requests is            *)
(* MessageManager; here a message that is not answered runs into its       *)
(* time-out, and an error goes to all that waits for its remote.           *)
(*                                                                         *)
(* A remote is a socket or session, by identity (a link), or an address by *)
(* value; of an address, udp6 does not compare the zone.                   *)
(***************************************************************************)
EXTENDS Integers, Sequences, SequencesExt, FiniteSets

CONSTANTS
  Links,        \* names of the sockets and sessions there may be
  Asks,         \* names of the requests sent
  max_sockets,
  Settings      \* each has the interfaces in the order of request_interfaces, what is asked
                \* (a scheme and a host each), the visitors of a DTLS server, whether the context
                \* is shut down, and bounds on mishaps and on errors

VARIABLES
  setting,
  link,     \* per link, its socket or session
  sockets,  \* per interface, its pool: links, the one that was not used for longest first
  ask,      \* per request, its state and remote
  ended,    \* the interfaces that have been shut down
  struck,   \* history: the remotes that errors were dispatched for
  mishaps

datagramVars == <<setting, link, sockets, ask, ended, struck, mishaps>>

Kinds == {"udp6", "simple6", "simplesocketserver", "tinydtls", "tinydtls_server"}
NoLink == "none"
NoHost == [address |-> "none", zone |-> 0]
Unopened ==
  [phase |-> "unused", kind |-> "none", host |-> NoHost, queue |-> <<>>, written |-> <<>>,
   handed |-> <<>>, beside |-> {}, rendering |-> FALSE]
Remote(kind, k, host) == [kind |-> kind, link |-> k, host |-> host]
Nowhere == Remote("none", NoLink, NoHost)

InitDatagrams ==
  /\ setting \in Settings
  /\ link = [k \in Links |-> Unopened]
  /\ sockets = [kind \in Kinds |-> <<>>]
  /\ ask = [r \in Asks |-> [state |-> "new", to |-> Nowhere, since |-> 0]]
  /\ ended = {} /\ struck = <<>> /\ mishaps = 0

Mishap == mishaps < setting.mishaps /\ mishaps' = mishaps + 1
Spare == {k \in Links : link[k].phase = "unused"}
Starting == {k \in Links : link[k].phase \in {"opening", "handshake"}}
PoolOf(kind, host) == {k \in ToSet(sockets[kind]) : link[k].host = host}

\* __eq__ of the address classes.
Same(v, w) ==
  /\ v.kind = w.kind
  /\ CASE v.kind = "udp6" -> v.host.address = w.host.address
       [] v.kind = "simplesocketserver" -> v.host = w.host
       [] OTHER -> v.link = w.link

\* The interfaces of a context, in order, where the modules for DTLS are installed.
ClientTransports(linux) == <<"tinydtls", IF linux THEN "udp6" ELSE "simple6">>
ServerTransports(linux, dtls_server) ==
  (IF dtls_server THEN <<"tinydtls_server">> ELSE <<>>)
    \o <<"tinydtls">> \o (IF linux THEN <<"udp6">> ELSE <<"simple6", "simplesocketserver">>)

\* Context.find_remote_and_interface: the first interface whose determine_remote knows the scheme.
Takes(kind, scheme) == scheme = IF kind = "tinydtls" THEN "coaps" ELSE "coap"
Doors(r) == SelectSeq(setting.interfaces, LAMBDA kind : Takes(kind, setting.asks[r].scheme))
Door(r) == IF Doors(r) = <<>> THEN "none" ELSE Head(Doors(r))
HostOf(r) == setting.asks[r].host

Failed(a) == [a EXCEPT !.state = "failed"]
WaitFor(r, v) == ask' = [ask EXCEPT ![r] = [state |-> "waiting", to |-> v, since |-> 0]]
\* TokenManager.request: registered under the remote, or refused after a shutdown.
Registered(v) ==
  [state |-> IF v.kind \in ended THEN "failed" ELSE "open", to |-> v, since |-> Len(struck)]

\* dispatch_error: everything that waits for this remote fails.
Struck(a) == [a EXCEPT !.state = "struck"]
\* Mutant: an address of the same host counts, however it was reached.
StrikesHost(v) ==
  [r \in Asks |-> IF ask[r].state = "open" /\ ask[r].to.host = v.host
                    THEN Struck(ask[r]) ELSE ask[r]]
Strikes(v) ==
  [r \in Asks |-> IF ask[r].state = "open" /\ Same(ask[r].to, v) THEN Struck(ask[r]) ELSE ask[r]]
Strike(v) == struck' = Append(struck, v) /\ ask' = Strikes(v)

-----------------------------------------------------------------------------
\* determine_remote where it refuses: no interface for the scheme, one that is shut down, and a
\* DTLS server, which claims coap:// and then cannot connect.
New(r) == ask[r].state = "new" /\ setting.asks[r].scheme # "none"
Refused(r) ==
  /\ New(r)
  /\ Door(r) \in {"none", "tinydtls_server"} \cup (ended \ {"udp6"})
  /\ ask' = [ask EXCEPT ![r] = Failed(@)]
  /\ UNCHANGED <<setting, link, sockets, ended, struck, mishaps>>

\* udp6 and simplesocketserver look the name up ...
LookUp(r) ==
  /\ New(r)
  /\ Door(r) \in {"udp6", "simplesocketserver"} /\ (Door(r) \in ended => Door(r) = "udp6")
  /\ WaitFor(r, Remote(Door(r), NoLink, HostOf(r)))
  /\ UNCHANGED <<setting, link, sockets, ended, struck, mishaps>>

\* ... and send, or find nothing.
LookingUp(r) == ask[r].state = "waiting" /\ ask[r].to.link = NoLink
Resolved(r) ==
  /\ LookingUp(r)
  /\ ask' = [ask EXCEPT ![r] = Registered(@.to)]
  /\ UNCHANGED <<setting, link, sockets, ended, struck, mishaps>>
NotFound(r) ==
  /\ LookingUp(r)
  /\ Mishap
  /\ ask' = [ask EXCEPT ![r] = Failed(@)]
  /\ UNCHANGED <<setting, link, sockets, ended, struck>>
\* An error of sendmsg is put to the remote being sent to, which includes the request that is
\* just being sent.  A server socket ignores it.
SendFails(r) ==
  /\ LookingUp(r) /\ ask[r].to.kind = "udp6" /\ "udp6" \notin ended
  /\ Mishap
  /\ struck' = Append(struck, ask[r].to)
  /\ ask' = [Strikes(ask[r].to) EXCEPT ![r] = Struck(Registered(@.to))]
  /\ UNCHANGED <<setting, link, sockets, ended>>

-----------------------------------------------------------------------------
\* simple6, _DatagramClientSocketpoolSimple6.connect: the socket of the host is used again.
MovedToEnd(s, k) == Append(RemoveFirst(s, k), k)
Reuse(r) ==
  /\ New(r) /\ Door(r) = "simple6" /\ "simple6" \notin ended
  /\ \E k \in PoolOf("simple6", HostOf(r)) :
       /\ sockets' = [sockets EXCEPT !["simple6"] = MovedToEnd(@, k)]
       /\ ask' = [ask EXCEPT ![r] = Registered(Remote("simple6", k, HostOf(r)))]
  /\ UNCHANGED <<setting, link, ended, struck, mishaps>>

\* _maybe_purge_sockets makes room at the front, and a new socket is opened; what waits for an
\* answer on a purged one is told nothing.
Purged ==
  LET excess == Len(sockets["simple6"]) - max_sockets + 1
  IN  IF excess > 0 THEN excess ELSE 0
Open(r) ==
  /\ New(r) /\ Door(r) = "simple6" /\ "simple6" \notin ended
  /\ PoolOf("simple6", HostOf(r)) = {}
  /\ \E k \in Spare :
       LET gone == ToSet(SubSeq(sockets["simple6"], 1, Purged))
       IN /\ link' = [l \in Links |->
               IF l \in gone THEN [link[l] EXCEPT !.phase = "closed"]
               ELSE IF l = k THEN [Unopened EXCEPT !.phase = "opening", !.kind = "simple6",
                                                   !.host = HostOf(r), !.beside = Starting]
               ELSE link[l]]
          /\ sockets' = [sockets EXCEPT !["simple6"] = SubSeq(@, Purged + 1, Len(@))]
          /\ WaitFor(r, Remote("simple6", k, HostOf(r)))
  /\ UNCHANGED <<setting, ended, struck, mishaps>>

\* The socket is there, and takes the place of another of the same host that was faster.  After
\* a shutdown there is no pool any more: the request fails, and nobody closes the socket.
Pooled(s, k) ==
  IF \E l \in ToSet(s) : link[l].host = link[k].host
    THEN [i \in DOMAIN s |-> IF link[s[i]].host = link[k].host THEN k ELSE s[i]]
    ELSE Append(s, k)
Waiters(k) == {r \in Asks : ask[r].state = "waiting" /\ ask[r].to.link = k}
Opened(k) ==
  /\ link[k].phase = "opening" /\ link[k].kind = "simple6"
  /\ link' = [link EXCEPT ![k].phase = "live"]
  /\ sockets' = IF "simple6" \in ended THEN sockets
                ELSE [sockets EXCEPT !["simple6"] = Pooled(@, k)]
  /\ ask' = [r \in Asks |-> IF r \in Waiters(k) THEN Registered(ask[r].to) ELSE ask[r]]
  /\ UNCHANGED <<setting, ended, struck, mishaps>>
OpenFails(k) ==
  /\ link[k].phase = "opening" /\ link[k].kind = "simple6"
  /\ Mishap
  /\ link' = [link EXCEPT ![k].phase = "closed"]
  /\ ask' = [r \in Asks |-> IF r \in Waiters(k) THEN Failed(ask[r]) ELSE ask[r]]
  /\ UNCHANGED <<setting, sockets, ended, struck>>

-----------------------------------------------------------------------------
\* tinydtls, DTLSClientConnection.send: what is sent before the end of the handshake waits.
Handed(c, r) ==
  IF c.phase = "live" THEN [c EXCEPT !.written = Append(@, r), !.handed = Append(@, r)]
  ELSE [c EXCEPT !.queue = Append(@, r), !.handed = Append(@, r)]
\* _connection_for_address: the connection is in the pool before it is started.
Secure(r) ==
  /\ New(r) /\ Door(r) = "tinydtls" /\ "tinydtls" \notin ended
  /\ \E k \in IF PoolOf("tinydtls", HostOf(r)) # {} THEN PoolOf("tinydtls", HostOf(r)) ELSE Spare :
       /\ link' = [link EXCEPT ![k] =
            Handed(IF @.phase # "unused" THEN @
                   ELSE [Unopened EXCEPT !.phase = "opening", !.kind = "tinydtls",
                                         !.host = HostOf(r), !.beside = Starting], r)]
       /\ sockets' = IF link[k].phase # "unused" THEN sockets
                     ELSE [sockets EXCEPT !["tinydtls"] = Append(@, k)]
       /\ ask' = [ask EXCEPT ![r] = Registered(Remote("tinydtls", k, HostOf(r)))]
  /\ UNCHANGED <<setting, ended, struck, mishaps>>

\* The message layer transmits again.
Resend(r) ==
  /\ ask[r].state = "open" /\ ask[r].to.kind = "tinydtls"
  /\ Mishap
  /\ link' = [link EXCEPT ![ask[r].to.link] = Handed(@, r)]
  /\ UNCHANGED <<setting, sockets, ask, ended, struck>>

\* _start goes on: the socket is there, and later the handshake is over.
Connecting(k) ==
  /\ link[k].phase = "opening" /\ link[k].kind = "tinydtls"
  /\ link' = [link EXCEPT ![k].phase = "handshake"]
  /\ UNCHANGED <<setting, sockets, ask, ended, struck, mishaps>>
Flushed(c) == [c EXCEPT !.phase = "live", !.queue = <<>>, !.written = @ \o c.queue]
Shaken(k) ==
  /\ link[k].phase = "handshake"
  /\ link' = [link EXCEPT ![k] = Flushed(@)]
  /\ UNCHANGED <<setting, sockets, ask, ended, struck, mishaps>>

\* shutdown of a connection, from its pool or on its own.
Shut(k) ==
  /\ link' = [link EXCEPT ![k].phase = "closed", ![k].rendering = FALSE]
  /\ sockets' = [sockets EXCEPT ![link[k].kind] = RemoveFirst(@, k)]
\* _inject_error: a fatal alert or an ICMP error; and the error branch of _start.
Broken(k) ==
  /\ Mishap
  /\ Strike(Remote("tinydtls", k, link[k].host))
  /\ Shut(k)
  /\ UNCHANGED <<setting, ended>>
Alert(k) == link[k].kind = "tinydtls" /\ link[k].phase \in {"handshake", "live"} /\ Broken(k)
StartFails(k) == link[k].kind = "tinydtls" /\ link[k].phase = "opening" /\ Broken(k)
\* Nothing refers to the connection any more.
Forgotten(k) ==
  /\ link[k].kind = "tinydtls" /\ link[k].phase = "live"
  /\ ~ \E r \in Asks : ask[r].state = "open" /\ ask[r].to.link = k
  /\ Shut(k)
  /\ UNCHANGED <<setting, ask, ended, struck, mishaps>>

-----------------------------------------------------------------------------
\* tinydtls_server: a datagram of a visitor starts a session, or is a part of its handshake, a
\* request, or its end.
Visit(h, k) ==
  /\ "tinydtls_server" \notin ended
  /\ PoolOf("tinydtls_server", h) = {} /\ k \in Spare
  /\ link' = [link EXCEPT ![k] = [Unopened EXCEPT !.phase = "live", !.kind = "tinydtls_server",
                                                  !.host = h]]
  /\ sockets' = [sockets EXCEPT !["tinydtls_server"] = Append(@, k)]
  /\ UNCHANGED <<setting, ask, ended, struck, mishaps>>
VisitAgain(h, k) ==
  /\ k \in PoolOf("tinydtls_server", h)
  /\ link' = [link EXCEPT ![k].rendering = TRUE]
  /\ sockets' = [sockets EXCEPT !["tinydtls_server"] = MovedToEnd(@, k)]
  /\ UNCHANGED <<setting, ask, ended, struck, mishaps>>
Farewell(k) ==
  /\ k \in ToSet(sockets["tinydtls_server"])
  /\ Mishap
  /\ Strike(Remote("tinydtls_server", k, link[k].host))
  /\ Shut(k)
  /\ UNCHANGED <<setting, ended>>
Rendered(k) ==
  /\ link[k].rendering
  /\ link' = [link EXCEPT ![k].rendering = FALSE]
  /\ UNCHANGED <<setting, sockets, ask, ended, struck, mishaps>>

-----------------------------------------------------------------------------
\* A response, to a remote that can still hear.
Heard(r) ==
  /\ ask[r].state = "open"
  /\ ask[r].to.link # NoLink => link[ask[r].to.link].phase = "live"
  /\ ask' = [ask EXCEPT ![r].state = "answered"]
  /\ UNCHANGED <<setting, link, sockets, ended, struck, mishaps>>

\* Retransmissions are exceeded, or the network reports an error for the remote.  Neither
\* closes a socket of simple6; the server socket hears of no errors.
TimedOut(r) ==
  /\ ask[r].state = "open" /\ Len(struck) < setting.errors
  /\ Strike(ask[r].to)
  /\ UNCHANGED <<setting, link, sockets, ended, mishaps>>
Unreachable(h) ==
  /\ "udp6" \in ToSet(setting.interfaces) \ ended /\ Len(struck) < setting.errors
  /\ Strike(Remote("udp6", NoLink, h))
  /\ UNCHANGED <<setting, link, sockets, ended, mishaps>>

\* Context.shutdown, one interface after the other: the requests are failed and the pool is
\* closed.  A DTLS connection whose socket is not there yet raises and leaves the others open.
ClosedConnections(s) ==
  LET new == {i \in DOMAIN s : link[s[i]].phase = "opening"}
  IN IF new = {} THEN Len(s) ELSE Min(new)
Closes(kind) ==
  IF kind = "tinydtls" THEN ClosedConnections(sockets[kind]) ELSE Len(sockets[kind])
ClosedLinks(kind) == ToSet(SubSeq(sockets[kind], 1, Closes(kind)))
ShutDown(kind) ==
  /\ setting.ends
  /\ kind \in ToSet(setting.interfaces) \ ended
  /\ ended' = ended \cup {kind}
  /\ link' = [k \in Links |-> IF k \in ClosedLinks(kind)
                                THEN [link[k] EXCEPT !.phase = "closed", !.rendering = FALSE]
                                ELSE link[k]]
  /\ sockets' = [sockets EXCEPT ![kind] = SubSeq(@, Closes(kind) + 1, Len(@))]
  /\ ask' = [r \in Asks |-> IF ask[r].state = "open" /\ ask[r].to.kind = kind
                              THEN Failed(ask[r]) ELSE ask[r]]
  /\ UNCHANGED <<setting, struck, mishaps>>

NextDatagrams ==
  \/ \E r \in Asks :
       Refused(r) \/ LookUp(r) \/ Resolved(r) \/ NotFound(r) \/ SendFails(r) \/ Reuse(r) \/ Open(r)
         \/ Secure(r) \/ Resend(r) \/ Heard(r) \/ TimedOut(r)
  \/ \E k \in Links :
       Opened(k) \/ OpenFails(k) \/ Connecting(k) \/ Shaken(k) \/ Alert(k) \/ StartFails(k)
         \/ Forgotten(k) \/ Farewell(k) \/ Rendered(k)
         \/ \E h \in setting.visitors : Visit(h, k) \/ VisitAgain(h, k)
  \/ \E r \in Asks : Unreachable(HostOf(r))
  \/ \E kind \in Kinds : ShutDown(kind)

SpecDatagrams == InitDatagrams /\ [][NextDatagrams]_datagramVars

\* What is assumed of the constants.
DatagramAssumption == IsFiniteSet(Links) /\ NoLink \notin Links /\ max_sockets \in Nat \ {0}

-----------------------------------------------------------------------------
\* An error fails every request that waits for the remote it is about, and no other: whatever
\* was sent since is left alone, and so is another socket to the same host.
ErrorsReach ==
  \A r \in Asks :
    LET hit == \E i \in ask[r].since + 1 .. Len(struck) : Same(struck[i], ask[r].to)
    IN (ask[r].state = "open" => ~ hit) /\ (ask[r].state = "struck" => hit)

\* What is handed to a DTLS connection is written in that order and each time once, whether
\* before, during or after the handshake; no request waits for a connection that is gone.
DtlsInOrder ==
  /\ \A k \in Links :
       /\ link[k].written \o link[k].queue = link[k].handed
       /\ link[k].phase = "live" => link[k].queue = <<>>
  /\ \A r \in Asks : ask[r].state = "open" /\ ask[r].to.kind = "tinydtls"
                       => link[ask[r].to.link].phase # "closed"

\* A pool holds one link per host and no closed one.  An open socket is in the pool of its
\* interface unless it raced with another of the same host or with a shutdown, and there are
\* more than max_sockets only by those that were opened at once.
Overtaken(k) == \E l \in Links : link[l].host = link[k].host /\ (l \in link[k].beside \/ k \in link[l].beside)
PoolsSound ==
  /\ \A kind \in Kinds :
       /\ \A k \in ToSet(sockets[kind]) : link[k].phase \notin {"unused", "closed"}
       /\ \A k, l \in ToSet(sockets[kind]) : link[k].host = link[l].host => k = l
       /\ \A k \in Links : link[k].phase = "live" /\ link[k].kind = kind =>
            k \in ToSet(sockets[kind]) \/ kind \in ended \/ Overtaken(k)
  /\ Len(sockets["simple6"]) <= max_sockets + Cardinality({k \in Links : link[k].beside # {}})

\* A response is rendered only while its session is the one of its visitor.
SessionsSound ==
  \A k \in Links : link[k].rendering =>
    link[k].phase = "live" /\ PoolOf("tinydtls_server", link[k].host) = {k}

DatagramInv == ErrorsReach /\ DtlsInOrder /\ PoolsSound /\ SessionsSound
==============================================================================
