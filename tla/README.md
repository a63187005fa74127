# CoAP over the Bundle Protocol: models and proofs

The repository runs CoAP between DTN nodes. A client on node A buffers and joins CoAP
requests and hands them, as one bundle, to its local µD3TN. A proxy on node D takes the
messages apart, gives each a token and a message ID of its own and sends it on to a server on
node B. Responses come back the same way. Node C stores bundles between contacts. Four µD3TN
daemons carry the bundles, and a dispatcher process may decide for a daemon where they go. The
nodes encode their messages with a modified aiocoap, which the repository brings along whole.

This directory holds TLA+ modules for the three CoAP programs, for the part of µD3TN that
decides whether a link can be used and what becomes of a bundle, for the dispatcher, for AAP 2.0
as its clients see it, and for aiocoap: messages, requests, observations, block-wise transfer, transports, OSCORE, EDHOC,
the resource directory, the proxy and the file server. Beside them are the TLC configurations
that check them and eight modules of machine-checked proofs. `PROJECT.json` lists every run, the
source lines behind every definition, the hazards, and for each property a plausible bug that
breaks it.

To check one run, for example: `tlc -config TcpclSessions_lifecycle.cfg TcpclSessions.tla`.
To check the proofs of a module: `tlapm LifeProofs.tla`.

## 1. The system

### The parts and what they keep

| Part | Source | State | Operations |
|---|---|---|---|
| Client A | `NodeAaap2.py` | `coap_buffer`, `flusher_task`, the 24-bit ID counter, the AAP2 socket's write buffer | type a command, flush at the limit, flush by timer, `exit`, print responses |
| Proxy D | `NodeDaap2.py` | token and ID maps (`TokenMIDMapper`), `pending_requests` | take an ADU apart, forward requests to B, relay responses to A |
| Server B | `NodeBaap2.py` | the dictionary of resources, `resources.json` | POST, PUT, GET, DELETE; save after each change; answer |
| AAP 2.0 client and tools | `aap2_client.py`, `aap2/bin/` | the stream, the lock of the asynchronous client, the threads of ping | configure, send, receive, acknowledge, RPCs |
| FIB | `ud3tn/fib.c` | node table, link table with a reflist per link | insert and remove links and nodes, tell subscribers |
| Bundle processor | `ud3tn/bundle_processor.c` | FIB, agents, bundles being handled | one task that takes signals from one queue |
| Convergence layers | `cla/` | a table of connections, a management task per connection, RX and TX tasks, a TX queue | start and end a contact, hand out a TX queue, connect, accept, clean up |
| Contact manager | `routing/compat/contact_manager.c` | known and current contacts | find what starts and ends, send requests |
| Agents | `agent_manager.c`, `aap2/aap2_agent.c` | lists of agents, subscribers to the FIB | register, deregister, pass on link requests |
| Dispatcher | `aap2_bdm_ud3tn_routing.py` | contact plan, forwarding table, schedules, promised volumes, a task per contact | dispatch, configure, ask for links, recall stored bundles |
| aiocoap messages | `message.py`, `options.py`, `optiontypes.py`, `blockwise.py` | parts of bodies, rests of responses | encode, decode, cut into blocks, assemble |
| aiocoap exchanges | `messagemanager.py`, `tokenmanager.py`, `protocol.py`, `pipe.py`, `interfaces.py` | open exchanges, backlog, recent messages, requests, observations | send, retransmit, recognise duplicates, match, notify |
| aiocoap transports | `transports/` | pools of sockets, connections and sessions | connect, send, receive, close, report errors |
| OSCORE and EDHOC | `oscore.py`, `edhoc.py`, `oscore_sitewrapper.py`, `credentials.py` | sequence numbers and windows, in memory and on file; sessions; the map of credentials | protect, unprotect, recover, establish a context, look up credentials |
| Resource directory | `cli/rd.py`, `resourcedirectory/client/register.py` | registrations by key and path, observers of lookups | register, update, delete, expire, look up, renew |
| CoAP proxy, sites, file server | `proxy/server.py`, `resource.py`, `cli/fileserver.py` | pooled observations, a tree of sites, watched files | redirect, join and drop observations, dispatch, read and write files |
| Bundles in a daemon | `ud3tn/bundle_processor.c`, `aap2_agent.c`, `cla_contact_tx_task.c` | each bundle with the count of its transmissions, the queues between the tasks, known bundles, fragments | receive, dispatch, fragment, forward, settle, deliver, reassemble |
| Router agent, storage, other layers and protocols | see `components` in `PROJECT.json` | contacts per node, stored bundles | not modelled (section 8) |

### How they interact

* A, D and B each talk to a local daemon over AAP 2.0, with one connection to send and one to
  receive. A received ADU is acknowledged before it is worked on. The three programs share
  nothing but bundles. Each is one asyncio event loop.
* In a daemon every task sends signals to `bundle_signaling_queue`, a bounded queue. Only the
  bundle processor reads it. The bundle processor calls the convergence layer directly, under
  the layer's semaphores, while the layer's own tasks send it signals under the same semaphores.
* The contact manager turns the schedule into CREATE_LINK and DROP_LINK requests. The layer
  answers later, with LINK_UP or LINK_DOWN. AAP2 clients may send the same requests at any time.
* The dispatcher has two connections to its daemon: dispatch events come on one and are answered
  there, requests for links and recalls of stored bundles go out on the other, which the tasks of
  all contacts share under one lock.
* The four nodes of the repository's `README.md` run TCPCLv3, and C also runs the sqlite layer
  with an external dispatcher. µD3TN's own guide (`doc/posix_quick_start_guide.md`) uses MTCP.
* In aiocoap a request goes from `protocol.py` through the block-wise layer, the token layer and
  the message layer to a transport; responses come back through callbacks (`Pipe`). OSCORE
  wraps a request on its way out and a site on its way in. The proxy and the directory are
  sites that make requests themselves.

### What is hard

* **Framing**: messages are joined without separators and cut apart at a byte found by search.
* **Matching**: three nodes rewrite tokens and IDs hop by hop; clients repeat both, counters
  wrap, bundles arrive late and out of order, and the proxy's maps are lost in a restart.
* **Interleaving on A**: the limit, a cancelled timer task and `exit` flush one buffer, and each
  may be suspended in `drain()` between reading the buffer and clearing it.
* **Crashes**: B truncates and rewrites a file on every change, after the request has been
  acknowledged; OSCORE must never use a sequence number twice, however often it crashes.
* **Links**: requests and signals about one link overtake each other, and the FIB, the layer and
  the subscribers must agree in the end.
* **Semaphores**: a layer's table, each connection and each TX queue have one; they are taken
  inside each other, and not in one order.
* **Bundles in a daemon**: one object that several TX tasks and the dispatcher's task refer to, with
  a count only some of them are in; answers and results that overtake each other; fragments of one
  ADU in any order, repeated and overlapping.
* **Schedules**: the dispatcher's tables are read before an await and written after it, and a
  bundle is cut over contacts that may end or be taken out of the plan meanwhile.
* **Lost, repeated and reordered messages**: aiocoap recognises duplicates, retransmits, gives
  up, and decides which of two notifications is newer.
* **Pools**: sockets, connections, sessions and observations are shared by who comes at the same
  time, and each can end while it is being joined.
* **Blocks**: two transfers with one key share a spool, entries expire between two blocks, and
  sizes change on the way.

### What makes each part correct

* Codec and extraction: what can be delimited comes out whole and in order, whatever else is in
  the aggregate; the loops end.
* Proxy D: a relayed response carries token and ID of the request it answers.
* Server B: what was answered with success stays; a request takes effect at most once; every ADU
  is worked off.
* Client A: each message is written once and in order; none is left behind in the buffer; the
  prompt comes back.
* All three: responses match, effects happen once, a GET sees what its user knows was done,
  everything is answered if nothing is lost.
* FIB: the node table and the reflists are each other's inverse; a link is marked up exactly when
  it exists; subscribers know what is up; a loss is noticed.
* TCPCLv3: nothing freed is used; the planned connection of a node is the one bundles and the end
  of the contact reach; a connection outlives its contact only as opportunistic; no task
  waits for ever.
* Bundles: the count is that of the transmissions; none is forgotten, all are settled; an ADU for the
  node is delivered once and whole.
* Dispatcher: what is promised fits the contact; a bundle leaves the storage only when all of it
  was sent; contacts end.
* aiocoap: a request is served at most once and settled once; one exchange at a time; no update
  of an observed resource is lost or seen out of order; bodies arrive whole or not at all; who
  waits on a connection is told when it ends; no nonce is used twice; a request is served as its
  sender's; observers of a directory, a proxy or a file are shown the present state.

## 2. The modules

Names follow the source. An action is one handler, or the part of one that runs without
waiting; its comment or the map names the function. Where several components are checked in one
run, the MC module instantiates each with variables of its own and a variable `part`: one part is
chosen in the initial state, and the others stand still. The parts share nothing; they share a run.

### The CoAP programs

**`Framing`** (part of `MCMessages`). The codec and the extraction loop of D and B on a small
alphabet: byte 7 plays 0xFF, one byte the code and ID. `Iterate` is one iteration; `Extract`,
`SecondDecodeFails` and `Reject` are the ways it ends, each with the exception handler the code
has. D resumes one byte later (`Recover`), B drops the rest. What this does to a whole message is in the
models of D and B as `Readings`.

**`BundleNetwork`**. What the daemons promise the three programs: an ADU becomes a bundle that is
delivered at most once, after any delay, in any order, or never.

**`CoapProxy`**, **`ProxyService`**, `ProxyProofs` (`MCRd`, part "relay"). `CoapProxy` is the program: `Receive`, one step
per frame (`ForwardRequest`, `ForwardResponse`, `DiscardResponse`, `SkipJunk`), a send that may
fail, `Restart`. `Readings` is what the extraction loop may take a frame for: nothing it can decode if there is no payload
(a Payload-Length of 0 counts as missing) or if a token or an ID has a 0xFF byte (`Marked`), or else the message
with a piece of its payload, as when the length has such a byte (`MarkedTexts`). `GoOn` resumes behind what
was cut off, or at any later message, since the loop may take messages for part of what it could not read.
`ProxyService` adds A, B and a stranger and records what was asked, forwarded and
relayed. `token_map` and `mid_map` are written and never read, and are left out.

**`CoapServer`**, **`ServerService`**, `ServerProofs` (`MCEndpoints`, part "server"). One step per request, one per
save (a save may fail while dumping or before), one per response. `file` is absent, complete or
torn; a crash between truncation and the end of `json.dump` tears it. `Extracted` is what becomes of an ADU
whose messages have no payload or a 0xFF byte in front of it: at the first one that cannot be decoded the loop ends.
`ServerService` makes the
requests and keeps logs (`Record`) of what is in memory and in the file, the dictionary of the `first` start
and the responses sent.

**`CoapClient`**, **`ClientService`**, `DispatcherProofs` (second part; `MCEndpoints`, part "client"). The tasks of A's event loop,
at the points where they may be suspended: input, sleep, drain. Cancelling, the wake-up order of
`drain()` and the cancellation swallowed by the flusher are those of asyncio. `stream` is what the
transport has taken; it pauses above `HighWater`. `unread` counts the responses of the daemon that
nobody reads.

**`CoapOverBp`** (`MCMessages`, part "system"), `SystemProofs`. The three programs instantiated over one
`BundleNetwork`. The log of the requests `queued`, of what A had `seen` confirmed when each was typed, of those
`served`, and the dictionary of the `first` start are for the properties only.

**`Aap2Client`** (`MCEndpoints`, part "tools"). `aap2_client.py` on a stream that may break
anywhere, and the programs on top: tools that make one call, subscribers, the two threads of ping,
and the dispatcher whose tasks share one client under a lock and may be cancelled in a call. A
response carries the number of its message, for the properties only; `spoilt` says that a call was
cut off with its response still to come.

### µD3TN

**`Fib`**, **`MtcpCla`**, **`ContactManager`**, **`LinkControl`**, `LinkProofs`.
`Fib` has the operations of `fib.c` as operators on one record, and what subscribers are told.
`MtcpCla` has the outgoing management tasks of MTCP and the two contact functions.
`ContactManager` has the contact check. `LinkControl` composes them over the signaling queue: each
signal type about links and registrations is an action of the bundle processor, with every call it
makes.

**`TcpclCla`**, **`TcpclSessions`**, `LifeProofs` (second part). `TcpclCla` has the management tasks of both
directions, the listener, and the three calls of the bundle processor. A task's `at` says where it
waits and so what it holds; the semaphores are the predicates `TableFree`, `ParamFree` and
`QueueFree` over these places. `TcpclSessions` lets contacts, bundles, peers and losses come in
any order.

**`BundleLife`**, `LifeProofs` (`MCBundles`, part "life"). A bundle that is to be forwarded, as one object in the
memory of a daemon. `bundle[b].refs` is `forwarding_refcount`, `at` is "live" until the object is
freed. The bundle processor takes signals one by one; TX tasks (`tx`) and the agent task of a
dispatcher (`agent`) have a queue each and send results and answers back as signals. A setting
(`setting`) says how many bundles come, what the dispatchers may answer, and how many links,
answers and failures there will be.

**`Reassembly`**, `LifeProofs` (last part; `MCBundles`, part "local"). `bundle_deliver_local` and what it calls:
known bundles, the list of fragments, the search for a complete ADU, with deadlines that
expire and an agent that comes and goes. `late` counts the fragments that came after their ADU was known, were freed, and
went on to the list (`Attempt`): what is freed may read as it did and be reassembled again, or as if of another ADU; or the
daemon crashes, and the behaviour ends.

**`BundleDispatcher`**, `DispatcherProofs`. The dispatcher process. Its planning functions
never wait and are operators, which come first: what a configuration message adds and takes out, the
forwarding table, how a payload is cut over contacts. Then the main coroutine and
one task per contact, cut where they await, and what a `KeyError` or a failed assertion leaves. The
constants of the run are at the end.

### aiocoap

**`MessageManager`**, **`CoapExchange`**, **`RequestService`**, `ExchangeProofs`. `MessageManager` is
`messagemanager.py` as operators on one endpoint's state: exchanges, backlog, retransmission,
duplicates, piggybacked and empty acknowledgements. `CoapExchange` is two endpoints with token
layer, requests, observations and shutdown over a network that loses, copies and reorders.
`RequestService` is the abstract specification: requests with no messages at all. The mapping
(`Service` in `CoapExchange`) forgets the messages; the run checks it as the property
`ImplementsService`, and `ExchangeProofs` proves it. The end of `CoapExchange` has the constants of the run.

**`BlockwiseTransfer`** (`MCMessages`, part "blocks"). First what a message does with block options,
then `BlockwiseRequest`, `Block1Spool`, `Block2Cache` and `TimeoutDict`. The blocks travel as single
requests, as `RequestService` promises them.

**`StreamTransport`**, `DispatcherProofs` (last part; `MCMessages`, part "streams"). TCP, TLS and WebSockets: connections, the pool,
the cutting of the stream, signalling, aborts and shutdown, with a peer that sends what it likes.

**`DatagramTransport`**, `DispatcherProofs` (third part; `MCOscore`, part "datagrams"). The five message interfaces over UDP and DTLS
as one context has them side by side: which recognises a remote, pools, handshakes, errors of
every origin and the requests they reach, purging and shutdown.

**`OscoreContext`**, **`OscoreSessions`**, `OscoreProofs` (`MCOscore`, part "sessions"). `OscoreContext` is a
`FilesystemSecurityContext`: sequence numbers and their lead on file, replay window, protection.
What is sealed shows key, nonce and authenticated data and opens for who comes to the same.
`OscoreSessions` is two peers with such contexts, their client and server wrappers, crashes and
closings, a full disk, and a network that keeps old messages.

**`EdhocExchange`** (`MCOscore`, part "edhoc"). First the map of credentials and every search in it,
then both flows of the exchange on both sides. lakers is external, and reduced to what its messages
are good for.

**`RdSession`**, **`RdLookup`**, `ProxyProofs` (second part) (`MCRd`, parts "directory" and "lookup"). The directory as operators
from directories to directories; `RdSession` has the life of a `Registerer`, devices that register
simply or by hand, time, losses and a restart. `RdLookup` has the filters and pages.

**`AiocoapProxy`**, `ProxyProofs` (third part) (`MCRd`, parts "redirection" and "observations"). The rules of aiocoap's own proxy, and
its pooled observations with the tasks of its clients.

**`CoapSite`** (`MCRd`, "site"). Trees of sites, dispatch, the links of `/.well-known/core`.

**`FileServer`** (`MCRd`, "files"). The handlers at the system calls between which another process may
change a file, and the task that looks at observed files every 10 seconds.

## 3. The runs

| Run | Module and cfg | Expected | Distinct states |
|---|---|---|---|
| `endpoints` | `MCEndpoints`, `Endpoints_nodes.cfg` | pass | 465,193 |
| `links_session` | `LinkControl`, `LinkControl_session.cfg` | pass | 354,310 |
| `tcpcl_sessions` | `TcpclSessions`, `TcpclSessions_lifecycle.cfg` | pass | 320,367 |
| `tcpcl_queue` | `TcpclSessions`, `TcpclSessions_queue.cfg` | `QueueWaitEnds` violated | |
| `bdm_dispatch` | `BundleDispatcher`, `Bdm_dispatch.cfg` | pass | 186,730 |
| `bundles` | `MCBundles`, `Bundles_node.cfg` | pass | 749,743 |
| `bundle_owner` | `MCBundles`, `Bundles_owner.cfg` | `OwnedByAgent` violated | |
| `late_fragments` | `MCBundles`, `Bundles_fragments.cfg` | `DeliveredOnce` violated | |
| `coap_requests` | `CoapExchange`, `CoapExchange_requests.cfg` | pass | 356,222 |
| `messages` | `MCMessages`, `Messages_codecs.cfg` | pass | 321,612 |
| `oscore_sessions` | `MCOscore`, `Oscore_sessions.cfg` | pass | 247,674 |
| `rd_registrations` | `MCRd`, `Rd_registrations.cfg` | pass | 992,313 |

The properties of a component are the conjuncts of one named invariant where a run has several
parts; the names below are those of the conjuncts.

**`endpoints`.** *Server*: on an empty dictionary or one with a resource that has a value, three requests of every method, valid and
invalid, with and without payload or a marked ID, in ADUs of one or two with broken frames before or behind; a crash, a disk error and a lost
connection at any point. `ConfirmedSurvives`: what was answered with success is in memory and in the
file, and both are what the requests in them make of the dictionary of the start. `ServedOnce` (in `ServerInv`),
`AnswersAll`. Three requests are needed for a change to be undone with a failure in
between. *Client* (`ClientInv`): five commands with `BUFFER_LIMIT = 2`, so that the limit is reached
twice with a rest for the timer, and a transport that takes two aggregates, then pauses.
`Partition`, `FlusherAlive`, `AllSent`, `Responsive`; they except the case that a task had to wait in
`drain()`, where the code loses messages (section 6). *Tools* (`AapInv`): each tool with a
refused, broken or mistimed connection. `OwnResponse`: a call gets the response of its own message,
unless a task was cancelled within one. `InStep`: the agent gets the status
it waits for, and what is written out is whole, unless `recv` was short. `PingHonest`,
`Accepts`, `NeverStuck`.

**`links_session`.** A contact, two of eight client calls (a second node on the link, a node moved
to another link or to an address without scheduled contacts, drops of one node or of all,
a subscriber that comes and goes), a connection lost, in every interleaving of bundle processor,
contact manager and two management tasks. `LinksKnown`: with no signal under way, a link is up in the
FIB exactly if its connection exists (`LinkStatusTrue`), and subscribers know what is up
(`AgentsKnowUp`). `FibConsistent`, `LossNoticed`. The queue has room for eight signals and
never fills; with two places TLC finds a deadlock of the code (section 6).

**`tcpcl_sessions`.** One node, three connections at a time, three calls, two accepted
connections, two losses: enough for a contact's connection, one the peer opens at the same time,
and a third that is still being cleaned up, with a start, an end and a bundle in between.
`NoUseAfterFree`, `PlannedIsListed`, `Progress`. `Progress` excepts the states of `Hang`, where two
tasks hold what the other needs: the code has these (section 6), and everything else gets on. Nodes
do not share connections, so a second node adds nothing but a holder of the table's semaphore;
the proofs hold for any number.

**`bdm_dispatch`.** Two contacts that overlap, six configuration messages of which two come,
a bundle that may be cut and one that must not be, links that come and go. `DispatchInv`: what is promised to
a contact fits it (`SchedulesFit`), and a planned contact has its queue (`PlannedHasQueue`).
`DeletedWhenSent`: a bundle leaves the storage for having been sent only when all its bytes were.
`ContactsEnd`.

**`bundles`.** *To be forwarded*: up to two bundles, two links, two dispatchers, answers that name
one or both next hops, whole or in part, a size limit that cuts a bundle, or a fragment again, direct
routes that fail, and one or two faults. `RefsCounted`: the count of a bundle is never less than the
number of its transmissions under way, exactly it unless a dispatcher asks for a fragment too long for
the link (`Fitting`), and zero once the bundle is freed. `NotForgotten`: what is not freed is being transmitted, dispatched or
waiting. `LifeSettles`: every bundle is freed in the end, unless the daemon crashes or a fragment was cut again. `AgentsLeave`: a
dispatcher's connection that ends is taken apart. The crash is that of the finding: once freed
memory is used the model stops. *For the node*: an ADU of four bytes, in sets of fragments that lie side by side,
overlap and lie in each other, each up to twice, with deadlines that pass; those that come after the ADU are freed and
used. `DeliveredWhole`, `NothingMissing`, and `OncePerLate`: each delivery but the first takes a fragment of its own that was freed and used.
That there is no such delivery (`DeliveredOnce`) is not true of the code: `late_fragments`. Four bytes allow every relation two
intervals can have.

**`coap_requests`.** Two requests, with and without observation, confirmable or not, one without
response wanted; one copy, loss of any message; up to one retransmission and three states of the
resource. `OneExchange` at a time per remote; `Tracked`: a pending request is in an exchange or a
backlog, unless it has been served. `NoLostUpdate`: the last state of a resource reaches its observers.
`Fresh`: no notification older than one shown is shown. `ImplementsService`. `ExchangesEnd`. Message IDs
are numbers below 16, and none is used twice; their reuse is `EXCHANGE_LIFETIME`'s
(`RequestsAssumption`).

**`messages`.** *System*: two commands, together
or apart, on an empty or a prepared server, and one single client token, so that only the proxy's tokens
tell the requests apart; among them a PUT without payload, a DELETE whose length has a 0xFF byte, and an ID of D that has one (`Marked`;
D gives it to its first or its second request). `EndToEndMatch` and `AtMostOnce` (in `SessionInv`), `ReadYourWrites`,
`EveryRequestAnswered`. These except by name what the extraction loops do not find the end of: `Unreadable` is a request, or a
response, without payload or with a 0xFF byte in token or ID, and all that follow it in its ADU, which the loop may take for part of it;
a length with such a byte only cuts the payload, and what follows in the ADU is lost or not;
`ReadYourWrites` excepts a response that D has cut (`Pieces`). Which of these becomes of a message is up to the bytes around it, and so a
choice in the model. No crashes here: they are in the parts of the programs. The proofs remove the bounds. *Blocks*: five pairs of transfers, at the same time or one after the other, with one key
or two; sizes renegotiated, BERT. `BodyIntact`, `ReplyIntact`: bodies arrive as they were sent
or not at all; `Undisturbed`: without failures every transfer succeeds; `TransfersEnd`. *Frames*: all
aggregates of one or two requests, and of three with a clean one in front, over harmless and
marker-valued bytes in ID, token and length, empty payloads, and payloads that look like the start
of a message. `CleanMessagesSurvive`: whatever precedes the first message that cannot be delimited
comes out unchanged. `NothingInvented`, `Terminates`. One byte per field is enough: the loops compare
bytes with the marker and add lengths. *Streams*: four scenarios each for TCP and WebSockets, with
messages of several pieces, every signal, two connections and a fault, and one of a WebSocket that is aborted. `Delimited`: the stream is cut
at the boundaries of messages; `NobodyWaits`: no request waits on a connection that has ended (but for
the aborts of section 6); `StreamsSettle`.

**`oscore_sessions`.** *Sessions*: requests one after the other and at the same time, in both
directions, an observation, up to two crashes, closings or copies, a disk that fills up. `NonceOnce`: no
nonce is used for two messages with one key. `NoReplay`, `Matched`, `Recovers`: a peer that lost its window
gets requests through again. `MAX_SEQNO = 4` and a window of 2 make both ends of the number space
and the edge of the window occur. *Datagrams*: eight contexts with different sets of
interfaces. `ErrorsReach`: an error ends exactly what waits for its remote; `DtlsInOrder`,
`PoolsSound`, `SessionsSound`. *EDHOC*: ten pairs of credential files, with lost messages,
restarts, reloads. `IdentifiersDistinct`, `ServedAsItself`: a request is served with the claims of who sent it;
`NeverIncomplete`, `Undisturbed`, `NeverStuck`.

**`rd_registrations`.** *Directory*: two who register, by every way, one device's own requests, a directory
that is restarted, lost requests. `Observed`: what observers were last shown is what a lookup shows
now, or they have been told; `OwnLocation`: a client renews its own registration only,
unless the directory forgot one.
`StaysRegistered`. *Lookups*: `PagesPartition`, the pages of a lookup by one criterion have each match once. *Observations*:
two clients, three observations, two changes. `UpToDate`, `NothingLeaks`, `OneUpstream`, `Catch`.
*Rules*: all pairs of six rules over 64 requests; `SendsSafely` (with the former, `CoapProxyInv`). *Sites*: three sites and two
resources at four paths; `LinksLead`: a link that is listed leads to its resource. *Files*: seven
scenes of reads, writes, deletions and observations with a change from outside. `BodyIntact`: a
file read in blocks is one version; `NoLostChange`, `Told`, `CallbacksMatch`, `NothingLeft`,
`NeverStuck`. *Relay* (the proxy D): two requests with any of two tokens and two IDs, repeated or not, in one ADU or
two and with or without a broken frame; two answers to any forwarded request, one restart.
`MaxId = 2`, so the ID counter wraps within one run of the proxy. `ResponseMatches`. Messages that are cut are in
`messages`. The proofs remove the bounds.

**The violation runs** each check one statement of the repository's documents; section 6 says
what they show.

**Deadlock checking.** `links_session` has it on, with a `Done` step for the state in which all is
quiet and every call has been made. The other runs say `CHECK_DEADLOCK FALSE` because their systems
may stop: programs when all commands have been handled or the user has left, loops when they are
done, a process that has crashed, a part that has nothing left to do, and TCPCLv3 because it can hang,
which `Progress` and `tcpcl_queue` are about.

## 4. Fairness

Weak fairness only, and only for steps that a scheduler, an event loop or a timer will take. What the
environment does (losses, faults, commands, contacts, restarts, other processes) is never fair.

* `Framing`: the loop runs in one coroutine without waiting for others.
* `ServerService`: `WF(Serve)`, one coroutine that waits for its own handlers and the local daemon.
* `ClientService`: `WF(RunTasks)`, timers expire and the event loop runs what is ready;
  `WF(UD3TN)`, the daemon reads while it has room for responses.
* `CoapOverBp`: one `WF` per event loop. Receiving is part of it, so `EveryRequestAnswered` is about
  bundles that arrive; `Spec` alone lets any bundle wait for ever.
* `LinkControl`: `WF(BundleProcessor)` and `WF(Manager(m))` per task. An attempt to connect ends one
  way or the other.
* `TcpclSessions`: `WF(CallGoesOn)` and `WF(ManagerMoves(c))`. No strong fairness: a semaphore that
  becomes free again and again might in theory never be granted, but calls, accepts and losses are
  bounded here, so weak fairness is enough.
* `BundleLife`: one `WF` per thread. That of an agent task includes the time-out for a dispatcher
  that does not answer.
* `BundleDispatcher`: the main coroutine, the storage's answers, the clock, and each contact's task.
* `CoapExchange`: `WF(Timers)`: retransmission and expiry, no delivery.
* `BlockwiseTransfer`: each transfer's coroutine goes on; a single request ends.
* `StreamTransport`: the callbacks and tasks of each connection.
* `OscoreSessions`: each request's coroutine, and the answers below it.
* `RdSession`: each `Registerer`'s task, the answers to its requests, and the notification task.
* `AiocoapProxy`: the callbacks and the task of each client and observation.

## 5. The bounds

`SystemAssumption` of `CoapOverBp` says that no more commands are typed than there are message IDs (`MaxId`, 2^24 - 1
in the code): D's counter wraps, and what it then overwrites may still be waited for.

`RequestsAssumption` and `PlansAssumption` of `CoapExchange` are bounds as well, which hold for the proofs too:
no more requests than there are message IDs (65536 in the code), and fewer states of the resource than
half the range of the observation numbers (`Window`, 2^23). The first ID (`FirstId`) is random in the code; the
run takes 0, the proofs any.

Constants named `Max...`, and the fields `count`, `faults`, `mishaps`, `contacts`, `answers`, `failures`,
`locals`, `changes`, `devices` of the plans, settings and scenes, bound what the environment does. Each guards an
action of the environment and none of the code's. A plan is chosen in the initial state: plans
that would only add independent events to each other are separate.

Numbers that belong to the code and are made small so that they are reached: `MaxId` (the 24-bit
`MAX_ID`), `MAX_SEQNO` (40 bits), `WindowSize` (32), `ChunkStart` and `ChunkLimit` (10 and 10000),
`MAX_REGULAR_BLOCK_SIZE_EXP` (6), `MAX_MESSAGE_SIZE` (1 MiB), `max_sockets` (64), the responder's 48
identifiers (`Candidates`, 3 of them, the last one being the one that is misread), `BufferLimit`,
`QueueLength`, `TX_QUEUE_LENGTH`. `AGENT_QUEUE_LENGTH` is 6 instead of 10: it never fills for two bundles, and
section 6 says what happens when it does.

`Connections`, `Managers`, `Links` bound how many tasks or sockets exist at a time: with none free, a
call that would make one waits. `Tokens` of the proxy are the 65,536 two-byte tokens; the state in
which all are given out and `generate_token` loops for ever (`NodeDaap2.py:57`) is a disabled step there.

## 6. What was found

Three runs end in a counterexample, each against a statement of the repository:

| Run | Where | What happens |
|---|---|---|
| `tcpcl_queue` | `cla_tcpclv3.c:566` | A bundle to send meets a link being closed: the bundle processor waits for the queue with the semaphores its clean-up needs, and the daemon stands still. |
| `bundle_owner` | `bundle_processor.c:318` | A dispatcher names two next hops. Each result is handed to it as a dispatch of its own; what is done with the first frees the bundle that the agent task reads for the second. |
| `late_fragments` | `bundle_processor.c:1271` | A fragment of an ADU that was delivered is freed, but the function goes on with it (line 1262 says "already delivered, dropping"). With a fragment that came before, it completes the ADU, which is delivered again; the freed memory may also make a list that stays for ever, or crash the daemon. |

**Known deviations.** The models do what the code does, so that the following are steps of theirs,
excepted by name in the properties they concern, or, where marked *(not in a model)*, read in the code
only.

*CoAP programs.*

* A 0xFF byte in a token, an ID or a length is taken for the payload marker, and the message is cut there
  (`NodeDaap2.py:168`; `FramingInv` is about what precedes it). One token of two random bytes in 128 has one, and so has every
  ID of which one of three bytes is 255. A Payload-Length of 0 is taken for a missing option (line 163): a PUT of an empty text
  is never answered. D moves one byte on after an exception, B drops the rest of an aggregate it
  has acknowledged (`NodeDaap2.py:203`). `Unreadable` names all of these in `EveryRequestAnswered`.
  That what is left of such a message reads as a message nobody sent, and a Uri-Path of 268 bytes or more, whose extended length may have the byte,
  are *not in a model*.
* A command typed while a flusher is in `drain()` is reported as queued and cleared unsent
  (`NodeAaap2.py:78`); the limit reached at that moment has an aggregate written twice (line 153). End of
  input drops the buffer (line 155).
* A crash during a save leaves half of `resources.json`, and the server fails at every later start
  (`NodeBaap2.py:40`, `51`). A change whose save failed is answered with an error and yet served
  (line 71).
* A and D never read the daemon's responses; in the end the daemon blocks and so do they (`NodeAaap2.py:70`,
  `NodeDaap2.py:130`). D's maps only grow; a restart of D can give an old token to a new request
  (`NodeDaap2.py:57`, `114`).

*AAP 2.0 clients.*

* A task cancelled during an RPC leaves its response in the stream, and every later call of the
  connection gets that of the call before; the doc of `send_rpc` says "Equivalent to calling send() and
  receive_response() with a lock" (`aap2_client.py:756`).
* The synchronous `receive_adu` calls `recv` once, which may be short (line 382); at the end of the
  stream a truncated payload is written out.
* `aap2_ping`: a broken payload raises `ValueError`, the receiver is not told of a sender that died, an
  interrupt races with the last echo, and any bundle that parses counts as an echo.

*µD3TN.*

* Of two adjoining contacts of a node, the drop of the first removes the second
  (`contact_manager.c:263`): starts are queued before ends, and a drop does not say whose it is.
* A management task takes the table's semaphore with its own in hand, in the order the comment
  at `cla_tcpclv3.c:342` warns of, so a finished handshake and a call of the bundle processor can block
  each other (the other states of `Hang`). `htab_remove` is called with a key the table does not have
  (`cla_mtcp.c:484`, `cla_tcpclv3.c:636`), so a contact that starts while the previous task is leaving gets
  no task. A full signaling queue deadlocks the daemon (`cla.c:281`).
* `fib_remove_node` empties the reflist before LINK_DOWN comes, so subscribers are not told that the nodes
  are gone (`bundle_processor.c:732`). A takeover in TCPCLv3 marks the new link's address down when the
  old link ends (`cla_tcpclv3.c:623`; *not in a model*).
* Bundles: with room for one dispatch (`AGENT_QUEUE_LENGTH = 1` instead of 10) `AgentsLeave` fails: the
  agent task waits in `deregister_sink` for the bundle processor, which waits in `agent_dispatch` for room in that
  task's queue (`agent_manager.c:471`; the NOTE in `execute_bdm_dispatch` and the TODO at
  `bundle_processor.c:143` know the risk). A queue that is full at that moment is enough.
* A fragment made for a dispatcher that is itself too large for the link is cut again, its parent
  counted once too often and never freed (`bundle_processor.c:584`): the condition `Fitting` of `RefsCounted`
  and `LifeSettles`. `Recut` is a setting in which it happens.
* A fragment that lies within another makes
  `try_reassemble` see a gap though all bytes are there: the exception `NoneNested`. Bundles of one ADU
  with different deadlines are not recognised as known, and the ADU is delivered twice: `OneDeadline`
  (`bundle_processor.c:1163`, `1800`).
* The liveliness check of a connection may take a byte of a dispatcher's answer (`aap2_agent.c:493`–`527`):
  `Keepalive`, after which the connection is garbled. `shutdown_queue` leaves `next_hops` uninitialised
  in the answers it makes, and they are freed.
* *Not in a model*: the TX task's disconnect handler pushes FINALIZE into its own, perhaps full, queue
  (`cla_contact_tx_task.c:216`). `router_agent.c:229` returns without releasing the semaphore, and the
  router goes on with a bundle that a failed dispatch has freed (about line 400).

*Dispatcher.* An unauthenticated configuration empties the forwarding table it was not to touch
(`aap2_bdm_ud3tn_routing.py:1082`). Re-scheduling keeps the old fragment and promises nothing, so the
bundle stays in the storage (643); a contact whose link never comes never ends (680); a bundle scheduled
to a contact that is deleted meanwhile raises `KeyError` (901).

*aiocoap, messages and requests.*

* A request whose separate response is lost stays pending for ever (`protocol.py:567`). Giving up one
  exchange fails all requests to the remote and drops the backlog (`messagemanager.py:339`). A
  duplicate whose ID equals one of our own messages fails an assertion (221).
* Spool and cache are keyed by endpoint and options: two transfers with one key replace each other's
  parts (`blockwise.py:71`). On leaving BERT the cursor is doubled although it counts the
  same blocks, and the middle of a body is never sent (`protocol.py:881`).
* `tcp.py:263` has `if msg.code == 0: pass`, and an empty message is processed as a request. An abort
  within signalling does not stop the receive loop; a WebSocket that this side aborts leaves its requests
  waiting (`ws.py:518`). Two requests at once open two TCP connections, the earlier of which
  leaves the pool and is never released.
* With a DTLS server enabled, outgoing `coap://` requests reach `tinydtls_server` and fail;
  `_maybe_purge_sockets` is never called; `simple6`'s `recognize_remote` is always false; a purged socket
  leaves its requests waiting; a connection that opens during a shutdown leaks its socket
  (`tinydtls.py:244`).

*OSCORE and EDHOC.*

* `post_seqnoincrease` raises the persisted number before the file is written: after a full disk and a
  crash numbers are used again (`oscore.py:1999`; `NonceOnce` excepts the full disk). The comment at
  `transports/oscore.py:189` is wrong after a crash of the server. Contexts that are not from
  files have no `echo_recovery` (1288). The lock file is unlinked before it is released (2027).
* Every request to a host with EDHOC credentials runs an exchange of its own and leaves the server a
  context for ever: after 48 of them 5.00. The identifier 23 is not read in an explicit message 3. Two
  entries for unauthenticated peers raise `TypeError`. Claims are extended before message 3 is verified.
* A reference in the client's credentials is returned unresolved, so that a URI that refers to OSCORE or
  EDHOC credentials goes out in the clear, although `credentials.py:44`–`61` shows that use; in the
  server's it makes the search for a DTLS key raise. TLS entries for `scheme://*` are never used,
  although line 210 documents them. A reload can configure an identifier given to a session.

*Directory, proxy and file server.*

* A registration whose key is known deletes the earlier one before its parameters are checked, in spite of the
  comment above it (`rd.py:360`). A PUT tells observers before it replaces the links, or nobody (489). The
  filters of a lookup are evaluated after the loop that made them and use its last variables
  (573); the comment `continue  # filtered last` (541) says `page` and `count` come after
  the filters, yet as the last parameters they take their place. Pages without a count raise `TypeError`.
  `WKCResource`'s filters bind as late (*not in a model*).
* `use_as_proxy` with a pooled observation raises `AttributeError`; who joins a pooled observation that
  has ended hears no more. A client that leaves while it waits for the first response cancels that future for all who
  wait for it (`proxy/server.py:317`; `Broken`). A request without Uri-Host fails in a `SubdomainVirtualHost` (438). One rule's rewriting of a request is what the next rule sees.
* File server: the deletion of an observed file makes `relevant(False)` raise and ends the task that looks
  at files, for all observers; an observation that begins with 2.03 is never told of changes; the
  comment at 313–315 claims that the library cancels observations of what is not a file, which it
  does not; a full disk leaves the spool file; `_observations` keeps its paths; a special file leaves
  `response` unbound. The races docs 12–20 speak of need another process: `crossed`.

Hazards are listed in `PROJECT.json` at the line where each bites, with the properties that would catch them; of
those above, the ones no run can decide are only in this list.

## 7. The proofs

Each theorem holds for every value of the constants under the named assumptions, which are as
weak as the typing of the code (or name a bound, section 5); TLC evaluates them in the runs. In each module the argument is:
the initial states satisfy the inductive invariant, every step keeps it (a lemma per action), it implies the
property. TLC checked each invariant first (of `CoapExchange`, with the messages that may still arrive for `S`).

**`ProxyProofs`** (`ProxyAssumption`, `ServiceAssumption`). `TypeCorrect`, `Invariant`,
`ResponsesMatch`. `ResponseMatches` alone is not inductive: that a response about
to be relayed matches depends on what its frame carries and on the maps. `FramesOfA` and `FramesOfB` say
that all frames under way are copies of requests asked or forwarded, but for what was cut from their payloads; `MapsLeadBack` that the maps of this
run of the proxy lead from a forwarded request to the one asked; `IdsGivenOut` that the IDs given out
since the start form an interval (perhaps across the wrap) that ends at the counter, so a new ID
overwrites no entry in use before the counter has come round.

The resource directory (`RdAssumption`: finitely many endpoint names, requests of devices are about one of them):
`DirectoryAlwaysRight`, `RdInvariantHolds`, for any endpoints, roles, requests and faults. `DirectoryRight` says that
`by_key` and `by_path` are each other's inverse, so that there are no more paths than endpoints and `_new_pathtail`
finds one that is free. A lemma for each operation (`Result`) says whose registration it may take away, and that it
tells the observers or leaves the lookups as they were. `OwnLocation` alone is not inductive: a
location in a response under way must be its client's when it is taken. `Held` says that what a `Registerer` knows as its
location is listed under its name, from the response (`CallRight`) until it asks for the deletion; a request that was
given up and arrives late (`RequestsRight`) puts the registration where it was.

aiocoap's own proxy (`PoolAssumption`; `RedirectionAssumption`: no target or host is a refusal or the absence of one):
`CoapProxyCorrect`, for any clients, observations, rules and requests. `UpToDate` and `NothingLeaks` depend on what is in the
pool, since `render` answers from there whatever the client asked to observe. `PoolAlone` says what holds until a callback has removed
another's entry (`crossed`): clients observe nothing but the pool's, and what was started and is not cancelled is in the pool, so
there is one at most, and the callback that finds it unused finds it there. `ClientRight` makes a trigger that waits
the latest response. A first response may trigger nobody, which is right as nobody is past `render` before it. `SendsSafely` is a
property of what the rules return: `RuleRight` for one rule, `RulesRight` for the first that applies, `RedirectRight` with
the forward proxy in front, whose request goes through the rules without its Proxy-Scheme.

**`ServerProofs`** (`DatabasesAssumption`, `NodesAssumption`: a `resources.json` to start with holds resources
and their values, and B is not D). `ServerInvariant`, `ServerCorrect`, `ConfirmedStays`, for any resources, payloads and
requests and any number of crashes, disk errors and lost connections. `IInv` adds to the two properties where the numbers
of requests may be (`NumbersRight`: under way, to be served or served, at most one of these), and what a step of the
save has established (`InHand`: a request being saved is in memory, one about to be confirmed is in the file). The heart is
`Agrees`: a lemma for each method says that what the code does to the dictionary is what one more request in
the log makes of it (`AgreesCreated`, `AgreesAdded`, `AgreesDeleted`); for the other resources it rests on
`ValuesStay`, for the value that is put on `ValueAdded`, which extends the positions of the payloads by one.

**`SystemProofs`** (`SystemAssumption`). `SystemInvariant`, `SystemCorrect`, `SystemUncrowded`: `SessionInv` and
`ReadYourWrites` for the three programs together, for any commands, tokens, dictionaries, start IDs and limits, over a network
that delays, reorders and loses. The invariant follows a request along its way. `ClientRight`: the buffer holds
the last commands and the stream those before, in order, each once. `OnePlace`: a request is with A, in a bundle,
at D, at B or served, and in one of these only; this gives `AtMostOnce`, and that D forwards a request once. `NetRight`,
`ProxyRight` and `ServerRight`: what is on the way to B has the path of its request and a token and an ID from
which D's maps lead back; what is on the way to A has those of its request. A new ID must overwrite nothing in
use: `IdsGivenOut` says that the IDs given out form an interval with as many members as a set of requests that have left A
and are not still to be forwarded, so with no more commands than IDs the next one is free. `Done` is what a
response claims: a success, that its request is in the log; a GET, that its content is what a prefix of the log makes of the
dictionary, a prefix with all that the user had seen confirmed, unless D cut it (`Pieces`). It stays true as the log grows; that it is true when B
answers rests on `Agrees` and the lemmas of `ServerProofs`. `SystemInvariant` and `SystemCorrect` are about behaviours in
which no task of A waits in `drain()` (`Unhindered`): with one waiting, the same aggregate may be written twice, which is a
step of the model (section 6), as it is of the code. `SystemUncrowded` shows that this condition always holds with fewer commands than it takes
aggregates to pause the transport (`Uncrowded`), as in the run.

**`LinkProofs`** (`NoAddrAssumption`, `ServedAssumption`, `NoManagerAssumption`,
`ContactListAssumption`, `BoundsAssumption`, `CallsAssumption`). `LinkTypeCorrect`,
`FibStaysConsistent`, `LinksStayKnown`. Each operator of `Fib` has a lemma: it maps a consistent FIB to a
consistent one. The invariant adds that management tasks in use have an address, which types the signals
they send. `LinksKnown` holds only while no signal about an address is pending, and says nothing of what
several pending ones may do to each other. `StatusFollows` does: the last pending signal about an address,
or with none its status in the FIB, says whether a management task holds the link. That it is kept by the
end of a task rests on `Tasks`: one task per address, entered in the table from its launch to its
clean-up, with a socket exactly while it may have reported the link as up.

**`LifeProofs`** (`BundleAssumption`, `AgentAssumption`, `HopAssumption`, `LengthAssumption`,
`SettingsAssumption`: sizes of bundles, the link's limit and the hops given are numbers).
`LifeInvariant`, `BundlesCounted`, for any bundles, sizes, links, dispatchers and queue lengths.
`IInv` is `Typed`, `AgentsRight` and, until freed memory is used, `Counted`. `RefsCounted` alone is not inductive: a
result that comes back must find its bundle live, or the count would fall below zero. `Right` says that a
bundle which is out, or whose arrival is still a signal, has nothing else under way, and that a live one
has a count, a dispatch (with an agent task or answered) or an arrival. `AgentsRight`:
each task asks once to be registered or removed and waits for it, so the bundle processor, which sets the
place of such a task, never takes one that has a bundle in hand. `LinkRight`: FINALIZE is the last command
of a link that is gone, so the end of a TX task returns every command left. A transmission moves from
the bundle processor to the queue, the task and the results; `OneMore` and `Balanced` say what one place
gains and another loses, so that the sum (`Under`) stays. That freed memory is not used is not
proved: it is, by the run `bundle_owner`.

TCPCLv3 (`TcpclAssumption`): `TcpclTypeCorrect`, `NothingFreedIsUsed`, `PlannedAreListed`,
`PlannedOnlyInContact`. `SessionsInvariant` adds `StateTells` (a connection's state and node ID say where its task
is), `TableHeld` (the table's semaphore excludes others, so the entry looked up stays) and `CallMeans`
(the call is about a connection of its node). Without `TableHeld` neither of two facts follows: that
`Leave` cannot free what the bundle processor holds, and that a takeover still meets the connection it
found. `SessionQuiet` covers all steps of one task that leave the table alone; `ListStep`, `LaunchStep`
and `MarkStep` the others. Removing the table's semaphore from `Leave` makes the proof fail.

Reassembly (`CopiesAssumption`: what arrives is the ADU or a part of it, and the ADU is not empty): `LocalInvariant`,
for ADUs of any length, any fragments and deadlines, any order of arrival. `LocalIInv` is `LocalTypes`, with the
fragments in the order of their offsets (`Sorted`, which `add_to_reassembly_bundle_list` keeps: `InsertedFits`), and `Remembered`:
while all deadlines are the same, every fragment of the list is known, no two of them are the same (`Apart`), and once
delivered, the ADU is known as a whole. Both ways to deliver it look it up first, but only one of them heeds what it finds: a
bundle that is not a fragment is delivered once, and a delivery of fragments, when the ADU is known, is that of one more that
is `late`. So the deliveries are at most one more than those (`OncePerLate`), and that they are not one is `late_fragments`.
That nothing is missing needs no order: in a list the loop of `try_reassemble` finds complete, the first fragment that ends
beyond a byte begins at it or before (`CompleteCovers`). That the loop sees a list as complete which is needs all of it:
sorted, without doubles and none nested, the fragments end in order too, so its position never goes back
(`CoveredCompletes`); a nested fragment sets it back, which is why `NoneNested` is there.

**`DispatcherProofs`** (`EidAssumption`, `BundleAssumption`, `ContactAssumption`, `ConfigAssumption`: finitely many
bundles and contacts, sizes and times are numbers, a configuration message is about contacts). `DispatcherAlwaysRight`,
`DispatchAlwaysFits`, `OnlySentIsDeleted`. `SchedulesFit` is about what `_calc_bundle_schedule` returns for every bundle,
plan and set of books: the fold of `CalcSchedule` over the contacts is shown to be a sequence of rounds (`LoopIsRounds`),
and by induction over the rounds (`PlacedStep`) the bytes placed after each are those up to the offset reached, in
fragments that fit their contacts and do not overlap. `DeletedWhenSent` needs `Covered`: each byte of a known bundle was
handed to a contact or is in its schedule, through recalls, re-scheduling and tasks that end in between. `Queued`
and `TaskTyped` say that every bundle in a queue, or in the hands of a task, has its fragment in `sched_db`, `EndsLate` that a
contact still in the plan gives up its link only when it is over. A process that died on a `KeyError`
keeps all but what its last step broke off.

The client of node A (`ClientAssumption`: there is an ID to give, the buffer has room for a message, the other limits are
numbers): `ClientInvariantHolds`, `ClientAlwaysRight`, for any commands, `BUFFER_LIMIT`, speed of the daemon and losses, with
tasks that wait in `drain()` or not. `Partition` is not inductive: that what a task takes from the buffer is sent once depends on
which other tasks exist. `TasksFit` says that besides `chat_send` only the known flusher is alive, that one of them has
the event loop at most, and that a flusher is known exactly while the buffer holds something. This is what the cancellation
rests on: who has written the buffer cancels the only other task that could write it again, or itself, which is over then. `WaitersFit` says that the queue of `drain()` and the futures just resolved hold each waiting task once, so that
`resume_writing` wakes all of them, in their order; `LogFits`, that what was written and the buffer make up what was queued,
which rests on lemmas about `FlattenSeq` of a sequence that has grown (`FlattenAppend`, by induction over its length)
and on `RemovedFirst`, of a queue from which a task has left.

The transports over datagrams (`DatagramAssumption`: finitely many sockets and sessions, room for one): `DatagramsSound`
states `DatagramInv` for any interfaces, requests, visitors and errors. `DatagramsRight` adds to it what a step must find.
A request to a DTLS connection has one that is not closed (`ConnectionsKept`), since all ways to close it fail what waits
for it, or need that nothing does. A link in use is in its pool but for a race or a shutdown (`LinksPlaced`). `RacesSeen` is what
makes the replacing of a socket accountable: of two sockets to a host, one still being opened, one was begun beside the other,
so the one that is replaced was `Overtaken`. `RoomLeft` counts the sockets of simple6 with those being opened: one begun
alone makes room for itself, and one begun beside another adds to those that may exceed `max_sockets`. A pool is
proved to hold each link once, whether it grows, is cut at its front, loses a link or has one replaced (`AppendedPool`, `CutPool`,
`RemovedFirst`, `PooledAt`), so that its length is the number of its links (`PoolSize`).

The transports over streams (`StreamAssumption`: a message has at least one unit): `StreamsSound` states `StreamInv` for any
connections, requests and messages, however they are cut on the way. `StreamsRight` has the cutting the other way round
(`Uncut`): what is spooled and under way are the units of the messages sent and not taken yet (`Coming`). So the first
unit of the spool announces the next message (`FirstComing`), and what it announces is what is taken off (`TcpTakes`, with `Cancel`);
that a sequence of messages may be cut anywhere is `UnitsConcat`, by induction over its length. `StreamRight` says why
nobody waits for a connection that is lost: a WebSocket is read by its loop until the loop fails its requests or was
aborted, data is processed only in a connection that is open or closing, and one that is not made has no request yet.

**`OscoreProofs`** (`PeersAssumption`, `PlansAssumption`, `WindowAssumption`, `ChunkAssumption`).
`NoncesOnce`, `OscoreRight`, for any window, any chunk of numbers and any number of crashes, closings,
copies and requests. The number on file is above all numbers ever used (`Lead`), so a restart skips some
and repeats none; a nonce without a number of its own is that of a request, and one task, or one response
sent, has it (`TaskRight`). That a request is rendered once needs more than the window: a crash loses it,
and the echo option (RFC 8613, B.1.2) makes a new one. `WindowsRight` says that a window in use rejects what was rendered;
`RecentIsLate` why the new one does too: what carries the echo value of this process, or answers one of
its requests with a number of its own, was numbered after all that was rendered before. All this holds as
long as the file could be written: `IInv` is `~ unsaved => Inv`. Types hold without that condition,
and are proved separately.

**`ExchangeProofs`** (`MidsAssumption`, `FirstIdAssumption`, `RequestsAssumption`, `PlansAssumption`).
`ExchangeRight`, `UpdatesArrive`, `FreshStates`, and `ServiceRefined`: every step of `CoapExchange` is a step of
`RequestService` or a stutter. Each operator of `MessageManager` has a lemma. None of the properties is
inductive, since each depends on messages that may still arrive. `Inv(S)` speaks of them all: `S` is the set of
everything the server has ever sent, chosen anew in each step, so that the specification needs no
history variable, and `IInv` is `\E S : Inv(S)`. A message of `S` answers a request that was rendered (`Answers`), and of two
notifications the one with the higher number shows the later state (`Ordered`), which is what `FreshStates` rests
on; `PipesRight` relates each rendering task to `S`: the number it gives next is above all it gave, and counts
no more updates than there were, which keeps numbers within `Window`. That a request is rendered once
needs the IDs the client gives out (`NumbersRight`) and where a request may be (`PlacesRight`): in the backlog
and never sent, or on its way and, once rendered, among the `recent_messages` until no copy can arrive.

**Only model-checked.** All liveness (`Terminates`, `AnswersAll`, `ClientProgress`,
`EveryRequestAnswered`, `LossNoticed`, `Progress`, `ContactsEnd`, `BundlesSettle`, `ExchangesEnd`, `TransfersEnd`, `StreamsSettle`,
`Recovers`, `StaysRegistered`, `Catch`): liveness under fairness is out of the prover's reach.
An induction is possible where it can be said of a set of numbers (`NatSets` in `DispatcherProofs`, from the least
element of a set); the library's induction theorems, which take an operator, cannot be instantiated. What `Framing`,
`BlockwiseTransfer` and `RdLookup` compute over sequences is not proved for every input. `EdhocInv` and `FilesInv` use
ENABLED. The safety of the modules without proofs (`Aap2Client`,
EDHOC, the tree of sites, which is recursive, the file server) is checked on the instances above.

## 8. What is not modelled

* **The router agent**, contact-graph router and routing table of µD3TN: `BundleDispatcher` takes their
  place in this topology; the contact list of `ContactManager` is constant.
* **Storage**, an SQL table behind a link: `BundleDispatcher` has its answers.
* **AAP 1**, the echo agent, and the connections of AAP 2.0 that are neither a dispatcher's nor a
  subscriber's to links.
* **MTCP's incoming connections**, the single-connection TCP layer, SPP, BIBE, SMTCP: layers with tasks
  of the same form.
* **TCPCLv3's signals about links.** `LinkControl` has them for MTCP only.
* **Status reports**, and failing allocations; in `BundleLife` the signaling queue has no bound.
* **Codecs** of bundles and segments, options and URIs: byte formats covered by unit tests. Of aiocoap's codec
  `Framing` has what the extraction loops depend on.
* Of aiocoap: multicast, group OSCORE and deterministic requests, the observations of block-wise bodies,
  command line tools, tables of numbers, link formats, logging.
* Tests, tools, vendored and generated code.

## 9. What could come next

1. **Proofs**: the invariants of the AAP 2.0 tools and the EDHOC exchange.
2. **TCPCLv3 composed with `Fib`**: whether the FIB's status matches the link used, after a takeover and
   with the address an accepted link reports (`cla_tcpclv3.c:623`).
3. **The router agent**: the semaphore shared by router agent, contact manager and bundle
   processor; rescheduling after a loss (`router_agent.c:356`).
4. **Storage and the single-connection TCP layer** (`cla_tcp_common.c:452`, its contact counter).
5. **Group OSCORE**, on top of `OscoreContext`.
