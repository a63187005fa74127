----------------------------- MODULE Aap2Client ------------------------------
(***************************************************************************)
(* The client of uD3TN's application protocol (AAP 2.0) that the nodes and *)
(* the tools use, ud3tn_utils/aap2/aap2_client.py, synchronous and         *)
(* asynchronous, with the programs built on it: aap2_send, aap2_config,    *)
(* aap2_configure_link, aap2_storage_agent (one call each), aap2_receive,  *)
(* aap2_bdm_static (subscribers), aap2_ping (a subscriber and a thread     *)
(* that sends) and the way aap2_bdm_ud3tn_routing shares one client        *)
(* between its tasks.  The other side is components/aap2/aap2_agent.c.     *)
(*                                                                         *)
(* A message is its kind, a number per connection, the length of its       *)
(* payload, which follows it as an item of its own, and what tells its     *)
(* content apart.  A response has the number of the message it answers,    *)
(* which only the properties look at.                                      *)
(***************************************************************************)
EXTENDS Integers, Sequences, SequencesExt, FiniteSets

CONSTANTS
  Tools,    \* the programs run: their arguments, the agent ids others have registered, what
            \* the agent has for a subscriber, and bounds on mishaps
  MaxTicks, \* intervals that pass from one ping to the next, at most
  MaxPings  \* intervals in all, of a ping without a count

VARIABLES
  tool,
  wire,     \* per connection, both directions of its stream and the agent's side of it
  thread,   \* per thread or task, where it is
  lock,     \* AAP2AsyncClient.lock of the RPC connection: its holder, then those who wait
  ping,     \* what the two threads of aap2_ping share, and the echoes under way
  output,   \* what aap2_receive has written
  got,      \* history: how far the responses to RPCs were from what the cancelled ones explain
  spoilt,   \* history: RPCs cancelled, and whether an item was left half read
  trouble


Conns == {"sub", "rpc"}
Threads == {"main", "sender", "task1", "task2"}
Tasks == {"task1", "task2"}
Callers == {"aap2_send", "aap2_config", "aap2_storage_agent", "aap2_configure_link"}
Subscribers == {"aap2_receive", "aap2_bdm_static", "aap2_ping", "bdm"}
Nobody == [agent |-> "none", secret |-> "none"]
Item(kind, n, len, seq) == [kind |-> kind, n |-> n, len |-> len, seq |-> seq, by |-> Nobody]
Msg(kind, len, seq) == Item(kind, 0, len, seq)
Whole == 2  \* the length of a payload

Start(name) ==
  CASE name = "bdm" -> << <<"connect", "sub">>, <<"connect", "rpc">>,
                          <<"configure", "sub">>, <<"configure", "rpc">> >>
    [] name \in Subscribers -> << <<"connect", "sub">>, <<"configure", "sub">> >>
    [] OTHER -> << <<"connect", "rpc">>, <<"configure", "rpc">> >>

InitAap ==
  /\ tool \in Tools
  /\ wire = [c \in Conns |->
               [state |-> "none", in |-> <<>>, out |-> <<>>, node_eid |-> FALSE, sent |-> 0,
                registered |-> Nobody, subscriber |-> FALSE, awaits |-> "none", pushed |-> 0,
                wrong |-> FALSE]]
  /\ thread = [th \in Threads |->
                 [at |-> IF th = "main" /\ tool.name # "none" THEN "starting" ELSE "none",
                  todo |-> IF th = "main" THEN Start(tool.name) ELSE <<>>,
                  n |-> 0, calls |-> 0, item |-> Msg("none", 0, 0), result |-> "none"]]
  /\ lock = <<>> /\ output = <<>> /\ got = {} /\ trouble = 0
  /\ ping = [counter |-> 0, stop |-> FALSE, signal |-> FALSE, ticks |-> 0, since |-> 0,
             under_way |-> {}, received |-> 0, seen |-> {}, expected |-> 0, owed |-> {}]
  /\ spoilt = [late |-> 0, half |-> FALSE]

Mishap(f) == f \in tool.faults /\ trouble < tool.mishaps /\ trouble' = trouble + 1
At(th) == thread[th].at
Go(th, at) == thread' = [thread EXCEPT ![th].at = at]
\* The main thread of aap2_ping sets stop_event whatever ends its loop.
Leave(th, result) ==
  /\ thread' = [thread EXCEPT ![th].at = "closing", ![th].result = result]
  /\ ping' = [ping EXCEPT !.stop = @ \/ th = "main"]

-----------------------------------------------------------------------------
(* Sending and receiving. *)

\* send: a message and its payload, in one piece (the sockets block).
Written(w, m) ==
  LET own == [m EXCEPT !.n = w.sent + 1] IN
  [w EXCEPT !.sent = @ + 1,
            !.out = IF w.state # "open" THEN @
                    ELSE IF m.len = 0 THEN Append(@, own)
                    ELSE @ \o <<own, Item("payload", 0, m.len, m.seq)>>]
Send(c, m) == wire' = [wire EXCEPT ![c] = Written(@, m)]
\* send_response_status.
Answered(w, status) ==
  IF w.state = "open" THEN [w EXCEPT !.out = Append(@, Msg(status, 0, 0))] ELSE w

\* _receive_delimited and the parser, on the next item.  Where that is what is left of an
\* item half read, its first byte is taken for a length: the parser fails, or swallows some
\* of what follows as a message without a known field.
Reads(w) ==
  IF w.in = <<>> THEN {}
  ELSE IF Head(w.in).kind \in {"payload", "half"}
  THEN {<<Msg("bad", 0, 0), Tail(w.in)>>}
         \cup {<<Msg("other", 0, 0), SubSeq(w.in, k + 1, Len(w.in))>> : k \in 1..Len(w.in)}
  ELSE {<<Head(w.in), Tail(w.in)>>}
Broken(w) == w.state = "gone" /\ w.in = <<>>

-----------------------------------------------------------------------------
(* Connecting and configuring. *)

Doing(th, op, c) == thread[th].todo # <<>> /\ Head(thread[th].todo) = <<op, c>>

\* AAP2TCPClient.connect tries each address that getaddrinfo gives.
ReachedTcp(addresses) == \E i \in DOMAIN addresses : addresses[i]
\* A socket path, and AAP2AsyncClient.
ReachedUnix(listening) == listening

Connect(th) ==
  \E c \in Conns :
    /\ At(th) = "starting" /\ Doing(th, "connect", c)
    /\ \/ /\ IF tool.tcp THEN ReachedTcp(<<FALSE, TRUE>>) ELSE ReachedUnix(TRUE)
          /\ wire' = [wire EXCEPT ![c].state = "open"]
          /\ Go(th, "greeting") /\ UNCHANGED <<ping, trouble>>
       \/ /\ Mishap("refused") /\ Leave(th, "exception") /\ UNCHANGED wire
    /\ UNCHANGED <<tool, lock, output, got, spoilt>>

\* _check_first_byte and _process_welcome.
FirstByte(w) == w.in # <<>> /\ Head(w.in).kind = "magic"
ProcessWelcome(w) == Len(w.in) > 1 /\ w.in[2].kind = "welcome"

\* _welcome.
Welcome(th) ==
  \E c \in Conns : LET w == wire[c] IN
    /\ At(th) = "greeting" /\ Doing(th, "connect", c)
    /\ \/ /\ FirstByte(w) /\ ProcessWelcome(w)
          /\ wire' = [wire EXCEPT ![c].in = SubSeq(@, 3, Len(@)), ![c].node_eid = TRUE]
          /\ thread' = [thread EXCEPT ![th].todo = Tail(@), ![th].at = "starting"]
          /\ UNCHANGED ping
       \/ /\ \/ w.in # <<>> /\ ~FirstByte(w)
             \/ Len(w.in) > 1 /\ ~ProcessWelcome(w)
             \/ w.state = "gone" /\ Len(w.in) < 2
          /\ Leave(th, "exception") /\ UNCHANGED wire
    /\ UNCHANGED <<tool, lock, output, got, spoilt, trouble>>

\* _generate_agent_id, _prepare_config_msg: the agent id and the secret given, or new ones; a
\* program gives its second connection those of its first.
AgentId == IF tool.agentid = "none" THEN "generated" ELSE tool.agentid
Credentials == [agent |-> AgentId, secret |-> "generated"]
PrepareConfigMsg(c) ==
  [Msg("config", 0, IF c = "sub" THEN 1 ELSE 0) EXCEPT !.by = Credentials]

Configure(th) ==
  \E c \in Conns :
    /\ At(th) = "starting" /\ Doing(th, "configure", c) /\ wire[c].node_eid
    /\ Send(c, PrepareConfigMsg(c)) /\ Go(th, "configuring")
    /\ UNCHANGED <<tool, lock, ping, output, got, spoilt, trouble>>

\* receive_response and _check_success.
CheckSuccess(th) ==
  \E c \in Conns : LET w == wire[c] IN
    /\ At(th) = "configuring" /\ Doing(th, "configure", c)
    /\ \/ \E r \in Reads(w) :
            /\ wire' = [wire EXCEPT ![c].in = r[2]]
            /\ IF r[1].kind # "SUCCESS" THEN Leave(th, "exception")
               ELSE /\ thread' = [thread EXCEPT ![th].todo = Tail(@), ![th].at = "starting"]
                    /\ UNCHANGED ping
       \/ Broken(w) /\ Leave(th, "exception") /\ UNCHANGED wire
    /\ UNCHANGED <<tool, lock, output, got, spoilt, trouble>>

\* The program goes to its own work; ping starts its thread, the dispatcher its tasks.
Started(th) ==
  /\ At(th) = "starting" /\ thread[th].todo = <<>>
  /\ thread' = [u \in Threads |->
       IF u = th THEN [thread[u] EXCEPT !.at = "ready"]
       ELSE IF th = "main" /\ u = "sender" /\ tool.name = "aap2_ping"
       THEN [thread[u] EXCEPT !.at = "starting", !.todo = Start("sender")]
       ELSE IF th = "main" /\ u \in Tasks /\ tool.name = "bdm"
       THEN [thread[u] EXCEPT !.at = "ready", !.calls = 2] ELSE thread[u]]
  /\ UNCHANGED <<tool, wire, lock, ping, output, got, spoilt, trouble>>

\* disconnect: of the asynchronous client under its lock.
Closed(th) == [c \in Conns |-> IF (c = "rpc") = (th = "sender" \/ tool.name \notin Subscribers)
                                  \/ tool.name = "bdm"
                               THEN [wire[c] EXCEPT !.state = "closed"] ELSE wire[c]]
Disconnect(th) ==
  /\ At(th) = "closing" /\ th \notin Tasks /\ tool.name # "bdm"
  /\ wire' = Closed(th) /\ Go(th, "ended")
  /\ UNCHANGED <<tool, lock, ping, output, got, spoilt, trouble>>
DisconnectAsync ==
  /\ At("main") = "closing" /\ tool.name = "bdm"
  /\ \/ "main" \notin ToSet(lock) /\ lock' = Append(lock, "main") /\ UNCHANGED <<wire, thread>>
     \/ /\ lock # <<>> /\ Head(lock) = "main"
        /\ wire' = Closed("main") /\ lock' = Tail(lock)
        /\ thread' = [th \in Threads |-> [thread[th] EXCEPT !.at =
                        IF th = "main" \/ th \in Tasks THEN "ended" ELSE @]]
  /\ UNCHANGED <<tool, ping, output, got, spoilt, trouble>>

-----------------------------------------------------------------------------
(* One call each: aap2_send, aap2_config, aap2_storage_agent, aap2_configure_link. *)

Calling(name) == tool.name = name /\ At("main") = "ready"
Called(m) == Send("rpc", m) /\ Go("main", "awaiting")
RestOfTool == UNCHANGED <<tool, lock, ping, output, got, spoilt, trouble>>

\* The payload, encapsulated or not.
SendBundle == Calling("aap2_send") /\ Called(Msg("adu", Whole, 0)) /\ RestOfTool
SendConfig == Calling("aap2_config") /\ Called(Msg("adu", Whole, 1)) /\ RestOfTool
SendStorageCall == Calling("aap2_storage_agent") /\ Called(Msg("adu", Whole, 2)) /\ RestOfTool
SendLink == Calling("aap2_configure_link") /\ Called(Msg("link", 0, 0)) /\ RestOfTool

\* receive_response, and an assertion or sys.exit(1) on a status that is not SUCCESS.
CallAnswered ==
  LET w == wire["rpc"] IN
  /\ tool.name \in Callers /\ At("main") = "awaiting"
  /\ \/ \E r \in Reads(w) :
          /\ wire' = [wire EXCEPT !["rpc"].in = r[2]]
          /\ Leave("main", IF r[1].kind = "SUCCESS" THEN "0" ELSE "1")
     \/ Broken(w) /\ Leave("main", "exception") /\ UNCHANGED wire
  /\ UNCHANGED <<tool, lock, output, got, spoilt, trouble>>

-----------------------------------------------------------------------------
(* Subscribers. *)

Asynchronous == tool.name = "bdm"
Receiving == tool.name \in Subscribers /\ At("main") = "ready"
Answer(status, in) ==
  wire' = [wire EXCEPT !["sub"] = Answered([@ EXCEPT !.in = in], status)]
RestOfLoop == UNCHANGED <<tool, lock, output, got, spoilt, trouble>>

\* The agent has closed the connection, or what was read does not parse.
ReceiveFails ==
  /\ Receiving
  /\ \/ /\ Broken(wire["sub"]) /\ UNCHANGED wire
        /\ IF tool.name = "aap2_ping" THEN Go("main", "terminated 1") /\ UNCHANGED ping
           ELSE Leave("main", "1")
     \/ \E r \in Reads(wire["sub"]) :
          /\ r[1].kind = "bad" /\ wire' = [wire EXCEPT !["sub"].in = r[2]]
          /\ Leave("main", "exception")
  /\ RestOfLoop

ReceiveKeepalive ==
  /\ Receiving
  /\ \E r \in Reads(wire["sub"]) : r[1].kind = "keepalive" /\ Answer("ACK", r[2])
  /\ UNCHANGED <<thread, ping>> /\ RestOfLoop

\* aap2_receive and aap2_ping pass over a message they have no use for without an answer.
Discard ==
  /\ Receiving
  /\ \E r \in Reads(wire["sub"]) :
       /\ r[1].kind = "other"
       /\ IF tool.name = "aap2_bdm_static" \/ Asynchronous THEN Answer("SUCCESS", r[2])
          ELSE wire' = [wire EXCEPT !["sub"].in = r[2]]
  /\ UNCHANGED <<thread, ping>> /\ RestOfLoop

\* run_static_bdm: any message but a keepalive is answered, a dispatch event with a next hop
\* if its reason is one of VALID_DISPATCH_REASONS.
StaticDispatch ==
  /\ Receiving /\ tool.name = "aap2_bdm_static"
  /\ \E r \in Reads(wire["sub"]) : r[1].kind \in {"dispatch", "adu"} /\ Answer("SUCCESS", r[2])
  /\ UNCHANGED <<thread, ping>> /\ RestOfLoop

\* An ADU is announced; receive_adu reads its payload.
ReceiveAduMsg ==
  /\ Receiving /\ tool.name # "aap2_bdm_static"
  /\ \E r \in Reads(wire["sub"]) :
       /\ r[1].kind = "adu" /\ wire' = [wire EXCEPT !["sub"].in = r[2]]
       /\ thread' = [thread EXCEPT !["main"].at = "payload", !["main"].item = r[1]]
  /\ UNCHANGED ping /\ RestOfLoop

\* socket.recv(payload_length): one call, that may return less than was asked for.
PayloadRead(len) ==
  LET w == wire["sub"] IN
  IF len = 0 THEN Broken(w) /\ wire' = wire
  ELSE /\ w.in # <<>> /\ Head(w.in).kind = "payload" /\ len <= Head(w.in).len
       /\ wire' = [wire EXCEPT !["sub"].in =
                     IF len = Head(@).len THEN Tail(@)
                     ELSE <<[Head(@) EXCEPT !.len = @ - len]>> \o Tail(@)]
ReceiveAdu ==
  /\ At("main") = "payload" /\ ~Asynchronous
  /\ \E len \in 0..Whole :
       /\ PayloadRead(len)
       /\ IF len = Whole \/ len = 0 THEN UNCHANGED trouble ELSE Mishap("short")
       /\ spoilt' = [spoilt EXCEPT !.half = @ \/ len < Whole]
       /\ thread' = [thread EXCEPT !["main"].at = "answer", !["main"].item.len = len]
  /\ UNCHANGED <<tool, lock, ping, output, got>>

\* aap2_receive: the answer, then the output, as much of the payload as there is.
WriteOutput ==
  /\ At("main") = "answer" /\ tool.name = "aap2_receive"
  /\ wire' = [wire EXCEPT !["sub"] = Answered(@, "SUCCESS")]
  /\ \/ /\ output' = Append(output, thread["main"].item.len)
        /\ IF tool.count = Len(output') THEN Leave("main", "0")
           ELSE Go("main", "ready") /\ UNCHANGED ping
     \/ wire["sub"].state = "gone" /\ Leave("main", "exception") /\ UNCHANGED output
  /\ UNCHANGED <<tool, lock, got, spoilt, trouble>>

-----------------------------------------------------------------------------
(* aap2_ping. *)

Tick ==
  /\ tool.name = "aap2_ping" /\ At("main") # "ended"
  /\ ping.ticks < ping.since + MaxTicks /\ (tool.count = 0 => ping.ticks < MaxPings)
  /\ ping' = [ping EXCEPT !.ticks = @ + 1]
  /\ UNCHANGED <<tool, wire, thread, lock, output, got, spoilt, trouble>>

More == tool.count = 0 \/ ping.counter < tool.count
SendPing ==
  /\ At("sender") = "ready" /\ More
  /\ Send("rpc", Msg("adu", Whole, ping.counter))
  /\ Go("sender", "awaiting") /\ ping' = [ping EXCEPT !.since = ping.ticks]
  /\ RestOfLoop

PingAnswered ==
  LET w == wire["rpc"] IN
  /\ At("sender") = "awaiting"
  /\ \/ \E r \in Reads(w) :
          /\ wire' = [wire EXCEPT !["rpc"].in = r[2]]
          /\ IF r[1].kind = "SUCCESS" THEN Go("sender", "interval") /\ UNCHANGED ping
             ELSE Leave("sender", "exception")
     \/ Broken(w) /\ Leave("sender", "exception") /\ UNCHANGED wire
  /\ RestOfLoop

\* stop_event.wait(timeout=interval).
IntervalPassed ==
  /\ At("sender") = "interval" /\ ~ping.stop /\ ping.ticks > ping.since
  /\ Go("sender", "ready") /\ ping' = [ping EXCEPT !.counter = @ + 1]
  /\ UNCHANGED wire /\ RestOfLoop
SenderStopped ==
  /\ At("sender") \in {"interval", "grace"} /\ ping.stop
  /\ Leave("sender", "0") /\ UNCHANGED wire /\ RestOfLoop

\* All are sent: wait for the echoes, where asked to, then a SIGINT for the main thread.
AwaitEchoes ==
  /\ At("sender") = "ready" /\ ~More /\ tool.timeout
  /\ Go("sender", "grace") /\ UNCHANGED <<wire, ping>> /\ RestOfLoop
SignalMain ==
  /\ ~More /\ At("sender") = IF tool.timeout THEN "grace" ELSE "ready"
  /\ thread' = [thread EXCEPT !["sender"].at = "closing", !["sender"].result = "0"]
  /\ ping' = [ping EXCEPT !.signal = TRUE]
  /\ UNCHANGED wire /\ RestOfLoop
Interrupt ==
  /\ tool.name = "aap2_ping" /\ Mishap("sigint") /\ At("main") \in {"ready", "payload", "answer"}
  /\ ping' = [ping EXCEPT !.signal = TRUE]
  /\ UNCHANGED <<tool, wire, thread, lock, output, got, spoilt>>

\* _try_receive_ping: the answer, then the content.  A payload that starts with PING but has
\* not its three fields is a ValueError, of which only the UnicodeError is caught.
Content(item) ==
  IF item.len = Whole /\ item.seq >= 0 THEN {"ping"}
  ELSE IF item.len = 0 THEN {"none"}
  ELSE {"none", "exception"} \cup (IF item.seq >= 0 THEN {"ping"} ELSE {})
TryReceivePing ==
  /\ At("main") = "answer" /\ tool.name = "aap2_ping"
  /\ wire' = [wire EXCEPT !["sub"] = Answered(@, "SUCCESS")]
  /\ LET item == thread["main"].item IN
     \E content \in Content(item) \cup (IF wire["sub"].state = "gone" THEN {"exception"} ELSE {}) :
       \/ /\ content = "ping" /\ ping' = [ping EXCEPT !.received = @ + 1, !.seen = @ \cup {item.seq}]
          /\ Go("main", IF tool.count # 0 /\ item.seq = tool.count - 1 THEN "terminated 0" ELSE "ready")
       \/ content = "exception" /\ Leave("main", "exception")
       \/ content = "none" /\ Go("main", "ready") /\ UNCHANGED ping
  /\ RestOfLoop

\* KeyboardInterrupt in the loop, or PingTerminated: what should have come by now.
Sent == ping.counter + (IF At("sender") \in {"awaiting", "interval"} THEN 1 ELSE 0)
ExpectedBundles ==
  LET n == ping.ticks + 1 IN IF tool.count # 0 /\ tool.count < n THEN tool.count ELSE n
Statistics ==
  /\ tool.name = "aap2_ping"
  /\ \E result \in {"0", "1"} :
       /\ \/ ping.signal /\ At("main") \in {"ready", "payload", "answer"} /\ result = "0"
          \/ At("main") = "terminated " \o result
       /\ thread' = [thread EXCEPT !["main"].at = "statistics", !["main"].result = result]
  /\ ping' = [ping EXCEPT !.expected = ExpectedBundles, !.owed = 0..(Sent - 1),
                !.signal = @ /\ At("main") \in {"terminated 0", "terminated 1"}]
  /\ UNCHANGED wire /\ RestOfLoop
Verdict ==
  /\ At("main") = "statistics"
  /\ IF ping.signal THEN Leave("main", "interrupted")
     ELSE Leave("main", IF ping.received < ping.expected THEN "1" ELSE thread["main"].result)
  /\ UNCHANGED wire /\ RestOfLoop
\* A signal that comes later ends the process on the spot, whatever the result was to be.
InterruptedLate ==
  /\ At("main") = "closing" /\ ping.signal
  /\ thread' = [thread EXCEPT !["main"].result = "interrupted"]
  /\ ping' = [ping EXCEPT !.signal = FALSE]
  /\ UNCHANGED wire /\ RestOfLoop

-----------------------------------------------------------------------------
(* The tasks of aap2_bdm_ud3tn_routing and its main coroutine, on one RPC client. *)

RestOfRpc == UNCHANGED <<tool, ping, output, trouble>>

\* async with self.lock.
LockRpc(th) ==
  /\ th \in Tasks /\ At(th) = "ready" /\ thread[th].calls > 0
  /\ lock' = Append(lock, th) /\ Go(th, "locking")
  /\ UNCHANGED <<wire, got, spoilt>> /\ RestOfRpc

\* Mutant: without waiting for the lock.
SendRpcAtOnce(th) ==
  /\ At(th) = "locking"
  /\ Send("rpc", IF th \in Tasks /\ thread[th].calls = 1 THEN Msg("link", 0, 0) ELSE Msg("adu", Whole, 0))
  /\ thread' = [thread EXCEPT ![th].at = "rpc", ![th].n = wire["rpc"].sent + 1]
  /\ UNCHANGED <<lock, got, spoilt>> /\ RestOfRpc
\* send_rpc and send_adu_rpc up to the response.
SendRpc(th) ==
  /\ At(th) = "locking" /\ Head(lock) = th
  /\ Send("rpc", IF th \in Tasks /\ thread[th].calls = 1 THEN Msg("link", 0, 0) ELSE Msg("adu", Whole, 0))
  /\ thread' = [thread EXCEPT ![th].at = "rpc", ![th].n = wire["rpc"].sent + 1]
  /\ UNCHANGED <<lock, got, spoilt>> /\ RestOfRpc
\* The length of the response has come, the rest has not.
ReceiveLength(th) ==
  /\ At(th) = "rpc" /\ wire["rpc"].in # <<>> /\ Head(wire["rpc"].in).kind # "half"
  /\ Go(th, "rpc rest") /\ UNCHANGED <<wire, lock, got, spoilt>> /\ RestOfRpc

\* receive_response; the lock is released, and the task goes on or fails its assertion.
Release(th) == lock' = SelectSeq(lock, LAMBDA u : u # th)
ReceiveRpcResponse(th) ==
  LET w == wire["rpc"] IN
  /\ At(th) \in {"rpc", "rpc rest"} /\ Release(th)
  /\ \/ \E r \in Reads(w) :
          /\ wire' = [wire EXCEPT !["rpc"].in = r[2]]
          /\ got' = got \cup (IF spoilt.half THEN {} ELSE {thread[th].n - r[1].n - spoilt.late})
          /\ thread' = [thread EXCEPT ![th].calls = @ - 1, ![th].at =
               IF r[1].kind # "SUCCESS" THEN IF th = "main" THEN "closing" ELSE "ended"
               ELSE IF th = "main" THEN "answer" ELSE "ready"]
     \/ Broken(w) /\ Go(th, IF th = "main" THEN "closing" ELSE "ended") /\ UNCHANGED <<wire, got>>
  /\ UNCHANGED spoilt /\ RestOfRpc

\* Task.cancel by a new configuration, or by asyncio.wait_for at the end of a contact: the
\* lock is released with the response still to come, and the task makes its last call.
Abandon(th) ==
  /\ thread' = [thread EXCEPT ![th].at = "ready", ![th].calls = 1]
  /\ Release(th)
  /\ spoilt' = [late |-> spoilt.late + (IF At(th) \in {"rpc", "rpc rest"} THEN 1 ELSE 0),
                half |-> spoilt.half \/ At(th) = "rpc rest"]
  /\ wire' = IF At(th) = "rpc rest" THEN [wire EXCEPT !["rpc"].in = <<Msg("half", 0, 0)>> \o Tail(@)]
             ELSE wire
CancelTask(th) ==
  /\ th \in Tasks /\ At(th) \in {"ready", "locking", "rpc", "rpc rest"} /\ thread[th].calls = 2
  /\ Mishap("cancel") /\ Abandon(th) /\ UNCHANGED <<tool, ping, output, got>>
TaskEnds(th) ==
  /\ th \in Tasks /\ At(th) = "ready" /\ thread[th].calls = 0 /\ Go(th, "ended")
  /\ UNCHANGED <<wire, lock, got, spoilt>> /\ RestOfRpc

\* run_compat_bdm: a dispatch event may take a call to the storage before it is answered, the
\* payload of an ADU is read in full.
Dispatch ==
  /\ Receiving /\ Asynchronous
  /\ \E r \in Reads(wire["sub"]) :
       /\ r[1].kind = "dispatch" /\ wire' = [wire EXCEPT !["sub"].in = r[2]]
       /\ \/ Go("main", "answer") /\ UNCHANGED lock
          \/ Go("main", "locking") /\ lock' = Append(lock, "main")
  /\ UNCHANGED <<got, spoilt>> /\ RestOfRpc
ReceiveAduAsync ==
  /\ At("main") = "payload" /\ Asynchronous
  /\ \/ PayloadRead(Whole) /\ Go("main", "answer") /\ UNCHANGED ping
     \/ PayloadRead(0) /\ Leave("main", "exception")
  /\ UNCHANGED <<tool, lock, output, got, spoilt, trouble>>
AnswerAsync ==
  /\ At("main") = "answer" /\ Asynchronous
  /\ wire' = [wire EXCEPT !["sub"] = Answered(@, "SUCCESS")]
  /\ Go("main", "ready") /\ UNCHANGED <<lock, got, spoilt>> /\ RestOfRpc

-----------------------------------------------------------------------------
(* The agent: aap2_agent_comm_task of each connection, and the echoes. *)

RestOfAgent == UNCHANGED <<tool, thread, lock, output, got, spoilt>>
Accepted(c) == wire[c].state = "open"

\* The magic number and WELCOME; an agent of another version greets otherwise.
Greet(c) ==
  /\ wire[c].state = "open" /\ wire[c].pushed = 0
  /\ \/ wire' = [wire EXCEPT ![c].pushed = 1, ![c].in = <<Msg("magic", 0, 0), Msg("welcome", 0, 0)>>]
        /\ UNCHANGED trouble
     \/ /\ Mishap("version") /\ \E first \in {"magic", "keepalive"} :
             wire' = [wire EXCEPT ![c].pushed = 1, ![c].in = <<Msg(first, 0, 0), Msg("other", 0, 0)>>]
  /\ UNCHANGED ping /\ RestOfAgent

\* process_configure_msg: an agent id that is registered needs the same secret.
Registered ==
  {wire[c].registered : c \in {d \in Conns : wire[d].state = "open"}} \cup tool.others
Refused(by) == \E r \in Registered : r.agent = by.agent /\ r.secret # by.secret
ProcessAapMessage(c) ==
  LET w == wire[c]
      m == Head(w.out) IN
  /\ Accepted(c) /\ ~w.subscriber /\ w.out # <<>> /\ (m.len > 0 => Len(w.out) > 1)
  /\ LET status == IF m.kind = "config" /\ Refused(m.by) THEN "UNAUTHORIZED"
                   ELSE IF m.kind \in {"config", "adu", "link"} THEN "SUCCESS" ELSE "INVALID"
         okay == status = "SUCCESS" /\ m.kind = "config" IN
     wire' = [wire EXCEPT ![c].out = IF m.len > 0 THEN Tail(Tail(@)) ELSE Tail(@),
                ![c].in = Append(@, Item(status, m.n, 0, 0)),
                ![c].registered = IF okay THEN m.by ELSE @,
                ![c].subscriber = okay /\ m.seq = 1]
  /\ ping' = [ping EXCEPT !.under_way =
                IF tool.name = "aap2_ping" /\ m.kind = "adu" THEN @ \cup {m.seq} ELSE @]
  /\ UNCHANGED trouble /\ RestOfAgent

\* The next message for a subscriber: what the program is given, and echoes in any order.
Idle(c) == wire[c].state = "open" /\ wire[c].subscriber /\ wire[c].awaits = "none"
Pushed(w, kind, seq) ==
  [w EXCEPT !.awaits = kind, !.pushed = @ + 1, !.in = @ \o
     (IF kind = "adu" THEN <<Msg("adu", Whole, seq), Item("payload", 0, Whole, seq)>>
      ELSE <<Msg(kind, 0, 0)>>)]
SendFromQueue(c) ==
  /\ Idle(c) /\ wire[c].pushed <= Len(tool.pushes)
  /\ LET kind == tool.pushes[wire[c].pushed] IN
     wire' = [wire EXCEPT ![c] = Pushed(@, kind, IF tool.name = "aap2_ping" THEN -1 ELSE 0)]
  /\ UNCHANGED <<ping, trouble>> /\ RestOfAgent
SendEcho(c) ==
  \E seq \in ping.under_way :
    /\ ping' = [ping EXCEPT !.under_way = @ \ {seq}]
    /\ \/ Idle(c) /\ wire' = [wire EXCEPT ![c] = Pushed(@, "adu", seq)]
       \/ tool.lossy /\ UNCHANGED wire
    /\ UNCHANGED trouble /\ RestOfAgent

\* The response: a keepalive that is not acknowledged ends the connection.
TakeStatus(c) ==
  LET w == wire[c]
      right == (Head(w.out).kind = "ACK") = (w.awaits = "keepalive") IN
  /\ Accepted(c) /\ w.subscriber /\ w.awaits # "none" /\ w.out # <<>>
  /\ wire' = [wire EXCEPT ![c].out = Tail(@), ![c].awaits = "none", ![c].wrong = @ \/ ~right,
                ![c].state = IF w.awaits = "keepalive" /\ ~right THEN "gone" ELSE @]
  /\ UNCHANGED <<ping, trouble>> /\ RestOfAgent
\* No response for too long, after an item was left half read.
StatusMissing(c) ==
  /\ Accepted(c) /\ wire[c].awaits # "none" /\ wire[c].out = <<>> /\ wire[c].in = <<>> /\ spoilt.half
  /\ At("main") = "ready" /\ wire' = [wire EXCEPT ![c].state = "gone"]
  /\ UNCHANGED <<ping, trouble>> /\ RestOfAgent

\* The agent ends, or its connection breaks, anywhere in what it was sending.
Vanish(c) ==
  /\ wire[c].state = "open" /\ Mishap("gone")
  /\ \E k \in 0..Len(wire[c].in) :
       wire' = [wire EXCEPT ![c].state = "gone", ![c].in = SubSeq(@, 1, k)]
  /\ UNCHANGED ping /\ RestOfAgent

-----------------------------------------------------------------------------
ThreadStep(th) ==
  \/ Connect(th) \/ Welcome(th) \/ Configure(th) \/ CheckSuccess(th) \/ Started(th)
  \/ Disconnect(th) \/ LockRpc(th) \/ SendRpc(th) \/ ReceiveRpcResponse(th) \/ TaskEnds(th)
ToolStep ==
  \/ SendBundle \/ SendConfig \/ SendStorageCall \/ SendLink \/ CallAnswered \/ DisconnectAsync
LoopStep ==
  \/ ReceiveFails \/ ReceiveKeepalive \/ Discard \/ StaticDispatch \/ ReceiveAduMsg \/ ReceiveAdu
  \/ WriteOutput \/ Dispatch \/ ReceiveAduAsync \/ AnswerAsync
PingStep ==
  \/ SendPing \/ PingAnswered \/ IntervalPassed \/ SenderStopped \/ AwaitEchoes \/ SignalMain
PingMainStep == TryReceivePing \/ Statistics \/ Verdict \/ InterruptedLate
AgentStep(c) == Greet(c) \/ ProcessAapMessage(c) \/ TakeStatus(c) \/ StatusMissing(c)

\* What the program, the agent and the clock do by themselves.
Progress ==
  \/ \E th \in Threads : ThreadStep(th)
  \/ ToolStep \/ LoopStep \/ PingStep \/ PingMainStep \/ Tick
  \/ \E c \in Conns : AgentStep(c)
NextAap ==
  \/ Progress \/ Interrupt
  \/ \E th \in Tasks : ReceiveLength(th) \/ CancelTask(th)
  \/ \E c \in Conns : SendFromQueue(c) \/ SendEcho(c) \/ Vanish(c)

-----------------------------------------------------------------------------
\* send_rpc is "equivalent to calling send() and receive_response() with a lock": while no
\* call was cancelled each gets the response to its own message, and after a cancelled one
\* each later call gets that of the call before, never a response out of order.
OwnResponse == got \subseteq {0}

\* The agent gets the status it waits for, ACK for a keepalive and another for the rest, and
\* a payload that is written out is whole, unless socket.recv returned less than all of one.
InStep ==
  spoilt.half \/ (/\ \A c \in Conns : ~wire[c].wrong
                  /\ \A i \in DOMAIN output : output[i] = Whole)

\* aap2_ping exits with 0 only when every ping sent by the time it added up has come back.
PingHonest ==
  tool.name = "aap2_ping" /\ At("main") = "ended" /\ thread["main"].result = "0" =>
    ping.owed \subseteq ping.seen

\* While nothing goes wrong and the agent id is free, no program fails: the second connection
\* of a program is registered with the secret of the first.
Accepts ==
  trouble = 0 /\ tool.others = {} /\ (tool.name = "aap2_ping" => tool.pushes = <<>>) =>
    \A th \in Threads : thread[th].result # "exception"

\* A program that is to end never comes to a stop before: one call, or ping with a count
\* whatever becomes of the echoes, unless its sending thread fails, of which the main thread
\* is not told; and the lock is passed on, even by a task that is cancelled.
NeverStuck ==
  ENABLED Progress
    \/ /\ tool.name \in Callers \/ (tool.name = "aap2_ping" /\ tool.count > 0) =>
            At("main") = "ended" \/ thread["sender"].result = "exception"
       /\ \A th \in Threads : At(th) = "locking" => spoilt.half

AapInv == OwnResponse /\ InStep /\ PingHonest /\ Accepts /\ NeverStuck
==============================================================================
