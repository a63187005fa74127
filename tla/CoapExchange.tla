---------------------------- MODULE CoapExchange ----------------------------
(***************************************************************************)
(* Requests, responses and observations of aiocoap between a client "c"    *)
(* and a server "s" over a network that loses, repeats and reorders        *)
(* messages: the message layer of both (MessageManager), the token layer   *)
(* (tokenmanager.py), the pipes that connect a request to its responses    *)
(* (pipe.py), the client's Request and ClientObservation, the server's     *)
(* ObservableResource and ServerObservation, and the orderly shutdown.     *)
(***************************************************************************)
EXTENDS MessageManager, FiniteSets

CONSTANTS
  FirstId,     \* per node, the message ID its manager starts with (a random one)
  MaxRequests, \* requests the client makes
  Plans,       \* what a behaviour is about: records of the kinds of the requests, each with
               \* observe, quiet (no_response) and mtype ("none": not made); of MAX_RETRANSMIT,
               \* a part of transport_tuning; and of the number of states of the resource
  MaxFaults    \* what happens beside the plain course: copies the network makes, errors it
               \* reports, cancellations, closed resources and shutdowns

Nodes == {"c", "s"}

ASSUME FirstIdAssumption == FirstId \in [Nodes -> 0 .. Mids - 1]

\* Bound: the IDs of a node's requests do not come round within a behaviour, which stands
\* for EXCHANGE_LIFETIME.
ASSUME RequestsAssumption == MaxRequests \in 0 .. Mids

\* The window in which observation numbers are compared (RFC 7641, 3.4).
Window == 8388608

\* Bound: a resource changes less often than that.
ASSUME PlansAssumption ==
  \A p \in Plans :
    /\ p.kinds \in [1 .. MaxRequests -> [observe : BOOLEAN, quiet : BOOLEAN,
                                        mtype : {"CON", "NON", "none"}]]
    /\ p.tries \in Nat
    /\ p.versions \in 1 .. Window

Peer(n) == IF n = "c" THEN "s" ELSE "c"
Tokens == 1 .. MaxRequests  \* next_token counts up

VARIABLES
  plan,     \* the one of Plans this behaviour follows
  mm,       \* per node, its message manager
  wire,     \* messages under way: [to, msg]
  requests, \* per token, the client's Request, its observation and its place in
            \* outgoing_requests
  pipes,    \* incoming_requests: per token, the pipe, its rendering task and ServerObservation
  version,  \* state of the resource
  rendered, \* per token, how many rendering tasks were created
  up,       \* per node, whether its context has not been shut down
  faults    \* how much of that has happened

vars == <<plan, mm, wire, requests, pipes, version, rendered, up, faults>>

Unasked(kind) == [kind |-> kind, result |-> "new", obs |-> "none", open |-> FALSE,
                  v1 |-> 0, last |-> 0, late |-> FALSE]

Init == /\ plan \in Plans
        /\ mm = [n \in Nodes |-> NewManager(FirstId[n])]
        /\ wire = {}
        /\ requests = [t \in Tokens |-> Unasked(plan.kinds[t])]
        /\ pipes = <<>>
        /\ version = 1
        /\ rendered = [t \in Tokens |-> 0]
        /\ up = [n \in Nodes |-> TRUE]
        /\ faults = 0

-----------------------------------------------------------------------------
Fault == faults < MaxFaults /\ faults' = faults + 1

\* The manager of n becomes M, and what M sent joins what is left on the wire.
Act(n, M, left) ==
  /\ mm' = [mm EXCEPT ![n] = [M EXCEPT !.out = {}]]
  /\ wire' = left \cup {[to |-> Peer(n), msg |-> m] : m \in M.out}

\* Request._run and the pipe of the request: an exception is the last event.
Failed(r) == [r EXCEPT !.open = FALSE,
                       !.result = IF @ = "pending" THEN "failed" ELSE @,
                       !.obs = IF (r.result = "pending" /\ r.kind.observe) \/ @ = "on"
                                 THEN "over" ELSE @]

\* Nobody is interested in the pipe any more, or its last event has come: on_interest_end
\* takes it out of incoming_requests and cancels its rendering task.
StopPipe(t) == Without(pipes, t)

FailAll == [t \in Tokens |-> IF requests[t].open THEN Failed(requests[t]) ELSE requests[t]]

\* TokenManager.dispatch_error of n: every request to the remote fails, every
\* responder to it is stopped.
DispatchError(n) == IF n = "c" THEN requests' = FailAll /\ UNCHANGED pipes
                    ELSE pipes' = <<>> /\ UNCHANGED requests

\* RFC 7641, 3.4, without its rule on time; the values are one more than in the option.
\* Mutant: whatever comes is delivered.
AnyRecent(v1, v2) == TRUE
IsRecent(v1, v2) == (v1 < v2 /\ v2 - v1 < Window) \/ (v1 > v2 /\ v1 - v2 > Window)

Final(r, m) == ~ (r.kind.observe /\ m.obs # 0)

\* The first response, and what an observation receives after it.
FirstResponse(r, m) ==
  [r EXCEPT !.result = "answered", !.last = m.val, !.v1 = m.obs, !.open = ~ Final(r, m),
            !.obs = IF ~ r.kind.observe THEN "none" ELSE IF Final(r, m) THEN "over" ELSE "on"]

Notification(r, m) ==
  IF r.obs = "cancelled" THEN [r EXCEPT !.open = FALSE]
  ELSE LET recent == m.obs = 0 \/ IsRecent(r.v1, m.obs) \/ r.late
           s == [r EXCEPT !.open = ~ Final(r, m), !.obs = IF Final(r, m) THEN "over" ELSE @]
       IN IF ~ recent THEN s
          ELSE IF m.obs = 0 THEN [s EXCEPT !.last = m.val]
          ELSE [s EXCEPT !.last = m.val, !.v1 = m.obs, !.late = FALSE]

Received(r, m) == IF r.result = "pending" THEN FirstResponse(r, m) ELSE Notification(r, m)

-----------------------------------------------------------------------------
\* Context.request without blockwise transfer: the first token that is not in use.
Ask(t) ==
  LET kind == requests[t].kind
  IN /\ up["c"]
     /\ kind.mtype # "none"
     /\ \A u \in Tokens : requests[u].result = "new" <=> u >= t
     /\ requests' = [requests EXCEPT ![t].result = "pending", ![t].open = TRUE]
     /\ Act("c", SendMessage(mm["c"], Message(kind.mtype, "REQ", Mids, t,
                                              IF kind.observe THEN 1 ELSE 0,
                                              IF kind.quiet THEN 1 ELSE 0), FALSE), wire)
     /\ UNCHANGED <<pipes, version, rendered, up, faults>>

\* The application cancels the future of the response, or the observation: that one
\* ends only with its next notification.
CancelResponse(t) ==
  /\ requests[t].result = "pending"
  /\ requests' = [requests EXCEPT ![t].result = "cancelled", ![t].open = FALSE]
  /\ Fault
  /\ UNCHANGED <<mm, wire, pipes, version, rendered, up>>

CancelObservation(t) ==
  /\ requests[t].obs = "on"
  /\ requests' = [requests EXCEPT ![t].obs = "cancelled"]
  /\ Fault
  /\ UNCHANGED <<mm, wire, pipes, version, rendered, up>>

\* 128 seconds (OBSERVATION_RESET_TIME) pass without a notification.
BecomeLate(t) ==
  /\ requests[t].obs = "on"
  /\ requests' = [requests EXCEPT ![t].late = TRUE]
  /\ Fault
  /\ UNCHANGED <<mm, wire, pipes, version, rendered, up>>

-----------------------------------------------------------------------------
\* dispatch_message, in its branches; the network may have made a copy of what arrives.
\* What is lost is what never arrives.
Arrives(n, p, left) ==
  /\ p.to = n
  /\ up[n]
  /\ \/ left = wire \ {p} /\ UNCHANGED faults
     \/ left = wire /\ Fault

NewPipe(m) == [observe |-> m.obs = 1, quiet |-> m.val = 1, mtype |-> m.mtype, stage |-> "new",
               since |-> 0, trigger |-> "idle", num |-> 0, sent |-> 0]

\* A request on a token in use would replace the pipe there.
TakeRequest(p, left) ==
  /\ Arrives("s", p, left)
  /\ p.msg.code = "REQ"
  /\ ~ IsDuplicate(mm["s"], p.msg)
  /\ Act("s", ExpectAnswer(mm["s"], p.msg), left)
  /\ pipes' = With(pipes, p.msg.token, NewPipe(p.msg))
  /\ rendered' = [rendered EXCEPT ![p.msg.token] = @ + 1]
  /\ UNCHANGED <<requests, version, up>>

TakeDuplicate(p, left) ==
  /\ Arrives("s", p, left)
  /\ p.msg.code = "REQ"
  /\ IsDuplicate(mm["s"], p.msg)
  /\ Act("s", AnswerDuplicate(mm["s"], p.msg), left)
  /\ UNCHANGED <<requests, pipes, version, rendered, up>>

\* An empty ACK or RST; a RST of the message of an open exchange calls the monitor of
\* that message, which fails the request or stops the pipe.
TakeEmpty(n, p, left) ==
  LET open == DOMAIN mm[n].active_exchanges
      token == mm[n].active_exchanges[p.msg.mid].msg.token
      reset == p.msg.mtype = "RST" /\ p.msg.mid \in open
  IN /\ Arrives(n, p, left)
     /\ p.msg.code = "EMPTY"
     /\ Act(n, RemoveExchange(mm[n], p.msg.mid), left)
     /\ requests' = IF reset /\ n = "c" /\ requests[token].open
                      THEN [requests EXCEPT ![token] = Failed(@)] ELSE requests
     /\ pipes' = IF reset /\ n = "s" THEN StopPipe(token) ELSE pipes
     /\ UNCHANGED <<version, rendered, up>>

\* A response that nobody waits for is refused if it is confirmable.
TakeResponse(p, left) ==
  LET t == p.msg.token
      M == IF p.msg.mtype = "ACK" THEN RemoveExchange(mm["c"], p.msg.mid) ELSE mm["c"]
      reply == EmptyMessage(IF requests[t].open THEN "ACK" ELSE "RST", p.msg.mid)
  IN /\ Arrives("c", p, left)
     /\ p.msg.code = "RESP"
     /\ Act("c", IF p.msg.mtype = "CON" THEN SendInitially(M, reply) ELSE M, left)
     /\ requests' = IF requests[t].open THEN [requests EXCEPT ![t] = Received(@, p.msg)]
                    ELSE requests
     /\ UNCHANGED <<pipes, version, rendered, up>>

-----------------------------------------------------------------------------
\* Timers of the message layer.
TimeOut(n, mid) ==
  /\ up[n]
  /\ mid \in DOMAIN mm[n].active_exchanges
  /\ IF MayRetransmit(mm[n], mid, plan.tries)
       THEN Act(n, Retransmit(mm[n], mid), wire) /\ UNCHANGED <<requests, pipes, faults>>
       ELSE Act(n, GiveUp(mm[n], mid), wire) /\ DispatchError(n)
  /\ UNCHANGED <<version, rendered, up, faults>>

AckTimer(t) ==
  /\ up["s"]
  /\ t \in DOMAIN mm["s"].piggyback
  /\ Act("s", SendEmptyAck(mm["s"], t), wire)
  /\ UNCHANGED <<requests, pipes, version, rendered, up, faults>>

\* EXCHANGE_LIFETIME after a request: its sender has stopped repeating it, and the copies
\* that have not arrived never will, by the definition of that time.
Forget(mid) ==
  /\ mid \in DOMAIN mm["s"].recent_messages
  /\ mid \notin DOMAIN mm["c"].active_exchanges
  /\ mm' = [mm EXCEPT !["s"].recent_messages = Without(@, mid)]
  /\ wire' = {p \in wire : ~ (p.msg.code = "REQ" /\ p.msg.mid = mid)}
  /\ UNCHANGED <<requests, pipes, version, rendered, up, faults>>

\* The transport reports the peer as unreachable.
NetworkError(n) ==
  /\ up[n]
  /\ Fault
  /\ Act(n, DropExchanges(mm[n]), wire)
  /\ DispatchError(n)
  /\ UNCHANGED <<version, rendered, up>>

\* Context.shutdown: the token manager's, then the message manager's; what timers are
\* left find the transport closed.
Shutdown(n) ==
  /\ up[n]
  /\ up' = [up EXCEPT ![n] = FALSE]
  /\ mm' = [mm EXCEPT ![n] = DropExchanges(@)]
  /\ DispatchError(n)
  /\ Fault
  /\ UNCHANGED <<wire, version, rendered>>

-----------------------------------------------------------------------------
\* The rendering task of a pipe begins, with add_observation if it is to be observed.
Begin(t) ==
  /\ pipes[t].stage = "new"
  /\ pipes' = [pipes EXCEPT ![t].stage = "render", ![t].since = version]
  /\ UNCHANGED <<mm, wire, requests, version, rendered, up, faults>>

\* The pipe's on_event of the token manager.
Response(t, obs, val, no_response) ==
  SendMessage(mm["s"], Message(IF pipes[t].mtype = "NON" THEN "NON" ELSE "none",
                               "RESP", Mids, t, obs, val), no_response)

\* render() returns something it read since it began: the last response, or one of an
\* observation, with the next number.
Render(t) ==
  /\ pipes[t].stage = "render"
  /\ ~ pipes[t].observe
  /\ \E val \in pipes[t].since .. version : Act("s", Response(t, 0, val, pipes[t].quiet), wire)
  /\ pipes' = StopPipe(t)
  /\ UNCHANGED <<requests, version, rendered, up, faults>>

\* The render fails, or an unsuccessful response was put into the trigger: neither has
\* the request's no_response option, and both are the last.
EndResponses(t) ==
  /\ \/ pipes[t].stage = "render"
     \/ pipes[t].stage = "wait" /\ pipes[t].trigger = "end"
  /\ Act("s", Response(t, 0, 0, FALSE), wire)
  /\ pipes' = StopPipe(t)
  /\ UNCHANGED <<requests, version, rendered, up, faults>>

Waiting(p, val) == [p EXCEPT !.stage = "wait", !.num = @ + 1, !.sent = val]

Notify(t) ==
  /\ pipes[t].stage = "render"
  /\ pipes[t].observe
  /\ \E val \in pipes[t].since .. version :
       /\ Act("s", Response(t, pipes[t].num + 1, val, pipes[t].quiet), wire)
       /\ pipes' = [pipes EXCEPT ![t] = Waiting(@, val)]
  /\ UNCHANGED <<requests, version, rendered, up, faults>>

\* The future is replaced by a new one before the rendering it asks for.
TakeTrigger(t) ==
  /\ pipes[t].stage = "wait"
  /\ pipes[t].trigger = "render"
  /\ pipes' = [pipes EXCEPT ![t].stage = "render", ![t].since = version,
                            ![t].trigger = "idle"]
  /\ UNCHANGED <<mm, wire, requests, version, rendered, up, faults>>

\* Mutant: an observation that is being rendered is passed over.
TriggeredWaiting(how) ==
  [t \in DOMAIN pipes |-> IF pipes[t].stage = "wait" THEN [pipes[t] EXCEPT !.trigger = how]
                          ELSE pipes[t]]

\* updated_state: the trigger of every observation holds the last of what was put in.
Triggered(how) ==
  [t \in DOMAIN pipes |->
     IF pipes[t].observe /\ pipes[t].stage # "new"
       THEN [pipes[t] EXCEPT !.trigger = how] ELSE pipes[t]]

Update ==
  /\ up["s"]
  /\ version < plan.versions
  /\ version' = version + 1
  /\ pipes' = Triggered("render")
  /\ UNCHANGED <<mm, wire, requests, rendered, up, faults>>

CloseResource ==
  /\ up["s"]
  /\ pipes' = Triggered("end")
  /\ Fault
  /\ UNCHANGED <<mm, wire, requests, version, rendered, up>>

-----------------------------------------------------------------------------
Deliver == \E p \in wire : \E left \in {wire, wire \ {p}} :
             \/ TakeRequest(p, left)
             \/ TakeDuplicate(p, left)
             \/ \E n \in Nodes : TakeEmpty(n, p, left)
             \/ TakeResponse(p, left)

Timers == \/ \E n \in Nodes : \E mid \in DOMAIN mm[n].active_exchanges : TimeOut(n, mid)
          \/ \E t \in DOMAIN mm["s"].piggyback : AckTimer(t)

Responder == \E t \in DOMAIN pipes : \/ Begin(t) \/ Render(t) \/ EndResponses(t)
                                     \/ Notify(t) \/ TakeTrigger(t)

Next ==
  /\ UNCHANGED plan
  /\ \/ \E t \in Tokens : \/ Ask(t)
                          \/ CancelResponse(t) \/ CancelObservation(t) \/ BecomeLate(t)
     \/ Deliver
     \/ Timers
     \/ \E mid \in DOMAIN mm["s"].recent_messages : Forget(mid)
     \/ \E n \in Nodes : NetworkError(n) \/ Shutdown(n)
     \/ Responder
     \/ Update
     \/ CloseResource

Spec == Init /\ [][Next]_vars
\* The event loop fires its timers; the network promises nothing.
FairSpec == Spec /\ WF_vars(Timers /\ UNCHANGED plan)
-----------------------------------------------------------------------------
Types == {"CON", "NON", "ACK", "RST"}
Messages == [mtype : Types, code : {"REQ", "RESP", "EMPTY"}, mid : 0 .. Mids - 1,
             token : Tokens \cup {NoToken}, obs : Nat, val : Nat]

ManagerType(M) ==
  /\ \A mid \in DOMAIN M.active_exchanges :
       /\ M.active_exchanges[mid].msg \in Messages
       /\ M.active_exchanges[mid].tries \in 0 .. plan.tries
  /\ M.backlog \in Seq(Messages)
  /\ \A mid \in DOMAIN M.recent_messages : M.recent_messages[mid] \in Messages \cup {NoMessage}
  /\ \A t \in DOMAIN M.piggyback : t \in Tokens /\ M.piggyback[t] \in 0 .. Mids - 1
  /\ M.message_id \in 0 .. Mids - 1
  /\ M.out = {}

\* Type correctness: every ID in use is one that was given out, tries stay within
\* MAX_RETRANSMIT, and nothing waits to be put on the wire between two steps.
TypeOK ==
  /\ DOMAIN mm = Nodes /\ \A n \in Nodes : ManagerType(mm[n])
  /\ \A p \in wire : p.to \in Nodes /\ p.msg \in Messages
  /\ \A t \in Tokens :
       /\ requests[t].result \in {"new", "pending", "answered", "failed", "cancelled"}
       /\ requests[t].obs \in {"none", "on", "cancelled", "over"}
       /\ requests[t].last \in 0 .. plan.versions
  /\ \A t \in DOMAIN pipes : t \in Tokens /\ pipes[t].stage \in {"new", "render", "wait"}
  /\ version \in 1 .. plan.versions

\* NSTART = 1, and the relation that _continue_backlog and send_message assert: a remote
\* has a place in _backlogs exactly while one exchange with it is open, and no message
\* waits there otherwise.
OneExchange ==
  \A n \in Nodes :
    /\ Cardinality(DOMAIN mm[n].active_exchanges) <= 1
    /\ mm[n].in_backlogs <=> DOMAIN mm[n].active_exchanges # {}
    /\ mm[n].backlog # <<>> => mm[n].in_backlogs

\* A confirmable request that the client waits for, while it neither repeats it nor keeps
\* it back, has reached the server: giving up an exchange, resets and errors of the
\* transport leave no request behind that was never heard of and never ends.
Tracked ==
  \A t \in Tokens :
    LET M == mm["c"]
    IN requests[t].open /\ requests[t].kind.mtype = "CON" /\ requests[t].result = "pending" =>
         \/ rendered[t] > 0
         \/ \E mid \in DOMAIN M.active_exchanges : M.active_exchanges[mid].msg.token = t
         \/ \E i \in DOMAIN M.backlog : M.backlog[i].token = t

\* However updates fall between the trigger, the rendering it asks for and the response:
\* an observation that has nothing left to do has sent the present state.
NoLostUpdate ==
  \A t \in DOMAIN pipes :
    pipes[t].stage = "wait" /\ pipes[t].trigger = "idle" => pipes[t].sent = version

\* Late and repeated notifications never take the observer back to a state it has seen
\* the successor of, unless OBSERVATION_RESET_TIME had passed; 0 is the end of the
\* observation.
Fresh ==
  [][\A t \in Tokens : requests'[t].last \in {0} \cup requests[t].last .. plan.versions
                         \/ requests[t].late]_vars

\* Requests are served at most once, answered only if they were served, and settled once,
\* whatever the network repeats, reorders or loses.
Service == INSTANCE RequestService
  WITH status <- [t \in Tokens |-> requests[t].result], served <- rendered
ImplementsService == Service!Spec

\* An open exchange ends: it is acknowledged, reset or given up, and what it held back
\* is sent and ends as well.
ExchangesEnd ==
  \A n \in Nodes : mm[n].active_exchanges # <<>> ~> mm[n].active_exchanges = <<>>

\* The exchanges, the backlog and the requests of both ends account for each other.
ExchangeInv == TypeOK /\ OneExchange /\ Tracked

-----------------------------------------------------------------------------
\* The instance that the run CoapExchange_requests checks: what its constants are.
Kind(observe, quiet, mtype) == [observe |-> observe, quiet |-> quiet, mtype |-> mtype]

Observe == Kind(TRUE, FALSE, "CON")
ObserveNon == Kind(TRUE, FALSE, "NON")
Quiet == Kind(FALSE, TRUE, "CON")
GetNon == Kind(FALSE, FALSE, "NON")
Never == Kind(FALSE, FALSE, "none")
Get == Kind(FALSE, FALSE, "CON")
Plan(kinds, tries, versions) == [kinds |-> kinds, tries |-> tries, versions |-> versions]

MCFirstId == [n \in Nodes |-> 0]

MCPlans == {Plan(<<Get, Get>>, 0, 1), Plan(<<Observe, Get>>, 0, 1),
            Plan(<<Observe, Never>>, 1, 2), Plan(<<Observe, Never>>, 0, 3),
            Plan(<<ObserveNon, Never>>, 0, 3), Plan(<<Quiet, GetNon>>, 1, 1)}
=============================================================================
