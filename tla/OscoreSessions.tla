--------------------------- MODULE OscoreSessions ---------------------------
(***************************************************************************)
(* Two peers that share an OSCORE context from files: the client side      *)
(* (TransportOSCORE) and the server side (OscoreSiteWrapper) of each,      *)
(* between an application and a network.  Below them is aiocoap's message  *)
(* layer: a process gets each message once, but what was sent may arrive   *)
(* late, in any order, and again after a restart.  Processes crash and are *)
(* closed and started again, with the same files.                          *)
(***************************************************************************)
EXTENDS OscoreContext, Sequences

CONSTANTS
  Peers,      \* two of them, named by their sender IDs
  Requests,   \* the requests that applications make
  Plans       \* what a behaviour is about, a record of
              \* calls: per request, which peer makes it, "none" where it is not made, and how
              \* many notifications there are before the final response
              \* serial: requests are made one after the other
              \* full: the disk may be full
              \* faults: how many crashes, closings, copies, mixed-up tokens and requests
              \* lost for good there may be

ASSUME PeersAssumption ==
  "none" \notin Peers /\ \A p \in Peers : \E q \in Peers \ {p} : Peers = {p, q}

ASSUME PlansAssumption ==
  \A pl \in Plans :
    /\ pl.calls \in [Requests -> [from : Peers \cup {"none"}, notes : Nat]]
    /\ pl.faults \in Nat

VARIABLES
  plan,
  ctx,      \* per peer, its context in memory, or Down
  disk,     \* per peer, its sequence.json
  runs,     \* per peer, how many processes there were
  heard,    \* per peer, the requests its process has got
  call,     \* per request: its phase, the request identifiers, the message on the wire
            \* and the responses it has got
  tasks,    \* renderings under way
  sent,     \* everything protected that was ever sent
  plain,    \* requests with an unprotected error response
  rendered, \* per protected request, the processes that gave it to the application
  result,   \* per request, the last response that was handed out
  unsaved,  \* the file could not be written once
  faults

vars == <<plan, ctx, disk, runs, heard, call, tasks, sent, plain, rendered, result, unsaved,
          faults>>

Down == [sender |-> "none"]
Up(p) == ctx[p] # Down
Other(p) == CHOOSE q \in Peers : q # p

NoMessage == [kid |-> "none"]
NoRid == RequestId("none", NoPiv, FALSE)
Idle == [phase |-> "idle", rid |-> NoRid, wire |-> NoMessage, got |-> {}]
NoResult == [code |-> "none"]

Init ==
  /\ plan \in Plans
  /\ ctx = [p \in Peers |-> Load(p, Other(p), NewFile, 1)]
  /\ disk = [p \in Peers |-> NewFile]
  /\ runs = [p \in Peers |-> 1]
  /\ heard = [p \in Peers |-> {}]
  /\ call = [r \in Requests |-> Idle]
  /\ tasks = {}
  /\ sent = {}
  /\ plain = {}
  /\ rendered = <<>>
  /\ result = [r \in Requests |-> NoResult]
  /\ unsaved = FALSE
  /\ faults = 0

Fault == faults < plan.faults /\ faults' = faults + 1

\* The context of p has become c; what was to be written is on disk before it is used.
Becomes(p, c) ==
  /\ ctx' = [ctx EXCEPT ![p] = c]
  /\ disk' = IF Stores(ctx[p], c) THEN [disk EXCEPT ![p] = File(c)] ELSE disk

From(r) == plan.calls[r].from
Inner(r, code, echo) == [r |-> r, code |-> code, echo |-> echo]
Waiting(r) == call[r].phase \in {"sent", "retried", "observing"}
End(r, phase) == call' = [call EXCEPT ![r] = [Idle EXCEPT !.phase = phase]]

-----------------------------------------------------------------------------
\* The client.  protect(echo) in _request; a context without numbers raises.
Send(r, phase, c, echo) ==
  LET p == ProtectRequest(c, Inner(r, "request", echo))
  IN IF Exhausted(c)
       THEN Becomes(From(r), c) /\ End(r, "failed") /\ UNCHANGED sent
       ELSE /\ Becomes(From(r), p.ctx)
            /\ sent' = sent \cup {[m |-> p.msg, re |-> NoMessage]}
            /\ call' = [call EXCEPT ![r] = [phase |-> phase, rid |-> p.rid, wire |-> p.msg,
                                            got |-> {}]]

Ask(r) ==
  /\ From(r) # "none"
  /\ call[r].phase = "idle"
  /\ plan.serial => \A q \in Requests : ~ Waiting(q)
  /\ Up(From(r))
  /\ Send(r, "sent", ctx[From(r)], 0)
  /\ UNCHANGED <<plan, runs, heard, tasks, plain, rendered, result, unsaved, faults>>

\* A response is found by its token; a process that was started again may take one from
\* before for its own.
Reaches(s, r) ==
  \/ s.re = call[r].wire /\ UNCHANGED faults
  \/ s.re # call[r].wire /\ s.re.kid = From(r) /\ Fault

Observe(r, s) ==
  call' = [call EXCEPT ![r] = [phase |-> "observing", rid |-> call[r].rid, wire |-> call[r].wire,
                               got |-> call[r].got \cup {s.m}]]

\* The first response, or the one to the request with the echo value.
ReceiveFirst(r, s) ==
  LET u == UnprotectResponse(ctx[From(r)], s.m, call[r].rid)
      inner == s.m.sealed.inner
      more == s.more /\ inner.code = "2.xx"
  IN /\ call[r].phase \in {"sent", "retried"}
     /\ IF u.result # "ok" THEN End(r, "failed") /\ Becomes(From(r), u.ctx) /\ UNCHANGED <<sent, result>>
        ELSE IF inner.code = "4.01" /\ inner.echo > 0 /\ call[r].phase = "sent"
          THEN Send(r, "retried", u.ctx, inner.echo) /\ UNCHANGED result
        ELSE /\ Becomes(From(r), u.ctx)
             /\ result' = [result EXCEPT ![r] = inner]
             /\ IF more THEN Observe(r, s) ELSE End(r, "done")
             /\ UNCHANGED sent

\* _request's loop over the observation.
ReceiveNext(r, s) ==
  LET u == UnprotectResponse(ctx[From(r)], s.m, call[r].rid)
      inner == s.m.sealed.inner
  IN /\ call[r].phase = "observing"
     /\ s.m \notin call[r].got
     /\ Becomes(From(r), u.ctx)
     /\ IF u.result # "ok" THEN End(r, "failed") /\ UNCHANGED result
        ELSE /\ result' = [result EXCEPT ![r] = inner]
             /\ IF s.more /\ inner.code = "2.xx"
                  THEN Observe(r, s)
                  ELSE End(r, "done")
     /\ UNCHANGED sent

Receive(r) ==
  /\ Waiting(r)
  /\ \E s \in {x \in sent : x.re # NoMessage} :
       Reaches(s, r) /\ (ReceiveFirst(r, s) \/ ReceiveNext(r, s))
  /\ UNCHANGED <<plan, runs, heard, tasks, plain, rendered, unsaved>>

\* A response without the option: verify_start raises.
ReceivePlain(r) ==
  /\ Waiting(r)
  /\ call[r].wire \in plain
  /\ End(r, "failed")
  /\ UNCHANGED <<plan, ctx, disk, runs, heard, tasks, sent, plain, rendered, result, unsaved, faults>>

\* The message layer gives the request up.
GiveUp(r) ==
  /\ Waiting(r)
  /\ Fault
  /\ End(r, "failed")
  /\ UNCHANGED <<plan, ctx, disk, runs, heard, tasks, sent, plain, rendered, result, unsaved>>

-----------------------------------------------------------------------------
\* The server: render_to_pipe, up to the rendering.
Reply(c, p, inner, rid, m, more) ==
  LET answer == ProtectResponse(c, inner, rid)
  IN IF Exhausted(c) /\ ~ rid.reuse
       THEN Becomes(p, c) /\ plain' = plain \cup {m} /\ UNCHANGED sent
       ELSE /\ Becomes(p, answer.ctx)
            /\ sent' = sent \cup {[m |-> answer.msg, re |-> m, more |-> more]}
            /\ UNCHANGED plain

RenderedBy(m) == IF m \in DOMAIN rendered THEN rendered[m] ELSE <<>>

Render(p, m, u) ==
  /\ Becomes(p, u.ctx)
  /\ tasks' = tasks \cup {[peer |-> p, m |-> m, rid |-> u.rid, left |-> plan.calls[m.sealed.inner.r].notes]}
  /\ rendered' = [x \in DOMAIN rendered \cup {m} |->
                    IF x = m THEN Append(RenderedBy(m), runs[p]) ELSE rendered[x]]
  /\ UNCHANGED <<sent, plain>>

Requested(p) == {s.m : s \in {x \in sent : x.re = NoMessage /\ x.m.kid = Other(p)}}

Serve(p, m) ==
  LET u == UnprotectRequest(ctx[p], m)
      echo == Inner(m.sealed.inner.r, "4.01", ctx[p].echo)
  IN /\ Up(p)
     /\ IF m \in heard[p] THEN Fault ELSE UNCHANGED faults
     /\ heard' = [heard EXCEPT ![p] = @ \cup {m}]
     /\ \/ u.result = "ok" /\ Render(p, m, u)
        \/ u.result = "echo" /\ Reply(u.ctx, p, echo, u.rid, m, FALSE) /\ UNCHANGED <<tasks, rendered>>
        \/ /\ u.result \in {"replay", "invalid"}
           /\ plain' = plain \cup {m}
           /\ UNCHANGED <<ctx, disk, tasks, sent, rendered>>
     /\ UNCHANGED <<plan, runs, call, result, unsaved>>

\* One response of a rendering; all but the last are notifications.
Respond(t) ==
  LET c == ctx[t.peer]
      answer == ProtectResponse(c, Inner(t.m.sealed.inner.r, "2.xx", 0), t.rid)
      ends == t.left = 0 \/ (Exhausted(c) /\ ~ t.rid.reuse)
  IN /\ Reply(c, t.peer, Inner(t.m.sealed.inner.r, "2.xx", 0), t.rid, t.m, t.left > 0)
     /\ tasks' = (tasks \ {t}) \cup
                 (IF ends THEN {}
                  ELSE {[peer |-> t.peer, m |-> t.m, rid |-> answer.rid, left |-> t.left - 1]})
     /\ UNCHANGED <<plan, runs, heard, call, rendered, result, unsaved, faults>>

-----------------------------------------------------------------------------
\* The file cannot be written, when a request is protected or one is struck out: the
\* exception ends the call, and leaves the context as if it had been written.
FullAsking(r) ==
  LET p == From(r)
      c == NewSequenceNumber(ctx[p])
  IN /\ p # "none"
     /\ call[r].phase = "idle"
     /\ Up(p)
     /\ ~ Exhausted(ctx[p])
     /\ Stores(ctx[p], c)
     /\ ctx' = [ctx EXCEPT ![p] = c]
     /\ End(r, "failed")
     /\ UNCHANGED <<heard, plain>>

FullServing(p, m) ==
  LET u == UnprotectRequest(ctx[p], m)
  IN /\ Up(p)
     /\ m \notin heard[p]
     /\ u.result = "ok"
     /\ Stores(ctx[p], u.ctx)
     /\ ctx' = [ctx EXCEPT ![p] = u.ctx]
     /\ heard' = [heard EXCEPT ![p] = @ \cup {m}]
     /\ plain' = plain \cup {m}
     /\ UNCHANGED call

DiskFull ==
  /\ plan.full
  /\ Fault
  /\ unsaved' = TRUE
  /\ \/ \E r \in Requests : FullAsking(r)
     \/ \E p \in Peers : \E m \in Requested(p) : FullServing(p, m)
  /\ UNCHANGED <<plan, disk, runs, tasks, sent, rendered, result>>

-----------------------------------------------------------------------------
\* A process is gone, with its requests, renderings and what it had heard.
Gone(p) ==
  /\ Up(p)
  /\ Fault
  /\ ctx' = [ctx EXCEPT ![p] = Down]
  /\ tasks' = {t \in tasks : t.peer # p}
  /\ heard' = [heard EXCEPT ![p] = {}]
  /\ call' = [r \in Requests |-> IF From(r) = p /\ Waiting(r) THEN [Idle EXCEPT !.phase = "failed"]
                                 ELSE call[r]]
  /\ UNCHANGED <<plan, runs, sent, plain, rendered, result, unsaved>>

Crash(p) == Gone(p) /\ UNCHANGED disk
Close(p) == Gone(p) /\ disk' = [disk EXCEPT ![p] = Closed(ctx[p])]

Start(p) ==
  /\ ~ Up(p)
  /\ ctx' = [ctx EXCEPT ![p] = Load(p, Other(p), disk[p], runs[p] + 1)]
  /\ runs' = [runs EXCEPT ![p] = @ + 1]
  /\ UNCHANGED <<plan, disk, heard, call, tasks, sent, plain, rendered, result, unsaved, faults>>

-----------------------------------------------------------------------------
Hear(p) == \E m \in Requested(p) : Serve(p, m)
Answer == \E t \in tasks : Respond(t)

Next ==
  \/ \E r \in Requests : Ask(r) \/ Receive(r) \/ ReceivePlain(r) \/ GiveUp(r)
  \/ \E p \in Peers : Hear(p) \/ Crash(p) \/ Close(p) \/ Start(p)
  \/ Answer \/ DiskFull

Spec == Init /\ [][Next]_vars

\* Requests are retransmitted until they are answered, responses until they are
\* acknowledged, and tasks are run by the event loop.
Served(r) == Waiting(r) /\ From(r) # "none" /\ call[r].wire \notin heard[Other(From(r))]
             /\ Serve(Other(From(r)), call[r].wire)
Fairness ==
  /\ \A r \in Requests : /\ WF_vars(Ask(r)) /\ WF_vars(Receive(r)) /\ WF_vars(ReceivePlain(r))
                        /\ WF_vars(Served(r))
  /\ WF_vars(Answer)

-----------------------------------------------------------------------------
\* Type correctness; the number on disk is ahead of all that were used, and the window on
\* disk is unknown or the one in memory.
TypeOK ==
  /\ plan \in Plans
  /\ \A p \in Peers :
       /\ runs[p] \in Nat \ {0}
       /\ Up(p) => ctx[p].window.bits \subseteq 0 .. WindowSize - 1
       /\ Up(p) /\ ~ unsaved =>
            /\ ctx[p].seq <= disk[p].next
            /\ ctx[p].persisted = disk[p].next
            /\ disk[p].received \in {Unknown, ctx[p].window, UninitializedWindow}
  /\ \A r \in Requests : call[r].phase \in {"idle", "sent", "retried", "observing", "done", "failed"}
  /\ \A t \in tasks : Up(t.peer) /\ t.left \in Nat
  /\ faults \in 0 .. plan.faults

\* "The implementation is responsible for never returning the same value twice in a given
\* security context": no key is ever used twice with one nonce.
NeverTwice ==
  \A s, t \in sent :
    s.m.sealed.key = t.m.sealed.key /\ s.m.sealed.nonce = t.m.sealed.nonce => s = t

\* As long as its files can be written that is so, whatever crashes, is closed and started
\* again, and however requests and responses cross; a response may take the nonce of its
\* request once.
NonceOnce == ~ unsaved => NeverTwice

\* The application gets a protected request at most once, in all processes together, as
\* long as the file of the window can be written.
NoReplay == ~ unsaved => \A m \in DOMAIN rendered : Len(rendered[m]) = 1

\* A response that is handed out was made for that very request, also where tokens mix; a
\* number that was used twice would leave responses to two requests alike.
Matched == ~ unsaved => \A r \in Requests : result[r].code # "none" => result[r].r = r

\* When nothing goes wrong any more a single request succeeds; where the window of the
\* server is uninitialized, the one retry with its echo value is enough.
Alone(r) == \A q \in Requests : From(q) # "none" => q = r \/ call[q].phase \in {"done", "failed"}
Undisturbed(r) ==
  /\ call[r].phase = "sent"
  /\ Alone(r)
  /\ \A p \in Peers : Up(p)
  /\ faults = plan.faults
  /\ call[r].rid.piv = ctx[From(r)].seq - 1
  /\ call[r].wire \notin plain \cup {s.re : s \in sent} \cup DOMAIN rendered
Recovers ==
  \A r \in Requests :
    Undisturbed(r) ~> \/ call[r].phase = "done" /\ result[r].code = "2.xx"
                     \/ \E p \in Peers : Up(p) /\ Exhausted(ctx[p])

\* No request is rendered twice and no answer taken for another's, whatever is repeated,
\* reordered or lost in a crash.
OscoreInv == TypeOK /\ NoReplay /\ Matched
==============================================================================
