---------------------------- MODULE BundleLife ----------------------------
(***************************************************************************)
(* A bundle that is to be forwarded, in the memory of one µD3TN daemon.    *)
(* It is one object with a count of the transmissions that refer to it.    *)
(* The bundle processor enqueues it for TX tasks, whole or in fragments,   *)
(* or hands it to the dispatcher's agent task, which asks the dispatcher   *)
(* and signals the answer; each result of a transmission comes back as a   *)
(* signal and goes to the dispatcher again.  It is freed when a result is  *)
(* settled with the count at zero.  All signals go through one queue.      *)
(***************************************************************************)
EXTENDS Integers, Sequences, SequencesExt, FiniteSets

CONSTANTS
  Bundle, Hop,
  Agent,               \* connections of dispatchers
  AGENT_QUEUE_LENGTH, TX_QUEUE_LENGTH,
  Settings             \* bounds, and what is fixed in a run

NoAgent == "none"
Nothing == "none"
NoItem == [b |-> Nothing, reason |-> "none"]
Finalize == [b |-> Nothing, reason |-> "FINALIZE"]
NoHops == [h \in {} |-> 0]

ASSUME BundleAssumption == Nothing \notin Bundle /\ "FINALIZE" \notin Bundle
ASSUME AgentAssumption == NoAgent \notin Agent
ASSUME HopAssumption == IsFiniteSet(Hop)
ASSUME LengthAssumption == AGENT_QUEUE_LENGTH \in Nat /\ TX_QUEUE_LENGTH \in Nat

ASSUME SettingsAssumption ==
  \A s \in Settings :
    /\ s.size \in [Bundle -> Nat \ {0}] /\ s.mbs \in Nat
    /\ \A hops \in s.hops :
         DOMAIN hops \subseteq Hop /\ \A h \in DOMAIN hops : hops[h] \in Nat

\* No dispatcher asks for a fragment that is too long for the link.
Fitting(s) == \A hops \in s.hops : \A h \in DOMAIN hops : s.mbs = 0 \/ hops[h] <= s.mbs

VARIABLES
  setting,
  bundle,    \* the objects: where they are, forwarding_refcount, forwarding_failed
  signals,   \* bundle_signaling_queue
  up,        \* the links that the FIB has as up
  tx,        \* per hop: the connection, its TX queue and task
  agent,     \* the tasks of the dispatchers' connections, their agent_queue and socket
  bdm,       \* the entry of bdm_sub_entry_node
  faults,    \* bound: contacts, answers that name hops, failures so far
  crashed    \* freed memory was used

lifeVars == <<setting, bundle, signals, up, tx, agent, bdm, faults, crashed>>

NewBundle == [at |-> "out", refs |-> 0, failed |-> FALSE]
NewAgent == [at |-> "off", queue |-> <<>>, item |-> NoItem, open |-> TRUE, answer |-> NoHops]

InitLife ==
  /\ setting \in Settings
  /\ bundle = [b \in Bundle |-> NewBundle]
  /\ signals = <<>> /\ up = {} /\ bdm = NoAgent /\ crashed = FALSE
  /\ tx = [h \in Hop |-> [link |-> FALSE, queue |-> <<>>, task |-> "off", sending |-> Nothing]]
  /\ agent = [a \in Agent |-> NewAgent]
  /\ faults = [contacts |-> 0, answers |-> 0, failures |-> 0]

Freed(b) == bundle[b].at \in {"forwarded", "deleted"}

Spend(what) == faults[what] < setting[what] /\ faults' = [faults EXCEPT ![what] = @ + 1]

-----------------------------------------------------------------------------
(* What the bundle processor does with the count. *)

\* Mutant: the first failure deletes the bundle.
FailedAtOnce(r) == [r EXCEPT !.failed = TRUE, !.at = "deleted"]

Failed(r) == [r EXCEPT !.failed = TRUE, !.at = IF r.refs = 0 THEN "deleted" ELSE @]

Succeeded(r) ==
  IF r.refs # 0 THEN r
  ELSE [r EXCEPT !.at = IF r.failed THEN "deleted" ELSE "forwarded"]

\* agent_handover_to_dispatch: the push waits for room, and the bundle processor with it.
HandOver(b, reason, kept, otherwise) ==
  IF bdm = NoAgent
    THEN bundle' = [bundle EXCEPT ![b] = otherwise] /\ UNCHANGED agent
    ELSE /\ Len(agent[bdm].queue) < AGENT_QUEUE_LENGTH
         /\ agent' = [agent EXCEPT ![bdm].queue = Append(@, [b |-> b, reason |-> reason])]
         /\ bundle' = [bundle EXCEPT ![b] = kept]

\* A next hop with a length other than 0 gets a fragment of that length.
Fragment(b, length) == length # 0 /\ length < setting.size[b]

\* How many fragments the size limit of the link makes of it.
Pieces(b, length) ==
  LET l == IF Fragment(b, length) THEN length ELSE setting.size[b]
  IN  IF setting.mbs = 0 \/ l <= setting.mbs THEN 1 ELSE (l + setting.mbs - 1) \div setting.mbs

Room(h) == IF h \in up /\ tx[h].link THEN TX_QUEUE_LENGTH - Len(tx[h].queue) ELSE 0

Fits(b, h, length) == Pieces(b, length) <= Room(h)

\* Fragments are enqueued one by one, until one fails (10 ms are waited for room, in which the
\* TX task may run; here it runs before).
Enqueued(b, h, length) == IF Fits(b, h, length) THEN Pieces(b, length) ELSE Room(h)

\* What counts: each of them, and once more (0) a fragment that had to be cut again.
References(b, h, length) ==
  (IF Fragment(b, length) /\ Pieces(b, length) > 1 /\ Fits(b, h, length) THEN 0 ELSE 1)
    .. Enqueued(b, h, length)

\* send_bundle for each of the hops, and one report if any of them failed.
SendTo(b, hops) ==
  LET new == UNION { {h} \X References(b, h, hops[h]) : h \in DOMAIN hops }
      kept == [bundle[b] EXCEPT !.refs = @ + Cardinality(new)]
  IN  /\ tx' = [h \in Hop |->
                  IF h \notin DOMAIN hops THEN tx[h]
                  ELSE [tx[h] EXCEPT !.queue = @ \o [i \in 1 .. Enqueued(b, h, hops[h]) |-> b]]]
      /\ IF \A h \in DOMAIN hops : Fits(b, h, hops[h])
           THEN bundle' = [bundle EXCEPT ![b] = kept] /\ UNCHANGED agent
           ELSE HandOver(b, "CLA_ENQUEUE_FAILED", kept, Failed(kept))

-----------------------------------------------------------------------------
(* The bundle processor: one signal after the other. *)

Arrive(b) ==
  /\ bundle[b].at = "out" /\ b \in setting.bundles
  /\ bundle' = [bundle EXCEPT ![b].at = "live"]
  /\ signals' = Append(signals, [type |-> "INCOMING", b |-> b])
  /\ UNCHANGED <<setting, up, tx, agent, bdm, faults, crashed>>

Signal(type) == signals # <<>> /\ Head(signals).type = type /\ signals' = Tail(signals)

\* Expired, a block that cannot be processed, or its hop limit reached.
DeleteIncoming ==
  /\ Signal("INCOMING")
  /\ bundle' = [bundle EXCEPT ![Head(signals).b].at = "deleted"]
  /\ UNCHANGED <<setting, up, tx, agent, bdm, faults, crashed>>

\* Directly to the destination, else the dispatcher, else it is deleted.
ForwardIncoming ==
  /\ Signal("INCOMING")
  /\ LET b == Head(signals).b
         node == setting.direct[b]
     IN  IF node \in up THEN SendTo(b, [h \in {node} |-> 0])
         ELSE HandOver(b, "NO_FIB_ENTRY", bundle[b], Failed(bundle[b])) /\ UNCHANGED tx
  /\ UNCHANGED <<setting, up, bdm, faults, crashed>>

TransmissionSuccess ==
  /\ Signal("TX_SUCCESS")
  /\ LET b == Head(signals).b
         r == [bundle[b] EXCEPT !.refs = @ - 1]
     IN  HandOver(b, "TX_SUCCEEDED", r, Succeeded(r))
  /\ UNCHANGED <<setting, up, tx, bdm, faults, crashed>>

TransmissionFailure ==
  /\ Signal("TX_FAILURE")
  /\ LET b == Head(signals).b
         r == [bundle[b] EXCEPT !.refs = @ - 1]
     IN  HandOver(b, "TX_FAILED", r, Failed(r))
  /\ UNCHANGED <<setting, up, tx, bdm, faults, crashed>>

\* The answer of a dispatcher; none is a success if a success was reported.  The bundle may be
\* gone, and after shutdown_queue next_hops, which is freed, is not initialised.
BdmDispatch ==
  /\ Signal("BDM_DISPATCH")
  /\ LET m == Head(signals)
         r == bundle[m.b]
     IN  \/ /\ Freed(m.b) \/ m.wild
            /\ crashed' = TRUE /\ UNCHANGED <<bundle, tx, agent>>
         \/ /\ ~Freed(m.b) /\ DOMAIN m.hops = {}
            /\ bundle' = [bundle EXCEPT ![m.b] =
                            IF m.reason = "TX_SUCCEEDED" THEN Succeeded(r) ELSE Failed(r)]
            /\ UNCHANGED <<tx, agent, crashed>>
         \/ /\ ~Freed(m.b) /\ DOMAIN m.hops # {}
            /\ SendTo(m.b, m.hops) /\ UNCHANGED crashed
  /\ UNCHANGED <<setting, up, bdm, faults>>

LinkSignal ==
  /\ \/ Signal("LINK_UP") /\ up' = up \cup {Head(signals).hop}
     \/ Signal("LINK_DOWN") /\ up' = up \ {Head(signals).hop}
  /\ UNCHANGED <<setting, bundle, tx, agent, bdm, faults, crashed>>

\* agent_register_bdm.  There is one subscriber; it is asked whether it is alive, and anything
\* to read on its socket is taken for its end, one byte of it is read, and it is told to leave.
Register ==
  /\ Signal("AGENT_REGISTER")
  /\ LET a == Head(signals).agent
     IN  IF bdm = NoAgent
           THEN bdm' = a /\ agent' = [agent EXCEPT ![a].at = "sub"]
         ELSE IF agent[bdm].open /\ agent[bdm].at \in {"sub", "asking"}
           THEN agent' = [agent EXCEPT ![a].at = "off"] /\ UNCHANGED bdm
         ELSE /\ Len(agent[bdm].queue) < AGENT_QUEUE_LENGTH
              /\ bdm' = a
              /\ agent' = [agent EXCEPT
                   ![a].at = "sub",
                   ![bdm].queue = Append(@, Finalize),
                   ![bdm].at = IF @ = "answered" THEN "garbled" ELSE @]
  /\ UNCHANGED <<setting, bundle, up, tx, faults, crashed>>

Deregister ==
  /\ Signal("AGENT_DEREGISTER")
  /\ LET a == Head(signals).agent
     IN  /\ bdm' = IF bdm = a THEN NoAgent ELSE bdm
         /\ agent' = [agent EXCEPT ![a].at = "draining"]
  /\ UNCHANGED <<setting, bundle, up, tx, faults, crashed>>

-----------------------------------------------------------------------------
(* The task of a dispatcher's connection. *)

AgentStep(a, at) == agent[a].at = at /\ UNCHANGED <<setting, bundle, up, tx, bdm>>

Answer(item, hops, wild) ==
  [type |-> "BDM_DISPATCH", b |-> item.b, reason |-> item.reason, hops |-> hops, wild |-> wild]

Leaving(a) == [type |-> "AGENT_DEREGISTER", agent |-> a]

Subscribe(a) ==
  /\ AgentStep(a, "off") /\ a \in setting.agents /\ agent[a].open
  /\ agent[a] = NewAgent
  /\ agent' = [agent EXCEPT ![a].at = "joining"]
  /\ signals' = Append(signals, [type |-> "AGENT_REGISTER", agent |-> a])
  /\ UNCHANGED <<faults, crashed>>

\* The dispatcher goes away; nobody notices before the socket is used.
HangUp(a) ==
  /\ agent[a].at \in {"sub", "asking", "answered"} /\ agent[a].open /\ Spend("failures")
  /\ agent' = [agent EXCEPT ![a].open = FALSE]
  /\ UNCHANGED <<setting, bundle, signals, up, tx, bdm, crashed>>

\* A keepalive, where there are any, finds out.
Keepalive(a) ==
  /\ AgentStep(a, "sub") /\ agent[a].queue = <<>> /\ ~agent[a].open
  /\ agent' = [agent EXCEPT ![a].at = "leaving"]
  /\ signals' = Append(signals, Leaving(a))
  /\ UNCHANGED <<faults, crashed>>

\* dispatch_from_queue up to the event; it reads the bundle.
TakeItem(a) ==
  /\ AgentStep(a, "sub") /\ agent[a].queue # <<>>
  /\ LET item == Head(agent[a].queue)
         rest == [agent[a] EXCEPT !.queue = Tail(@)]
     IN  \/ /\ item = Finalize
            /\ agent' = [agent EXCEPT ![a] = [rest EXCEPT !.at = "leaving"]]
            /\ signals' = Append(signals, Leaving(a)) /\ UNCHANGED crashed
         \/ /\ item # Finalize /\ Freed(item.b)
            /\ crashed' = TRUE /\ UNCHANGED <<agent, signals>>
         \/ /\ item # Finalize /\ ~Freed(item.b) /\ agent[a].open
            /\ agent' = [agent EXCEPT ![a] = [rest EXCEPT !.at = "asking", !.item = item]]
            /\ UNCHANGED <<signals, crashed>>
         \/ /\ item # Finalize /\ ~Freed(item.b) /\ ~agent[a].open
            /\ agent' = [agent EXCEPT ![a] = [rest EXCEPT !.at = "leaving"]]
            /\ signals' = signals \o <<Answer(item, NoHops, FALSE), Leaving(a)>>
            /\ UNCHANGED crashed
  /\ UNCHANGED faults

\* The dispatcher answers: hops, or none.
Reply(a) ==
  /\ AgentStep(a, "asking") /\ agent[a].open
  /\ \/ \E hops \in setting.hops : 
          Spend("answers") /\ agent' = [agent EXCEPT ![a].at = "answered", ![a].answer = hops]
     \/ agent' = [agent EXCEPT ![a].at = "answered", ![a].answer = NoHops] /\ UNCHANGED faults
  /\ UNCHANGED <<signals, crashed>>

Back(a) == [agent[a] EXCEPT !.at = "sub", !.item = NoItem, !.answer = NoHops]

\* The response is read.  One that is closed or cannot be decoded counts as no hops, and the
\* connection is kept.
ReadReply(a) ==
  /\ \/ AgentStep(a, "answered")
        /\ signals' = Append(signals, Answer(agent[a].item, agent[a].answer, FALSE))
     \/ AgentStep(a, "garbled")
        /\ signals' = Append(signals, Answer(agent[a].item, NoHops, FALSE))
     \/ AgentStep(a, "asking") /\ ~agent[a].open
        /\ signals' = Append(signals, Answer(agent[a].item, NoHops, FALSE))
  /\ agent' = [agent EXCEPT ![a] = Back(a)]
  /\ UNCHANGED <<faults, crashed>>

Timeout(a) ==
  /\ AgentStep(a, "asking") /\ agent[a].open
  /\ signals' = signals \o <<Answer(agent[a].item, NoHops, FALSE), Leaving(a)>>
  /\ agent' = [agent EXCEPT ![a] = [Back(a) EXCEPT !.at = "leaving"]]
  /\ UNCHANGED <<faults, crashed>>

\* Mutant: what is left in the queue is dropped.
RejectedSilently(item) == <<>>

Rejected(item) == IF item = Finalize THEN <<>> ELSE <<Answer(item, NoHops, TRUE)>>

\* shutdown_queue.
Drain(a) ==
  /\ AgentStep(a, "draining")
  /\ IF agent[a].queue = <<>>
       THEN agent' = [agent EXCEPT ![a].at = "gone"] /\ UNCHANGED signals
       ELSE /\ signals' = signals \o Rejected(Head(agent[a].queue))
            /\ agent' = [agent EXCEPT ![a].queue = Tail(@)]
  /\ UNCHANGED <<faults, crashed>>

AgentTask(a) == TakeItem(a) \/ Reply(a) \/ ReadReply(a) \/ Timeout(a) \/ Drain(a)

-----------------------------------------------------------------------------
(* The TX task of a link. *)

StartLink(h) ==
  /\ tx[h].task = "off" /\ ~tx[h].link /\ Spend("contacts")
  /\ tx' = [tx EXCEPT ![h].link = TRUE, ![h].task = "idle"]
  /\ signals' = Append(signals, [type |-> "LINK_UP", hop |-> h])
  /\ UNCHANGED <<setting, bundle, up, agent, bdm, crashed>>

\* The push of FINALIZE waits for room.
EndLink(h) ==
  /\ tx[h].link /\ Len(tx[h].queue) < TX_QUEUE_LENGTH
  /\ tx' = [tx EXCEPT ![h].link = FALSE, ![h].queue = Append(@, "FINALIZE")]
  /\ UNCHANGED <<setting, bundle, signals, up, agent, bdm, faults, crashed>>

Take(t, command) ==
  [t EXCEPT !.queue = Tail(@),
            !.task = IF command = "FINALIZE" THEN "ending" ELSE "sending",
            !.sending = IF command = "FINALIZE" THEN Nothing ELSE command]

TakeCommand(h) ==
  /\ tx[h].task = "idle" /\ tx[h].queue # <<>>
  /\ tx' = [tx EXCEPT ![h] = Take(tx[h], Head(tx[h].queue))]
  /\ UNCHANGED <<setting, bundle, signals, up, agent, bdm, faults, crashed>>

Result(type, b) == [type |-> type, b |-> b]

Transmit(h) ==
  /\ tx[h].task = "sending"
  /\ \/ signals' = Append(signals, Result("TX_SUCCESS", tx[h].sending)) /\ UNCHANGED faults
     \/ signals' = Append(signals, Result("TX_FAILURE", tx[h].sending))
        /\ (IF tx[h].link THEN Spend("failures") ELSE UNCHANGED faults)
  /\ tx' = [tx EXCEPT ![h].task = "idle", ![h].sending = Nothing]
  /\ UNCHANGED <<setting, bundle, up, agent, bdm, crashed>>

\* The rest of the queue fails, and the link is reported down.
EndTask(h) ==
  /\ tx[h].task = "ending"
  /\ signals' = signals \o [i \in DOMAIN tx[h].queue |-> Result("TX_FAILURE", tx[h].queue[i])]
                        \o <<[type |-> "LINK_DOWN", hop |-> h]>>
  /\ tx' = [tx EXCEPT ![h].task = "off", ![h].queue = <<>>]
  /\ UNCHANGED <<setting, bundle, up, agent, bdm, faults, crashed>>

TxTask(h) == TakeCommand(h) \/ Transmit(h) \/ EndTask(h)

-----------------------------------------------------------------------------
BundleProcessor ==
  \/ DeleteIncoming \/ ForwardIncoming \/ TransmissionSuccess \/ TransmissionFailure
  \/ BdmDispatch \/ LinkSignal \/ Register \/ Deregister

NextLife ==
  /\ ~crashed
  /\ \/ BundleProcessor
     \/ \E b \in Bundle : Arrive(b)
     \/ \E a \in Agent : Subscribe(a) \/ HangUp(a) \/ Keepalive(a) \/ AgentTask(a)
     \/ \E h \in Hop : StartLink(h) \/ EndLink(h) \/ TxTask(h)

\* Every task goes on while it has something to do; a dispatcher answers, or time runs out.
LifeFairness ==
  /\ WF_lifeVars(~crashed /\ BundleProcessor)
  /\ \A a \in Agent : WF_lifeVars(~crashed /\ AgentTask(a))
  /\ \A h \in Hop : WF_lifeVars(~crashed /\ TxTask(h))

SpecLife == InitLife /\ [][NextLife]_lifeVars /\ LifeFairness

-----------------------------------------------------------------------------
(* Properties *)

\* The signals, commands and results have their shape, and queues their bounds.
LifeTypeOK ==
  /\ setting \in Settings
  /\ bundle \in [Bundle -> [at : {"out", "live", "forwarded", "deleted"}, refs : Nat, failed : BOOLEAN]]
  /\ up \subseteq Hop /\ bdm \in Agent \cup {NoAgent} /\ crashed \in BOOLEAN
  /\ \A h \in Hop : /\ Len(tx[h].queue) <= TX_QUEUE_LENGTH
                    /\ tx[h].sending \in Bundle <=> tx[h].task = "sending"
  /\ \A a \in Agent : /\ Len(agent[a].queue) <= AGENT_QUEUE_LENGTH
                      /\ agent[a].item # NoItem => agent[a].at \in {"asking", "answered", "garbled"}

\* Where b is with a TX task t, 0 being what it sends, and the results that are on their way.
Commands(t, b) == {i \in DOMAIN t.queue : t.queue[i] = b} \cup {i \in {0} : t.sending = b}
Results(b) ==
  {i \in DOMAIN signals : signals[i].type \in {"TX_SUCCESS", "TX_FAILURE"} /\ signals[i].b = b}

\* How many transmissions of b have not been settled.
Transmissions(b) ==
  Cardinality(UNION { {h} \X Commands(tx[h], b) : h \in Hop }) + Cardinality(Results(b))

\* Every transmission is counted, and nothing else unless a fragment was cut again.
Covers(s, refs, n) == refs >= n /\ (Fitting(s) => refs = n)

\* bundle_processor.c:584 "increment the refcount for the original bundle, which we handle when
\* receiving TX events": the count of a bundle covers its transmissions under way, and none of a bundle that is freed is under way, so that a TX task never sends freed memory.
RefsCounted ==
  ~crashed => \A b \in Bundle :
    /\ Covers(setting, bundle[b].refs, Transmissions(b))
    /\ Freed(b) => bundle[b].refs = 0

\* A dispatch of b is with an agent task, or answered.
Dispatched(b) ==
  \/ \E a \in Agent : \/ agent[a].item.b = b
                      \/ \E i \in DOMAIN agent[a].queue : agent[a].queue[i].b = b
  \/ \E i \in DOMAIN signals : signals[i].type = "BDM_DISPATCH" /\ signals[i].b = b

\* No bundle is forgotten: what is not freed is being transmitted or dispatched, or waits in the
\* queue of the bundle processor.
NotForgotten ==
  ~crashed => \A b \in Bundle : bundle[b].at = "live" =>
    \/ bundle[b].refs > 0 \/ Dispatched(b)
    \/ \E i \in DOMAIN signals : signals[i].type = "INCOMING" /\ signals[i].b = b

\* aap2_agent.c:440 "when this returns `true` the ownership of the bundle lies within the
\* AAP 2.0 agent comm. task!": a bundle that is with an agent task, or comes back from
\* one, is not freed by anybody else.
OwnedByAgent == \A b \in Bundle : Dispatched(b) => ~Freed(b)

\* What is true of the objects at any time.
LifeInv == LifeTypeOK /\ RefsCounted /\ NotForgotten

\* Every bundle that came in is forwarded or deleted in the end, whatever links and dispatchers
\* do, unless the daemon has crashed.
LifeSettles ==
  \A b \in Bundle : bundle[b].at = "live" /\ Fitting(setting) ~> Freed(b) \/ crashed

\* Every dispatcher's connection that ends is taken apart.
AgentsLeave == \A a \in Agent : agent[a].at = "leaving" ~> agent[a].at = "gone" \/ crashed
=============================================================================
