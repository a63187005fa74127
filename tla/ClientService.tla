---------------------------- MODULE ClientService ----------------------------
(***************************************************************************)
(* The client (CoapClient) with a user who types commands: what becomes of *)
(* the messages it says it has queued.                                     *)
(***************************************************************************)
EXTENDS CoapClient, SequencesExt

CONSTANT MaxCommands   \* bound: commands typed

ASSUME ClientAssumption ==
  /\ MaxId \in Nat \ {0} /\ BufferLimit \in Nat \ {0}
  /\ HighWater \in Nat /\ ResponseCap \in Nat

VARIABLES
  queued,    \* the messages queued, in order
  written,   \* the aggregates handed to the transport, in order
  aborted,   \* the user ended the input without exit
  waited     \* a task had to wait in drain()

userLog == <<queued, written, aborted, waited>>
userVars == <<clientVars, network, userLog>>

InitClient ==
  /\ ClientInit
  /\ net = {} /\ seqno = [v \in {NodeA} |-> 0]
  /\ queued = <<>> /\ written = <<>> /\ aborted = FALSE /\ waited = FALSE

TypeCommand ==
  /\ Len(queued) < MaxCommands
  /\ \E c \in Commands : Queue(c, Len(queued) + 1)
  /\ queued' = Append(queued, Last(coap_buffer'))
  /\ UNCHANGED <<written, aborted, waited>>

TypeExit == Exit /\ UNCHANGED userLog

EndInput ==
  /\ Abort
  /\ aborted' = TRUE
  /\ UNCHANGED <<queued, written, waited>>

RunTasks ==
  /\ Run
  /\ written' = IF stream' # stream THEN Append(written, Last(stream')) ELSE written
  /\ waited' = (waited \/ waiters' # <<>>)
  /\ UNCHANGED <<queued, aborted>>

UD3TN == Accept /\ UNCHANGED userLog

\* The network takes the bundles away (module BundleNetwork).
TakeBundle == Lose /\ UNCHANGED <<clientVars, userLog>>

NextClient == TypeCommand \/ TypeExit \/ EndInput \/ RunTasks \/ UD3TN \/ TakeBundle

SpecClient == InitClient /\ [][NextClient]_userVars

\* Timers expire and the event loop runs what is ready; uD3TN reads as long as
\* there is room for its responses.
ClientFairness == WF_userVars(RunTasks) /\ WF_userVars(UD3TN)

-----------------------------------------------------------------------------
(* Properties *)

Messages(aggregates) == FlattenSeq(aggregates)

\* The variables have their types; a task is in at most one queue and only while
\* it is in drain(), and the event loop runs at most one task.
ClientTypeOK ==
  /\ current_id \in 1 .. MaxId
  /\ DOMAIN at = 0 .. (Cardinality(DOMAIN at) - 1)
  /\ \A t \in DOMAIN at : at[t] \in {"input", "sleep", "write", "drain", "finish", "done"}
  /\ flusher_task \in DOMAIN at \cup {NoTask}
  /\ ToSet(waiters \o woken) = { t \in DOMAIN at : at[t] = "drain" }
  /\ IsInjective(waiters \o woken)
  /\ Cardinality({ t \in DOMAIN at : at[t] \in {"write", "finish"} }) <= 1
  /\ Len(coap_buffer) <= BufferLimit /\ unread <= ResponseCap

\* chat_send (NodeAaap2.py:58), ``Gather and send CoAP messages in bundles'': as long
\* as no task has had to wait in drain(), the messages written and those in the
\* buffer are those queued, each once and in order, however the limit, the timer
\* and exit race for the buffer.
Partition ==
  ~aborted /\ ~waited =>
    \/ Messages(written) \o coap_buffer = queued
    \/ \E t \in DOMAIN at : at[t] = "finish" /\ Messages(written) = queued

\* start_flusher: whenever chat_send waits for input and holds messages, a flusher
\* that is going to send them is alive; nothing waits in the buffer for ever.
FlusherAlive ==
  coap_buffer # <<>> /\ at[Main] = "input" =>
    flusher_task # NoTask /\ at[flusher_task] # "done"

\* The limit, the timer or exit sends every queued message in the end.
AllSent ==
  \A n \in 1 .. MaxCommands :
    n <= Len(queued) ~>
      aborted \/ waited \/ (n <= Len(queued) /\ queued[n] \in ToSet(Messages(written)))

\* chat_send always returns to its prompt, as long as uD3TN reads what A writes.
Responsive == at[Main] = "drain" ~> at[Main] # "drain"

\* The buffer, the flusher and the queue of drain() fit together: nothing typed is lost or
\* sent twice, nothing waits without a flusher, and no task waits in two places.
ClientInv == ClientTypeOK /\ Partition /\ FlusherAlive

\* What was typed is sent in the end and the prompt comes back.
ClientProgress == AllSent /\ Responsive
=============================================================================
