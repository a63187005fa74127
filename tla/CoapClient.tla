----------------------------- MODULE CoapClient -----------------------------
(***************************************************************************)
(* Node A, the CoAP-over-BP client (NodeAaap2.py): chat_send with its      *)
(* buffer and flusher tasks, chat_receive, and the connection to the local *)
(* uD3TN.                                                                  *)
(*                                                                         *)
(* The tasks share one event loop.  A task loses control only where it is  *)
(* suspended: Main (chat_send) in ainput, a flusher in sleep, and either   *)
(* in the drain() of send_adu, which suspends only while the transport is  *)
(* paused, after the ADU has been written.  So "write" and "finish" below  *)
(* are points of flush_buffer where the task holds the event loop.         *)
(***************************************************************************)
EXTENDS BundleNetwork, Integers, Sequences, SequencesExt, FiniteSets

CONSTANTS
  Commands,     \* what can be typed: [code, path, payload]
  Tokens,       \* the tokens os.urandom(2) can return
  MaxId,        \* MAX_ID
  BufferLimit,  \* BUFFER_LIMIT
  HighWater,    \* ADUs not yet read by uD3TN that pause the transport
  ResponseCap,  \* responses the connection holds while nobody reads them
  NodeA,
  dst_eid       \* the proxy's node

VARIABLES
  current_id,    \* the ID of the next message
  coap_buffer,   \* encoded messages not flushed yet
  flusher_task,  \* number of the flusher that is known, or NoTask
  at,            \* task -> where it is: "input", "sleep", "write", "drain",
                 \* "finish", "done"; the flushers are 1, 2, ..., Main is 0
  leaving,       \* the exit command was given
  waiters,       \* tasks suspended in drain(), in order
  woken,         \* those whose drain() is over, in order, before they run
  stream,        \* ADUs written and not yet read by uD3TN
  unread,        \* responses of uD3TN that chat_send never reads
  printed        \* the responses chat_receive printed

tasks == <<flusher_task, at, waiters, woken>>
clientVars == <<current_id, coap_buffer, tasks, leaving, stream, unread, printed>>

Main == 0
NoTask == -1

ClientInit ==
  /\ current_id = 1 /\ coap_buffer = <<>>
  /\ flusher_task = NoTask /\ at = [t \in {Main} |-> "input"] /\ leaving = FALSE
  /\ waiters = <<>> /\ woken = <<>> /\ stream = <<>> /\ unread = 0
  /\ printed = {}

\* next_mid
NextMid == (current_id % MaxId) + 1

\* The event loop runs no task.
LoopIdle == \A t \in DOMAIN at : at[t] \notin {"write", "finish"}

Paused == Len(stream) >= HighWater

\* The n-th message, from a command; only a PUT is confirmable.
Message(c, n, token) ==
  [n |-> n, token |-> token, mid |-> current_id, era |-> 0,
   mtype |-> IF c.code = "PUT" THEN "CON" ELSE "NON",
   code |-> c.code, path |-> c.path, payload |-> c.payload]

\* A command is typed: the message joins the buffer, a flusher is started when
\* none is known, and a full buffer is flushed by chat_send itself.
Queue(c, n) ==
  /\ LoopIdle /\ at[Main] = "input"
  /\ \E token \in Tokens : coap_buffer' = Append(coap_buffer, Message(c, n, token))
  /\ current_id' = NextMid
  /\ LET flusher == Cardinality(DOMAIN at)
         started == [t \in DOMAIN at \cup {flusher} |-> IF t = flusher THEN "sleep" ELSE at[t]]
         known   == IF flusher_task = NoTask THEN started ELSE at
     IN  /\ flusher_task' = IF flusher_task = NoTask THEN flusher ELSE flusher_task
         /\ at' = IF Len(coap_buffer') >= BufferLimit
                  THEN [known EXCEPT ![Main] = "write"] ELSE known
  /\ UNCHANGED <<leaving, waiters, woken, stream, unread, printed, network>>

\* The exit command.
Exit ==
  /\ LoopIdle /\ at[Main] = "input"
  /\ leaving' = TRUE
  /\ at' = [at EXCEPT ![Main] = IF coap_buffer = <<>> THEN "finish" ELSE "write"]
  /\ UNCHANGED <<current_id, coap_buffer, flusher_task, waiters, woken, stream, unread,
                 printed, network>>

\* TIMEOUT_SECONDS are over; flush_buffer returns when there is nothing to send.
Expire(f) ==
  /\ LoopIdle /\ at[f] = "sleep"
  /\ at' = [at EXCEPT ![f] = IF coap_buffer = <<>> THEN "done" ELSE "write"]
  /\ UNCHANGED <<current_id, coap_buffer, flusher_task, leaving, waiters, woken, stream,
                 unread, printed, network>>

\* send_adu: the aggregate is written, and then the task waits if the transport
\* is paused.
SendAdu(t) ==
  /\ at[t] = "write"
  /\ stream' = Append(stream, coap_buffer)
  /\ IF Len(stream') >= HighWater
     THEN at' = [at EXCEPT ![t] = "drain"] /\ waiters' = Append(waiters, t)
     ELSE at' = [at EXCEPT ![t] = "finish"] /\ UNCHANGED waiters
  /\ UNCHANGED <<current_id, coap_buffer, flusher_task, leaving, woken, unread, printed,
                 network>>

\* The transport is resumed and wakes everyone who waits in drain().
Resume ==
  /\ LoopIdle /\ ~Paused /\ waiters # <<>>
  /\ woken' = woken \o waiters
  /\ waiters' = <<>>
  /\ UNCHANGED <<current_id, coap_buffer, flusher_task, at, leaving, stream, unread,
                 printed, network>>

Continue ==
  /\ LoopIdle /\ woken # <<>>
  /\ at' = [at EXCEPT ![Head(woken)] = "finish"]
  /\ woken' = Tail(woken)
  /\ UNCHANGED <<current_id, coap_buffer, flusher_task, leaving, waiters, stream, unread,
                 printed, network>>

\* Task t has finished and the known flusher is cancelled.
Finished(t) ==
  [u \in DOMAIN at |->
     IF u = t /\ t = Main /\ ~leaving THEN "input"
     ELSE IF u \in {t, flusher_task} THEN "done" ELSE at[u]]

\* Mutants: the messages stay in the buffer; the flusher stays known.
FinishFlushKeeps(t) ==
  /\ at[t] = "finish"
  /\ at' = Finished(t)
  /\ flusher_task' = NoTask
  /\ UNCHANGED <<current_id, coap_buffer, leaving, waiters, woken, stream, unread,
                 printed, network>>

FinishFlushForgets(t) ==
  /\ at[t] = "finish"
  /\ coap_buffer' = <<>>
  /\ at' = Finished(t)
  /\ UNCHANGED <<current_id, flusher_task, leaving, waiters, woken, stream, unread,
                 printed, network>>

\* The rest of flush_buffer: the buffer is cleared and the flusher cancelled,
\* wherever it is suspended (one that cancels itself just ends).
FinishFlush(t) ==
  /\ at[t] = "finish"
  /\ coap_buffer' = <<>>
  /\ at' = Finished(t)
  /\ waiters' = RemoveFirst(waiters, flusher_task)
  /\ woken' = RemoveFirst(woken, flusher_task)
  /\ flusher_task' = NoTask
  /\ UNCHANGED <<current_id, leaving, stream, unread, printed, network>>

\* End of input or an exception of chat_receive: every task is cancelled, what
\* was written is still sent.
Abort ==
  /\ LoopIdle /\ at[Main] # "done"
  /\ at' = [t \in DOMAIN at |-> "done"]
  /\ coap_buffer' = <<>> /\ waiters' = <<>> /\ woken' = <<>> /\ flusher_task' = NoTask
  /\ UNCHANGED <<current_id, leaving, stream, unread, printed, network>>

\* The local uD3TN reads an ADU and writes its response, for which there must be
\* room.
Accept ==
  /\ stream # <<>> /\ unread < ResponseCap
  /\ Submit(NodeA, dst_eid, Head(stream))
  /\ stream' = Tail(stream)
  /\ unread' = unread + 1
  /\ UNCHANGED <<current_id, coap_buffer, tasks, leaving, printed>>

\* chat_receive; here the ADU is acknowledged last.
ChatReceive(b) ==
  /\ LoopIdle /\ b.dst = NodeA
  /\ Deliver(b)
  /\ printed' = printed \cup {b.adu[1]}
  /\ UNCHANGED <<current_id, coap_buffer, tasks, leaving, stream, unread>>

\* What the event loop does by itself.
Run ==
  \/ \E t \in DOMAIN at : Expire(t) \/ SendAdu(t) \/ FinishFlush(t)
  \/ Resume \/ Continue
=============================================================================
