--------------------------- MODULE MessageManager ---------------------------
(***************************************************************************)
(* aiocoap's message layer (messagemanager.py) as one endpoint keeps it    *)
(* for one remote: message IDs, retransmission of confirmable messages,    *)
(* one open exchange at a time with a backlog behind it, acknowledgements  *)
(* that carry the response when it is ready in time, and the memory of     *)
(* recent messages that recognises duplicates.  A manager is a record;     *)
(* every method is an operator from managers to managers, and what is put  *)
(* on the wire during a step collects in "out".                            *)
(***************************************************************************)
EXTENDS Naturals, Sequences, Functions

CONSTANT Mids  \* message IDs are numbers below this one (65536)

ASSUME MidsAssumption == Mids \in Nat \ {0}

\* mtype "none" and mid Mids: not yet chosen.  obs 0: no observe option, else its value
\* plus one.  val: the state a response shows; of a request, 1 for the no_response option.
Message(mtype, code, mid, token, obs, val) ==
  [mtype |-> mtype, code |-> code, mid |-> mid, token |-> token, obs |-> obs, val |-> val]

NoToken == 0
Numbered(m, mtype, mid) == Message(mtype, m.code, mid, m.token, m.obs, m.val)
EmptyMessage(mtype, mid) == Message(mtype, "EMPTY", mid, NoToken, 0, 0)
NoMessage == EmptyMessage("none", Mids)

NewManager(mid) ==
  [active_exchanges |-> <<>>,  \* per message ID: the message, how often it was repeated
   in_backlogs |-> FALSE,      \* the remote has an entry in _backlogs
   backlog |-> <<>>,
   recent_messages |-> <<>>,   \* per message ID of the remote: what answered it, or NoMessage
   piggyback |-> <<>>,         \* _piggyback_opportunities: per token, the ID to acknowledge
   message_id |-> mid,
   out |-> {}]

With(f, x, v) == [y \in DOMAIN f \cup {x} |-> IF y = x THEN v ELSE f[y]]
Without(f, x) == Restrict(f, DOMAIN f \ {x})

\* _send_via_transport.
Transmit(M, m) == [M EXCEPT !.out = @ \cup {m}]

\* Mutant: a second exchange replaces the one that is open.
AddExchangeOnly(M, m) ==
  [M EXCEPT !.active_exchanges = With(@, m.mid, [msg |-> m, tries |-> 0])]

AddExchange(M, m) ==
  [M EXCEPT !.active_exchanges = With(@, m.mid, [msg |-> m, tries |-> 0]),
            !.in_backlogs = TRUE]

\* The key is made of the remote and the ID alone: a message of our own numbering
\* counts as the answer to one of the remote's that had the same ID.
StoreResponseForDuplicates(M, m) ==
  IF m.mid \in DOMAIN M.recent_messages THEN [M EXCEPT !.recent_messages[m.mid] = m] ELSE M

SendInitially(M, m) ==
  Transmit(StoreResponseForDuplicates(IF m.mtype = "CON" THEN AddExchange(M, m) ELSE M, m), m)

\* Only confirmable messages wait, so the loop sends at most one.
ContinueBacklog(M) ==
  IF DOMAIN M.active_exchanges # {} THEN M
  ELSE IF M.backlog # <<>> THEN SendInitially([M EXCEPT !.backlog = Tail(@)], Head(M.backlog))
  ELSE [M EXCEPT !.in_backlogs = FALSE]

RemoveExchange(M, mid) ==
  IF mid \in DOMAIN M.active_exchanges
    THEN ContinueBacklog([M EXCEPT !.active_exchanges = Without(@, mid)]) ELSE M

\* Mutant: every request is new.
NoDuplicate(M, m) == FALSE
IsDuplicate(M, m) == m.mid \in DOMAIN M.recent_messages

\* Repeating the answer; a confirmable one, stored under a colliding ID, fails the
\* assertion on its monitor and is not sent.
AnswerDuplicate(M, m) ==
  LET stored == M.recent_messages[m.mid]
  IN IF m.mtype = "CON" /\ stored # NoMessage /\ stored.mtype # "CON"
       THEN SendInitially(M, stored) ELSE M

\* _process_request up to the token manager; a new request on the same token takes the
\* old opportunity away.
ExpectAnswer(M, m) ==
  LET N == [M EXCEPT !.recent_messages = With(@, m.mid, NoMessage)]
  IN IF m.mtype = "CON" THEN [N EXCEPT !.piggyback = With(@, m.token, m.mid)] ELSE N

\* A message n with an ID of our own waits for its turn if it is confirmable.
SendNext(M, n) ==
  LET N == [M EXCEPT !.message_id = (@ + 1) % Mids]
  IN IF n.mtype = "CON" /\ M.in_backlogs
       THEN [N EXCEPT !.backlog = Append(@, n)] ELSE SendInitially(N, n)

\* send_message: a response takes the opportunity to be the acknowledgement, an empty one
\* when the requester wants no response (no_response).
SendMessage(M, m, no_response) ==
  IF m.code = "RESP" /\ m.token \in DOMAIN M.piggyback
    THEN LET mid == M.piggyback[m.token]
         IN SendInitially([M EXCEPT !.piggyback = Without(@, m.token)],
                          IF no_response THEN EmptyMessage("ACK", mid)
                          ELSE Numbered(m, "ACK", mid))
  ELSE IF m.code = "RESP" /\ no_response THEN M
  ELSE SendNext(M, Numbered(m, IF m.mtype = "none" THEN "CON" ELSE m.mtype, M.message_id))

\* on_timeout of _process_request: too late to piggyback.
SendEmptyAck(M, token) ==
  SendInitially([M EXCEPT !.piggyback = Without(@, token)],
                EmptyMessage("ACK", M.piggyback[token]))

MayRetransmit(M, mid, MAX_RETRANSMIT) == M.active_exchanges[mid].tries < MAX_RETRANSMIT

\* Mutant: the counter is not handed on to the next timer.
RetransmitUncounted(M, mid) == Transmit(M, M.active_exchanges[mid].msg)
Retransmit(M, mid) ==
  Transmit([M EXCEPT !.active_exchanges[mid].tries = @ + 1], M.active_exchanges[mid].msg)

\* The exchange is given up, and the backlog with it.
GiveUp(M, mid) ==
  [M EXCEPT !.active_exchanges = Without(@, mid), !.in_backlogs = FALSE, !.backlog = <<>>]

\* dispatch_error: no answer is to be expected from the remote at all.
DropExchanges(M) ==
  [M EXCEPT !.active_exchanges = <<>>, !.in_backlogs = FALSE, !.backlog = <<>>]
=============================================================================
