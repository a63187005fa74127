------------------------------ MODULE Framing ------------------------------
(***************************************************************************)
(* How CoAP messages are packed into one bundle and taken out of it again. *)
(*                                                                         *)
(* Node A joins the encoded messages of its buffer without any separator   *)
(* (NodeAaap2.py, flush_buffer).  Node D (the proxy) and node B (the       *)
(* server) find the end of each message from its Payload-Length option and *)
(* the position of the first 0xFF byte of its encoding.  The module is the *)
(* codec of the modified aiocoap, on bytes of a small alphabet, and the    *)
(* extraction loop of either receiver, one action per way an iteration of  *)
(* the loop may end.                                                       *)
(*                                                                         *)
(* Scaling: one byte stands for the code and the 24-bit message ID, an     *)
(* option is a number byte and a value byte, and 0xFF is the largest byte  *)
(* of the alphabet.                                                        *)
(***************************************************************************)
EXTENDS Integers, Sequences, SequencesExt

CONSTANTS
  Marker,      \* the payload marker 0xFF, the largest byte
  Version1,    \* the first byte of a version-1 message with an empty token
  TokenLen,    \* length of the tokens node A draws (os.urandom(2))
  PathOpt,     \* number of the Uri-Path option
  PlenOpt,     \* number of the Payload-Length option
  Aggregates   \* the buffers node A may flush: sequences of messages

Byte == 0 .. Marker

-----------------------------------------------------------------------------
(* The codec: Message.encode and Message.decode, Options.encode and decode *)

\* A message: its ID, token, options (in ascending order) and payload.
Message == [mid: Byte, token: Seq(Byte), opts: Seq(Byte \X Byte), payload: Seq(Byte)]

Unparsable == [mid |-> -1]

Encode(m) ==
  <<Version1 + Len(m.token), m.mid>> \o m.token \o FlattenSeq(m.opts)
    \o (IF m.payload = <<>> THEN <<>> ELSE <<Marker>> \o m.payload)

\* A slice of Python, raw[a:b] counted from 1: it ends where the data ends.
Slice(raw, a, b) == SubSeq(raw, a, IF b < Len(raw) THEN b ELSE Len(raw))

\* Options.decode on raw[start..]: number and value alternate up to the marker or
\* the end of the data; a number without its value is not parsable.
DecodeOptions(raw, start) ==
  LET numbers == { i \in start .. Len(raw) + 2 : (i - start) % 2 = 0 }
      end     == CHOOSE i \in numbers :
                   /\ i > Len(raw) \/ raw[i] = Marker
                   /\ \A j \in numbers : j < i => j <= Len(raw) /\ raw[j] # Marker
  IN  IF start > Len(raw) THEN [ok |-> TRUE, opts |-> <<>>, payload |-> <<>>]
      ELSE IF end > Len(raw) + 1 THEN [ok |-> FALSE]
      ELSE [ok      |-> TRUE,
            opts    |-> [k \in 1 .. (end - start) \div 2 |->
                           <<raw[start + 2 * k - 2], raw[start + 2 * k - 1]>>],
            payload |-> SubSeq(raw, end + 1, Len(raw))]

Decode(raw) ==
  LET tkl  == raw[1] - Version1
      body == DecodeOptions(raw, 3 + tkl)
  IN  IF Len(raw) >= 2 /\ tkl \in 0 .. TokenLen /\ body.ok
      THEN [mid |-> raw[2], token |-> Slice(raw, 3, 2 + tkl),
            opts |-> body.opts, payload |-> body.payload]
      ELSE Unparsable

\* msg.opt.payload_length: the first option of that number; absent reads as 0,
\* which `if not msg.opt.payload_length' does not tell apart.
PayloadLength(m) ==
  LET found == SelectSeq(m.opts, LAMBDA o : o[1] = PlenOpt)
  IN  IF found = <<>> THEN 0 ELSE found[1][2]

-----------------------------------------------------------------------------
(* The extraction loops of D (process_messages) and B (bundle_coap_server) *)

VARIABLES
  node,     \* which receiver this is: "D" or "B"
  sent,     \* the messages node A joined
  wire,     \* recv_payload, the ADU
  offset,   \* where the next message is expected (from 0)
  out,      \* the messages taken out so far, as decoded the second time
  pc        \* "loop" or "done"

vars == <<node, sent, wire, offset, out, pc>>

\* b''.join(coap_buffer)
Aggregate(messages) == FlattenSeq([i \in DOMAIN messages |-> Encode(messages[i])])

Init ==
  /\ node \in {"D", "B"}
  /\ sent \in Aggregates
  /\ wire = Aggregate(sent)
  /\ offset = 0
  /\ out = <<>>
  /\ pc = "loop"

\* The position (from 0) of the first 0xFF of a byte string, -1 without one.
FindMarker(raw) == SelectInSeq(raw, LAMBDA b : b = Marker) - 1

\* payload_marker_index + 1 + payload_length
FullMessageLengthNoMarker(m) == FindMarker(Encode(m)) + PayloadLength(m)  \* mutant
FullMessageLength(m) == FindMarker(Encode(m)) + 1 + PayloadLength(m)

\* The checks made of msg, the first decoding.
Parsable(msg) ==
  /\ msg # Unparsable
  /\ PayloadLength(msg) # 0
  /\ FindMarker(Encode(msg)) # -1

\* coap_bytes: the slice of the ADU taken to be this message.
CoapBytes(partial, msg) == Slice(partial, 1, FullMessageLength(msg))

\* What the handlers of an exception do once the offset is `at': D goes on one
\* byte later and B leaves the rest of the aggregate alone.

Recover(at) ==
  IF node = "D" /\ at < Len(wire)
  THEN offset' = at + 1 /\ pc' = pc
  ELSE offset' = at /\ pc' = "done"

Extract(partial, msg) ==
  /\ Parsable(msg)
  /\ \E coap_bytes \in {CoapBytes(partial, msg)} :
       \E coap_msg \in {Decode(coap_bytes)} :
         coap_msg # Unparsable /\ out' = Append(out, coap_msg)
  /\ offset' = offset + FullMessageLength(msg)
  /\ UNCHANGED <<node, sent, wire, pc>>

\* The second decoding fails: the offset has moved on already.
SecondDecodeFails(partial, msg) ==
  /\ Parsable(msg)
  /\ \E coap_bytes \in {CoapBytes(partial, msg)} : Decode(coap_bytes) = Unparsable
  /\ Recover(offset + FullMessageLength(msg))
  /\ UNCHANGED <<node, sent, wire, out>>

Reject(msg) ==
  /\ ~Parsable(msg)
  /\ Recover(offset)
  /\ UNCHANGED <<node, sent, wire, out>>

\* One iteration: partial = recv_payload[offset:] and msg = Message.decode(partial).
Iterate ==
  /\ pc = "loop" /\ offset < Len(wire)
  /\ \E partial \in {SubSeq(wire, offset + 1, Len(wire))} :
       \E msg \in {Decode(partial)} :
         \/ Extract(partial, msg)
         \/ SecondDecodeFails(partial, msg)
         \/ Reject(msg)

Finish ==
  /\ pc = "loop" /\ offset >= Len(wire)
  /\ pc' = "done"
  /\ UNCHANGED <<node, sent, wire, offset, out>>

Next == Iterate \/ Finish

\* The loop runs in one coroutine that only waits for its own handlers.
Fairness == WF_vars(Next)
Spec == Init /\ [][Next]_vars /\ Fairness

-----------------------------------------------------------------------------
(* Properties *)

\* The variables have their types, and what was taken out are messages.
TypeOK ==
  /\ node \in {"D", "B"} /\ pc \in {"loop", "done"}
  /\ wire \in Seq(Byte) /\ offset \in Nat
  /\ out \in Seq(Message)

\* A message whose end both receivers find: it has a payload and no byte before
\* the payload marker equals the marker.
Clean(m) ==
  /\ m.payload # <<>>
  /\ \A i \in 1 .. Len(Encode(m)) - Len(m.payload) - 1 : Encode(m)[i] # Marker

\* The messages before the first one that is not clean.
CleanPrefix ==
  LET bad == SelectInSeq(sent, LAMBDA m : ~Clean(m))
  IN  IF bad = 0 THEN sent ELSE SubSeq(sent, 1, bad - 1)

\* A message that cannot be delimited never disturbs those packed before it:
\* they come out first, in order and unchanged (and an aggregate without such a
\* message comes out whole), at the resynchronising D and at B alike.
CleanMessagesSurvive ==
  pc = "done" => IsPrefix(CleanPrefix, out)

\* Nothing is taken out beyond what was sent when every message is clean, so
\* neither loop ever acts on bytes in the middle of a message.
NothingInvented ==
  CleanPrefix = sent => IsPrefix(out, sent)

\* Every aggregate, of whatever bytes, is left after finitely many iterations:
\* the exception handlers never retry the same offset.
Terminates == <>(pc = "done")

\* Either receiver takes out of an aggregate what was sent, and nothing else, up to the first
\* message whose end cannot be found.
FramingInv == TypeOK /\ CleanMessagesSurvive /\ NothingInvented
=============================================================================
