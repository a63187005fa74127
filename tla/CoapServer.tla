----------------------------- MODULE CoapServer -----------------------------
(***************************************************************************)
(* Node B, the CoAP-over-BP server (NodeBaap2.py): the loop of             *)
(* bundle_coap_server, the handlers of DynamicResource, handle_post, and   *)
(* the file resources.json behind them.                                    *)
(*                                                                         *)
(* A request names its method (code), the first segment of its Uri-Path    *)
(* (path, Root when there is none) and its payload.  A frame the           *)
(* extraction loop cannot parse is Junk; Extracted says what else may      *)
(* become of a message there (module Framing has the loop on bytes).       *)
(***************************************************************************)
EXTENDS BundleNetwork, Integers, Sequences

CONSTANTS
  Names,      \* resource names
  Values,     \* payloads that are UTF-8 text
  Root,       \* the empty path
  Databases,  \* the dictionaries a resources.json may hold at first
  NodeB, NodeD,
  Junk,       \* a frame that raises an exception
  Marked,       \* the tokens and message IDs that have a 0xFF byte
  MarkedTexts,  \* the payloads whose length has one
  Pieces,       \* what a payload cut short may be
  NoPayload,    \* the empty payload
  Faults      \* what goes wrong: "crash" of the process, "disk" errors,
              \* a lost connection to "send" on

ASSUME ServerAssumption ==
  /\ Root \notin Names
  /\ Faults \subseteq {"crash", "disk", "send"}

VARIABLES
  resources,     \* name -> values, the dictionary in memory
  file,          \* contents of resources.json, Absent or Torn
  recv_payload,  \* frames of the ADU being processed
  pc,            \* "idle", "loop", "saving", "savefailed", "respond", "down", "dead"
  code,          \* code of the response being prepared
  content        \* values a GET returns

Absent == [absent |-> TRUE]     \* no file
Torn == [torn |-> TRUE]         \* opened for writing, not (fully) written
File(r) == [values |-> r]       \* the dictionary as JSON

Contents == IF file = Absent THEN <<>> ELSE file.values

Running == pc \notin {"down", "dead"}

\* load_resources_from_file: a file that is no JSON raises, and main ends.
Load ==
  IF file = Torn THEN /\ pc' = "dead"
                      /\ resources' = <<>>
  ELSE /\ pc' = "idle"
       /\ resources' = Contents

\* The server started with the file it finds.
ServerInit ==
  /\ file \in {Absent} \cup { File(r) : r \in Databases }
  /\ resources = Contents
  /\ recv_payload = <<>> /\ pc = "idle"
  /\ code = "none" /\ content = <<>>

\* Where the message seems to end long before it does, and where a few bytes early.
Misread(frame) == frame.token \in Marked \/ frame.mid \in Marked
CutShort(frame, pieces) == { [frame EXCEPT !.payload = p] : p \in pieces }

\* What the loop takes a frame for: a Payload-Length of 0 counts as missing, and the
\* first 0xFF byte is taken for the payload marker, so that nothing can be decoded or a
\* part of the payload is left.  A message without payload whose Payload-Length is not 0
\* is one the proxy has cut.
Readings(frame) ==
  IF frame = Junk THEN {Junk}
  ELSE IF frame.payload = NoPayload THEN {Junk} \cup { f \in {frame} : Misread(f) }
  ELSE IF Misread(frame) THEN {Junk} \cup CutShort(frame, Pieces)
  ELSE IF frame.payload \in MarkedTexts THEN CutShort(frame, Pieces \ {NoPayload})
  ELSE {frame}

\* The frames the loop gets to see: all of the ADU, or those in front of the first one it
\* misreads and what it makes of that one; decoding the rest of it fails, and the loop ends.
Extracted(adu) ==
  LET whole(i) == Readings(adu[i]) = {adu[i]}
      bad == { i \in DOMAIN adu : ~whole(i) /\ \A j \in 1 .. i - 1 : whole(j) }
  IN  IF bad = {} THEN {adu}
      ELSE UNION { { IF f = Junk THEN SubSeq(adu, 1, i - 1) ELSE Append(SubSeq(adu, 1, i - 1), f) :
                     f \in Readings(adu[i]) } : i \in bad }

\* Mutant: an ADU is processed twice.
ReceiveTwice(b) ==
  /\ pc = "idle" /\ b.dst = NodeB
  /\ Deliver(b)
  /\ recv_payload' = b.adu \o b.adu
  /\ pc' = "loop"
  /\ UNCHANGED <<resources, file, code, content>>

\* receive_adu, acknowledged before it is looked at.
Receive(b) ==
  /\ pc = "idle" /\ b.dst = NodeB
  /\ Deliver(b)
  /\ recv_payload' \in Extracted(b.adu)
  /\ pc' = "loop"
  /\ UNCHANGED <<resources, file, code, content>>

Request == Head(recv_payload)

Handling == pc = "loop" /\ recv_payload # <<>> /\ Request # Junk

\* The response goes out next; nothing was changed.
Answer(c) ==
  /\ code' = c /\ pc' = "respond"
  /\ UNCHANGED <<resources, file, recv_payload, network>>

\* Mutant: the response is on its way before the file is written.
ChangeUnsaved(r, c) ==
  /\ resources' = r
  /\ code' = c
  /\ pc' = "respond"
  /\ content' = <<>>
  /\ UNCHANGED <<file, recv_payload, network>>

\* The dictionary is changed and save_resources_to_file is entered: open(...,
\* 'w') empties the file, or raises and leaves it.
Change(r, c) ==
  /\ resources' = r
  /\ code' = c
  /\ \/ file' = Torn /\ pc' = "saving"
     \/ "disk" \in Faults /\ file' = file /\ pc' = "savefailed"
  /\ content' = <<>>
  /\ UNCHANGED <<recv_payload, network>>

\* A new DynamicResource x, without values.
Created(r, x) == [y \in DOMAIN r \cup {x} |-> IF y = x THEN <<>> ELSE r[y]]

HandlePost ==
  /\ Handling /\ Request.code = "POST" /\ Request.path \notin DOMAIN resources
  /\ IF Request.payload \notin Names \/ Request.payload \in DOMAIN resources
     THEN Answer("BAD_REQUEST") /\ content' = <<>>
     ELSE Change(Created(resources, Request.payload), "CREATED")

RenderPut ==
  /\ Handling /\ Request.code = "PUT" /\ Request.path \in DOMAIN resources
  /\ IF Request.payload \notin Values
     THEN Answer("BAD_REQUEST") /\ content' = <<>>
     ELSE Change([resources EXCEPT ![Request.path] = Append(@, Request.payload)], "CHANGED")

RenderDelete ==
  /\ Handling /\ Request.code = "DELETE" /\ Request.path \in DOMAIN resources
  /\ Change([resources EXCEPT ![Request.path] = <<>>], "DELETED")

RenderGetInitial ==  \* mutant: the values the resource was created with
  /\ Handling /\ Request.code = "GET" /\ Request.path \in DOMAIN resources
  /\ Answer("CONTENT")
  /\ content' = <<>>

RenderGet ==
  /\ Handling /\ Request.code = "GET" /\ Request.path \in DOMAIN resources
  /\ Answer("CONTENT")
  /\ content' = resources[Request.path]

\* A POST to an existing resource, and anything but a POST to a missing one.
Refuse ==
  /\ Handling
  /\ IF Request.path \in DOMAIN resources
     THEN Request.code = "POST" /\ Answer("METHOD_NOT_ALLOWED")
     ELSE Request.code # "POST" /\ Answer("NOT_FOUND")
  /\ content' = <<>>

\* json.dump and the end of the with block: the file holds the dictionary.
FinishSave ==
  /\ pc = "saving"
  /\ file' = File(resources)
  /\ pc' = "respond"
  /\ UNCHANGED <<resources, recv_payload, code, content, network>>

\* json.dump raises: the file stays as it is, half written.
DumpFails ==
  /\ pc = "saving" /\ "disk" \in Faults
  /\ pc' = "savefailed"
  /\ UNCHANGED <<resources, file, recv_payload, code, content, network>>

\* The exception of save_resources_to_file: caught by handle_post and
\* render_put, and for render_delete by bundle_coap_server.  The dictionary
\* keeps the change.
SaveFailed ==
  /\ pc = "savefailed"
  /\ code' = IF code = "DELETED" THEN "INTERNAL_SERVER_ERROR" ELSE "BAD_REQUEST"
  /\ pc' = "respond"
  /\ UNCHANGED <<resources, file, recv_payload, content, network>>

\* The response copies token and ID, an ACK unless the request was NON.
Response ==
  [n |-> Request.n, token |-> Request.token, mid |-> Request.mid, code |-> code,
   mtype |-> IF Request.mtype # "NON" THEN "ACK" ELSE "NON", payload |-> content]

\* send_adu and the response of the local uD3TN.
Respond ==
  /\ pc = "respond"
  /\ Submit(NodeB, NodeD, <<Response>>)
  /\ pc' = "loop"
  /\ recv_payload' = Tail(recv_payload)
  /\ UNCHANGED <<resources, file, code, content>>

\* send_adu raises, or receive_response after the ADU was written: the rest of the
\* received ADU is left alone, the request was served.
SendFails ==
  /\ pc = "respond" /\ "send" \in Faults
  /\ Submit(NodeB, NodeD, <<Response>>) \/ UNCHANGED network
  /\ pc' = "loop"
  /\ recv_payload' = <<>>
  /\ UNCHANGED <<resources, file, code, content>>

BreakInPlace ==  \* mutant: the loop goes on at the same offset
  /\ pc = "loop" /\ recv_payload # <<>> /\ Request = Junk
  /\ UNCHANGED <<resources, file, recv_payload, pc, code, content, network>>

\* An exception while parsing: the rest of the ADU is left alone.
Break ==
  /\ pc = "loop" /\ recv_payload # <<>> /\ Request = Junk
  /\ recv_payload' = <<>>
  /\ UNCHANGED <<resources, file, pc, code, content, network>>

NextADU ==
  /\ pc = "loop" /\ recv_payload = <<>>
  /\ pc' = "idle"
  /\ UNCHANGED <<resources, file, recv_payload, code, content, network>>

\* The process is killed; what it was doing is lost, the file stays.
Crash ==
  /\ Running /\ "crash" \in Faults
  /\ pc' = "down"
  /\ resources' = <<>> /\ recv_payload' = <<>> /\ code' = "none" /\ content' = <<>>
  /\ UNCHANGED <<file, network>>

Restart ==
  /\ pc = "down"
  /\ Load
  /\ UNCHANGED <<file, recv_payload, code, content, network>>

Handle == HandlePost \/ RenderPut \/ RenderDelete \/ RenderGet \/ Refuse

Work ==
  \/ Handle \/ FinishSave \/ DumpFails \/ SaveFailed
  \/ Respond \/ SendFails \/ Break \/ NextADU

-----------------------------------------------------------------------------
(* What requests make of a dictionary, said without the loop that does it. *)

\* A dictionary of resources, as it is in memory and in the file.
IsDictionary(r) == DOMAIN r \subseteq Names /\ r \in [DOMAIN r -> Seq(Values)]

\* Requests that leave resource x without values, and the positions of those that added
\* the values it has after the requests of log.
Empties(r, x) == (r.code = "POST" /\ r.payload = x) \/ (r.code = "DELETE" /\ r.path = x)
Emptied(log, x) == \E i \in DOMAIN log : Empties(log[i], x)
Puts(log, x) ==
  { i \in DOMAIN log : /\ log[i].code = "PUT" /\ log[i].path = x
                       /\ \A j \in DOMAIN log : i < j => ~Empties(log[j], x) }

\* What resource x had at first, in old, and still has after the requests of log.
Left(old, log, x) == IF x \in DOMAIN old /\ ~Emptied(log, x) THEN old[x] ELSE <<>>

\* values are those of resource x after the requests of log: what is left of the first ones
\* and then the payloads of the puts, each once and in order.
ValuesAfter(values, old, log, x) ==
  \E pos \in [1 .. (Len(values) - Len(Left(old, log, x))) -> Puts(log, x)] :
    /\ \A i, j \in DOMAIN pos : i < j => pos[i] < pos[j]
    /\ \A k \in Puts(log, x) : \E i \in DOMAIN pos : pos[i] = k
    /\ values = Left(old, log, x) \o [i \in DOMAIN pos |-> log[pos[i]].payload]

NamesAfter(log) == { log[i].payload : i \in { j \in DOMAIN log : log[j].code = "POST" } }

Success == {"CREATED", "CHANGED", "DELETED"}

Numbers(log) == { log[i].n : i \in DOMAIN log }

\* The dictionary r is what the requests of log make of old.
Agrees(r, old, log) ==
  /\ DOMAIN r = DOMAIN old \cup NamesAfter(log)
  /\ \A x \in DOMAIN r : ValuesAfter(r[x], old, log, x)
=============================================================================
