-------------------------- MODULE BlockwiseTransfer --------------------------
(***************************************************************************)
(* Block-wise transfer between aiocoap's BlockwiseRequest and a resource:  *)
(* the client cuts a long body into blocks and collects a long response    *)
(* block by block; the server keeps the parts of a body in a Block1Spool   *)
(* and what is left of a response in a Block2Cache, both of which forget   *)
(* what is not used.  Several transfers run at once.  The blocks travel as *)
(* single requests: served at most once, answered or failed                *)
(* (RequestService).                                                       *)
(*                                                                         *)
(* First come block options and what messages do with them (optiontypes.py *)
(* and message.py): cutting a block out of a body and putting bodies       *)
(* together again.  The unit of length is 16 bytes, the smallest block;    *)
(* payloads are sequences of whole units.  The exponent after the largest  *)
(* regular one stands for BERT, several of the largest blocks in one       *)
(* message.                                                                *)
(***************************************************************************)
EXTENDS Integers, Sequences, Functions, FiniteSets, TLC

CONSTANT MAX_REGULAR_BLOCK_SIZE_EXP  \* 6

ExponentAssumption == MAX_REGULAR_BLOCK_SIZE_EXP \in Nat

BERT == MAX_REGULAR_BLOCK_SIZE_EXP + 1
Regular(exp) == IF exp < BERT THEN exp ELSE MAX_REGULAR_BLOCK_SIZE_EXP

\* BlockwiseTuple, with its size and start.
Block(num, more, exp) == [num |-> num, more |-> more, exp |-> exp]
NoBlock == Block(0, FALSE, -1)
Size(block) == 2 ^ Regular(block.exp)
Start(block) == block.num * Size(block)

IsValidForPayloadSize(block, length) ==
  IF block.exp = BERT THEN block.more => length % Size(block) = 0
  ELSE IF block.more THEN length = Size(block) ELSE length <= Size(block)

\* A block that starts where this one does and is no larger than max allows.
ReducedTo(block, max) ==
  IF max >= block.exp THEN block
  ELSE IF block.exp = BERT /\ max = BERT - 1 THEN [block EXCEPT !.exp = max]
  ELSE [block EXCEPT !.num = @ * 2 ^ (Regular(block.exp) - max), !.exp = max]

\* _extract_block: "none" where the block is out of bounds.
ExtractSize(exp, maxBert) == IF exp = BERT THEN 2 ^ (BERT - 1) * (maxBert \div 2 ^ (BERT - 1)) ELSE 2 ^ exp
InBounds(payload, num, exp) == num * 2 ^ Regular(exp) < Len(payload)
ExtractBlock(payload, num, exp, maxBert) ==
  LET start == num * 2 ^ Regular(exp)
      end == IF start + ExtractSize(exp, maxBert) < Len(payload)
               THEN start + ExtractSize(exp, maxBert) ELSE Len(payload)
  IN [payload |-> SubSeq(payload, start + 1, end),
      block |-> Block(num, end < Len(payload), exp)]

\* _append_request_block.
RequestSizeMatches(block, length) ==
  block.more => length = Size(block) \/ (block.exp = BERT /\ length % Size(block) = 0)

\* _append_response_block succeeds: in order, of a valid size, and of the same entity tag.
Appendable(assembled, etag, next) ==
  /\ IsValidForPayloadSize(next.b2, Len(next.payload))
  /\ Start(next.b2) = Len(assembled)
  /\ next.etag = etag

\* _generate_next_block2_request.
NextBlock2(assembled, block, max) ==
  ReducedTo(Block(Len(assembled) \div Size(block), FALSE, block.exp), max)

-----------------------------------------------------------------------------
CONSTANTS
  Transfers,  \* the calls of Context.request that are made
  Plans,      \* what a behaviour is about: per transfer, a record of
              \* key: endpoint, code and cache key, the same for all its blocks
              \* body: length of the body to send, in units
              \* reply: length of what the resource answers; etag: with a tag or without
              \* exp, payload: the client's maximum_block_size_exp and maximum_payload_size
              \* srvexp, srvpayload: the server's for this client
              \* after: the transfer that has to be over first, or "none"
              \* ask: the size exponent the server asks for (aiocoap's asks for no other)
  MaxFaults   \* requests that fail, and ticks that forget what is in use

VARIABLES
  plan,
  client,  \* per transfer, the state of its BlockwiseRequest
  call,    \* per transfer, its block under way: request, rendering or response
  items,   \* _items of the two TimeoutDicts: per key, the body received so far
           \* (Block1Spool._assemblies), and the response (Block2Cache._completes)
  fresh,   \* per dict, the keys that were accessed since its last tick
  current, \* the transfer whose body the resource has
  bodies,  \* what the resource was called with: pairs of transfer and body
  faults

vars == <<plan, client, call, items, fresh, current, bodies, faults>>

Body(x) == [i \in 1 .. plan[x].body |-> <<x, i>>]
\* How the resource shows the body of x, in n units.
Representation(x, n) == [i \in 1 .. n |-> <<"shows", x, i>>]

NoCall == [kind |-> "none"]
Request(payload, b1, b2) == [kind |-> "request", payload |-> payload, b1 |-> b1, b2 |-> b2]
Response(code, payload, b1, b2, etag) ==
  [kind |-> "response", code |-> code, payload |-> payload, b1 |-> b1, b2 |-> b2, etag |-> etag]
Error(code) == Response(code, <<>>, NoBlock, NoBlock, "none")

Init ==
  /\ plan \in Plans
  /\ client = [x \in Transfers |-> [phase |-> "new", cursor |-> 0, exp |-> plan[x].exp,
                                    sent |-> NoCall, got |-> NoCall]]
  /\ call = [x \in Transfers |-> NoCall]
  /\ items = [d \in {"spool", "cache"} |-> <<>>]
  /\ fresh = [d \in {"spool", "cache"} |-> {}]
  /\ current = "none"
  /\ bodies = {}
  /\ faults = 0

Fault == faults < MaxFaults /\ faults' = faults + 1

-----------------------------------------------------------------------------
\* The client: the next piece of the body, or the whole of it.
Threshold(x, exp) == IF exp >= MAX_REGULAR_BLOCK_SIZE_EXP THEN plan[x].payload ELSE 2 ^ exp

NextBlock1(x, cursor, exp) ==
  LET part == ExtractBlock(Body(x), cursor, exp, plan[x].payload)
  IN IF plan[x].body <= Threshold(x, exp) THEN Request(Body(x), NoBlock, NoBlock)
     ELSE Request(part.payload, part.block, NoBlock)

Send(x, c, request) ==
  /\ client' = [client EXCEPT ![x] = [c EXCEPT !.sent = request]]
  /\ call' = [call EXCEPT ![x] = request]

\* The future of the request is set, to a response or to an exception.
Finish(x, phase, response) ==
  /\ client' = [client EXCEPT ![x].phase = phase, ![x].got = response]
  /\ call' = [call EXCEPT ![x] = NoCall]

Ended(x) == client[x].phase \in {"done", "failed"}

Begin(x) ==
  /\ client[x].phase = "new"
  /\ plan[x].after # "none" => Ended(plan[x].after)
  /\ Send(x, [client[x] EXCEPT !.phase = "upload"], NextBlock1(x, 0, client[x].exp))
  /\ UNCHANGED <<plan, items, fresh, current, bodies, faults>>

\* Mutant: BERT is taken to count blocks of twice the size.
AdvancedHalf(cursor, exp, payload) ==
  cursor + IF exp = BERT THEN Len(payload) \div 2 ^ BERT ELSE 1
Advanced(cursor, exp, payload) ==
  cursor + IF exp = BERT THEN Len(payload) \div 2 ^ (BERT - 1) ELSE 1

\* "while block1.size_exponent < size_exp:", which also doubles when BERT is left.
Rescaled(cursor, exp, newExp) == cursor * 2 ^ (exp - newExp)

\* _complete_by_requesting_block2, entered with the first response.
Download(x, r) ==
  IF r.b2 = NoBlock \/ ~ r.b2.more THEN Finish(x, "done", r)
  ELSE IF r.b2.num # 0 THEN Finish(x, "failed", r)
  ELSE Send(x, [client[x] EXCEPT !.phase = "download", !.got = r],
            Request(<<>>, NoBlock, NextBlock2(r.payload, r.b2, plan[x].exp)))

ReceiveBlock1(x) ==
  LET r == call[x]
      c == client[x]
      sent == c.sent
      exp == IF r.b1.exp < c.exp THEN r.b1.exp ELSE c.exp
      cursor == Rescaled(Advanced(c.cursor, c.exp, sent.payload), c.exp, exp)
  IN /\ r.kind = "response"
     /\ c.phase = "upload"
     /\ IF r.b1 = NoBlock THEN Download(x, r)
        ELSE IF r.b1.num # sent.b1.num THEN Finish(x, "failed", r)
        ELSE IF ~ sent.b1.more
          THEN IF r.b1.more \/ r.code = "2.31" THEN Finish(x, "failed", r) ELSE Download(x, r)
        ELSE IF ~ r.b1.more /\ r.code \notin {"2.xx", "2.31"} THEN Download(x, r)
        ELSE IF ~ InBounds(Body(x), cursor, exp) THEN Finish(x, "failed", r)
        ELSE Send(x, [c EXCEPT !.cursor = cursor, !.exp = exp], NextBlock1(x, cursor, exp))
     /\ UNCHANGED <<plan, items, fresh, current, bodies, faults>>

\* The block is appended to the response so far, which takes over its block option.
ReceiveBlock2(x) ==
  LET r == call[x]
      c == client[x]
      joined == [c.got EXCEPT !.payload = @ \o r.payload, !.b2 = r.b2]
  IN /\ r.kind = "response"
     /\ c.phase = "download"
     /\ IF r.b2 = NoBlock THEN Finish(x, "done", r)
        ELSE IF ~ Appendable(c.got.payload, c.got.etag, r) THEN Finish(x, "failed", r)
        ELSE IF ~ r.b2.more THEN Finish(x, "done", joined)
        ELSE Send(x, [c EXCEPT !.got = joined],
                  Request(<<>>, NoBlock, NextBlock2(joined.payload, r.b2, plan[x].exp)))
     /\ UNCHANGED <<plan, items, fresh, current, bodies, faults>>

-----------------------------------------------------------------------------
\* TimeoutDict: the first item starts the timer, every other access is noted.
Stored(d, key, value) == [items EXCEPT ![d] = (key :> value) @@ @]
Accessed(d, key) == [fresh EXCEPT ![d] = IF items[d] = <<>> THEN {} ELSE @ \cup {key}]

Ticked(d) == [items EXCEPT ![d] = Restrict(@, fresh[d])]

Tick(d) ==
  LET lost == DOMAIN items[d] \ fresh[d]
  IN /\ items[d] # <<>>
     /\ items' = Ticked(d)
     /\ fresh' = [fresh EXCEPT ![d] = {}]
     /\ IF \E x \in Transfers : plan[x].key \in lost /\ client[x].phase \in {"upload", "download"}
          THEN Fault ELSE UNCHANGED faults
     /\ UNCHANGED <<plan, client, call, current, bodies>>

\* The server answers at once.
Answer(x, response) ==
  /\ call' = [call EXCEPT ![x] = response]
  /\ UNCHANGED <<plan, client, current, bodies, faults>>

Continue(x, b1) ==
  Response("2.31", <<>>, [b1 EXCEPT !.exp = IF plan[x].ask < @ THEN plan[x].ask ELSE @],
           NoBlock, "none")

Rendering(body, r) == [kind |-> "rendering", payload |-> body, b1 |-> r.b1, b2 |-> r.b2]

\* Mutant: an operation under way goes on.
StartedBefore(key, payload) ==
  IF key \in DOMAIN items["spool"] THEN items["spool"][key] ELSE payload
\* A first block discards whatever incomplete operation there is.
Started(key, payload) == payload

Fits(body, r) == Start(r.b1) = Len(body)

\* Block1Spool.feed_and_take; a gap or an overlap raises a ValueError that is not caught.
FeedAndTake(x) ==
  LET r == call[x]
      key == plan[x].key
      known == key \in DOMAIN items["spool"]
      body == IF r.b1.num = 0 THEN Started(key, r.payload) ELSE items["spool"][key] \o r.payload
      refused == IF ~ known THEN "4.08"
                 ELSE IF ~ RequestSizeMatches(r.b1, Len(r.payload)) THEN "4.00"
                 ELSE "5.00"
  IN /\ r.kind = "request"
     /\ r.b1 # NoBlock
     /\ IF r.b1.num = 0 \/ (known /\ RequestSizeMatches(r.b1, Len(r.payload))
                                  /\ Fits(items["spool"][key], r))
          THEN /\ items' = Stored("spool", key, body)
               /\ fresh' = Accessed("spool", key)
               /\ Answer(x, IF r.b1.more THEN Continue(x, r.b1) ELSE Rendering(body, r))
          ELSE /\ fresh' = IF known THEN Accessed("spool", key) ELSE fresh
               /\ Answer(x, Error(refused))
               /\ UNCHANGED items

\* A request without block1, and Block2Cache.extract_or_insert for the first block.
StartRendering(x) ==
  /\ call[x].kind = "request"
  /\ call[x].b1 = NoBlock
  /\ call[x].b2.num = 0
  /\ Answer(x, Rendering(call[x].payload, call[x]))
  /\ UNCHANGED <<items, fresh>>

\* The part of the response that was asked for, or all of it if that is short enough.
Chunk(x, assembled, b2) ==
  LET block == IF b2 # NoBlock THEN b2 ELSE Block(0, FALSE, plan[x].srvexp)
      part == ExtractBlock(assembled.payload, block.num, block.exp, plan[x].srvpayload)
  IN IF InBounds(assembled.payload, block.num, block.exp)
       THEN [assembled EXCEPT !.payload = part.payload, !.b2 = part.block] ELSE Error("4.00")

NeedsChunk(x, assembled, b2) ==
  \/ Len(assembled.payload) > plan[x].srvpayload
  \/ b2 # NoBlock /\ Len(assembled.payload) > Size(b2)

\* render() is over: a body replaces what the resource has.
Rendered(x) ==
  LET r == call[x]
      shown == IF Len(r.payload) > 0 THEN x ELSE current
      assembled == Response("2.xx", Representation(shown, plan[x].reply), r.b1, NoBlock,
                            IF plan[x].etag THEN shown ELSE "none")
  IN /\ r.kind = "rendering"
     /\ bodies' = bodies \cup {<<x, r.payload>>}
     /\ current' = shown
     /\ IF NeedsChunk(x, assembled, r.b2)
          THEN /\ items' = Stored("cache", plan[x].key, assembled)
               /\ fresh' = Accessed("cache", plan[x].key)
               /\ call' = [call EXCEPT ![x] = Chunk(x, assembled, r.b2)]
          ELSE /\ call' = [call EXCEPT ![x] = assembled]
               /\ UNCHANGED <<items, fresh>>
     /\ UNCHANGED <<plan, client, faults>>

\* A later block of the response comes from the cache; its block1 option is the request's.
ServeBlock2(x) ==
  LET r == call[x]
      key == plan[x].key
      assembled == items["cache"][key]
      chunk == IF NeedsChunk(x, assembled, r.b2) THEN Chunk(x, assembled, r.b2) ELSE assembled
  IN /\ r.kind = "request"
     /\ r.b2.num > 0
     /\ IF key \in DOMAIN items["cache"]
          THEN /\ fresh' = Accessed("cache", key)
               /\ Answer(x, [chunk EXCEPT !.b1 = r.b1])
          ELSE Answer(x, Error("4.08")) /\ UNCHANGED fresh
     /\ UNCHANGED items

\* A request or its response is lost for good.
Fail(x) ==
  /\ call[x].kind \in {"request", "response"}
  /\ Finish(x, "failed", client[x].got)
  /\ Fault
  /\ UNCHANGED <<plan, items, fresh, current, bodies>>

-----------------------------------------------------------------------------
Step(x) == \/ Begin(x) \/ ReceiveBlock1(x) \/ ReceiveBlock2(x)
           \/ FeedAndTake(x) \/ StartRendering(x) \/ Rendered(x) \/ ServeBlock2(x)

Next == \/ \E x \in Transfers : Step(x) \/ Fail(x)
        \/ \E d \in {"spool", "cache"} : Tick(d)

Spec == Init /\ [][Next]_vars
\* Every request is answered or fails, and tasks are run by the event loop.
Fairness == \A x \in Transfers : WF_vars(Step(x))

-----------------------------------------------------------------------------
\* Transfers of the same endpoint, method and options follow each other.
Exclusive(x) == \A y \in Transfers \ {x} :
  plan[y].key = plan[x].key => plan[y].after = x \/ plan[x].after = y

\* Type correctness: a body is never longer than what its sender has, and what is kept
\* is a message under assembly or a response.
TypeOK ==
  /\ plan \in Plans
  /\ \A x \in Transfers :
       /\ client[x].phase \in {"new", "upload", "download", "done", "failed"}
       /\ client[x].exp \in 0 .. BERT
       /\ call[x].kind \in {"none", "request", "rendering", "response"}
       /\ call[x].kind \in {"request", "rendering"} => Len(call[x].payload) <= plan[x].body
  /\ \A d \in DOMAIN items : fresh[d] \subseteq DOMAIN items[d]
  /\ current \in Transfers \cup {"none"}
  /\ faults \in 0 .. MaxFaults

\* The resource is only ever called with the whole body of one request, however failures,
\* expired entries, what an earlier transfer left behind and the blocks of others fall
\* together.
BodyIntact ==
  \A called \in bodies : Exclusive(called[1]) => called[2] = Body(called[1])

\* A response that is handed out as a success is, from its first unit to its last, one
\* representation the resource had; where transfers share the key of the cache, the entity
\* tag has to tell.
ReplyIntact ==
  \A x \in Transfers :
    client[x].phase = "done" /\ client[x].got.code = "2.xx" /\ (Exclusive(x) \/ plan[x].etag) =>
      \E y \in Transfers \cup {"none"} :
        client[x].got.payload = Representation(y, plan[x].reply)

\* With nothing lost and nothing expired both sides agree on every number and size: the
\* transfer succeeds, and the resource has had its body.
Undisturbed ==
  \A x \in Transfers :
    faults = 0 /\ Ended(x) /\ Exclusive(x) =>
      /\ client[x].phase = "done" /\ client[x].got.code = "2.xx"
      /\ <<x, Body(x)>> \in bodies

\* Every transfer comes to an end; a cursor that does not move would send one block for
\* ever.
TransfersEnd == <>(\A x \in Transfers : Ended(x))

\* No body that is handed on, on either side, has a block of another one in it.
BlockInv == TypeOK /\ BodyIntact /\ ReplyIntact /\ Undisturbed
==============================================================================
