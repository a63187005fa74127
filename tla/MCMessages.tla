----------------------------- MODULE MCMessages -----------------------------
(* Messages on small instances: requests and responses across the three nodes (CoapOverBp), and in
   parts of their own messages in aggregates (Framing), long bodies in blocks (BlockwiseTransfer)
   and messages in streams (StreamTransport). *)
EXTENDS CoapOverBp, StreamTransport

VARIABLES
  part,
  node, sent, wire, offset, out, loop,                      \* Framing
  plan, client, call, items, fresh, current, bodies, faults  \* BlockwiseTransfer

\* A resource that is created, written, also with an empty text, read and deleted; it is
\* there before or not.
CONSTANTS u, Get, Delete
Req(c, p, v) == [code |-> c, path |-> p, payload |-> v]
Session ==
  { Req("POST", Root, "x"), Req("PUT", "x", u), Req("PUT", "x", NoPayload), Req("GET", "x", Get),
    Req("DELETE", "x", Delete) }
MCDatabases == { [x \in {"x"} |-> <<u>>] }

ASSUME SystemAssumption

Transfer(key, body, reply, exp, payload, srvexp, ask) ==
  [key |-> key, body |-> body, reply |-> reply, etag |-> key = "k", exp |-> exp,
   payload |-> payload, srvexp |-> srvexp, srvpayload |-> 4, ask |-> ask, after |-> "none"]
After(x, transfer) == [transfer EXCEPT !.after = x]

\* Two transfers of the same endpoint and path at once, and one after the other; uploads
\* beside each other, both renegotiated; BERT, with room for two blocks and for one;
\* downloads with a client that wants smaller blocks.
MCPlans ==
  { [a |-> Transfer("k", 6, 6, 2, 4, 2, 3), b |-> Transfer("k", 7, 6, 2, 4, 2, 3)],
    [a |-> Transfer("l", 6, 6, 2, 4, 2, 3), b |-> After("a", Transfer("l", 7, 6, 2, 4, 2, 3))],
    [a |-> Transfer("k", 7, 9, 2, 4, 2, 1), b |-> Transfer("l", 5, 6, 1, 4, 2, 0)],
    [a |-> Transfer("k", 19, 9, 3, 9, 2, 3), b |-> Transfer("l", 9, 7, 3, 5, 2, 3)],
    [a |-> Transfer("k", 3, 11, 0, 4, 3, 3), b |-> Transfer("l", 1, 9, 2, 4, 3, 3)] }

BW == INSTANCE BlockwiseTransfer WITH
        MAX_REGULAR_BLOCK_SIZE_EXP <- 2, Transfers <- {"a", "b"}, Plans <- MCPlans, MaxFaults <- 1
ASSUME BW!ExponentAssumption
blockVars == <<plan, client, call, items, fresh, current, bodies, faults>>

\* Bytes 0..7 with 7 for 0xFF, two-byte tokens: requests with every combination of a harmless
\* and a marker-valued byte in the ID and the token, a payload of no, one or two bytes (the
\* bytes that look like the first byte of a message), and one whose length equals the marker.
\* Buffers of up to two of them, and of three with a clean one in front.
FramedRequest(mid, token, payload) ==
  [mid |-> mid, token |-> token, opts |-> <<<<0, 2>>, <<1, Len(payload)>>>>, payload |-> payload]
MCAggregates ==
  LET requests == {FramedRequest(mid, token, payload) :
                     mid \in {1, 7}, token \in {<<3, 3>>, <<4, 7>>},
                     payload \in {<<>>, <<4>>, <<5, 3>>, <<4, 4, 6, 7, 1, 3, 3>>}}
  IN {<<r>> : r \in requests} \cup {<<r, s>> : r, s \in requests}
       \cup {<<FramedRequest(1, <<3, 3>>, <<5, 3>>), r, s>> : r, s \in requests}

F == INSTANCE Framing WITH
       Marker <- 7, Version1 <- 4, TokenLen <- 2, PathOpt <- 0, PlenOpt <- 1,
       Aggregates <- MCAggregates, pc <- loop

Sends(what, units, head, critical, to) ==
  [what |-> what, units |-> units, head |-> head, critical |-> critical, to |-> to]
Csm == Sends("csm", 2, 1, FALSE, "none")
Plain(what) == Sends(what, 1, 1, FALSE, "none")
Critical(what) == Sends(what, 1, 1, TRUE, "none")
Reply == Sends("response", 2, 1, FALSE, "r1")
Scenario(s, messages, count, accepts, bound, requests) ==
  [scheme |-> s, messages |-> messages, count |-> count, accepts |-> accepts, faults |-> bound,
   requests |-> requests]
\* The server's side, with messages of several units, with an extended length, and too large;
\* signalling of every kind while a request waits; two requests at once, a connection of the
\* peer, and a connection that breaks or ends; aborts of a WebSocket.
MCScenarios ==
  UNION {
    {Scenario(s, {Csm, Sends("request", 3, 2, FALSE, "none"), Sends("request", 4, 2, FALSE, "none"),
                  Plain("unparsable")}, 3, 1, 0, {}),
     Scenario(s, {Csm, Critical("csm"), Critical("ping"), Plain("unknown"), Plain("release"), Reply},
              3, 0, 0, {"r1"}),
     Scenario(s, {Csm, Plain("release"), Plain("empty"), Reply}, 2, 1, 1, {"r1"}),
     Scenario(s, {Csm, Plain("release"), Reply}, 2, 0, 1, {"r1", "r2"})} : s \in {"tcp", "ws"}}
  \cup {Scenario("ws", {Csm, Plain("text"), Plain("abort"), Reply}, 3, 0, 1, {"r1"})}

framingVars == <<node, sent, wire, offset, out, loop>>

IdleTransfers ==
  /\ plan = CHOOSE p \in MCPlans : TRUE
  /\ client = [x \in {"a", "b"} |-> [phase |-> "failed", cursor |-> 0, exp |-> 0,
                                     sent |-> BW!NoCall, got |-> BW!NoCall]]
  /\ call = [x \in {"a", "b"} |-> BW!NoCall]
  /\ items = [d \in {"spool", "cache"} |-> <<>>] /\ fresh = [d \in {"spool", "cache"} |-> {}]
  /\ current = "none" /\ bodies = {} /\ faults = 1
IdleFraming == node = "D" /\ sent = <<>> /\ wire = <<>> /\ offset = 0 /\ out = <<>> /\ loop = "done"
IdleStreams == InitStreams /\ scenario = CHOOSE s \in MCScenarios : TRUE
MCInit ==
  /\ part \in {"system", "blocks", "frames", "streams"}
  /\ Init /\ (part # "system" => file = B!Absent)
  /\ \/ part = "system" /\ IdleTransfers /\ IdleFraming /\ IdleStreams
     \/ part = "blocks" /\ BW!Init /\ IdleFraming /\ IdleStreams
     \/ part = "frames" /\ IdleTransfers /\ F!Init /\ IdleStreams
     \/ part = "streams" /\ IdleTransfers /\ IdleFraming /\ InitStreams
MCNext ==
  /\ UNCHANGED part
  /\ \/ part = "system" /\ Next /\ UNCHANGED <<blockVars, framingVars, streamVars>>
     \/ part = "blocks" /\ BW!Next /\ UNCHANGED <<vars, framingVars, streamVars>>
     \/ part = "frames" /\ F!Next /\ UNCHANGED <<vars, blockVars, streamVars>>
     \/ part = "streams" /\ NextStreams /\ UNCHANGED <<vars, blockVars, framingVars>>
MCSpec ==
  /\ MCInit /\ [][MCNext]_<<part, vars, blockVars, framingVars, streamVars>>
  /\ Fairness /\ BW!Fairness /\ F!Fairness /\ StreamFairness

\* The properties of the instances, under names of their own: the safety of the blocks,
BlockInv == BW!BlockInv
\* and of the framing.
FramingInv == F!FramingInv

\* Every transfer, every extraction loop and every request on a stream ends.
Ends == BW!TransfersEnd /\ F!Terminates /\ StreamsSettle
==============================================================================
