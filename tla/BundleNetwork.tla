---------------------------- MODULE BundleNetwork ----------------------------
(***************************************************************************)
(* The service the Bundle Protocol network (the uD3TN instances on A, C, D *)
(* and B) gives the three CoAP nodes: an ADU handed over with send_adu     *)
(* becomes a bundle with a source and a sequence number of its own, which  *)
(* is delivered to the subscribed agent at most once, after any delay, in  *)
(* any order, or never (expired, or refused by a node on the way).         *)
(***************************************************************************)
EXTENDS Naturals

VARIABLES
  net,     \* bundles under way: [src, dst, seq, adu]
  seqno    \* per source node, the number of bundles created

network == <<net, seqno>>

Bundle(src, dst, adu) == [src |-> src, dst |-> dst, seq |-> seqno[src], adu |-> adu]

\* AAP2 send_adu accepted by the local uD3TN.
Submit(src, dst, adu) ==
  /\ net' = net \cup {Bundle(src, dst, adu)}
  /\ seqno' = [seqno EXCEPT ![src] = @ + 1]

\* receive_adu and the SUCCESS response: the bundle is gone from the network.
Deliver(b) ==
  /\ b \in net
  /\ net' = net \ {b}
  /\ UNCHANGED seqno

Lose ==
  /\ \E b \in net : net' = net \ {b}
  /\ UNCHANGED seqno
=============================================================================
