------------------------------ MODULE MCBundles ------------------------------
(* The bundles of a daemon on small instances: those to be forwarded (BundleLife), and in a part
   of their own those for the node itself (Reassembly). *)
EXTENDS BundleLife, Reassembly, TLC

VARIABLE part

Plan(bundles, mbs, direct, agents, hops, contacts, replies, failures) ==
  [bundles |-> bundles, mbs |-> mbs, direct |-> [b \in Bundle |-> direct], agents |-> agents,
   hops |-> hops, contacts |-> contacts, answers |-> replies, failures |-> failures,
   size |-> [b \in Bundle |-> IF b = "b1" THEN 2 ELSE 1]]
Whole == "h1" :> 0
\* Both hops get all of a bundle, or a fragment of it.
Both == {"h1" :> 0 @@ "h2" :> 0, "h1" :> 1 @@ "h2" :> 1}
\* One dispatcher that two hops are given by.
Handed == { Plan({"b1"}, 0, "none", {"a1"}, Both, 2, 1, 0) }
\* Two dispatchers, and two bundles waiting for one.
Rivals == { Plan({"b1"}, 0, "none", {"a1", "a2"}, {}, 0, 0, 1) }
Waiting == { Plan({"b1", "b2"}, 0, "none", {"a1"}, {}, 0, 0, 1) }
\* A fragment that has to be cut again.
Recut == { [Plan({"b1"}, 1, "none", {"a1"}, {"h1" :> 2}, 1, 1, 0) EXCEPT !.size = [b \in Bundle |-> 3]] }
MCSettings ==
  Recut \cup Handed \cup Rivals \cup Waiting
  \cup { Plan({"b1"}, 0, "h1", {"a1"}, {"h1" :> 0, "h2" :> 0}, 2, 1, 1),
         Plan({"b1"}, 1, "h1", {"a1"}, {Whole}, 1, 1, 1),
         Plan({"b1", "b2"}, 1, "h1", {}, {}, 1, 0, 1),
         Plan({"b1"}, 0, "none", {"a1", "a2"}, {Whole}, 1, 1, 1) }

\* No bundle at all.
Still == Plan({}, 0, "none", {}, {}, 0, 0, 0)
Some == MCSettings \cup {Still}
JustHanded == Handed \cup {Still}
NoBundle == {Still}

Piece(from, length, deadline) ==
  [from |-> from, length |-> length, deadline |-> deadline, fragment |-> TRUE]
All(deadline) == [Piece(0, 4, deadline) EXCEPT !.fragment = FALSE]
\* Fragments side by side, overlapping and within each other; deadlines that differ.
MCCopies ==
  { {Piece(0, 2, 1), Piece(2, 2, 1), Piece(0, 3, 1), Piece(1, 3, 1), All(1)},
    {Piece(0, 2, 1), Piece(1, 2, 1), Piece(2, 2, 1), Piece(3, 1, 1)},
    {Piece(0, 3, 1), Piece(1, 1, 1), Piece(3, 1, 1), Piece(0, 1, 1)},
    {Piece(0, 2, 1), Piece(2, 2, 2), Piece(0, 2, 2), All(1), All(2)} }
\* Or none at all.
SomeCopies == MCCopies \cup {{}}

ASSUME CopiesAssumption

MCInit ==
  /\ part \in {"life", "local"}
  /\ InitLife /\ (part = "life" <=> setting # Still)
  /\ InitLocal /\ (part = "local" <=> copies # {}) /\ (part = "life" => subscribed)
MCNext ==
  /\ UNCHANGED part
  /\ \/ part = "life" /\ NextLife /\ UNCHANGED localVars
     \/ part = "local" /\ NextLocal /\ UNCHANGED lifeVars
MCSpec == MCInit /\ [][MCNext]_<<part, lifeVars, localVars>> /\ LifeFairness

\* Bundles come to an end, and so do the connections of dispatchers that leave.
BundlesSettle == LifeSettles /\ AgentsLeave
=============================================================================
