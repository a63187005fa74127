---------------------------- MODULE Reassembly ----------------------------
(***************************************************************************)
(* Bundles for the node itself: bundle_deliver_local of the bundle         *)
(* processor, with the list of known bundles and the list of fragments.    *)
(* All copies here, fragments and whole bundles, are of one ADU.           *)
(***************************************************************************)
EXTENDS Integers, Sequences, SequencesExt, FiniteSets

CONSTANTS
  Copies,        \* sets of copies that may arrive: [from, length, deadline, fragment]
  AduLength,
  MaxCopies,     \* bound: arrivals of one copy
  MaxClock       \* bound on the clock

VARIABLES
  copies,      \* those of this behaviour
  arrived,     \* how often each arrived
  clock,
  known,       \* known_bundle_list: identifiers by deadline
  fragments,   \* the entry of reassembly_list, by offset
  subscribed,  \* whether an agent is registered for the destination
  outcome,     \* how often the ADU was given to an agent, or dropped for want of one
  late         \* how many fragments were freed and used all the same

\* What arrives is the ADU, or a fragment cut out of it.
CopiesAssumption ==
  /\ AduLength \in Nat \ {0} /\ MaxCopies \in Nat /\ MaxClock \in Nat
  /\ \A c \in UNION Copies :
       /\ c \in [from : Nat, length : Nat, deadline : Nat, fragment : BOOLEAN]
       /\ c.from + c.length <= AduLength
       /\ ~ c.fragment => c.from = 0 /\ c.length = AduLength

localVars == <<copies, arrived, clock, known, fragments, subscribed, outcome, late>>

InitLocal ==
  /\ copies \in Copies
  /\ arrived = [c \in UNION Copies |-> 0]
  /\ clock = 0 /\ known = <<>> /\ fragments = <<>> /\ subscribed \in BOOLEAN
  /\ outcome = [given |-> 0, dropped |-> 0] /\ late = 0

Id(c) == [from |-> c.from, length |-> c.length, deadline |-> c.deadline]
WholeId(c) == [from |-> 0, length |-> AduLength, deadline |-> c.deadline]

SameId(i, j) == i.from = j.from /\ i.length = j.length

\* Where a search of the list ends: the identifier, or one that expires later.
Stop(list, i) ==
  LET ends == { n \in DOMAIN list : SameId(list[n], i) \/ list[n].deadline > i.deadline }
  IN  IF ends = {} THEN Len(list) + 1 ELSE CHOOSE n \in ends : \A k \in ends : n <= k

Knows(list, i) == Stop(list, i) <= Len(list) /\ SameId(list[Stop(list, i)], i)

\* Behind all that do not expire later.
Behind(list, i) == Cardinality({ n \in DOMAIN list : list[n].deadline <= i.deadline }) + 1

InsertedAt(list, i, at) == SubSeq(list, 1, at - 1) \o <<i>> \o SubSeq(list, at, Len(list))

\* The search removes what has expired.
Unexpired(list) ==
  LET kept[n \in 0 .. Len(list)] ==
        IF n = 0 THEN <<>>
        ELSE IF list[n].deadline >= clock THEN Append(kept[n - 1], list[n])
        ELSE kept[n - 1]
  IN  kept[Len(list)]
Swept(list, i) ==
  Unexpired(SubSeq(list, 1, Stop(list, i) - 1)) \o SubSeq(list, Stop(list, i), Len(list))

\* bundle_record_add_and_check_known.
Recorded(i) ==
  LET list == Swept(known, i)
  IN  IF Knows(known, i) THEN list ELSE InsertedAt(list, i, Stop(list, i))

\* agent_forward.
Give ==
  outcome' = IF subscribed THEN [outcome EXCEPT !.given = @ + 1] ELSE [outcome EXCEPT !.dropped = @ + 1]

-----------------------------------------------------------------------------
\* After those of the same offset.
Inserted(c) ==
  LET n == Cardinality({ i \in DOMAIN fragments : fragments[i].from <= c.from })
  IN  SubSeq(fragments, 1, n) \o <<c>> \o SubSeq(fragments, n + 1, Len(fragments))

\* The position is set to the end of each fragment, even if that is before it.
EndBefore(list, n) == IF n = 1 THEN 0 ELSE list[n - 1].from + list[n - 1].length

\* Mutant: a gap before the last fragment is not seen.
CompleteUnchecked(list) == \E n \in DOMAIN list : list[n].from + list[n].length >= AduLength

Complete(list) ==
  \E n \in DOMAIN list :
    /\ list[n].from + list[n].length >= AduLength
    /\ \A k \in 1 .. n : list[k].from <= EndBefore(list, k)

\* The fragment joins the entry of its ADU, which may be complete then.
TryReassemble(c, list) ==
  LET first == Inserted(c)[1]
  IN  IF Complete(Inserted(c))
        THEN /\ known' = InsertedAt(list, WholeId(first), Behind(list, WholeId(first)))
             /\ fragments' = <<>> /\ Give
        ELSE known' = list /\ fragments' = Inserted(c) /\ UNCHANGED outcome

\* bundle_attempt_reassembly of a fragment that is now known by itself.  One of an ADU that
\* has been delivered is freed and goes on to the list all the same.  There it, and what is
\* compared with it later, may read as before, or as if of another ADU and get an entry of
\* its own; or the daemon crashes, and the behaviour ends.
Attempt(c) ==
  LET list == Recorded(Id(c))
  IN  /\ late' = IF Knows(list, WholeId(c)) THEN late + 1 ELSE late
      /\ \/ TryReassemble(c, list)
         \/ late' > 0 /\ known' = list /\ UNCHANGED <<fragments, outcome>>

\* bundle_receive drops what has expired; then bundle_deliver_local.
Receive(c) ==
  /\ c \in copies /\ arrived[c] < MaxCopies
  /\ arrived' = [arrived EXCEPT ![c] = @ + 1]
  /\ \/ c.deadline < clock /\ UNCHANGED <<known, fragments, outcome, late>>
     \/ /\ c.deadline >= clock /\ Knows(known, Id(c))
        /\ known' = Recorded(Id(c)) /\ UNCHANGED <<fragments, outcome, late>>
     \/ /\ c.deadline >= clock /\ ~Knows(known, Id(c)) /\ ~c.fragment
        /\ known' = Recorded(Id(c))
        /\ Give /\ UNCHANGED <<fragments, late>>
     \/ /\ c.deadline >= clock /\ ~Knows(known, Id(c)) /\ c.fragment
        /\ Attempt(c)
  /\ UNCHANGED <<copies, clock, subscribed>>

Tick == clock < MaxClock /\ clock' = clock + 1
        /\ UNCHANGED <<copies, arrived, known, fragments, subscribed, outcome, late>>

\* An agent registers or leaves.
Resubscribe ==
  subscribed' = ~subscribed
  /\ UNCHANGED <<copies, arrived, clock, known, fragments, outcome, late>>

NextLocal == Tick \/ Resubscribe \/ \E c \in copies : Receive(c)
SpecLocal == InitLocal /\ [][NextLocal]_localVars

-----------------------------------------------------------------------------
(* Properties *)

LocalTypeOK ==
  /\ copies \in Copies /\ arrived \in [UNION Copies -> 0 .. MaxCopies] /\ clock \in 0 .. MaxClock
  /\ \A i \in DOMAIN fragments : fragments[i] \in copies
  /\ late \in Nat

\* The known bundles of a source with a clock all have one deadline.
OneDeadline == \A c, d \in copies : c.deadline = d.deadline

Deliveries == outcome.given + outcome.dropped

\* ``was already delivered, dropping'' (bundle_processor.c:1076, 1262): however often and in
\* whatever pieces an ADU arrives, it is given to an agent once.
DeliveredOnce == OneDeadline => outcome.given <= 1

\* What the code keeps of that: each delivery but the first, to an agent or to nobody, takes a
\* fragment of its own that was freed and used.
OncePerLate == OneDeadline => Deliveries <= 1 + late

Bytes(c) == c.from .. c.from + c.length - 1

\* No fragment lies within another one.
NoneNested ==
  \A c, d \in copies : c # d /\ arrived[c] > 0 /\ arrived[d] > 0 => ~(Bytes(c) \subseteq Bytes(d))

\* Once fragments that are not nested have brought all of the ADU in time, it is delivered.
DeliveredWhole ==
  NoneNested /\ OneDeadline
  /\ 0 .. AduLength - 1 = UNION { Bytes(c) : c \in ToSet(fragments) }
    => Deliveries > 0

\* And never before: what was delivered had arrived.
NothingMissing ==
  Deliveries > 0
    => 0 .. AduLength - 1 = UNION { Bytes(c) : c \in { d \in copies : arrived[d] > 0 } }

\* An ADU is delivered when all of it has come and not before, and again only after the use of
\* fragments that were freed.
LocalInv == LocalTypeOK /\ OncePerLate /\ DeliveredWhole /\ NothingMissing
=============================================================================
