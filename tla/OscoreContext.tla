---------------------------- MODULE OscoreContext ----------------------------
(***************************************************************************)
(* A FilesystemSecurityContext (oscore.py): the sender's sequence number,  *)
(* which is written to the file in steps that grow, the replay window,     *)
(* which is written when the context is closed and struck from the file    *)
(* before the first request is accepted, and protection and unprotection   *)
(* with it.  A context is a record, a method an operator.  What is sealed  *)
(* is a record that shows key, nonce and authenticated data; it opens for  *)
(* who comes to the same three.                                            *)
(*                                                                         *)
(* The replay window comes first: which of the peer's sequence numbers may *)
(* still be accepted.  The bitfield is the set of the positions of its     *)
(* ones, counted from the index.                                           *)
(***************************************************************************)
EXTENDS Integers

CONSTANT WindowSize  \* 32

ASSUME WindowAssumption == WindowSize \in Nat \ {0}

\* _index is None.
UninitializedWindow == [index |-> -1, bits |-> {}]
IsInitialized(w) == w.index >= 0

\* initialize_empty, initialize_from_freshlyseen.
EmptyWindow == [index |-> 0, bits |-> {}]
FreshlySeen(seen) == [index |-> seen, bits |-> {0}]

\* Mutant: the lowest number of the window counts as old.
IsValidAbove(w, number) == number > w.index /\ number - w.index \notin w.bits
IsValid(w, number) == number >= w.index /\ number - w.index \notin w.bits

\* bitfield >>= by
Shifted(bits, by) == {i - by : i \in {j \in bits : j >= by}}

Moved(w, by) == [index |-> w.index + by, bits |-> Shifted(w.bits, by)]

Overshoot(w, number) == number - (w.index + WindowSize - 1)

StrikeOut(w, number) ==
  LET moved == IF Overshoot(w, number) > 0 THEN Moved(w, Overshoot(w, number)) ELSE w
  IN [moved EXCEPT !.bits = @ \cup {number - moved.index}]

-----------------------------------------------------------------------------
CONSTANTS
  MAX_SEQNO,    \* 2^40 - 1
  ChunkStart,   \* sequence_number_chunksize_start, 10
  ChunkLimit    \* sequence_number_chunksize_limit, 10000

ASSUME ChunkAssumption ==
  /\ MAX_SEQNO \in Nat
  /\ ChunkStart \in Nat \ {0}
  /\ ChunkLimit \in Nat /\ ChunkLimit >= ChunkStart

\* sequence.json: "received" is a window or unknown; without the file, all is new.
Unknown == [index |-> -2, bits |-> {}]
NewFile == [next |-> 0, received |-> EmptyWindow]

\* __init__ and _load; the echo value is drawn anew by every process.
Load(sender, recipient, file, run) ==
  [sender |-> sender, recipient |-> recipient, echo |-> run,
   seq |-> file.next, persisted |-> file.next, chunk |-> ChunkStart,
   window |-> IF file.received = Unknown THEN UninitializedWindow ELSE file.received,
   windowPersisted |-> file.received # Unknown]

\* _store
File(c) == [next |-> c.persisted, received |-> IF c.windowPersisted THEN c.window ELSE Unknown]
Stores(old, new) ==
  old.persisted # new.persisted \/ old.windowPersisted # new.windowPersisted

\* _destroy
Closed(c) == File([c EXCEPT !.persisted = c.seq, !.windowPersisted = TRUE])

\* Mutant: the number on file follows the one in use.
PostSeqnoIncreaseBehind(c) == IF c.seq > c.persisted + 1 THEN [c EXCEPT !.persisted = c.seq] ELSE c
PostSeqnoIncrease(c) ==
  IF c.seq > c.persisted
    THEN [c EXCEPT !.persisted = @ + c.chunk,
                   !.chunk = IF 2 * @ < ChunkLimit THEN 2 * @ ELSE ChunkLimit]
    ELSE c

Exhausted(c) == c.seq >= MAX_SEQNO
NewSequenceNumber(c) == PostSeqnoIncrease([c EXCEPT !.seq = @ + 1])

\* _replay_window_changed
StruckOut(c, number) ==
  [c EXCEPT !.window = StrikeOut(@, number), !.windowPersisted = FALSE]

\* RequestIdentifiers
RequestId(kid, piv, reuse) == [kid |-> kid, piv |-> piv, reuse |-> reuse]
Spent(rid) == RequestId(rid.kid, rid.piv, FALSE)

NoPiv == -1
NoKid == "none"
Message(kid, piv, key, nonce, rid, inner) ==
  [kid |-> kid, piv |-> piv,
   sealed |-> [key |-> key, nonce |-> nonce, aad |-> <<rid.kid, rid.piv>>, inner |-> inner]]

ProtectRequest(c, inner) ==
  LET rid == RequestId(c.sender, c.seq, FALSE)
  IN [ctx |-> NewSequenceNumber(c), rid |-> rid,
      msg |-> Message(c.sender, c.seq, c.sender, <<c.sender, c.seq>>, rid, inner)]

ProtectResponse(c, inner, rid) ==
  IF rid.reuse
    THEN [ctx |-> c, rid |-> Spent(rid),
          msg |-> Message(NoKid, NoPiv, c.sender, <<rid.kid, rid.piv>>, rid, inner)]
    ELSE [ctx |-> NewSequenceNumber(c), rid |-> rid,
          msg |-> Message(NoKid, c.seq, c.sender, <<c.sender, c.seq>>, rid, inner)]

Opens(c, m, nonce, rid) ==
  m.sealed.key = c.recipient /\ m.sealed.nonce = nonce /\ m.sealed.aad = <<rid.kid, rid.piv>>

\* Mutant: any echo value will do.
EchoAny(c, inner) == inner.echo > 0
EchoMatches(c, inner) == inner.echo = c.echo

\* unprotect, of a request: "ok", or why it raises.
UnprotectRequest(c, m) ==
  LET initialized == IsInitialized(c.window)
      valid == initialized /\ IsValid(c.window, m.piv)
      rid == RequestId(c.recipient, m.piv, valid)
      echoed == ~ initialized /\ EchoMatches(c, m.sealed.inner)
  IN IF ~ Opens(c, m, <<c.recipient, m.piv>>, rid)
       THEN [result |-> "invalid", ctx |-> c, rid |-> rid]
     ELSE IF valid THEN [result |-> "ok", ctx |-> StruckOut(c, m.piv), rid |-> rid]
     ELSE IF echoed THEN [result |-> "ok", ctx |-> [c EXCEPT !.window = FreshlySeen(m.piv)], rid |-> rid]
     ELSE [result |-> IF initialized THEN "replay" ELSE "echo", ctx |-> c, rid |-> rid]

\* unprotect, of a response to the request that is identified by rid.
UnprotectResponse(c, m, rid) ==
  LET nonce == IF m.piv = NoPiv THEN <<rid.kid, rid.piv>> ELSE <<c.recipient, m.piv>>
      fresh == ~ IsInitialized(c.window) /\ m.piv # NoPiv
  IN IF Opens(c, m, nonce, rid)
       THEN [result |-> "ok", ctx |-> IF fresh THEN [c EXCEPT !.window = FreshlySeen(m.piv)] ELSE c]
       ELSE [result |-> "invalid", ctx |-> c]
==============================================================================
