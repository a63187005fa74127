--------------------------- MODULE ContactManager ---------------------------
(***************************************************************************)
(* The contact manager of the compatibility router: a task that compares   *)
(* the contact list with the clock and asks the bundle processor to create *)
(* and to drop links.  The contact list is a constant here: contacts       *)
(* [node, addr, from_ms, to_ms], those of a node not overlapping.          *)
(***************************************************************************)
EXTENDS Naturals, FiniteSets

CONSTANTS
  ContactList,
  MAX_CONCURRENT_CONTACTS,
  MaxTime                    \* bound: the last instant looked at

VARIABLES
  now,
  checked,            \* the instant of the last check
  current_contacts,
  added, removed      \* contacts whose requests are still to be sent

ContactInit ==
  /\ now = 0 /\ checked = MaxTime + 1
  /\ current_contacts = {} /\ added = {} /\ removed = {}

Expired == { c \in current_contacts : c.to_ms <= now }

\* A contact is known by its node and its end.
ContactActive(cs, c) == \E d \in cs : d.node = c.node /\ d.to_ms = c.to_ms

\* The count is that of before: several contacts may be added past the limit.
Upcoming(cs) ==
  IF Cardinality(cs) >= MAX_CONCURRENT_CONTACTS THEN {}
  ELSE { c \in ContactList : c.from_ms <= now /\ now < c.to_ms /\ ~ ContactActive(cs, c) }

CheckForContacts ==
  /\ added = {} /\ removed = {} /\ checked # now
  /\ LET left == current_contacts \ Expired IN
     /\ removed' = Expired
     /\ added' = Upcoming(left)
     /\ current_contacts' = left \cup Upcoming(left)
  /\ checked' = now
  /\ UNCHANGED now

\* The requests of the added contacts are sent before those of the removed ones.
SendCreate(c) ==
  /\ c \in added
  /\ added' = added \ {c}
  /\ UNCHANGED <<now, checked, current_contacts, removed>>

SendDrop(c) ==
  /\ added = {} /\ c \in removed
  /\ removed' = removed \ {c}
  /\ UNCHANGED <<now, checked, current_contacts, added>>

Sent == added = {} /\ removed = {} /\ checked = now

\* The timer of the task is exact: it has run before the clock moves on.
Tick ==
  /\ Sent /\ now < MaxTime
  /\ now' = now + 1
  /\ UNCHANGED <<checked, current_contacts, added, removed>>

ContactType ==
  /\ now \in 0..MaxTime /\ checked \in 0..(MaxTime + 1)
  /\ current_contacts \subseteq ContactList
  /\ added \subseteq ContactList /\ removed \subseteq ContactList
=============================================================================
