------------------------------ MODULE MtcpCla ------------------------------
(***************************************************************************)
(* The outgoing side of the MTCP convergence layer: one management task    *)
(* per scheduled contact that connects, waits for the link's RX and TX     *)
(* tasks to end, and connects again while the contact is on.  The table of *)
(* contact parameters and each entry are guarded by semaphores that the    *)
(* bundle processor's task takes as well; a manager keeps its entry's      *)
(* semaphore while it reports the link as up, and both while it reports it *)
(* as down.                                                                *)
(***************************************************************************)
EXTENDS Fib

CONSTANTS Managers, NoManager

ASSUME NoManagerAssumption == NoManager \notin Managers

VARIABLES
  param_htab,   \* the entry of an address
  mgr           \* the entries: [at, addr, in_contact, socket]

Free == [at |-> "free", addr |-> "none", in_contact |-> FALSE, socket |-> FALSE]

ClaInit ==
  /\ param_htab = [a \in Addrs |-> NoManager]
  /\ mgr = [m \in Managers |-> Free]

Entry(a) == mgr[param_htab[a]]
HasEntry(a) == param_htab[a] # NoManager
Active(a) == HasEntry(a) /\ Entry(a).socket
Linked(a) == \E m \in Managers : mgr[m].at = "linked" /\ mgr[m].addr = a
Changing(a) ==
  \E m \in Managers : mgr[m].at \in {"linking", "closing", "cleaning"} /\ mgr[m].addr = a

\* param_htab_sem and the param_semphr of a's entry can be taken.
TableFree == \A m \in Managers : mgr[m].at # "cleaning"
EntryFree(a) == TableFree /\ (HasEntry(a) => Entry(a).at # "linking")

-----------------------------------------------------------------------------
(* Called from the bundle processor's task. *)

\* htab_add fails when the address has an entry; the new one is then freed.
Launch(a) ==
  IF HasEntry(a) THEN UNCHANGED <<param_htab, mgr>>
  ELSE \E m \in Managers :
         /\ mgr[m] = Free
         /\ param_htab' = [param_htab EXCEPT ![a] = m]
         /\ mgr' = [mgr EXCEPT ![m] = [at |-> "connecting", addr |-> a,
                                       in_contact |-> TRUE, socket |-> FALSE]]

\* htab_remove is called with the whole CLA address, the keys are without the CLA's
\* name: the entry of a task that is about to end stays in the table.
StartScheduledContact(a) ==
  /\ EntryFree(a)
  /\ IF HasEntry(a) /\ (Entry(a).socket \/ Entry(a).in_contact)
     THEN /\ mgr' = [mgr EXCEPT ![param_htab[a]].in_contact = TRUE]
          /\ UNCHANGED param_htab
     ELSE Launch(a)

\* CLA_LINK_UPDATE_UNCHANGED, and not CLA_LINK_UPDATE_INITIATED.
StartFindsActive(a) == Active(a)

\* The disconnect handler shuts the socket down and has both tasks end.
EndScheduledContact(a) ==
  /\ EntryFree(a)
  /\ UNCHANGED param_htab
  /\ IF HasEntry(a)
     THEN mgr' = [mgr EXCEPT ![param_htab[a]].in_contact = FALSE,
                             ![param_htab[a]].at = IF @ = "linked" THEN "closing" ELSE @]
     ELSE UNCHANGED mgr

-----------------------------------------------------------------------------
(* The management task m. *)

Ended(e) == [e EXCEPT !.at = "leaving", !.in_contact = FALSE, !.socket = FALSE]

\* A failed attempt is repeated while the contact is on.  Once it is over the task
\* ends after the attempt, whether that failed or not.
GiveUp(m) ==
  /\ mgr[m].at = "connecting" /\ ~ mgr[m].in_contact
  /\ mgr' = [mgr EXCEPT ![m] = Ended(@)]
  /\ UNCHANGED param_htab

Connect(m) ==
  /\ mgr[m].at = "connecting" /\ mgr[m].in_contact
  /\ mgr' = [mgr EXCEPT ![m].at = "linking", ![m].socket = TRUE]
  /\ UNCHANGED param_htab

\* cla_link_init has reported the link; the semaphore goes to its RX and TX tasks.
Reported(m) ==
  /\ mgr[m].at = "linking"
  /\ mgr' = [mgr EXCEPT ![m].at = "linked"]
  /\ UNCHANGED param_htab

\* The peer closes the connection, or sending fails.
Disconnect(m) ==
  /\ mgr[m].at = "linked"
  /\ mgr' = [mgr EXCEPT ![m].at = "closing"]
  /\ UNCHANGED param_htab

AfterLink(e) ==
  IF e.in_contact THEN [e EXCEPT !.at = "connecting", !.socket = FALSE] ELSE Ended(e)

\* Both tasks have ended: the semaphores are taken, the table's first.
StartCleanup(m) ==
  /\ mgr[m].at = "closing" /\ TableFree
  /\ mgr' = [mgr EXCEPT ![m].at = "cleaning"]
  /\ UNCHANGED param_htab

\* cla_link_cleanup has reported the end; then the loop's condition.
Cleanup(m) ==
  /\ mgr[m].at = "cleaning"
  /\ mgr' = [mgr EXCEPT ![m] = AfterLink(@)]
  /\ UNCHANGED param_htab

\* The entry is removed if it is still this task's.
Leave(m) ==
  /\ mgr[m].at = "leaving" /\ TableFree
  /\ param_htab' = [a \in Addrs |-> IF a = mgr[m].addr /\ param_htab[a] = m
                                    THEN NoManager ELSE param_htab[a]]
  /\ mgr' = [mgr EXCEPT ![m] = Free]

ClaType ==
  /\ param_htab \in [Addrs -> Managers \cup {NoManager}]
  /\ mgr \in [Managers -> [at : {"free", "connecting", "linking", "linked",
                                 "closing", "cleaning", "leaving"},
                           addr : Addrs \cup {"none"},
                           in_contact : BOOLEAN, socket : BOOLEAN]]
=============================================================================
