----------------------------- MODULE LinkProofs -----------------------------
(***************************************************************************)
(* What holds of the links of a node for any nodes, addresses, agents,     *)
(* contact list and lengths: the types; the consistency of the FIB, which  *)
(* needs the types because the requests come through the queue; and that   *)
(* FIB and agents know of the links what is true, once the signals about   *)
(* them are handled.                                                       *)
(***************************************************************************)
EXTENDS LinkControl, TLAPS

\* fib_insert_link keeps a FIB consistent and makes the link exist.
LEMMA InsertLinkLemma ==
  ASSUME NEW f \in Fibs, Consistent(f), NEW a \in Addrs
  PROVE  /\ InsertLink(f, a) \in Fibs
         /\ Consistent(InsertLink(f, a))
         /\ HasLink(InsertLink(f, a), a)
         /\ InsertLink(f, a).addr = f.addr
<1> DEFINE g == InsertLink(f, a)
<1>1. CASE HasLink(f, a)
  BY <1>1 DEF InsertLink
<1>2. CASE ~ HasLink(f, a)
  <2>1. g = [f EXCEPT !.status[a] = "unspecified", !.refs[a] = NoRefs]
    BY <1>2 DEF InsertLink
  <2> HIDE DEF g
  <2>2. g \in Fibs /\ g.addr = f.addr /\ HasLink(g, a)
    BY <2>1 DEF Fibs, Status, NoRefs, HasLink
  <2>3. ASSUME NEW n \in Nodes, NEW b \in Addrs
        PROVE  /\ g.refs[b][n] = IF g.addr[n] = b THEN 1 ELSE 0
               /\ g.addr[n] = b => HasLink(g, b)
    BY <1>2, <2>1 DEF Fibs, Consistent, NoRefs, HasLink
  <2> QED BY <2>2, <2>3 DEF Consistent, g
<1> QED BY <1>1, <1>2

\* fib_insert_node keeps a FIB consistent, whatever the node was mapped to before.
LEMMA InsertNodeLemma ==
  ASSUME NEW f \in Fibs, Consistent(f), NEW n \in Nodes, NEW a \in Addrs
  PROVE  InsertNode(f, n, a) \in Fibs /\ Consistent(InsertNode(f, n, a))
<1> DEFINE l == InsertLink(f, a)
           d == DropPrevious(l, n)
           g == InsertNode(f, n, a)
<1>1. l \in Fibs /\ Consistent(l) /\ HasLink(l, a)
  BY InsertLinkLemma
<1> HIDE DEF l
<1>2. /\ d \in Fibs
      /\ d.addr = l.addr /\ d.status = l.status
      /\ \A m \in Nodes, b \in Addrs :
           d.refs[b][m] = IF m # n /\ l.addr[m] = b THEN 1 ELSE 0
  <2>1. CASE l.addr[n] = NoAddr
    <3>1. d = l
      BY <2>1 DEF DropPrevious
    <3>2. \A b \in Addrs : l.addr[n] # b
      BY <2>1, NoAddrAssumption
    <3> QED BY <1>1, <3>1, <3>2 DEF Consistent
  <2>2. CASE l.addr[n] # NoAddr
    <3> DEFINE p == l.addr[n]
    <3>1. p \in Addrs
      BY <1>1, <2>2 DEF Fibs
    <3>2. l.refs[p][n] = 1 /\ HasLink(l, p)
      BY <1>1, <3>1 DEF Consistent
    <3>3. d = [l EXCEPT !.refs[p][n] = 0]
      BY <2>2, <3>2 DEF DropPrevious, RemoveNodeRef
    <3> HIDE DEF d
    <3>4. d \in Fibs /\ d.addr = l.addr /\ d.status = l.status
      BY <1>1, <3>1, <3>2, <3>3 DEF Fibs
    <3>5. ASSUME NEW m \in Nodes, NEW b \in Addrs
          PROVE  d.refs[b][m] = IF m # n /\ l.addr[m] = b THEN 1 ELSE 0
      BY <1>1, <3>1, <3>2, <3>3 DEF Fibs, Consistent
    <3> QED BY <3>4, <3>5
  <2> QED BY <2>1, <2>2
<1>3. g = [d EXCEPT !.addr[n] = a, !.refs[a][n] = 1]
  <2>1. g = [d EXCEPT !.addr[n] = a, !.refs[a][n] = @ + 1]
    BY DEF InsertNode, l
  <2> HIDE DEF d, g
  <2>2. d.refs[a][n] = 0
    BY <1>2
  <2> QED BY <2>1, <2>2
<1> HIDE DEF d, g
<1>4. g \in Fibs
  BY <1>2, <1>3 DEF Fibs
<1>5. ASSUME NEW m \in Nodes, NEW b \in Addrs
      PROVE  /\ g.refs[b][m] = IF g.addr[m] = b THEN 1 ELSE 0
             /\ g.addr[m] = b => HasLink(g, b)
  BY <1>1, <1>2, <1>3 DEF Fibs, Consistent, HasLink
<1> QED BY <1>4, <1>5 DEF Consistent, g

\* fib_remove_link only takes links that no node is mapped to.
LEMMA RemoveLinkLemma ==
  ASSUME NEW f \in Fibs, Consistent(f), NEW a \in Addrs
  PROVE  /\ RemoveLink(f, a) \in Fibs /\ Consistent(RemoveLink(f, a))
         /\ RemoveLink(f, a).addr = f.addr /\ RemoveLink(f, a).refs = f.refs
<1> DEFINE g == RemoveLink(f, a)
<1>1. CASE HasLink(f, a) /\ f.refs[a] = NoRefs
  <2>1. g = [f EXCEPT !.status[a] = "none"]
    BY <1>1 DEF RemoveLink
  <2> HIDE DEF g
  <2>2. \A n \in Nodes : f.addr[n] # a
    <3> SUFFICES ASSUME NEW n \in Nodes, f.addr[n] = a PROVE FALSE
      OBVIOUS
    <3>1. f.refs[a][n] = 0
      BY <1>1 DEF NoRefs
    <3>2. f.refs[a][n] = 1
      BY DEF Consistent
    <3> QED BY <3>1, <3>2
  <2>3. g \in Fibs /\ g.addr = f.addr /\ g.refs = f.refs
    BY <2>1 DEF Fibs, Status
  <2>4. Consistent(g)
    BY <2>1, <2>2, <2>3 DEF Fibs, Consistent, HasLink
  <2> QED BY <2>3, <2>4 DEF g
<1>2. CASE ~ (HasLink(f, a) /\ f.refs[a] = NoRefs)
  BY <1>2 DEF RemoveLink
<1> QED BY <1>1, <1>2

\* A link whose node mappings were all dropped, or all but those left in its reflist,
\* is what fib_remove_node goes on with; its own entry is deleted last.
LEMMA RemoveNodeLemma ==
  ASSUME NEW f \in Fibs, Consistent(f), NEW n \in Nodes, NEW dropAll \in BOOLEAN
  PROVE  RemoveNode(f, n, dropAll) \in Fibs /\ Consistent(RemoveNode(f, n, dropAll))
<1> DEFINE a == f.addr[n]
           d == IF dropAll THEN DropAssociated(f, a) ELSE RemoveNodeRef(f, n, a)
           e == [d EXCEPT !.addr[n] = NoAddr]
           g == RemoveNode(f, n, dropAll)
<1>1. CASE a = NoAddr \/ ~ HasLink(f, a)
  BY <1>1 DEF RemoveNode
<1>2. CASE a # NoAddr /\ HasLink(f, a)
  <2>1. a \in Addrs /\ f.refs[a][n] = 1
    BY <1>2 DEF Fibs, Consistent
  <2>2. /\ d \in Fibs /\ d.status = f.status
        /\ e \in Fibs /\ Consistent(e) /\ e.status = d.status /\ e.refs = d.refs
    <3>1. CASE dropAll
      <4>1. d = [f EXCEPT !.addr = [m \in Nodes |-> IF f.refs[a][m] > 0 THEN NoAddr
                                                   ELSE f.addr[m]],
                          !.refs[a] = NoRefs]
        BY <3>1 DEF DropAssociated
      <4> HIDE DEF a, d
      <4>2. d \in Fibs /\ d.status = f.status
        BY <2>1, <4>1 DEF Fibs, NoRefs
      <4>3. \A m \in Nodes : d.addr[m] = IF f.addr[m] = a THEN NoAddr ELSE f.addr[m]
        BY <2>1, <4>1 DEF Fibs, Consistent
      <4>4. e = d
        <5>1. d.addr[n] = NoAddr
          BY <4>3 DEF a
        <5> QED BY <4>2, <5>1 DEF Fibs
      <4>5. ASSUME NEW m \in Nodes, NEW b \in Addrs
            PROVE  /\ e.refs[b][m] = IF e.addr[m] = b THEN 1 ELSE 0
                   /\ e.addr[m] = b => HasLink(e, b)
        <5>1. b # NoAddr
          BY NoAddrAssumption
        <5>2. d.refs[b][m] = IF b = a THEN 0 ELSE f.refs[b][m]
          BY <2>1, <4>1 DEF Fibs, NoRefs
        <5> QED BY <2>1, <4>2, <4>3, <4>4, <5>1, <5>2 DEF Consistent, HasLink
      <4> QED BY <4>2, <4>4, <4>5 DEF Consistent
    <3>2. CASE ~ dropAll
      <4>1. d = [f EXCEPT !.refs[a][n] = 0]
        BY <1>2, <2>1, <3>2 DEF RemoveNodeRef
      <4> HIDE DEF a, d
      <4>2. d \in Fibs /\ d.status = f.status /\ d.addr = f.addr
        BY <2>1, <4>1 DEF Fibs
      <4>3. e \in Fibs /\ e.status = d.status /\ e.refs = d.refs
        BY <4>2 DEF Fibs
      <4>4. ASSUME NEW m \in Nodes, NEW b \in Addrs
            PROVE  /\ e.refs[b][m] = IF e.addr[m] = b THEN 1 ELSE 0
                   /\ e.addr[m] = b => HasLink(e, b)
        <5>1. b # NoAddr
          BY NoAddrAssumption
        <5>2. d.refs[b][m] = IF b = a /\ m = n THEN 0 ELSE f.refs[b][m]
          BY <2>1, <4>1 DEF Fibs
        <5>3. e.addr[m] = IF m = n THEN NoAddr ELSE f.addr[m]
          BY <4>2 DEF Fibs
        <5> QED BY <2>1, <4>2, <4>3, <5>1, <5>2, <5>3 DEF Consistent, HasLink
      <4> QED BY <4>2, <4>3, <4>4 DEF Consistent
    <3> QED BY <3>1, <3>2
  <2>3. g = [RemoveUnusedLink(d, a) EXCEPT !.addr[n] = NoAddr]
    BY <1>2 DEF RemoveNode
  <2>4. g = e \/ g = RemoveLink(e, a)
    <3>1. CASE RemoveUnusedLink(d, a) = d
      BY <2>3, <3>1
    <3>2. CASE RemoveUnusedLink(d, a) = [d EXCEPT !.status[a] = "none"]
                 /\ HasLink(d, a) /\ d.refs[a] = NoRefs
      <4> HIDE DEF a, d
      <4>1. g = [[d EXCEPT !.status[a] = "none"] EXCEPT !.addr[n] = NoAddr]
        BY <2>3, <3>2
      <4>2. RemoveLink(e, a) = [e EXCEPT !.status[a] = "none"]
        BY <2>2, <3>2 DEF RemoveLink, HasLink
      <4> QED BY <2>2, <4>1, <4>2 DEF Fibs
    <3> QED BY <3>1, <3>2 DEF RemoveUnusedLink, RemoveLink
  <2>5. RemoveLink(e, a) \in Fibs /\ Consistent(RemoveLink(e, a))
    BY <2>1, <2>2, RemoveLinkLemma
  <2> QED BY <2>2, <2>4, <2>5
<1> QED BY <1>1, <1>2

-----------------------------------------------------------------------------
(* What the handlers make of the FIB. *)

\* What an agent is sent is of the type of what it knows.
LEMMA TellLemma ==
  ASSUME NEW f \in Fibs, NEW ns, NEW gs, FibType, Tell(f, ns, gs)
  PROVE  knows' \in [Agents -> [Nodes -> [addr : Addrs \cup {NoAddr}, status : Status]]]
<1>1. \A n \in Nodes : f.addr[n] # NoAddr => f.addr[n] \in Addrs /\ f.status[f.addr[n]] \in Status
  BY DEF Fibs
<1>2. ASSUME NEW n \in Nodes, f.addr[n] # NoAddr
      PROVE  [addr |-> f.addr[n], status |-> f.status[f.addr[n]]]
               \in [addr : Addrs \cup {NoAddr}, status : Status]
  BY <1>1, <1>2
<1> QED BY <1>2 DEF Tell, FibType

\* inform_link_status_change keeps the FIB consistent.
LEMMA InformLemma ==
  ASSUME NEW f \in Fibs, Consistent(f), NEW a \in Addrs, NEW st \in {"up", "down"},
         FibType, InformLinkStatusChange(f, a, st)
  PROVE  FibType' /\ FibConsistent'
<1> DEFINE l == InsertLink(f, a)
           g == WithStatus(f, a, st)
<1>1. l \in Fibs /\ Consistent(l) /\ HasLink(l, a)
  BY InsertLinkLemma
<1>2. g = [l EXCEPT !.status[a] = st]
  BY DEF WithStatus
<1>3. g \in Fibs /\ Consistent(g)
  <2> HIDE DEF l, g
  <2>1. g \in Fibs /\ g.addr = l.addr /\ g.refs = l.refs
    BY <1>1, <1>2 DEF Fibs, Status
  <2>2. \A b \in Addrs : HasLink(l, b) => HasLink(g, b)
    BY <1>1, <1>2 DEF Fibs, HasLink
  <2> QED BY <1>1, <2>1, <2>2 DEF Consistent
<1>4. knows' \in [Agents -> [Nodes -> [addr : Addrs \cup {NoAddr}, status : Status]]]
  BY <1>3, TellLemma DEF InformLinkStatusChange
<1>5. fib' \in Fibs /\ Consistent(fib')
  BY <1>3, RemoveLinkLemma DEF InformLinkStatusChange
<1> QED BY <1>4, <1>5 DEF InformLinkStatusChange, FibType, FibConsistent

-----------------------------------------------------------------------------
(* The tables of the CLA. *)

ManagersAddressed == \A m \in Managers : mgr[m].at # "free" => mgr[m].addr \in Addrs

ClaInv == ClaType /\ ManagersAddressed

Entries == [at : {"free", "connecting", "linking", "linked", "closing", "cleaning", "leaving"},
            addr : Addrs \cup {"none"},
            in_contact : BOOLEAN, socket : BOOLEAN]

\* An entry changed in place keeps the table of its type and the address it had.
LEMMA EntryLemma ==
  ASSUME ClaInv, NEW m \in Managers, NEW e \in Entries,
         e.at # "free" => e.addr \in Addrs,
         mgr' = [mgr EXCEPT ![m] = e],
         param_htab' \in [Addrs -> Managers \cup {NoManager}]
  PROVE  ClaInv'
<1>1. mgr' \in [Managers -> Entries]
  BY DEF ClaInv, ClaType, Entries
<1>2. \A k \in Managers : mgr'[k].at # "free" => mgr'[k].addr \in Addrs
  BY DEF ClaInv, ClaType, ManagersAddressed
<1> QED BY <1>1, <1>2 DEF ClaInv, ClaType, ManagersAddressed, Entries

\* An address's entry is one of the managers' entries.
LEMMA EntryOfLemma ==
  ASSUME ClaInv, NEW a \in Addrs, HasEntry(a)
  PROVE  param_htab[a] \in Managers
BY DEF ClaInv, ClaType, HasEntry

\* start_scheduled_contact, with the launch of a management task.
LEMMA StartLemma ==
  ASSUME ClaInv, NEW a \in Addrs, StartScheduledContact(a)
  PROVE  ClaInv'
<1>1. CASE HasEntry(a) /\ (Entry(a).socket \/ Entry(a).in_contact)
  <2> DEFINE m == param_htab[a]
             e == [mgr[m] EXCEPT !.in_contact = TRUE]
  <2>1. m \in Managers
    BY <1>1, EntryOfLemma
  <2>2. mgr[m] \in Entries
    BY <2>1 DEF ClaInv, ClaType, Entries
  <2>3. e \in Entries /\ (e.at # "free" => e.addr \in Addrs)
    BY <2>1, <2>2 DEF Entries, ClaInv, ManagersAddressed
  <2>4. mgr' = [mgr EXCEPT ![m] = e] /\ param_htab' = param_htab
    BY <1>1 DEF StartScheduledContact
  <2> QED BY <2>1, <2>3, <2>4, EntryLemma DEF ClaInv, ClaType
<1>2. CASE ~ (HasEntry(a) /\ (Entry(a).socket \/ Entry(a).in_contact))
  <2>1. Launch(a)
    BY <1>2 DEF StartScheduledContact
  <2>2. CASE HasEntry(a)
    BY <2>1, <2>2 DEF Launch, ClaInv, ClaType, ManagersAddressed
  <2>3. CASE ~ HasEntry(a)
    <3> DEFINE e == [at |-> "connecting", addr |-> a, in_contact |-> TRUE, socket |-> FALSE]
    <3>1. PICK m \in Managers : /\ param_htab' = [param_htab EXCEPT ![a] = m]
                               /\ mgr' = [mgr EXCEPT ![m] = e]
      BY <2>1, <2>3 DEF Launch
    <3>2. e \in Entries /\ e.addr \in Addrs
      BY DEF Entries
    <3>3. param_htab' \in [Addrs -> Managers \cup {NoManager}]
      BY <3>1 DEF ClaInv, ClaType
    <3> QED BY <3>1, <3>2, <3>3, EntryLemma
  <2> QED BY <2>2, <2>3
<1> QED BY <1>1, <1>2

\* end_scheduled_contact.
LEMMA EndLemma ==
  ASSUME ClaInv, NEW a \in Addrs, EndScheduledContact(a)
  PROVE  ClaInv'
<1>1. CASE HasEntry(a)
  <2> DEFINE m == param_htab[a]
             e == [mgr[m] EXCEPT !.in_contact = FALSE,
                                 !.at = IF @ = "linked" THEN "closing" ELSE @]
  <2>1. m \in Managers
    BY <1>1, EntryOfLemma
  <2>2. mgr[m] \in Entries /\ (mgr[m].at # "free" => mgr[m].addr \in Addrs)
    BY <2>1 DEF ClaInv, ClaType, ManagersAddressed, Entries
  <2>3. e \in Entries /\ (e.at # "free" => e.addr \in Addrs)
    BY <2>2 DEF Entries
  <2>4. mgr' = [mgr EXCEPT ![m] = e] /\ param_htab' = param_htab
    BY <1>1, <2>1, <2>2 DEF EndScheduledContact, ClaInv, ClaType, Entries
  <2> QED BY <2>1, <2>3, <2>4, EntryLemma DEF ClaInv, ClaType
<1>2. CASE ~ HasEntry(a)
  BY <1>2 DEF EndScheduledContact, ClaInv, ClaType, ManagersAddressed
<1> QED BY <1>1, <1>2

\* Each step of a management task.
LEMMA ManagerLemma ==
  ASSUME ClaInv, NEW m \in Managers,
         \/ GiveUp(m) \/ Connect(m) \/ Reported(m) \/ Disconnect(m)
         \/ StartCleanup(m) \/ Cleanup(m) \/ Leave(m)
  PROVE  ClaInv'
<1> DEFINE e == mgr[m]
<1>1. e \in Entries /\ (e.at # "free" => e.addr \in Addrs)
  BY DEF ClaInv, ClaType, ManagersAddressed, Entries
<1>2. param_htab \in [Addrs -> Managers \cup {NoManager}]
  BY DEF ClaInv, ClaType
<1>3. mgr = [mgr EXCEPT ![m] = e]
  BY DEF ClaInv, ClaType
<1>4. CASE GiveUp(m)
  <2> DEFINE d == Ended(e)
  <2>1. d \in Entries /\ d.addr \in Addrs
    BY <1>1, <1>4 DEF Entries, Ended, GiveUp
  <2> QED BY <1>2, <1>4, <2>1, EntryLemma DEF GiveUp
<1>5. CASE Connect(m)
  <2> DEFINE d == [e EXCEPT !.at = "linking", !.socket = TRUE]
  <2>1. d \in Entries /\ d.addr \in Addrs
    BY <1>1, <1>5 DEF Entries, Connect
  <2>2. mgr' = [mgr EXCEPT ![m] = d]
    BY <1>5 DEF Connect, ClaInv, ClaType
  <2> QED BY <1>2, <1>5, <2>1, <2>2, EntryLemma DEF Connect
<1>6. CASE Disconnect(m)
  <2> DEFINE d == [e EXCEPT !.at = "closing"]
  <2>1. d \in Entries /\ d.addr \in Addrs
    BY <1>1, <1>6 DEF Entries, Disconnect
  <2>2. mgr' = [mgr EXCEPT ![m] = d]
    BY <1>6 DEF Disconnect, ClaInv, ClaType
  <2> QED BY <1>2, <1>6, <2>1, <2>2, EntryLemma DEF Disconnect
<1>9. CASE Reported(m)
  <2> DEFINE d == [e EXCEPT !.at = "linked"]
  <2>1. d \in Entries /\ d.addr \in Addrs
    BY <1>1, <1>9 DEF Entries, Reported
  <2>2. mgr' = [mgr EXCEPT ![m] = d]
    BY <1>9 DEF Reported, ClaInv, ClaType
  <2> QED BY <1>2, <1>9, <2>1, <2>2, EntryLemma DEF Reported
<1>10. CASE StartCleanup(m)
  <2> DEFINE d == [e EXCEPT !.at = "cleaning"]
  <2>1. d \in Entries /\ d.addr \in Addrs
    BY <1>1, <1>10 DEF Entries, StartCleanup
  <2>2. mgr' = [mgr EXCEPT ![m] = d]
    BY <1>10 DEF StartCleanup, ClaInv, ClaType
  <2> QED BY <1>2, <1>10, <2>1, <2>2, EntryLemma DEF StartCleanup
<1>7. CASE Cleanup(m)
  <2> DEFINE d == AfterLink(e)
  <2>1. d \in Entries /\ d.addr \in Addrs
    BY <1>1, <1>7 DEF Entries, AfterLink, Ended, Cleanup
  <2> QED BY <1>2, <1>7, <2>1, EntryLemma DEF Cleanup
<1>8. CASE Leave(m)
  <2>1. Free \in Entries /\ Free.at = "free"
    BY DEF Free, Entries
  <2>2. param_htab' \in [Addrs -> Managers \cup {NoManager}]
    BY <1>2, <1>8 DEF Leave
  <2> QED BY <1>8, <2>1, <2>2, EntryLemma DEF Leave
<1> QED BY <1>4, <1>5, <1>6, <1>7, <1>8, <1>9, <1>10

-----------------------------------------------------------------------------
(* The queue and the steps. *)

LEMMA ReceiveLemma ==
  ASSUME queue \in Seq(Signal), NEW type, Receive(type)
  PROVE  Head(queue) \in Signal /\ Head(queue).type = type /\ queue' \in Seq(Signal)
BY DEF Receive

LEMMA InformQueueLemma ==
  ASSUME queue \in Seq(Signal), NEW s \in Signal, Inform(s)
  PROVE  queue' \in Seq(Signal)
BY DEF Inform

IInv == TypeOK /\ FibConsistent /\ ManagersAddressed

LEMMA InitLemma == Init => IInv
<1> SUFFICES ASSUME Init PROVE IInv
  OBVIOUS
<1>1. fib \in Fibs /\ FibConsistent
  BY NoAddrAssumption DEF Init, FibInit, Fibs, Status, NoRefs, FibConsistent, Consistent, HasLink
<1>2. FibType
  BY <1>1 DEF Init, FibInit, FibType, Nothing, Status
<1>3. ClaInv
  BY DEF Init, ClaInit, Free, ClaInv, ClaType, ManagersAddressed
<1>4. ContactType
  BY BoundsAssumption DEF Init, ContactInit, ContactType
<1>5. queue \in Seq(Signal) /\ calls \in 0..MaxCalls /\ losses \in 0..MaxLosses
  BY BoundsAssumption DEF Init
<1> QED BY <1>1, <1>2, <1>3, <1>4, <1>5 DEF IInv, TypeOK, ClaInv

\* What is sent to the bundle processor is a signal: the requests of the contact
\* manager and the calls of clients.
LEMMA SenderLemma ==
  ASSUME IInv,
         ClientCalls \/ ContactCheck \/ ContactCreate \/ ContactDrop \/ TimePasses
  PROVE  IInv'
<1> USE DEF IInv, TypeOK
<1>1. CASE ClientCalls
  <2>1. queue' \in Seq(Signal)
    <3>1. PICK s \in Calls : Inform(s)
      BY <1>1 DEF ClientCalls
    <3>2. s \in Signal
      BY CallsAssumption
    <3> QED BY <3>1, <3>2, InformQueueLemma
  <2>2. calls' \in 0..MaxCalls
    BY <1>1, BoundsAssumption DEF ClientCalls
  <2> QED BY <1>1, <2>1, <2>2 DEF ClientCalls, fibVars, claVars, contactVars, FibType, ClaType,
                                  ContactType, FibConsistent, Consistent, HasLink, ManagersAddressed
<1>2. CASE ContactCheck
  <2> DEFINE left == current_contacts \ Expired
  <2>1. left \subseteq ContactList /\ Expired \subseteq ContactList
    BY DEF ContactType, Expired
  <2>2. Upcoming(left) \subseteq ContactList
    BY DEF Upcoming
  <2>3. ContactType'
    <3>1. /\ current_contacts' \subseteq ContactList
          /\ added' \subseteq ContactList /\ removed' \subseteq ContactList
      BY <1>2, <2>1, <2>2 DEF ContactCheck, CheckForContacts
    <3>2. now' \in 0..MaxTime /\ checked' \in 0..(MaxTime + 1)
      BY <1>2, BoundsAssumption DEF ContactCheck, CheckForContacts, ContactType
    <3> QED BY <3>1, <3>2 DEF ContactType
  <2> QED BY <1>2, <2>3 DEF ContactCheck, fibVars, claVars, counters, FibType, ClaType,
                            FibConsistent, Consistent, HasLink, ManagersAddressed
<1>3. CASE ContactCreate
  <2>1. PICK c \in added : SendCreate(c) /\ Inform(Request("create", c.node, c.addr))
    BY <1>3 DEF ContactCreate
  <2>2. ContactType' /\ queue' \in Seq(Signal)
    BY <2>1, ContactListAssumption, InformQueueLemma
       DEF SendCreate, ContactType, Signal, Request, RequestTypes
  <2> QED BY <1>3, <2>2 DEF ContactCreate, fibVars, claVars, counters, FibType, ClaType,
                            FibConsistent, Consistent, HasLink, ManagersAddressed
<1>4. CASE ContactDrop
  <2>1. PICK c \in removed : SendDrop(c) /\ Inform(Request("drop", c.node, c.addr))
    BY <1>4 DEF ContactDrop
  <2>2. ContactType' /\ queue' \in Seq(Signal)
    BY <2>1, ContactListAssumption, InformQueueLemma
       DEF SendDrop, ContactType, Signal, Request, RequestTypes
  <2> QED BY <1>4, <2>2 DEF ContactDrop, fibVars, claVars, counters, FibType, ClaType,
                            FibConsistent, Consistent, HasLink, ManagersAddressed
<1>5. CASE TimePasses
  <2>1. ContactType'
    BY <1>5, BoundsAssumption DEF TimePasses, Tick, Sent, ContactType
  <2> QED BY <1>5, <2>1 DEF TimePasses, fibVars, claVars, counters, FibType, ClaType,
                            FibConsistent, Consistent, HasLink, ManagersAddressed
<1> QED BY <1>1, <1>2, <1>3, <1>4, <1>5

\* The steps of the management tasks, and the loss of a connection.
LEMMA LinkTaskLemma ==
  ASSUME IInv, NEW m \in Managers, Manager(m) \/ LinkLost(m)
  PROVE  IInv'
<1> USE DEF IInv, TypeOK
<1>1. ClaInv'
  BY ManagerLemma DEF ClaInv, Manager, LinkEstablished, LinkCleanup, ManagerMoves, LinkLost
<1>2. queue' \in Seq(Signal)
  <2>1. mgr[m].at # "free" => \A t \in {"up", "down"} : LinkSignal(t, mgr[m].addr) \in Signal
    BY DEF ManagersAddressed, Signal, LinkSignal
  <2> QED BY <2>1, InformQueueLemma
          DEF Manager, LinkEstablished, LinkCleanup, ManagerMoves, LinkLost, Reported, Cleanup
<1>3. losses' \in 0..MaxLosses /\ calls' \in 0..MaxCalls
  BY BoundsAssumption DEF Manager, LinkEstablished, LinkCleanup, ManagerMoves, LinkLost, counters
<1>4. UNCHANGED <<fibVars, contactVars>>
  BY DEF Manager, LinkEstablished, LinkCleanup, ManagerMoves, LinkLost
<1> QED BY <1>1, <1>2, <1>3, <1>4 DEF ClaInv, fibVars, contactVars, FibType, ContactType,
                                      FibConsistent, Consistent, HasLink

\* Each signal's handler: the request is well-formed because the queue is, and the FIB
\* goes from one consistent table to the next by the operators' lemmas.
LEMMA BundleProcessorLemma ==
  ASSUME IInv, BundleProcessor
  PROVE  IInv'
<1> USE DEF IInv, TypeOK
<1> DEFINE s == Head(queue)
<1>a. \A type : Receive(type) => s \in Signal /\ s.type = type /\ queue' \in Seq(Signal)
  BY ReceiveLemma
<1>b. ASSUME NEW t \in RequestTypes, s \in Signal, s.type = t
      PROVE  s.node \in Nodes /\ s.addr \in Addrs
  BY <1>b DEF Signal, RequestTypes
<1>c. ASSUME NEW t \in {"up", "down"}, s \in Signal, s.type = t
      PROVE  s.addr \in Addrs
  BY <1>c DEF Signal, RequestTypes
<1>d. ASSUME NEW t \in {"register", "deregister"}, s \in Signal, s.type = t
      PROVE  s.agent \in Agents
  BY <1>d DEF Signal, RequestTypes
<1>e. fib \in Fibs /\ Consistent(fib)
  BY DEF FibType, FibConsistent
<1>f. ASSUME FibType', FibConsistent', ClaInv', queue' \in Seq(Signal),
             UNCHANGED <<contactVars, counters>>
      PROVE  IInv'
  BY <1>f DEF ClaInv, contactVars, counters, ContactType
<1>g. ASSUME UNCHANGED claVars PROVE ClaInv'
  BY <1>g DEF claVars, ClaInv, ClaType, ManagersAddressed
<1>1. CASE CreateLink
  <2> DEFINE f == InsertNode(fib, s.node, s.addr)
  <2>1. s.node \in Nodes /\ s.addr \in Addrs /\ queue' \in Seq(Signal)
    BY <1>1, <1>a, <1>b DEF CreateLink, RequestTypes
  <2>2. f \in Fibs /\ Consistent(f)
    BY <1>e, <2>1, InsertNodeLemma
  <2>3. CASE s.addr \in Served
    <3>1. StartScheduledContact(s.addr)
      BY <1>1, <2>3 DEF CreateLink
    <3>2. ClaInv'
      BY <2>1, <3>1, StartLemma DEF ClaInv
    <3>3. CASE StartFindsActive(s.addr)
      <4>1. InformLinkStatusChange(f, s.addr, "up")
        BY <1>1, <2>3, <3>3 DEF CreateLink
      <4>2. FibType' /\ FibConsistent'
        BY <2>1, <2>2, <4>1, InformLemma
      <4> QED BY <1>1, <1>f, <2>1, <3>2, <4>2 DEF CreateLink
    <3>4. CASE ~ StartFindsActive(s.addr)
      <4>1. fib' = f /\ UNCHANGED <<subs, knows>>
        BY <1>1, <2>3, <3>4 DEF CreateLink
      <4>2. FibType' /\ FibConsistent'
        BY <2>2, <4>1 DEF FibType, FibConsistent
      <4> QED BY <1>1, <1>f, <2>1, <3>2, <4>2 DEF CreateLink
    <3> QED BY <3>3, <3>4
  <2>4. CASE s.addr \notin Served
    <3>1. fib' = f /\ UNCHANGED <<claVars, subs, knows>>
      BY <1>1, <2>4 DEF CreateLink
    <3>2. FibType' /\ FibConsistent'
      BY <2>2, <3>1 DEF FibType, FibConsistent
    <3> QED BY <1>1, <1>f, <1>g, <2>1, <3>1, <3>2 DEF CreateLink
  <2> QED BY <2>3, <2>4
<1>2. CASE DropLink
  <2>1. s.node \in Nodes /\ s.addr \in Addrs /\ queue' \in Seq(Signal)
    BY <1>2, <1>a, <1>b DEF DropLink, RequestTypes
  <2>2. FibType' /\ FibConsistent'
    <3>1. fib' = RemoveNode(fib, s.node, s.addr \notin Generic) /\ UNCHANGED <<subs, knows>>
      BY <1>2 DEF DropLink
    <3>2. fib' \in Fibs /\ Consistent(fib')
      <4>1. (s.addr \notin Generic) \in BOOLEAN
        OBVIOUS
      <4> QED BY <1>e, <2>1, <3>1, <4>1, RemoveNodeLemma
    <3> QED BY <3>1, <3>2 DEF FibType, FibConsistent
  <2>3. ClaInv'
    BY <1>2, <1>g, <2>1, EndLemma DEF DropLink, ClaInv
  <2> QED BY <1>2, <1>f, <2>1, <2>2, <2>3 DEF DropLink
<1>3. CASE DeleteNodeAssociation
  <2>1. s.node \in Nodes /\ queue' \in Seq(Signal)
    BY <1>3, <1>a, <1>b DEF DeleteNodeAssociation, RequestTypes
  <2>2. FibType' /\ FibConsistent'
    <3>1. fib' = RemoveNode(fib, s.node, FALSE) /\ UNCHANGED <<subs, knows>>
      BY <1>3 DEF DeleteNodeAssociation
    <3>2. fib' \in Fibs /\ Consistent(fib')
      BY <1>e, <2>1, <3>1, RemoveNodeLemma
    <3> QED BY <3>1, <3>2 DEF FibType, FibConsistent
  <2> QED BY <1>3, <1>f, <1>g, <2>1, <2>2 DEF DeleteNodeAssociation
<1>4. CASE LinkUp
  <2>1. s.addr \in Addrs /\ queue' \in Seq(Signal)
    BY <1>4, <1>a, <1>c DEF LinkUp
  <2>2. FibType' /\ FibConsistent'
    BY <1>4, <1>e, <2>1, InformLemma DEF LinkUp
  <2> QED BY <1>4, <1>f, <1>g, <2>1, <2>2 DEF LinkUp
<1>5. CASE LinkDown
  <2>1. s.addr \in Addrs /\ queue' \in Seq(Signal)
    BY <1>5, <1>a, <1>c DEF LinkDown
  <2>2. FibType' /\ FibConsistent'
    BY <1>5, <1>e, <2>1, InformLemma DEF LinkDown
  <2> QED BY <1>5, <1>f, <1>g, <2>1, <2>2 DEF LinkDown
<1>6. CASE RegisterAgent
  <2>1. s.agent \in Agents /\ queue' \in Seq(Signal)
    BY <1>6, <1>a, <1>d DEF RegisterAgent
  <2>2. FibType' /\ FibConsistent'
    BY <1>6, <1>e, <2>1, TellLemma DEF RegisterAgent, Register, FibType, FibConsistent
  <2> QED BY <1>6, <1>f, <1>g, <2>1, <2>2 DEF RegisterAgent
<1>7. CASE DeregisterAgent
  <2>1. s.agent \in Agents /\ queue' \in Seq(Signal)
    BY <1>7, <1>a, <1>d DEF DeregisterAgent
  <2>2. FibType' /\ FibConsistent'
    <3>1. Nothing \in [addr : Addrs \cup {NoAddr}, status : Status]
      BY DEF Nothing, Status
    <3> QED BY <1>7, <1>e, <2>1, <3>1 DEF DeregisterAgent, Deregister, FibType, FibConsistent
  <2> QED BY <1>7, <1>f, <1>g, <2>1, <2>2 DEF DeregisterAgent
<1> QED BY <1>1, <1>2, <1>3, <1>4, <1>5, <1>6, <1>7 DEF BundleProcessor

\* The types, the consistency of the FIB and the addresses of the management tasks
\* are an inductive invariant.
THEOREM Invariant == Spec => []IInv
<1>1. IInv /\ [Next]_vars => IInv'
  <2> SUFFICES ASSUME IInv, [Next]_vars PROVE IInv'
    OBVIOUS
  <2>1. CASE UNCHANGED vars
    BY <2>1 DEF IInv, TypeOK, FibType, ClaType, ContactType, FibConsistent, Consistent, HasLink,
                ManagersAddressed, vars, fibVars, claVars, contactVars, counters
  <2>2. CASE Next
    BY <2>1, <2>2, SenderLemma, BundleProcessorLemma, LinkTaskLemma DEF Next, Done
  <2> QED BY <2>1, <2>2
<1> QED BY <1>1, InitLemma, PTL DEF Spec

\* Every variable of the node's links keeps its type, for all plans and lengths.
THEOREM LinkTypeCorrect == Spec => []TypeOK
<1>1. IInv => TypeOK
  BY DEF IInv
<1> QED BY <1>1, Invariant, PTL

\* The node table and the reflists of fib.c stay each other's inverse under every
\* sequence of link requests, signals and registrations.
THEOREM FibStaysConsistent == Spec => []FibConsistent
<1>1. IInv => FibConsistent
  BY DEF IInv
<1> QED BY <1>1, Invariant, PTL

-----------------------------------------------------------------------------
(* What the FIB says of a link, and what the agents know. *)

\* A management task in use is the one entered for its address, and has a socket from the
\* attempt that succeeds to the end of the cleaning-up.
Tasks ==
  /\ \A m \in Managers :
       /\ mgr[m].at # "free" => mgr[m].addr \in Served /\ param_htab[mgr[m].addr] = m
       /\ mgr[m].socket <=> mgr[m].at \in {"linking", "linked", "closing", "cleaning"}
  /\ \A a \in Addrs : HasEntry(a) => Entry(a).at # "free" /\ Entry(a).addr = a

\* A link with a was reported as up, and its end has not been reported.
Held(a) ==
  \E m \in Managers : mgr[m].addr = a /\ mgr[m].at \in {"linked", "closing", "cleaning"}

About(q, a) == { i \in 1..Len(q) : q[i] \in {LinkSignal("up", a), LinkSignal("down", a)} }

\* The last signal about a in q says whether the link is held; with none, its status does.
Says(q, a, st, held) ==
  IF About(q, a) = {} THEN st = "up" <=> held
  ELSE \E i \in About(q, a) : /\ \A j \in About(q, a) : j <= i
                              /\ q[i].type = IF held THEN "up" ELSE "down"

StatusFollows == \A a \in Addrs : Says(queue, a, fib.status[a], Held(a))

LinkInv == Tasks /\ StatusFollows /\ AgentsKnowUp

\* A signal about something else changes nothing in what the queue says of a.
LEMMA AppendedOther ==
  ASSUME NEW q \in Seq(Signal), NEW s \in Signal, NEW a,
         s \notin {LinkSignal("up", a), LinkSignal("down", a)}
  PROVE  /\ About(Append(q, s), a) = About(q, a)
         /\ \A st, held : Says(q, a, st, held) => Says(Append(q, s), a, st, held)
<1> DEFINE r == Append(q, s)
<1>1. /\ Len(r) = Len(q) + 1 /\ r[Len(q) + 1] = s /\ Len(q) \in Nat
      /\ \A i \in 1..Len(q) : r[i] = q[i]
  OBVIOUS
<1> HIDE DEF r
<1>2. About(r, a) = About(q, a)
  BY <1>1 DEF About
<1>3. \A i \in About(q, a) : r[i] = q[i]
  BY <1>1 DEF About
<1>4. ASSUME NEW st, NEW held, Says(q, a, st, held)
      PROVE  Says(r, a, st, held)
  BY <1>2, <1>3, <1>4 DEF Says
<1> QED BY <1>2, <1>4 DEF r

\* A signal about a has the last word, whatever the status is.
LEMMA AppendedOwn ==
  ASSUME NEW q \in Seq(Signal), NEW a \in Addrs, NEW st, NEW held \in BOOLEAN
  PROVE  Says(Append(q, LinkSignal(IF held THEN "up" ELSE "down", a)), a, st, held)
<1> DEFINE s == LinkSignal(IF held THEN "up" ELSE "down", a)
           r == Append(q, s)
<1>0. s \in Signal /\ s.type = (IF held THEN "up" ELSE "down")
      /\ s \in {LinkSignal("up", a), LinkSignal("down", a)}
  BY DEF Signal, LinkSignal
<1> HIDE DEF s
<1>1. Len(r) = Len(q) + 1 /\ r[Len(q) + 1] = s /\ Len(q) \in Nat
  BY <1>0
<1> HIDE DEF r
<1>2. Len(q) + 1 \in About(r, a) /\ \A j \in About(r, a) : j <= Len(q) + 1
  BY <1>0, <1>1 DEF About
<1>3. Says(r, a, st, held)
  BY <1>0, <1>1, <1>2 DEF Says
<1> QED BY <1>3 DEF r, s

\* What the handler of the first signal must make of the status for the rest of the queue
\* to be right about a.
LEMMA Handled ==
  ASSUME NEW q \in Seq(Signal), q # <<>>, NEW a, NEW st, NEW new, NEW held \in BOOLEAN,
         Says(q, a, st, held),
         Head(q) = LinkSignal("up", a) => new = "up",
         Head(q) = LinkSignal("down", a) => new # "up",
         Head(q) \notin {LinkSignal("up", a), LinkSignal("down", a)} =>
           (new = "up" <=> st = "up") \/ (held /\ new = "up")
  PROVE  Says(Tail(q), a, new, held)
<1> DEFINE r == Tail(q)
<1>1. /\ Len(r) = Len(q) - 1 /\ Len(q) \in Nat /\ Len(q) >= 1 /\ Head(q) = q[1]
      /\ \A i \in 1..Len(r) : r[i] = q[i + 1]
  OBVIOUS
<1> HIDE DEF r
<1>2. /\ \A i \in Nat : i \in About(r, a) <=> i >= 1 /\ i + 1 \in About(q, a)
      /\ 1 \in About(q, a) <=> Head(q) \in {LinkSignal("up", a), LinkSignal("down", a)}
      /\ About(r, a) \subseteq Nat /\ About(q, a) \subseteq Nat \ {0}
  BY <1>1 DEF About
<1>3. CASE About(q, a) = {}
  <2>1. About(r, a) = {} /\ (new = "up" <=> held)
    BY <1>2, <1>3 DEF Says
  <2> QED BY <2>1 DEF Says, r
<1>4. CASE About(q, a) # {}
  <2>1. PICK i \in About(q, a) : /\ \A j \in About(q, a) : j <= i
                                 /\ q[i].type = IF held THEN "up" ELSE "down"
    BY <1>4 DEF Says
  <2>2. CASE i = 1
    <3>1. About(r, a) = {}
      BY <1>2, <2>1, <2>2
    <3>2. new = "up" <=> held
      BY <1>1, <1>2, <2>1, <2>2 DEF LinkSignal
    <3> QED BY <3>1, <3>2 DEF Says, r
  <2>3. CASE i # 1
    <3>1. i - 1 \in About(r, a) /\ r[i - 1] = q[i]
      BY <1>1, <1>2, <2>3 DEF About
    <3>2. \A j \in About(r, a) : j <= i - 1
      BY <1>2, <2>1
    <3> QED BY <2>1, <3>1, <3>2 DEF Says, r
  <2> QED BY <2>2, <2>3
<1> QED BY <1>3, <1>4

\* Where nothing is about a and the signal taken is not either, nothing was.
LEMMA NotPending ==
  ASSUME NEW q \in Seq(Signal), q # <<>>, NEW a, About(Tail(q), a) = {},
         Head(q) \notin {LinkSignal("up", a), LinkSignal("down", a)}
  PROVE  About(q, a) = {}
<1> SUFFICES ASSUME NEW i \in About(q, a) PROVE FALSE
  OBVIOUS
<1>1. i \in 1..Len(q) /\ i # 1 /\ Len(q) \in Nat /\ Head(q) = q[1]
  BY DEF About
<1>2. i - 1 \in 1..Len(Tail(q)) /\ Tail(q)[i - 1] = q[i]
  BY <1>1
<1> QED BY <1>2 DEF About

\* Only the task entered for an address can hold its link.
LEMMA Owner ==
  ASSUME ClaInv, Tasks, NEW m \in Managers, mgr[m].at # "free"
  PROVE  Held(mgr[m].addr) <=> mgr[m].at \in {"linked", "closing", "cleaning"}
<1> SUFFICES ASSUME NEW k \in Managers, mgr[k].addr = mgr[m].addr,
                    mgr[k].at \in {"linked", "closing", "cleaning"}
             PROVE  k = m
  BY DEF Held
<1> QED BY DEF Tasks

\* A task that goes on: it stays the one of its address, and only that link may change.
LEMMA InPlace ==
  ASSUME ClaInv, Tasks, NEW m \in Managers, mgr[m].at # "free", NEW e \in Entries,
         e.at # "free", e.addr = mgr[m].addr,
         e.socket <=> e.at \in {"linking", "linked", "closing", "cleaning"},
         mgr' = [mgr EXCEPT ![m] = e], UNCHANGED param_htab
  PROVE  /\ Tasks'
         /\ \A a : Held(a)' <=> IF a = e.addr THEN e.at \in {"linked", "closing", "cleaning"}
                                              ELSE Held(a)
<1>1. /\ DOMAIN mgr = Managers /\ mgr'[m] = e
      /\ \A k \in Managers : k # m => mgr'[k] = mgr[k]
  BY DEF ClaInv, ClaType
<1>2. \A k \in Managers : mgr'[k].addr = mgr[k].addr /\ (mgr'[k].at = "free" <=> mgr[k].at = "free")
  BY <1>1
<1>3. ASSUME NEW a \in Addrs, HasEntry(a)
      PROVE  mgr'[param_htab[a]].at # "free" /\ mgr'[param_htab[a]].addr = a
  BY <1>2, <1>3, EntryOfLemma DEF Tasks, Entry
<1>4. Tasks'
  BY <1>1, <1>2, <1>3 DEF Tasks, Entry, HasEntry
<1>5. ASSUME NEW k \in Managers, k # m, mgr[k].at \in {"linked", "closing", "cleaning"}
      PROVE  mgr[k].addr # e.addr
  BY <1>5 DEF Tasks
<1>6. ASSUME NEW a
      PROVE  Held(a)' <=> IF a = e.addr THEN e.at \in {"linked", "closing", "cleaning"} ELSE Held(a)
  BY <1>1, <1>2, <1>5 DEF Held
<1> QED BY <1>4, <1>6

\* A task that comes or goes holds no link.
LEMMA LaunchKeeps ==
  ASSUME ClaInv, Tasks, NEW a \in Served, ~ HasEntry(a), Launch(a)
  PROVE  Tasks' /\ \A b : Held(b)' <=> Held(b)
<1> DEFINE e == [at |-> "connecting", addr |-> a, in_contact |-> TRUE, socket |-> FALSE]
<1>0. a \in Addrs
  BY ServedAssumption
<1>1. PICK m \in Managers : /\ mgr[m] = Free
                            /\ param_htab' = [param_htab EXCEPT ![a] = m]
                            /\ mgr' = [mgr EXCEPT ![m] = e]
  BY DEF Launch
<1>2. /\ mgr'[m].at = "connecting" /\ mgr'[m].addr = a /\ ~ mgr'[m].socket
      /\ \A k \in Managers : k # m => mgr'[k] = mgr[k]
      /\ param_htab'[a] = m /\ \A b \in Addrs : b # a => param_htab'[b] = param_htab[b]
      /\ mgr[m].at = "free"
  BY <1>0, <1>1 DEF ClaInv, ClaType, Free
<1>3. ASSUME NEW k \in Managers, k # m, mgr[k].at # "free"
      PROVE  mgr[k].addr # a /\ mgr[k].addr \in Addrs
  BY <1>3, ServedAssumption, NoManagerAssumption DEF Tasks, HasEntry
<1>4. ASSUME NEW b \in Addrs, b # a, param_htab[b] # NoManager
      PROVE  param_htab[b] \in Managers /\ param_htab[b] # m
  BY <1>2, <1>4, EntryOfLemma DEF Tasks, HasEntry, Entry
<1>5. Tasks'
  <2>1. ASSUME NEW k \in Managers
        PROVE  /\ mgr'[k].at # "free" => mgr'[k].addr \in Served /\ param_htab'[mgr'[k].addr] = k
               /\ mgr'[k].socket <=> mgr'[k].at \in {"linking", "linked", "closing", "cleaning"}
    BY <1>2, <1>3 DEF Tasks
  <2>2. ASSUME NEW b \in Addrs, param_htab'[b] # NoManager
        PROVE  mgr'[param_htab'[b]].at # "free" /\ mgr'[param_htab'[b]].addr = b
    <3>1. CASE b = a
      BY <1>2, <3>1
    <3>2. CASE b # a
      BY <1>2, <1>4, <2>2, <3>2 DEF Tasks, HasEntry, Entry
    <3> QED BY <3>1, <3>2
  <2> QED BY <2>1, <2>2 DEF Tasks, HasEntry, Entry
<1>6. ASSUME NEW b PROVE Held(b)' <=> Held(b)
  BY <1>2 DEF Held
<1> QED BY <1>5, <1>6

LEMMA LeaveKeeps ==
  ASSUME ClaInv, Tasks, NEW m \in Managers, Leave(m)
  PROVE  Tasks' /\ \A b : Held(b)' <=> Held(b)
<1>0. mgr[m].at = "leaving" /\ mgr[m].addr \in Addrs
  BY ServedAssumption DEF Leave, Tasks
<1>1. /\ mgr'[m] = Free
      /\ \A k \in Managers : k # m => mgr'[k] = mgr[k]
  BY DEF Leave, ClaInv, ClaType
<1>2. \A b \in Addrs : param_htab'[b] = IF b = mgr[m].addr THEN NoManager ELSE param_htab[b]
  BY <1>0 DEF Leave, Tasks
<1>3. ASSUME NEW k \in Managers
      PROVE  /\ mgr'[k].at # "free" => mgr'[k].addr \in Served /\ param_htab'[mgr'[k].addr] = k
             /\ mgr'[k].socket <=> mgr'[k].at \in {"linking", "linked", "closing", "cleaning"}
  <2>1. CASE k = m
    BY <1>1, <2>1 DEF Free
  <2>2. CASE k # m
    <3>1. mgr[k].at # "free" => mgr[k].addr \in Addrs /\ mgr[k].addr # mgr[m].addr
      BY <1>0, <2>2, ServedAssumption DEF Tasks
    <3> QED BY <1>1, <1>2, <2>2, <3>1 DEF Tasks
  <2> QED BY <2>1, <2>2
<1>4. ASSUME NEW b \in Addrs, param_htab'[b] # NoManager
      PROVE  mgr'[param_htab'[b]].at # "free" /\ mgr'[param_htab'[b]].addr = b
  <2>1. b # mgr[m].addr /\ param_htab'[b] = param_htab[b] /\ param_htab[b] \in Managers
    BY <1>2, <1>4, EntryOfLemma DEF HasEntry
  <2>2. param_htab[b] # m
    BY <1>4, <2>1 DEF Tasks, HasEntry, Entry
  <2> QED BY <1>1, <1>4, <2>1, <2>2 DEF Tasks, HasEntry, Entry
<1>5. ASSUME NEW b PROVE Held(b)' <=> Held(b)
  BY <1>0, <1>1 DEF Held, Free
<1> QED BY <1>3, <1>4, <1>5 DEF Tasks, HasEntry, Entry

\* start_scheduled_contact changes no link, and it finds active only what is held: the
\* semaphores keep it away while a link is reported.
LEMMA StartKeeps ==
  ASSUME ClaInv, Tasks, NEW a \in Served, StartScheduledContact(a)
  PROVE  /\ Tasks' /\ \A b : Held(b)' <=> Held(b)
         /\ StartFindsActive(a) <=> Held(a)
<1>0. a \in Addrs
  BY ServedAssumption
<1>1. Active(a) <=> Held(a)
  <2>1. CASE HasEntry(a)
    <3>1. /\ param_htab[a] \in Managers /\ Entry(a).at # "free" /\ Entry(a).addr = a
          /\ Entry(a).at \notin {"linking", "cleaning"}
      BY <1>0, <2>1, EntryOfLemma DEF Tasks, StartScheduledContact, EntryFree, TableFree, Entry
    <3>2. Held(a) <=> Entry(a).at \in {"linked", "closing", "cleaning"}
      BY <3>1, Owner DEF Entry
    <3> QED BY <2>1, <3>1, <3>2 DEF Active, Tasks, Entry
  <2>2. CASE ~ HasEntry(a)
    BY <1>0, <2>2, NoManagerAssumption DEF Active, Held, Tasks, HasEntry
  <2> QED BY <2>1, <2>2
<1>2. CASE HasEntry(a) /\ (Entry(a).socket \/ Entry(a).in_contact)
  <2> DEFINE m == param_htab[a]
             e == [mgr[m] EXCEPT !.in_contact = TRUE]
  <2>1. m \in Managers /\ mgr[m] \in Entries /\ mgr[m].at # "free" /\ mgr[m].addr = a
    BY <1>0, <1>2, EntryOfLemma DEF Tasks, Entry, ClaInv, ClaType, Entries
  <2>2. /\ e \in Entries /\ e.at = mgr[m].at /\ e.addr = mgr[m].addr
        /\ e.socket = mgr[m].socket
    BY <2>1 DEF Entries
  <2>3. mgr' = [mgr EXCEPT ![m] = e] /\ param_htab' = param_htab
    BY <1>2 DEF StartScheduledContact
  <2> HIDE DEF e
  <2>4. e.socket <=> e.at \in {"linking", "linked", "closing", "cleaning"}
    BY <2>1, <2>2 DEF Tasks
  <2>5. /\ Tasks'
        /\ \A b : Held(b)' <=> IF b = e.addr THEN e.at \in {"linked", "closing", "cleaning"}
                                             ELSE Held(b)
    BY <2>1, <2>2, <2>3, <2>4, InPlace
  <2> QED BY <1>1, <2>1, <2>2, <2>5, Owner DEF StartFindsActive
<1>3. CASE ~ (HasEntry(a) /\ (Entry(a).socket \/ Entry(a).in_contact))
  <2>1. Launch(a)
    BY <1>3 DEF StartScheduledContact
  <2>2. CASE HasEntry(a)
    BY <1>1, <2>1, <2>2 DEF Launch, Tasks, Held, HasEntry, Entry, StartFindsActive
  <2>3. CASE ~ HasEntry(a)
    BY <1>1, <2>1, <2>3, LaunchKeeps DEF StartFindsActive
  <2> QED BY <2>2, <2>3
<1> QED BY <1>2, <1>3

\* end_scheduled_contact: what it closes is held until its end is reported.
LEMMA EndKeeps ==
  ASSUME ClaInv, Tasks, NEW a \in Served, EndScheduledContact(a)
  PROVE  Tasks' /\ \A b : Held(b)' <=> Held(b)
<1>1. CASE HasEntry(a)
  <2> DEFINE m == param_htab[a]
             e == [mgr[m] EXCEPT !.in_contact = FALSE,
                                 !.at = IF @ = "linked" THEN "closing" ELSE @]
  <2>1. m \in Managers /\ mgr[m] \in Entries /\ mgr[m].at # "free" /\ mgr[m].addr = a
    BY <1>1, EntryOfLemma, ServedAssumption DEF Tasks, Entry, ClaInv, ClaType, Entries
  <2>2. /\ e \in Entries /\ e.addr = mgr[m].addr /\ e.socket = mgr[m].socket
        /\ e.at = IF mgr[m].at = "linked" THEN "closing" ELSE mgr[m].at
    BY <2>1 DEF Entries
  <2>3. mgr' = [mgr EXCEPT ![m] = e] /\ param_htab' = param_htab
    BY <1>1, <2>1 DEF EndScheduledContact, ClaInv, ClaType, Entries
  <2> HIDE DEF e
  <2>4. e.socket <=> e.at \in {"linking", "linked", "closing", "cleaning"}
    BY <2>1, <2>2 DEF Tasks
  <2>5. /\ Tasks'
        /\ \A b : Held(b)' <=> IF b = e.addr THEN e.at \in {"linked", "closing", "cleaning"}
                                             ELSE Held(b)
    BY <2>1, <2>2, <2>3, <2>4, InPlace
  <2> QED BY <2>1, <2>2, <2>5, Owner
<1>2. CASE ~ HasEntry(a)
  BY <1>2 DEF EndScheduledContact, Tasks, Held, HasEntry, Entry
<1> QED BY <1>1, <1>2

-----------------------------------------------------------------------------
(* The steps. *)

\* fib_insert_node maps the node, and no link comes up by it.
LEMMA InsertNodeKeeps ==
  ASSUME NEW f \in Fibs, Consistent(f), NEW n \in Nodes, NEW a \in Addrs
  PROVE  /\ \A m \in Nodes : InsertNode(f, n, a).addr[m] = IF m = n THEN a ELSE f.addr[m]
         /\ \A b \in Addrs : InsertNode(f, n, a).status[b] = "up" <=> f.status[b] = "up"
<1> DEFINE l == InsertLink(f, a)
           d == DropPrevious(l, n)
           g == InsertNode(f, n, a)
<1>1. l \in Fibs /\ Consistent(l) /\ l.addr = f.addr
  BY InsertLinkLemma
<1>2. \A b \in Addrs : l.status[b] = "up" <=> f.status[b] = "up"
  BY DEF InsertLink, HasLink, Fibs
<1> HIDE DEF l
<1>3. d \in Fibs /\ d.addr = l.addr /\ d.status = l.status
  <2>1. CASE l.addr[n] = NoAddr
    BY <1>1, <2>1 DEF DropPrevious
  <2>2. CASE l.addr[n] # NoAddr
    <3> DEFINE p == l.addr[n]
    <3>1. p \in Addrs /\ l.refs[p][n] = 1 /\ HasLink(l, p)
      BY <1>1, <2>2 DEF Fibs, Consistent
    <3>2. d = [l EXCEPT !.refs[p][n] = 0]
      BY <2>2, <3>1 DEF DropPrevious, RemoveNodeRef
    <3> HIDE DEF d
    <3> QED BY <1>1, <3>1, <3>2 DEF Fibs
  <2> QED BY <2>1, <2>2
<1>4. g = [d EXCEPT !.addr[n] = a, !.refs[a][n] = @ + 1]
  BY DEF InsertNode, l
<1> HIDE DEF d, g
<1>5. g.status = d.status /\ \A m \in Nodes : g.addr[m] = IF m = n THEN a ELSE d.addr[m]
  BY <1>3, <1>4 DEF Fibs
<1> QED BY <1>1, <1>2, <1>3, <1>5 DEF g

\* fib_remove_node takes mappings away, and no link comes up or goes down by it.
LEMMA RemoveNodeKeeps ==
  ASSUME NEW f \in Fibs, Consistent(f), NEW n \in Nodes, NEW dropAll \in BOOLEAN
  PROVE  /\ \A m \in Nodes : RemoveNode(f, n, dropAll).addr[m] \in {NoAddr, f.addr[m]}
         /\ \A b \in Addrs : RemoveNode(f, n, dropAll).status[b] = "up" <=> f.status[b] = "up"
<1> DEFINE a == f.addr[n]
           d == IF dropAll THEN DropAssociated(f, a) ELSE RemoveNodeRef(f, n, a)
           u == RemoveUnusedLink(d, a)
           g == RemoveNode(f, n, dropAll)
<1>1. CASE a = NoAddr \/ ~ HasLink(f, a)
  BY <1>1 DEF RemoveNode
<1>2. CASE a # NoAddr /\ HasLink(f, a)
  <2>1. a \in Addrs
    BY <1>2 DEF Fibs
  <2>2. /\ d \in Fibs /\ d.status = f.status
        /\ \A m \in Nodes : d.addr[m] \in {NoAddr, f.addr[m]}
    <3>1. CASE dropAll
      <4> DEFINE left == [m \in Nodes |-> IF f.refs[a][m] > 0 THEN NoAddr ELSE f.addr[m]]
      <4>1. d = [f EXCEPT !.addr = left, !.refs[a] = NoRefs]
        BY <3>1 DEF DropAssociated
      <4>2. left \in [Nodes -> Addrs \cup {NoAddr}] /\ NoRefs \in [Nodes -> Nat]
        BY DEF Fibs, NoRefs
      <4>3. \A m \in Nodes : left[m] \in {NoAddr, f.addr[m]}
        OBVIOUS
      <4> HIDE DEF a, d, left
      <4>4. d.addr = left /\ d.status = f.status /\ d \in Fibs
        BY <2>1, <4>1, <4>2 DEF Fibs
      <4> QED BY <4>3, <4>4
    <3>2. CASE ~ dropAll
      <4>1. d = RemoveNodeRef(f, n, a)
        BY <3>2
      <4>2. f.refs[a][n] = 1
        BY <2>1 DEF Consistent
      <4>3. d = [f EXCEPT !.refs[a][n] = 0]
        BY <1>2, <4>1, <4>2 DEF RemoveNodeRef
      <4> HIDE DEF a, d
      <4> QED BY <2>1, <4>3 DEF Fibs
    <3> QED BY <3>1, <3>2
  <2>3. g = [u EXCEPT !.addr[n] = NoAddr]
    BY <1>2 DEF RemoveNode
  <2> HIDE DEF a, d, g
  <2>4. /\ u \in Fibs /\ u.addr = d.addr
        /\ \A b \in Addrs : u.status[b] = "up" <=> d.status[b] = "up"
    <3>1. CASE u = d
      BY <2>2, <3>1
    <3>2. CASE u = [d EXCEPT !.status[a] = "none"] /\ d.status[a] # "up"
      <4> HIDE DEF u
      <4> QED BY <2>1, <2>2, <3>2 DEF Fibs, Status
    <3> QED BY <3>1, <3>2 DEF RemoveUnusedLink, RemoveLink
  <2> HIDE DEF u
  <2>5. g.status = u.status /\ \A m \in Nodes : g.addr[m] = IF m = n THEN NoAddr ELSE u.addr[m]
    BY <2>3, <2>4 DEF Fibs
  <2> QED BY <2>2, <2>4, <2>5 DEF g
<1> QED BY <1>1, <1>2

\* What inform_link_status_change makes of a FIB f.
Informed(f, a, st) ==
  /\ subs' = subs
  /\ \A n \in Nodes : fib'.addr[n] = f.addr[n]
  /\ fib'.status[a] = "up" <=> st = "up"
  /\ \A b \in Addrs \ {a} : fib'.status[b] = "up" <=> f.status[b] = "up"
  /\ \A g \in Agents, n \in Nodes :
       knows'[g][n] = IF g \in subs /\ f.addr[n] = a THEN [addr |-> a, status |-> st]
                      ELSE knows[g][n]

\* inform_link_status_change: the link with a gets the status, and the subscribers are told
\* of exactly the nodes behind it.
LEMMA InformKeeps ==
  ASSUME NEW f \in Fibs, Consistent(f), NEW a \in Addrs, NEW st \in {"up", "down"},
         FibType, InformLinkStatusChange(f, a, st)
  PROVE  Informed(f, a, st)
<1> DEFINE l == InsertLink(f, a)
           w == WithStatus(f, a, st)
<1>1. l \in Fibs /\ Consistent(l) /\ l.addr = f.addr
  BY InsertLinkLemma
<1>2. \A b \in Addrs \ {a} : l.status[b] = f.status[b]
  BY DEF InsertLink, Fibs
<1>3. w = [l EXCEPT !.status[a] = st]
  BY DEF WithStatus
<1> HIDE DEF l, w
<1>4. /\ w \in Fibs /\ w.addr = f.addr /\ w.refs = l.refs /\ w.status[a] = st
      /\ \A b \in Addrs \ {a} : w.status[b] = f.status[b]
  BY <1>1, <1>2, <1>3 DEF Fibs, Status
<1>5. ASSUME NEW n \in Nodes PROVE w.refs[a][n] > 0 <=> f.addr[n] = a
  <2>1. w.refs[a][n] = IF f.addr[n] = a THEN 1 ELSE 0
    BY <1>1, <1>4 DEF Consistent
  <2> QED BY <2>1
<1>6. Tell(w, { n \in Nodes : w.refs[a][n] > 0 }, subs) /\ UNCHANGED subs
  BY DEF InformLinkStatusChange, w
<1>7. ASSUME NEW g \in Agents, NEW n \in Nodes
      PROVE  knows'[g][n] = IF g \in subs /\ f.addr[n] = a THEN [addr |-> a, status |-> st]
                            ELSE knows[g][n]
  BY <1>4, <1>5, <1>6, NoAddrAssumption DEF Tell
<1>8. /\ fib'.addr = w.addr
      /\ \A b \in Addrs : fib'.status[b] = w.status[b] \/ (b = a /\ st = "down" /\ fib'.status[b] = "none")
  <2>1. CASE fib' = w
    BY <2>1
  <2>2. CASE st = "down" /\ fib' = [w EXCEPT !.status[a] = "none"]
    BY <1>4, <2>2 DEF Fibs
  <2> QED BY <2>1, <2>2 DEF InformLinkStatusChange, RemoveLink, w
<1> QED BY <1>4, <1>6, <1>7, <1>8 DEF Informed

\* A step that leaves the FIB and every link alone, and signals none.
LEMMA QuietLinks ==
  ASSUME IInv, LinkInv, Tasks', \A a : Held(a)' <=> Held(a), UNCHANGED fibVars,
         \/ queue' = queue
         \/ \E s \in Signal : s.type \notin {"up", "down"} /\ queue' = Append(queue, s)
  PROVE  LinkInv'
<1>1. ASSUME NEW a
      PROVE  /\ About(queue', a) = About(queue, a)
             /\ \A st, held : Says(queue, a, st, held) => Says(queue', a, st, held)
  <2>1. CASE queue' = queue
    BY <2>1
  <2>2. ASSUME NEW s \in Signal, s.type \notin {"up", "down"}, queue' = Append(queue, s)
        PROVE  /\ About(queue', a) = About(queue, a)
               /\ \A st, held : Says(queue, a, st, held) => Says(queue', a, st, held)
    BY <2>2, AppendedOther DEF IInv, TypeOK, LinkSignal
  <2> QED BY <2>1, <2>2
<1>2. StatusFollows'
  <2> SUFFICES ASSUME NEW a \in Addrs PROVE Says(queue, a, fib.status[a], Held(a))'
    BY DEF StatusFollows
  <2>1. Says(queue', a, fib.status[a], Held(a))
    BY <1>1 DEF LinkInv, StatusFollows
  <2> QED BY <2>1 DEF Says, fibVars
<1>3. AgentsKnowUp'
  BY <1>1 DEF LinkInv, AgentsKnowUp, Pending, About, fibVars
<1> QED BY <1>2, <1>3 DEF LinkInv

\* A handler that changes no link takes the first signal: what is to be shown of the FIB.
LEMMA HandledLinks ==
  ASSUME IInv, LinkInv, queue # <<>>, queue' = Tail(queue),
         Tasks', \A a : Held(a)' <=> Held(a),
         \A a \in Addrs :
           /\ Head(queue) = LinkSignal("up", a) => fib'.status[a] = "up"
           /\ Head(queue) = LinkSignal("down", a) => fib'.status[a] # "up"
           /\ Head(queue) \notin {LinkSignal("up", a), LinkSignal("down", a)} =>
                \/ fib'.status[a] = "up" <=> fib.status[a] = "up"
                \/ Held(a) /\ fib'.status[a] = "up"
  PROVE  StatusFollows'
<1> SUFFICES ASSUME NEW a \in Addrs PROVE Says(queue, a, fib.status[a], Held(a))'
  BY DEF StatusFollows
<1>1. Held(a) \in BOOLEAN
  BY DEF Held
<1>2. queue \in Seq(Signal) /\ Says(queue, a, fib.status[a], Held(a))
  BY DEF IInv, TypeOK, LinkInv, StatusFollows
<1> DEFINE held == Held(a)
           new == fib'.status[a]
<1>3. Says(Tail(queue), a, new, held)
  <2> HIDE DEF held
  <2>1. Says(queue, a, fib.status[a], held)
    BY <1>2 DEF held
  <2>2. held \in BOOLEAN
    BY <1>1 DEF held
  <2>3. Head(queue) \notin {LinkSignal("up", a), LinkSignal("down", a)} =>
          (new = "up" <=> fib.status[a] = "up") \/ (held /\ new = "up")
    BY DEF held
  <2> HIDE DEF new
  <2>4. /\ Head(queue) = LinkSignal("up", a) => new = "up"
        /\ Head(queue) = LinkSignal("down", a) => new # "up"
    BY DEF new
  <2> QED BY <1>2, <2>1, <2>2, <2>3, <2>4, Handled
<1> QED BY <1>3 DEF Says

\* The management tasks: a link is held from the signal that says so to the one that ends it.
LEMMA ManagerLinks ==
  ASSUME IInv, LinkInv, NEW m \in Managers, Manager(m) \/ LinkLost(m)
  PROVE  LinkInv'
<1> DEFINE e == mgr[m]
<1>0. ClaInv /\ Tasks /\ queue \in Seq(Signal)
  BY DEF IInv, TypeOK, ClaInv, LinkInv
<1>1. /\ e \in Entries /\ (e.at # "free" => e.addr \in Addrs)
      /\ e.socket <=> e.at \in {"linking", "linked", "closing", "cleaning"}
  BY <1>0 DEF ClaInv, ClaType, ManagersAddressed, Entries, Tasks
<1>2. mgr = [mgr EXCEPT ![m] = e] /\ DOMAIN mgr = Managers
  BY <1>0 DEF ClaInv, ClaType
<1>3. e.at # "free" => (Held(e.addr) <=> e.at \in {"linked", "closing", "cleaning"})
  BY <1>0, Owner
<1>4. UNCHANGED fibVars
  BY DEF Manager, LinkEstablished, LinkCleanup, ManagerMoves, LinkLost
\* A step within the task that neither begins nor ends its hold.
<1>5. ASSUME NEW d \in Entries, d.at # "free", d.addr = e.addr, e.at # "free",
             d.socket <=> d.at \in {"linking", "linked", "closing", "cleaning"},
             d.at \in {"linked", "closing", "cleaning"} <=> e.at \in {"linked", "closing", "cleaning"},
             mgr' = [mgr EXCEPT ![m] = d], UNCHANGED <<param_htab, queue>>
      PROVE  LinkInv'
  <2>1. Tasks' /\ \A a : Held(a)' <=> Held(a)
    BY <1>0, <1>3, <1>5, InPlace
  <2> QED BY <1>4, <1>5, <2>1, QuietLinks
\* A step that does, with its signal.
<1>6. ASSUME NEW d \in Entries, NEW held \in BOOLEAN,
             d.at # "free", d.addr = e.addr, e.at # "free",
             d.socket <=> d.at \in {"linking", "linked", "closing", "cleaning"},
             d.at \in {"linked", "closing", "cleaning"} <=> held,
             mgr' = [mgr EXCEPT ![m] = d], UNCHANGED param_htab,
             queue' = Append(queue, LinkSignal(IF held THEN "up" ELSE "down", e.addr))
      PROVE  LinkInv'
  <2> DEFINE s == LinkSignal(IF held THEN "up" ELSE "down", e.addr)
  <2>1. Tasks' /\ \A a : Held(a)' <=> IF a = e.addr THEN held ELSE Held(a)
    BY <1>0, <1>6, InPlace
  <2>2. s \in Signal /\ e.addr \in Addrs /\ s \in {LinkSignal("up", e.addr), LinkSignal("down", e.addr)}
    BY <1>1, <1>6 DEF Signal, LinkSignal
  <2>3. ASSUME NEW a, a # e.addr
        PROVE  s \notin {LinkSignal("up", a), LinkSignal("down", a)}
    BY <2>3 DEF LinkSignal
  <2>4. ASSUME NEW a \in Addrs PROVE Says(queue, a, fib.status[a], Held(a))'
    <3>1. CASE a = e.addr
      <4>1. Says(queue', a, fib.status[a], held)
        BY <1>0, <1>6, <3>1, AppendedOwn
      <4> QED BY <1>4, <2>1, <3>1, <4>1 DEF Says, fibVars
    <3>2. CASE a # e.addr
      <4> HIDE DEF s
      <4>1. Says(queue, a, fib.status[a], Held(a))
        BY DEF LinkInv, StatusFollows
      <4>2. Says(queue', a, fib.status[a], Held(a))
        BY <1>0, <1>6, <2>2, <2>3, <3>2, <4>1, AppendedOther DEF s
      <4> QED BY <1>4, <2>1, <3>2, <4>2 DEF Says, fibVars
    <3> QED BY <3>1, <3>2
  <2>5. ASSUME NEW a, Pending(a) PROVE Pending(a)'
    <3>1. Len(queue') = Len(queue) + 1 /\ Len(queue) \in Nat
          /\ \A i \in 1..Len(queue) : queue'[i] = queue[i]
      BY <1>0, <1>6, <2>2
    <3> QED BY <2>5, <3>1 DEF Pending
  <2>6. AgentsKnowUp'
    BY <1>4, <2>5 DEF LinkInv, AgentsKnowUp, fibVars
  <2> QED BY <2>1, <2>4, <2>6 DEF LinkInv, StatusFollows
<1>7. CASE LinkEstablished(m)
  <2> DEFINE d == [e EXCEPT !.at = "linked"]
  <2>1. e.at = "linking" /\ mgr' = [mgr EXCEPT ![m] = d] /\ UNCHANGED param_htab
        /\ queue' = Append(queue, LinkSignal(IF TRUE THEN "up" ELSE "down", e.addr))
    BY <1>1, <1>2, <1>7 DEF LinkEstablished, Reported, Inform
  <2>2. d \in Entries /\ d.at = "linked" /\ d.addr = e.addr /\ d.socket = e.socket
    BY <1>1 DEF Entries
  <2> HIDE DEF d
  <2> QED BY <1>1, <1>6, <2>1, <2>2
<1>8. CASE LinkCleanup(m)
  <2> DEFINE d == AfterLink(e)
  <2>1. e.at = "cleaning" /\ mgr' = [mgr EXCEPT ![m] = d] /\ UNCHANGED param_htab
        /\ queue' = Append(queue, LinkSignal(IF FALSE THEN "up" ELSE "down", e.addr))
    BY <1>1, <1>2, <1>8 DEF LinkCleanup, Cleanup, Inform
  <2>2. d \in Entries /\ d.at \in {"connecting", "leaving"} /\ d.addr = e.addr /\ ~ d.socket
    BY <1>1 DEF Entries, AfterLink, Ended
  <2> HIDE DEF d
  <2> QED BY <1>1, <1>6, <2>1, <2>2
<1>9. CASE ManagerMoves(m)
  <2>0. UNCHANGED queue
    BY <1>9 DEF ManagerMoves
  <2>1. CASE GiveUp(m)
    <3> DEFINE d == Ended(e)
    <3>1. e.at = "connecting" /\ mgr' = [mgr EXCEPT ![m] = d] /\ UNCHANGED param_htab
      BY <2>1 DEF GiveUp
    <3>2. d \in Entries /\ d.at = "leaving" /\ d.addr = e.addr /\ ~ d.socket
      BY <1>1 DEF Entries, Ended
    <3> HIDE DEF d
    <3> QED BY <1>5, <2>0, <3>1, <3>2
  <2>2. CASE Connect(m)
    <3> DEFINE d == [e EXCEPT !.at = "linking", !.socket = TRUE]
    <3>1. e.at = "connecting" /\ mgr' = [mgr EXCEPT ![m] = d] /\ UNCHANGED param_htab
      BY <1>2, <2>2 DEF Connect
    <3>2. d \in Entries /\ d.at = "linking" /\ d.addr = e.addr /\ d.socket
      BY <1>1 DEF Entries
    <3> HIDE DEF d
    <3> QED BY <1>5, <2>0, <3>1, <3>2
  <2>3. CASE StartCleanup(m)
    <3> DEFINE d == [e EXCEPT !.at = "cleaning"]
    <3>1. e.at = "closing" /\ mgr' = [mgr EXCEPT ![m] = d] /\ UNCHANGED param_htab
      BY <1>2, <2>3 DEF StartCleanup
    <3>2. d \in Entries /\ d.at = "cleaning" /\ d.addr = e.addr /\ d.socket = e.socket
      BY <1>1 DEF Entries
    <3> HIDE DEF d
    <3> QED BY <1>1, <1>5, <2>0, <3>1, <3>2
  <2>4. CASE Leave(m)
    BY <1>0, <1>4, <2>0, <2>4, LeaveKeeps, QuietLinks
  <2> QED BY <1>9, <2>1, <2>2, <2>3, <2>4 DEF ManagerMoves
<1>10. CASE LinkLost(m)
  <2> DEFINE d == [e EXCEPT !.at = "closing"]
  <2>1. /\ e.at = "linked" /\ mgr' = [mgr EXCEPT ![m] = d]
        /\ UNCHANGED param_htab /\ UNCHANGED queue
    BY <1>2, <1>10 DEF LinkLost, Disconnect
  <2>2. d \in Entries /\ d.at = "closing" /\ d.addr = e.addr /\ d.socket = e.socket
    BY <1>1 DEF Entries
  <2> HIDE DEF d
  <2> QED BY <1>1, <1>5, <2>1, <2>2
<1> QED BY <1>7, <1>8, <1>9, <1>10 DEF Manager

\* Those who send requests.
LEMMA SenderLinks ==
  ASSUME IInv, LinkInv,
         ClientCalls \/ ContactCheck \/ ContactCreate \/ ContactDrop \/ TimePasses
  PROVE  LinkInv'
<1>1. UNCHANGED <<fibVars, claVars>>
  BY DEF ClientCalls, ContactCheck, ContactCreate, ContactDrop, TimePasses
<1>2. Tasks' /\ \A a : Held(a)' <=> Held(a)
  BY <1>1 DEF LinkInv, Tasks, Held, HasEntry, Entry, claVars
<1>3. ASSUME NEW c \in ContactList, NEW t \in {"create", "drop"}
      PROVE  Request(t, c.node, c.addr) \in Signal /\ Request(t, c.node, c.addr).type = t
  BY ContactListAssumption DEF Signal, Request, RequestTypes
<1>4. \/ queue' = queue
      \/ \E s \in Signal : s.type \notin {"up", "down"} /\ queue' = Append(queue, s)
  <2>1. CASE ClientCalls
    BY <2>1, CallsAssumption DEF ClientCalls, Inform
  <2>2. CASE ContactCreate
    <3>1. PICK c \in added : queue' = Append(queue, Request("create", c.node, c.addr))
      BY <2>2 DEF ContactCreate, Inform
    <3> QED BY <1>3, <3>1 DEF IInv, TypeOK, ContactType
  <2>3. CASE ContactDrop
    <3>1. PICK c \in removed : queue' = Append(queue, Request("drop", c.node, c.addr))
      BY <2>3 DEF ContactDrop, Inform
    <3> QED BY <1>3, <3>1 DEF IInv, TypeOK, ContactType
  <2>4. CASE ContactCheck \/ TimePasses
    BY <2>4 DEF ContactCheck, TimePasses
  <2> QED BY <2>1, <2>2, <2>3, <2>4
<1> QED BY <1>1, <1>2, <1>4, QuietLinks

\* The bundle processor's handlers.
LEMMA ProcessorLinks ==
  ASSUME IInv, LinkInv, BundleProcessor
  PROVE  LinkInv'
<1> DEFINE s == Head(queue)
<1>0. /\ ClaInv /\ Tasks /\ queue \in Seq(Signal) /\ FibType
      /\ fib \in Fibs /\ Consistent(fib) /\ AgentsKnowUp /\ StatusFollows
  BY DEF IInv, TypeOK, ClaInv, LinkInv, FibType, FibConsistent
<1>a. ASSUME NEW type, Receive(type)
      PROVE  s \in Signal /\ s.type = type /\ queue # <<>> /\ queue' = Tail(queue)
  BY <1>0, <1>a DEF Receive
<1>b. ASSUME NEW t \in RequestTypes, s \in Signal, s.type = t
      PROVE  s.node \in Nodes /\ s.addr \in Addrs
  BY <1>b DEF Signal, RequestTypes
<1>c. ASSUME NEW t \in {"up", "down"}, s \in Signal, s.type = t
      PROVE  s.addr \in Addrs /\ s = LinkSignal(t, s.addr)
  BY <1>c DEF Signal, RequestTypes, LinkSignal
<1>d. ASSUME s.type \notin {"up", "down"}, NEW a
      PROVE  s \notin {LinkSignal("up", a), LinkSignal("down", a)}
  BY <1>d DEF LinkSignal
\* A link that no signal is about any more was not signalled of before, unless by s.
<1>e. ASSUME NEW a, queue # <<>>, queue' = Tail(queue), About(queue', a) = {},
             s \notin {LinkSignal("up", a), LinkSignal("down", a)}
      PROVE  About(queue, a) = {}
  BY <1>0, <1>e, NotPending
\* AgentsKnowUp, with the link named by what holds before the step.
<1>h. ASSUME NEW g \in subs, NEW n \in Nodes, NEW a, fib.addr[n] = a, a # NoAddr,
             About(queue, a) = {}, fib.status[a] = "up"
      PROVE  knows[g][n] = [addr |-> a, status |-> "up"]
  BY <1>0, <1>h DEF AgentsKnowUp, Pending, About
\* And what is to be shown of it after the step.
<1>i. ASSUME \A g \in subs', n \in Nodes, a \in Addrs :
               /\ fib'.addr[n] = a /\ About(queue', a) = {} /\ fib'.status[a] = "up"
               => knows'[g][n] = [addr |-> a, status |-> "up"],
             \A n \in Nodes : fib'.addr[n] \in Addrs \cup {NoAddr}
      PROVE  AgentsKnowUp'
  BY <1>i DEF AgentsKnowUp, Pending, About
<1>f. UNCHANGED claVars => Tasks' /\ \A a : Held(a)' <=> Held(a)
  BY <1>0 DEF Tasks, Held, HasEntry, Entry, claVars
\* Requests that only take nodes away, and registrations.
<1>g. ASSUME queue # <<>>, queue' = Tail(queue), s.type \notin {"up", "down"},
             Tasks', \A a : Held(a)' <=> Held(a),
             \A n \in Nodes : fib'.addr[n] \in {NoAddr, fib.addr[n]},
             \A a \in Addrs : fib'.status[a] = "up" <=> fib.status[a] = "up",
             subs' \subseteq subs, \A g \in subs' : knows'[g] = knows[g]
      PROVE  LinkInv'
  <2>1. StatusFollows'
    BY <1>d, <1>g, HandledLinks
  <2>2. ASSUME NEW g \in subs', NEW n \in Nodes, NEW a \in Addrs,
               fib'.addr[n] = a, About(queue', a) = {}, fib'.status[a] = "up"
        PROVE  knows'[g][n] = [addr |-> a, status |-> "up"]
    <3>1. fib.addr[n] = a /\ a # NoAddr /\ fib.status[a] = "up"
      BY <1>g, <2>2, NoAddrAssumption
    <3>2. About(queue, a) = {}
      BY <1>d, <1>e, <1>g, <2>2
    <3> QED BY <1>g, <1>h, <3>1, <3>2
  <2>3. \A n \in Nodes : fib'.addr[n] \in Addrs \cup {NoAddr}
    BY <1>0, <1>g DEF Fibs
  <2>4. AgentsKnowUp'
    BY <1>i, <2>2, <2>3
  <2> QED BY <1>g, <2>1, <2>4 DEF LinkInv
<1>1. CASE CreateLink
  <2> DEFINE n == s.node
             a == s.addr
             f == InsertNode(fib, n, a)
  <2>1. /\ n \in Nodes /\ a \in Addrs /\ queue # <<>> /\ queue' = Tail(queue)
        /\ s.type \notin {"up", "down"}
    BY <1>1, <1>a, <1>b DEF CreateLink, RequestTypes
  <2>2. f \in Fibs /\ Consistent(f)
    BY <1>0, <2>1, InsertNodeLemma
  <2>3. /\ \A m \in Nodes : f.addr[m] = IF m = n THEN a ELSE fib.addr[m]
        /\ \A b \in Addrs : f.status[b] = "up" <=> fib.status[b] = "up"
    BY <1>0, <2>1, InsertNodeKeeps
  <2>4. /\ Tasks' /\ \A b : Held(b)' <=> Held(b)
        /\ (a \in Served /\ StartFindsActive(a)) <=> Held(a)
    <3>1. CASE a \in Served
      <4>1. StartScheduledContact(a)
        BY <1>1, <3>1 DEF CreateLink
      <4> QED BY <1>0, <3>1, <4>1, StartKeeps
    <3>2. CASE a \notin Served
      <4>1. UNCHANGED claVars
        BY <1>1, <3>2 DEF CreateLink
      <4>2. ~ Held(a)
        BY <1>0, <3>2 DEF Held, Tasks
      <4> QED BY <1>f, <3>2, <4>1, <4>2
    <3> QED BY <3>1, <3>2
  <2>5. CASE Held(a)
    <3>1. InformLinkStatusChange(f, a, "up")
      BY <1>1, <2>4, <2>5 DEF CreateLink
    <3>2. /\ subs' = subs
          /\ \A m \in Nodes : fib'.addr[m] = f.addr[m]
          /\ fib'.status[a] = "up"
          /\ \A b \in Addrs \ {a} : fib'.status[b] = "up" <=> f.status[b] = "up"
          /\ \A g \in Agents, m \in Nodes :
               knows'[g][m] = IF g \in subs /\ f.addr[m] = a THEN [addr |-> a, status |-> "up"]
                              ELSE knows[g][m]
      <4> HIDE DEF f, a
      <4>1. Informed(f, a, "up")
        BY <1>0, <2>1, <2>2, <3>1, InformKeeps
      <4> QED BY <4>1 DEF Informed
    <3> HIDE DEF f, n, a, s
    <3>3. StatusFollows'
      <4>1. ASSUME NEW b \in Addrs
            PROVE  \/ fib'.status[b] = "up" <=> fib.status[b] = "up"
                   \/ Held(b) /\ fib'.status[b] = "up"
        BY <2>3, <2>5, <3>2
      <4> QED BY <1>d, <2>1, <2>4, <4>1, HandledLinks DEF s
    <3>4. ASSUME NEW g \in subs', NEW m \in Nodes, NEW b \in Addrs,
                 fib'.addr[m] = b, About(queue', b) = {}, fib'.status[b] = "up"
          PROVE  knows'[g][m] = [addr |-> b, status |-> "up"]
      <4>0. g \in Agents /\ g \in subs /\ b # NoAddr
        BY <1>0, <3>2, NoAddrAssumption DEF FibType
      <4>1. CASE b = a
        BY <3>2, <3>4, <4>0, <4>1
      <4>2. CASE b # a
        <5>1. fib.addr[m] = b /\ fib.status[b] = "up"
          BY <2>3, <3>2, <3>4, <4>2
        <5>2. About(queue, b) = {}
          BY <1>d, <1>e, <2>1, <3>4 DEF s
        <5>3. knows[g][m] = [addr |-> b, status |-> "up"]
          BY <1>h, <4>0, <5>1, <5>2
        <5> QED BY <3>2, <3>4, <4>0, <4>2, <5>3
      <4> QED BY <4>1, <4>2
    <3>5. \A m \in Nodes : fib'.addr[m] \in Addrs \cup {NoAddr}
      BY <2>2, <3>2 DEF Fibs
    <3>6. AgentsKnowUp'
      BY <1>i, <3>4, <3>5
    <3> QED BY <2>4, <3>3, <3>6 DEF LinkInv
  <2>6. CASE ~ Held(a)
    <3>1. fib' = f /\ subs' = subs /\ knows' = knows
      BY <1>1, <2>4, <2>6 DEF CreateLink
    <3> HIDE DEF f, n, a, s
    <3>2. StatusFollows'
      BY <1>d, <2>1, <2>3, <2>4, <3>1, HandledLinks DEF s
    <3>3. ASSUME NEW g \in subs', NEW m \in Nodes, NEW b \in Addrs,
                 fib'.addr[m] = b, About(queue', b) = {}, fib'.status[b] = "up"
          PROVE  knows'[g][m] = [addr |-> b, status |-> "up"]
      <4>1. fib.status[b] = "up" /\ b # NoAddr
        BY <2>3, <3>1, <3>3, NoAddrAssumption
      <4>2. About(queue, b) = {}
        BY <1>d, <1>e, <2>1, <3>3 DEF s
      <4>3. Held(b)
        BY <1>0, <4>1, <4>2 DEF StatusFollows, Says
      <4>4. fib.addr[m] = b
        BY <2>3, <2>6, <3>1, <3>3, <4>3
      <4> QED BY <1>h, <3>1, <4>1, <4>2, <4>4
    <3>4. \A m \in Nodes : fib'.addr[m] \in Addrs \cup {NoAddr}
      BY <2>2, <3>1 DEF Fibs
    <3>5. AgentsKnowUp'
      BY <1>i, <3>3, <3>4
    <3> QED BY <2>4, <3>2, <3>5 DEF LinkInv
  <2> QED BY <2>5, <2>6
<1>2. CASE DropLink
  <2>1. /\ s.node \in Nodes /\ s.addr \in Addrs /\ queue # <<>> /\ queue' = Tail(queue)
        /\ s.type \notin {"up", "down"}
    BY <1>2, <1>a, <1>b DEF DropLink, RequestTypes
  <2>2. fib' = RemoveNode(fib, s.node, s.addr \notin Generic) /\ subs' = subs /\ knows' = knows
    BY <1>2 DEF DropLink
  <2>3. /\ \A m \in Nodes : fib'.addr[m] \in {NoAddr, fib.addr[m]}
        /\ \A b \in Addrs : fib'.status[b] = "up" <=> fib.status[b] = "up"
    <3>1. (s.addr \notin Generic) \in BOOLEAN
      OBVIOUS
    <3> QED BY <1>0, <2>1, <2>2, <3>1, RemoveNodeKeeps, ZenonT(60)
  <2>4. Tasks' /\ \A a : Held(a)' <=> Held(a)
    BY <1>0, <1>2, <1>f, EndKeeps DEF DropLink
  <2> QED BY <1>g, <2>1, <2>2, <2>3, <2>4
<1>3. CASE DeleteNodeAssociation
  <2>1. /\ s.node \in Nodes /\ queue # <<>> /\ queue' = Tail(queue)
        /\ s.type \notin {"up", "down"} /\ UNCHANGED claVars
    BY <1>3, <1>a, <1>b DEF DeleteNodeAssociation, RequestTypes
  <2>2. fib' = RemoveNode(fib, s.node, FALSE) /\ subs' = subs /\ knows' = knows
    BY <1>3 DEF DeleteNodeAssociation
  <2>3. /\ \A m \in Nodes : fib'.addr[m] \in {NoAddr, fib.addr[m]}
        /\ \A b \in Addrs : fib'.status[b] = "up" <=> fib.status[b] = "up"
    BY <1>0, <2>1, <2>2, RemoveNodeKeeps
  <2> QED BY <1>f, <1>g, <2>1, <2>2, <2>3
\* A signal about a link: its subscribers hear of every node behind it.
<1>4. ASSUME NEW st \in {"up", "down"}, Receive(st), UNCHANGED claVars,
             InformLinkStatusChange(fib, s.addr, st)
      PROVE  LinkInv'
  <2> DEFINE a == s.addr
  <2>1. /\ a \in Addrs /\ s = LinkSignal(st, a) /\ queue # <<>> /\ queue' = Tail(queue)
        /\ InformLinkStatusChange(fib, a, st)
    BY <1>4, <1>a, <1>c
  <2> HIDE DEF a, s
  <2>2. /\ subs' = subs
        /\ \A m \in Nodes : fib'.addr[m] = fib.addr[m]
        /\ fib'.status[a] = "up" <=> st = "up"
        /\ \A b \in Addrs \ {a} : fib'.status[b] = "up" <=> fib.status[b] = "up"
        /\ \A g \in Agents, m \in Nodes :
             knows'[g][m] = IF g \in subs /\ fib.addr[m] = a THEN [addr |-> a, status |-> st]
                            ELSE knows[g][m]
    <3>1. Informed(fib, a, st)
      BY <1>0, <2>1, InformKeeps
    <3> QED BY <3>1 DEF Informed
  <2>3. Tasks' /\ \A b : Held(b)' <=> Held(b)
    BY <1>4, <1>f DEF s
  <2>4. \A b \in Addrs, t \in {"up", "down"} : s = LinkSignal(t, b) <=> t = st /\ b = a
    BY <2>1 DEF LinkSignal
  <2>5. StatusFollows'
    <3>1. ASSUME NEW b \in Addrs
          PROVE  /\ s = LinkSignal("up", b) => fib'.status[b] = "up"
                 /\ s = LinkSignal("down", b) => fib'.status[b] # "up"
                 /\ s \notin {LinkSignal("up", b), LinkSignal("down", b)} =>
                      (fib'.status[b] = "up" <=> fib.status[b] = "up")
      BY <2>2, <2>4
    <3> QED BY <2>1, <2>3, <3>1, HandledLinks DEF s
  <2>6. ASSUME NEW g \in subs', NEW m \in Nodes, NEW b \in Addrs,
               fib'.addr[m] = b, About(queue', b) = {}, fib'.status[b] = "up"
        PROVE  knows'[g][m] = [addr |-> b, status |-> "up"]
    <3>1. g \in Agents /\ g \in subs /\ fib.addr[m] = b /\ b # NoAddr
      BY <1>0, <2>2, <2>6, NoAddrAssumption DEF FibType
    <3>2. CASE b = a
      BY <2>2, <2>6, <3>1, <3>2
    <3>3. CASE b # a
      <4>1. s \notin {LinkSignal("up", b), LinkSignal("down", b)}
        BY <2>4, <3>3
      <4>2. fib.status[b] = "up" /\ About(queue, b) = {}
        BY <1>e, <2>1, <2>2, <2>6, <3>3, <4>1 DEF s
      <4> QED BY <1>h, <2>2, <3>1, <3>3, <4>2
    <3> QED BY <3>2, <3>3
  <2>7. \A m \in Nodes : fib'.addr[m] \in Addrs \cup {NoAddr}
    BY <1>0, <2>2 DEF Fibs
  <2>8. AgentsKnowUp'
    BY <1>i, <2>6, <2>7
  <2> QED BY <2>3, <2>5, <2>8 DEF LinkInv
<1>5. CASE RegisterAgent
  <2> DEFINE g == s.agent
  <2>1. /\ queue # <<>> /\ queue' = Tail(queue) /\ s.type \notin {"up", "down"}
        /\ fib' = fib /\ subs' = subs \cup {g} /\ g \in Agents
        /\ Tell(fib, Nodes, subs') /\ UNCHANGED claVars
    BY <1>5, <1>a DEF RegisterAgent, Register, Signal, RequestTypes
  <2>2. Tasks' /\ \A a : Held(a)' <=> Held(a)
    BY <1>f, <2>1
  <2>3. StatusFollows'
    BY <1>d, <2>1, <2>2, HandledLinks
  <2>4. ASSUME NEW h \in subs', NEW n \in Nodes, fib.addr[n] # NoAddr
        PROVE  knows'[h][n] = [addr |-> fib.addr[n], status |-> fib.status[fib.addr[n]]]
    BY <1>0, <2>1, <2>4 DEF Tell, FibType
  <2>5. AgentsKnowUp'
    BY <2>1, <2>4 DEF AgentsKnowUp
  <2> QED BY <2>2, <2>3, <2>5 DEF LinkInv
<1>6. CASE DeregisterAgent
  <2> DEFINE g == s.agent
  <2>1. /\ queue # <<>> /\ queue' = Tail(queue) /\ s.type \notin {"up", "down"}
        /\ fib' = fib /\ subs' = subs \ {g} /\ UNCHANGED claVars
        /\ knows' = [knows EXCEPT ![g] = [n \in Nodes |-> Nothing]]
    BY <1>6, <1>a DEF DeregisterAgent, Deregister
  <2>2. \A h \in subs' : knows'[h] = knows[h]
    BY <1>0, <2>1 DEF FibType
  <2> QED BY <1>f, <1>g, <2>1, <2>2
<1> QED BY <1>1, <1>2, <1>3, <1>4, <1>5, <1>6 DEF BundleProcessor, LinkUp, LinkDown

\* Whatever requests, links, losses and registrations meet in the queue: once no signal about
\* a link is under way the FIB has it as up exactly if its connection exists, and each agent
\* knows of the nodes behind it.
THEOREM LinksStayKnown == Spec => []LinksKnown
<1>1. Init => LinkInv
  <2> SUFFICES ASSUME Init PROVE LinkInv
    OBVIOUS
  <2>1. Tasks
    BY DEF Init, ClaInit, Free, Tasks, HasEntry
  <2>2. \A a : About(queue, a) = {} /\ ~ Held(a)
    BY DEF Init, ClaInit, Free, About, Held
  <2>3. StatusFollows
    BY <2>2 DEF Init, FibInit, StatusFollows, Says
  <2> QED BY <2>1, <2>3 DEF Init, FibInit, LinkInv, AgentsKnowUp
<1>2. IInv /\ LinkInv /\ [Next]_vars => LinkInv'
  <2> SUFFICES ASSUME IInv, LinkInv, [Next]_vars PROVE LinkInv'
    OBVIOUS
  <2>1. CASE UNCHANGED vars
    <3>1. Tasks' /\ \A a : Held(a)' <=> Held(a)
      BY <2>1 DEF LinkInv, Tasks, Held, HasEntry, Entry, claVars, vars
    <3> QED BY <2>1, <3>1, QuietLinks DEF vars
  <2>2. CASE Next
    BY <2>1, <2>2, SenderLinks, ProcessorLinks, ManagerLinks DEF Next, Done
  <2> QED BY <2>1, <2>2
<1>3. LinkInv => LinksKnown
  <2> SUFFICES ASSUME LinkInv, NEW a \in Addrs, ~ Pending(a), ~ Changing(a)
               PROVE  fib.status[a] = "up" <=> Linked(a)
    BY DEF LinkInv, LinksKnown, LinkStatusTrue
  <2>1. fib.status[a] = "up" <=> Held(a)
    BY DEF LinkInv, StatusFollows, Says, About, Pending
  <2>2. Held(a) <=> Linked(a)
    BY DEF Held, Linked, Changing
  <2> QED BY <2>1, <2>2
<1> QED BY <1>1, <1>2, <1>3, Invariant, PTL DEF Spec
=============================================================================
