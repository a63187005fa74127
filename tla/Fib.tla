-------------------------------- MODULE Fib --------------------------------
(***************************************************************************)
(* The forwarding information base of uD3TN and the subscribers that are   *)
(* told about it.  A FIB is a record of                                    *)
(*   addr    the CLA address the node table maps a node ID to,             *)
(*   status  the status of the link with a CLA address ("none": no link),  *)
(*   refs    how often a node ID is in the reflist of a link.              *)
(* Only the bundle processor's task changes it.                            *)
(***************************************************************************)
EXTENDS Naturals

CONSTANTS
  Nodes, Agents,
  Addrs,        \* CLA addresses, such as "mtcp:10.0.0.2:4224"
  NoAddr,
  Generic,      \* addresses without a target, such as "smtcp:"
  Served        \* addresses of the CLA that is enabled

ASSUME NoAddrAssumption == NoAddr \notin Addrs
ASSUME ServedAssumption == Served \subseteq Addrs /\ Generic \subseteq Addrs

VARIABLES
  fib,
  subs,    \* the agents that subscribed to FIB updates
  knows    \* per agent and node, the last update it was sent: [addr, status]

Nothing == [addr |-> NoAddr, status |-> "none"]

NoRefs == [n \in Nodes |-> 0]

FibInit ==
  /\ fib = [addr |-> [n \in Nodes |-> NoAddr],
            status |-> [a \in Addrs |-> "none"],
            refs |-> [a \in Addrs |-> NoRefs]]
  /\ subs = {}
  /\ knows = [g \in Agents |-> [n \in Nodes |-> Nothing]]

-----------------------------------------------------------------------------
(* The operations of fib.c, as functions on a FIB. *)

HasLink(f, a) == f.status[a] # "none"

InsertLink(f, a) ==
  IF HasLink(f, a) THEN f
  ELSE [f EXCEPT !.status[a] = "unspecified", !.refs[a] = NoRefs]

\* The first entry of the reflist that names n is taken out, if there is one.
RemoveNodeRef(f, n, a) ==
  IF HasLink(f, a) /\ f.refs[a][n] > 0 THEN [f EXCEPT !.refs[a][n] = @ - 1] ELSE f

DropPrevious(f, n) ==
  IF f.addr[n] = NoAddr THEN f ELSE RemoveNodeRef(f, n, f.addr[n])

\* Mutant: the entry in the reflist of the previous link is forgotten.
InsertNodeKeepsRef(f, n, a) ==
  [InsertLink(f, a) EXCEPT !.addr[n] = a, !.refs[a][n] = @ + 1]

\* Overrides an existing mapping; the link it pointed to stays as it is.
InsertNode(f, n, a) ==
  [DropPrevious(InsertLink(f, a), n) EXCEPT !.addr[n] = a, !.refs[a][n] = @ + 1]

RemoveLink(f, a) ==
  IF HasLink(f, a) /\ f.refs[a] = NoRefs THEN [f EXCEPT !.status[a] = "none"] ELSE f

DropAssociated(f, a) ==
  [f EXCEPT !.addr = [n \in Nodes |-> IF f.refs[a][n] > 0 THEN NoAddr ELSE @[n]],
            !.refs[a] = NoRefs]

RemoveUnusedLink(f, a) == IF f.status[a] # "up" THEN RemoveLink(f, a) ELSE f

\* The link is the one the node is mapped to, whatever address was requested.
RemoveNode(f, n, dropAll) ==
  LET a == f.addr[n] IN
  IF a = NoAddr \/ ~ HasLink(f, a) THEN f
  ELSE [RemoveUnusedLink(IF dropAll THEN DropAssociated(f, a) ELSE RemoveNodeRef(f, n, a), a)
          EXCEPT !.addr[n] = NoAddr]

-----------------------------------------------------------------------------
(* What the bundle processor makes of them. *)

\* fib_foreach with send_fib_to_agent over the nodes in ns, to the agents in gs.
Tell(f, ns, gs) ==
  knows' = [g \in Agents |-> [n \in Nodes |->
             IF g \in gs /\ n \in ns /\ f.addr[n] # NoAddr
             THEN [addr |-> f.addr[n], status |-> f.status[f.addr[n]]]
             ELSE knows[g][n]]]

WithStatus(f, a, status) == [InsertLink(f, a) EXCEPT !.status[a] = status]

\* inform_link_status_change, on the FIB f the handler has reached.
InformLinkStatusChange(f, a, status) ==
  LET g == WithStatus(f, a, status) IN
  /\ Tell(g, { n \in Nodes : g.refs[a][n] > 0 }, subs)
  /\ fib' = IF status = "down" THEN RemoveLink(g, a) ELSE g
  /\ UNCHANGED subs

\* Mutant: the new subscriber waits for the next change of a link.
RegisterQuietly(g) ==
  /\ subs' = subs \cup {g}
  /\ UNCHANGED <<fib, knows>>

\* A subscriber is sent the whole FIB when it registers (the others are, too).
Register(g) ==
  /\ subs' = subs \cup {g}
  /\ Tell(fib, Nodes, subs')
  /\ UNCHANGED fib

Deregister(g) ==
  /\ subs' = subs \ {g}
  /\ knows' = [knows EXCEPT ![g] = [n \in Nodes |-> Nothing]]
  /\ UNCHANGED fib

-----------------------------------------------------------------------------
Status == {"none", "unspecified", "up", "down"}

Fibs == [addr : [Nodes -> Addrs \cup {NoAddr}],
         status : [Addrs -> Status],
         refs : [Addrs -> [Nodes -> Nat]]]

FibType ==
  /\ fib \in Fibs
  /\ subs \subseteq Agents
  /\ knows \in [Agents -> [Nodes -> [addr : Addrs \cup {NoAddr}, status : Status]]]

Consistent(f) ==
  \A n \in Nodes, a \in Addrs :
    /\ f.refs[a][n] = IF f.addr[n] = a THEN 1 ELSE 0
    /\ f.addr[n] = a => HasLink(f, a)

\* The reflists are the exact inverse of the node table and no node is mapped to
\* an address without a link: the ASSERT(link) and ASSERT(entry) of fib_remove_node
\* and fib_foreach cannot fail, and no list entry outlives the key it points to.
FibConsistent == Consistent(fib)
=============================================================================
