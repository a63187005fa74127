-------------------------- MODULE BundleDispatcher --------------------------
(***************************************************************************)
(* aap2_bdm_ud3tn_routing.py: the process that decides for a uD3TN node    *)
(* where every bundle goes.  One coroutine takes the messages of the node  *)
(* (dispatch events, configuration, links); one task per planned contact   *)
(* asks for the link, recalls the contact's bundles from the storage agent *)
(* while it lasts, and re-schedules what is left.  All share the tables    *)
(* below and may be overtaken by each other wherever they wait.            *)
(* The planning half never waits: its functions are operators without      *)
(* state, and come first.                                                  *)
(***************************************************************************)
EXTENDS Integers, Sequences, FiniteSets, SequencesExt

CONSTANTS
  Eid,             \* endpoint identifiers
  NodeId,          \* node identifiers
  NoNode,          \* what get_node_id raises for an EID it cannot read
  get_node_id,     \* the node an EID belongs to, or NoNode
  Bids,            \* bundles (BundleIDType) as records, see BundleAssumption
  Contacts,        \* every contact a configuration message may name
  Configs,         \* the configuration messages that may arrive
  NoBundle,        \* "no bundle in hand"
  prevent_loops,   \* --prevent-loops
  insecure_config, \* --insecure-config
  MaxTime, MaxConfigs, MaxReceptions  \* bounds: the clock, messages, receptions

ASSUME EidAssumption == get_node_id \in [Eid -> NodeId \cup {NoNode}]

ASSUME BundleAssumption ==
  /\ IsFiniteSet(Bids) /\ NoBundle \notin Bids
  /\ \A b \in Bids : /\ b.dst_eid \in Eid
                     /\ b.payload_length \in Nat \ {0} /\ b.fragment_offset \in Nat
                     /\ b.min_frag_size_first \in Nat /\ b.min_frag_size_last \in Nat
                     /\ b.max_bundle_size \in Nat

\* CONTACT_LIST_PARSE_REGEX takes digits only.
ASSUME ContactAssumption ==
  /\ IsFiniteSet(Contacts)
  /\ \A c \in Contacts : c.start \in Nat /\ c.end \in Nat /\ c.data_rate \in Nat
  /\ MaxTime \in Nat

-----------------------------------------------------------------------------
(* The plan: what a configuration message asks for, which contacts it adds and which
   it takes out, and the forwarding table built from the plan. *)

\* ContactDefinition without reachable_eids, which is no part of its identity.
Contact(m, e) ==
  [start |-> e.start, end |-> e.end, next_hop_node_id |-> m.nodeid,
   next_hop_cla_addr |-> m.claaddr, data_rate |-> e.data_rate]

\* _parse_config and _parse_contact_list: the set of contacts of a message, and
\* for each the EIDs behind it: the node, the node's list and the contact's list.
ParsedContacts(m) == { Contact(m, e) : e \in m.contactlist }
OwnList(m, c) == (CHOOSE e \in m.contactlist : Contact(m, e) = c).eidlist
ParsedEids(m, c) == {m.nodeid} \cup m.eidlist \cup OwnList(m, c)

ASSUME ConfigAssumption == \A m \in Configs : ParsedContacts(m) \subseteq Contacts

Overlaps(c1, c2) == c1.start < c2.end /\ c1.end > c2.start

\* _adjust_existing_contacts: the contacts of the plan that the new ones replace.
Replaced(plan, node, new) ==
  { c \in plan : c.next_hop_node_id = node /\ \E d \in new : c # d /\ Overlaps(c, d) }

\* The new contacts reach what the contacts they replace reached, too.  Those without
\* a list of their own share one set of EIDs: what one inherits all of them do.
Inherited(eids, plan, m, d) ==
  LET new    == ParsedContacts(m)
      shared == { x \in new : OwnList(m, x) = {} }
      from(x) == { c \in plan : c.next_hop_node_id = m.nodeid /\ c # x /\ Overlaps(c, x) }
  IN UNION { eids[c] : c \in UNION { from(x) : x \in IF d \in shared THEN shared ELSE {d} } }

ContactsOf(plan, node) == { c \in plan : c.next_hop_node_id = node }

\* _decode_cfg_msg.
ToAdd(m) == IF m.cmd = "delete" THEN {} ELSE ParsedContacts(m)
ToRemove(plan, m) ==
  CASE m.cmd = "add"     -> Replaced(plan, m.nodeid, ParsedContacts(m))
    [] m.cmd = "replace" -> ContactsOf(plan, m.nodeid) \ ParsedContacts(m)
    [] m.cmd = "delete"  -> IF ParsedContacts(m) = {} THEN ContactsOf(plan, m.nodeid)
                                                      ELSE ParsedContacts(m)
AddedEids(eids, plan, m, c) ==
  ParsedEids(m, c) \cup (IF m.cmd = "add" THEN Inherited(eids, plan, m, c) ELSE {})

\* _rebuild_fwd_dict: EIDs that have no node ID are skipped.
RebuildFwdDict(plan, eids) ==
  [n \in NodeId |-> { c \in plan : \E e \in eids[c] : get_node_id[e] = n }]

-----------------------------------------------------------------------------
(* Where the bytes of a bundle go. *)

Least(x, y) == IF x <= y THEN x ELSE y

\* The bytes promised on a contact; capmap has no entry before the first promise.
Promised(capmap, c) == IF c \in DOMAIN capmap THEN SumFunction(capmap[c]) ELSE 0

Volume(c, from) == (c.end - from) * c.data_rate

RemainingCapacity(c, now, capmap) ==
  IF now >= c.end THEN 0
  ELSE Volume(c, IF now > c.start THEN now ELSE c.start) - Promised(capmap, c)

\* Mutant: the size with headers taken for the payload.
FragmentOfSize(c, fo, fps, fs) == [contact |-> c, fo |-> fo, fps |-> fs, fs |-> fs]

FragmentTuple(c, fo, fps, fs) == [contact |-> c, fo |-> fo, fps |-> fps, fs |-> fs]

\* One round of the loop in _calc_bundle_schedule: got holds the offset reached, the
\* payload still to be placed and the fragments so far.  A bundle with
\* min_frag_size_last = 0 must not be fragmented.
AssignTo(got, c, b, mbs, now, capmap) ==
  LET cap    == RemainingCapacity(c, now, capmap)
      room   == IF mbs = 0 THEN cap ELSE Least(cap, mbs)
      single == b.min_frag_size_last = 0
      header == IF single THEN 0
                ELSE IF got.frags = {} THEN b.min_frag_size_first ELSE b.min_frag_size_last
      least  == IF single THEN b.min_frag_size_first ELSE header + 1
      most   == IF single THEN b.min_frag_size_first ELSE header + got.rest
      size   == Least(most, room)
      pay    == size - header
      offset == IF pay = b.payload_length THEN b.fragment_offset ELSE got.offset
  IN IF got.rest <= 0 \/ room < least THEN got
     ELSE [offset |-> got.offset + pay, rest |-> got.rest - pay,
           frags |-> got.frags \cup {FragmentTuple(c, offset, pay, size)}]

\* sorted() is stable over the iteration order of a set: any order by start time.
ByStart(contacts) ==
  { s \in SetToSeqs(contacts) : \A i, j \in DOMAIN s : i < j => s[i].start <= s[j].start }

\* _calc_bundle_schedule: the sets of fragments it may return; the empty set stands
\* for a ScheduleException.
CalcSchedule(fwd_dict, capmap, b, mbs, fo, fl, now) ==
  LET contacts == IF get_node_id[b.dst_eid] = NoNode THEN {} ELSE fwd_dict[get_node_id[b.dst_eid]]
      from     == [offset |-> IF fo = 0 THEN b.fragment_offset ELSE fo,
                   rest   |-> IF fl = 0 THEN b.payload_length ELSE fl,
                   frags  |-> {}]
      place(s) == FoldLeft(LAMBDA got, c : AssignTo(got, c, b, mbs, now, capmap), from, s)
  IN { IF place(s).rest > 0 THEN {} ELSE place(s).frags : s \in ByStart(contacts) }

\* The payload bytes that a set of fragments carries.
Bytes(frags) == UNION { f.fo .. (f.fo + f.fps - 1) : f \in frags }

-----------------------------------------------------------------------------
(* The process: its coroutines, what they share and where they wait. *)

Addrs == { c.next_hop_cla_addr : c \in Contacts }

VARIABLES
  now,                \* the clock of the event loop
  main,               \* the main coroutine: [at |-> "idle" | "delete" | "dead", bid]
  contact_set,        \* the plan
  reachable_eids,     \* per contact of the plan, the EIDs behind it
  fwd_dict,           \* per node, the contacts that lead there
  active_contacts,    \* contacts that have started
  scheduled_bundles,  \* per known bundle, the fragments not yet dispatched
  stored_bundles,     \* bundles the storage is known to hold
  capmap,             \* per contact and bundle, the bytes promised (0: no entry)
  sched_db,           \* per contact with a task: its queue and its fragments
  task,               \* per contact: where it is, the bundle in hand, those to re-schedule
  links,              \* addresses whose event in known_links is set
  events,             \* dispatch events on their way to the main coroutine
  to_store, storage, recalled,  \* the storage CLA: being written, held, to be read
  on_air,             \* whole bundles given to a CLA whose result is not known
  configs, receptions,          \* what the bounds count
  sent                \* history: the fragments dispatched to contacts

plan == <<contact_set, reachable_eids, fwd_dict>>
books == <<scheduled_bundles, stored_bundles, capmap>>
store == <<to_store, storage, recalled, on_air>>
count == <<configs, receptions>>
vars == <<now, main, plan, active_contacts, books, sched_db, task, links, events,
          store, count, sent>>

TaskStates ==
  {"none",   \* no task
   "new",    \* created, has not run yet
   "sleep",  \* sleep_until(start)
   "up",     \* asking for the link
   "link",   \* wait_until_active
   "linked", \* the event was set, the task has not run since
   "idle",   \* queue.get() of _bundle_transmission
   "push",   \* asking the storage agent for a bundle
   "rest",   \* sleep_until(end)
   "end",    \* about to run its finally block
   "resched",\* in the middle of _reschedule_bundles, not waiting
   "drop",   \* deleting a bundle that found no new contact
   "down"}   \* asking to end the link

At(where) == [at |-> where, bid |-> NoBundle, todo |-> {}]

Init ==
  /\ now = 0 /\ main = [at |-> "idle", bid |-> NoBundle]
  /\ contact_set = {} /\ reachable_eids = <<>> /\ fwd_dict = [n \in NodeId |-> {}]
  /\ active_contacts = {} /\ scheduled_bundles = <<>> /\ stored_bundles = {}
  /\ capmap = [c \in Contacts |-> [b \in Bids |-> 0]] /\ sched_db = <<>>
  /\ task = [c \in Contacts |-> At("none")]
  /\ links = {} /\ events = {}
  /\ to_store = {} /\ storage = {} /\ recalled = {} /\ on_air = {}
  /\ configs = 0 /\ receptions = 0 /\ sent = [b \in Bids |-> {}]

Event(b, reason) == [bid |-> b, reason |-> reason]

\* The event loop runs one coroutine at a time: while a task is in the middle of
\* _reschedule_bundles, everybody else waits.
Free == main.at # "dead" /\ \A c \in Contacts : task[c].at # "resched"
Listening == Free /\ main.at = "idle"

\* An exception that run_compat_bdm does not catch ends the process.
Die == main' = [at |-> "dead", bid |-> NoBundle]

Entered(f, x, v) == [y \in DOMAIN f \cup {x} |-> IF y = x THEN v ELSE f[y]]
Without(f, x) == Restrict(f, DOMAIN f \ {x})

-----------------------------------------------------------------------------
(* The node, its links and its storage, seen from the dispatcher (external). *)

\* A bundle for which the FIB has no direct next hop: received, or read from storage.
Receive(b) ==
  /\ Free /\ receptions < MaxReceptions
  /\ receptions' = receptions + 1
  /\ events' = events \cup {Event(b, "no_fib_entry")}
  /\ UNCHANGED <<now, main, plan, active_contacts, books, sched_db, task, links,
                 store, configs, sent>>

\* The storage CLA has written a bundle, or has failed to.
StoreDone(b) ==
  /\ Free /\ b \in to_store
  /\ to_store' = to_store \ {b}
  /\ \/ storage' = storage \cup {b} /\ events' = events \cup {Event(b, "tx_succeeded")}
     \/ storage' = storage /\ events' = events \cup {Event(b, "tx_failed")}
  /\ UNCHANGED <<now, main, plan, active_contacts, books, sched_db, task, links,
                 recalled, on_air, count, sent>>

\* The storage reads a bundle it was asked to push; one it does not hold is no error.
Recall(b) ==
  /\ Free /\ b \in recalled
  /\ recalled' = recalled \ {b}
  /\ events' = IF b \in storage THEN events \cup {Event(b, "no_fib_entry")} ELSE events
  /\ UNCHANGED <<now, main, plan, active_contacts, books, sched_db, task, links,
                 to_store, storage, on_air, count, sent>>

\* A CLA has sent a whole bundle, or has failed to.  (The result for a fragment
\* carries the ID of the fragment, which the dispatcher does not know.)
Transmitted(b) ==
  /\ Free /\ b \in on_air
  /\ on_air' = on_air \ {b}
  /\ \E reason \in {"tx_succeeded", "tx_failed"} : events' = events \cup {Event(b, reason)}
  /\ UNCHANGED <<now, main, plan, active_contacts, books, sched_db, task, links,
                 to_store, storage, recalled, count, sent>>

Tick ==
  /\ Free /\ now < MaxTime
  /\ now' = now + 1
  /\ UNCHANGED <<main, plan, active_contacts, books, sched_db, task, links, events,
                 store, count, sent>>

-----------------------------------------------------------------------------
(* The main coroutine: dispatch events. *)

\* _schedule_bundle: into the storage if the plan has room, else dropped.
ScheduleBundle(b) ==
  \E frags \in CalcSchedule(fwd_dict, capmap, b, b.max_bundle_size, 0, 0, now) :
    IF frags = {} THEN UNCHANGED <<main, books, sched_db, store, sent>>
    ELSE /\ scheduled_bundles' = Entered(scheduled_bundles, b, frags)
         /\ capmap' = [c \in Contacts |->
              IF \E f \in frags : f.contact = c
                THEN [capmap[c] EXCEPT ![b] = (CHOOSE f \in frags : f.contact = c).fs]
                ELSE capmap[c]]
         /\ to_store' = to_store \cup {b}
         /\ UNCHANGED <<main, stored_bundles, sched_db, storage, recalled, on_air, sent>>

\* What putting the fragments of a bundle into the queues of their contacts leaves.
InQueues(db, b, frags) ==
  [c \in DOMAIN db |->
     IF \E f \in frags : f.contact = c
       THEN [queue |-> Append(db[c].queue, b),
             frags |-> Entered(db[c].frags, b, CHOOSE f \in frags : f.contact = c)]
       ELSE db[c]]

HaveTasks(frags) == \A f \in frags : f.contact \in DOMAIN sched_db

\* The result of the first transmission, the one to the storage.
TxSucceeded(b) ==
  IF b \in stored_bundles THEN UNCHANGED <<main, books, sched_db, store, sent>>
  ELSE IF ~HaveTasks(scheduled_bundles[b])
    THEN Die /\ UNCHANGED <<books, sched_db, store, sent>>    \* KeyError
    ELSE /\ sched_db' = InQueues(sched_db, b, scheduled_bundles[b])
         /\ stored_bundles' = stored_bundles \cup {b}
         /\ UNCHANGED <<main, scheduled_bundles, capmap, store, sent>>

\* _dispatch_scheduled_bundle: the fragments for the contacts that are active.
Due(b) == { f \in scheduled_bundles[b] :
              f.contact \in active_contacts /\ f.contact \in DOMAIN sched_db }

\* The node cuts a bundle only for less than its payload.
IsWhole(b, f) == f.fo = b.fragment_offset /\ f.fps >= b.payload_length

\* _dispatch_bundle: a bundle that came back from the storage.
DispatchBundle(b) ==
  IF b \notin stored_bundles THEN UNCHANGED <<main, books, sched_db, store, sent>>
  ELSE IF \E f \in Due(b) : b \notin DOMAIN sched_db[f.contact].frags
    THEN Die /\ UNCHANGED <<books, sched_db, store, sent>>    \* KeyError
    ELSE LET frags == { sched_db[f.contact].frags[b] : f \in Due(b) }
             left  == scheduled_bundles[b] \ frags
         IN /\ scheduled_bundles' = [scheduled_bundles EXCEPT ![b] = left]
            /\ sent' = [sent EXCEPT ![b] = @ \cup frags]
            /\ on_air' = IF \E f \in frags : IsWhole(b, f) THEN on_air \cup {b} ELSE on_air
            /\ main' = IF left = {} THEN [at |-> "delete", bid |-> b] ELSE main
            /\ UNCHANGED <<stored_bundles, capmap, sched_db, to_store, storage, recalled>>

\* _process_dispatch_event.
ProcessDispatchEvent(e) ==
  /\ Listening /\ e \in events
  /\ events' = events \ {e}
  /\ IF e.bid \in DOMAIN scheduled_bundles
       THEN CASE e.reason = "tx_succeeded" -> TxSucceeded(e.bid)
              [] e.reason = "tx_failed"    -> UNCHANGED <<main, books, sched_db, store, sent>>
              [] OTHER                     -> DispatchBundle(e.bid)
       ELSE IF e.reason = "no_fib_entry" THEN ScheduleBundle(e.bid)
       ELSE UNCHANGED <<main, books, sched_db, store, sent>>
  /\ UNCHANGED <<now, plan, active_contacts, task, links, count>>

\* The rest of _dispatch_bundle once the storage agent has answered.
DispatchedAndDeleted ==
  /\ Free /\ main.at = "delete"
  /\ storage' = storage \ {main.bid}
  /\ main' = [at |-> "idle", bid |-> NoBundle]
  /\ IF prevent_loops THEN UNCHANGED <<scheduled_bundles, stored_bundles>>
     ELSE /\ scheduled_bundles' = Without(scheduled_bundles, main.bid)
          /\ stored_bundles' = stored_bundles \ {main.bid}
  /\ UNCHANGED <<now, plan, active_contacts, capmap, sched_db, task, links, events,
                 to_store, recalled, on_air, count, sent>>

\* _update_link_info; the tasks that wait for the address are woken.
UpdateLinkInfo(a, up) ==
  /\ Listening
  /\ links' = IF up THEN links \cup {a} ELSE links \ {a}
  /\ task' = [c \in Contacts |->
       IF up /\ task[c].at = "link" /\ c.next_hop_cla_addr = a THEN At("linked") ELSE task[c]]
  /\ UNCHANGED <<now, main, plan, active_contacts, books, sched_db, events, store,
                 count, sent>>

-----------------------------------------------------------------------------
(* The main coroutine: configuration. *)

\* A message without the right flag is dropped.  _process_config then returns the table
\* it was given, which the caller clears before it copies from it.
DropConfig(m) ==
  /\ ~m.bdm_auth /\ ~insecure_config
  /\ fwd_dict' = [n \in NodeId |-> {}]
  /\ UNCHANGED <<main, contact_set, reachable_eids, sched_db, task, recalled, storage>>

\* Where cancelling its task leaves a contact.  The finally block is not entered by a
\* task that never ran, and not resumed by one that was in it.  Whether wait_for hands
\* the cancellation on that _bundle_transmission has absorbed depends on the version of
\* Python (it does up to 3.11).
Cancelled(c, handed_on) ==
  LET at == task[c].at
  IN CASE at \in {"none", "new", "drop", "down"} -> At("none")
       [] at \in {"sleep", "up", "link", "linked", "rest", "end"} -> At("end")
       [] at \in {"idle", "push"} -> IF handed_on THEN At("end") ELSE At("rest")

\* A bundle that was being asked for goes back to the queue.
Requeued(c) ==
  IF task[c].at = "push"
    THEN [sched_db[c] EXCEPT !.queue = Append(@, task[c].bid)] ELSE sched_db[c]

\* Calls that were on their way when their task was cancelled may have been carried out.
CarriedOut(out) ==
  LET in(where) == { c \in out : task[c].at = where }
  IN /\ recalled' = recalled \cup { task[c].bid : c \in in("push") }
     /\ storage' = storage \ { task[c].bid : c \in in("drop") }

\* _process_config: contacts taken out of the plan have their tasks cancelled, contacts
\* added get a queue and a task; a contact that still has one trips the assertion.
ApplyConfig(m) ==
  LET add   == ToAdd(m)
      rm    == ToRemove(contact_set, m)
      stop  == rm \cap DOMAIN sched_db
  IN /\ m.bdm_auth \/ insecure_config
     /\ m.cmd # "invalid"
     /\ contact_set' = (contact_set \ rm) \cup add
     /\ reachable_eids' = [c \in contact_set' |->
          IF c \in contact_set \ rm THEN reachable_eids[c]
                                    ELSE AddedEids(reachable_eids, contact_set, m, c)]
     /\ IF add \cap DOMAIN sched_db # {}
          THEN Die /\ UNCHANGED <<fwd_dict, sched_db, task, recalled, storage>>
          ELSE /\ \E handed_on \in [stop -> BOOLEAN], out \in SUBSET stop :
                    /\ task' = [c \in Contacts |->
                         IF c \in stop THEN Cancelled(c, handed_on[c])
                         ELSE IF c \in add THEN At("new") ELSE task[c]]
                    /\ CarriedOut(out)
               /\ sched_db' = [c \in DOMAIN sched_db \cup add |->
                    IF c \in add THEN [queue |-> <<>>, frags |-> <<>>]
                    ELSE IF c \in stop THEN Requeued(c) ELSE sched_db[c]]
               /\ fwd_dict' = RebuildFwdDict(contact_set', reachable_eids')
               /\ UNCHANGED main

\* _parse_config raises ValueError.
RejectConfig(m) ==
  /\ m.bdm_auth \/ insecure_config
  /\ m.cmd = "invalid"
  /\ Die
  /\ UNCHANGED <<plan, sched_db, task, recalled, storage>>

ProcessConfig(m) ==
  /\ Listening /\ configs < MaxConfigs
  /\ configs' = configs + 1
  /\ DropConfig(m) \/ ApplyConfig(m) \/ RejectConfig(m)
  /\ UNCHANGED <<now, active_contacts, books, links, events, to_store, on_air, receptions, sent>>

-----------------------------------------------------------------------------
(* The task of a contact: _schedule_contact and _bundle_transmission. *)

GoTo(c, where) == task' = [task EXCEPT ![c] = At(where)]

\* The first step of the task, and the end of sleep_until(start).
StartContact(c) ==
  /\ Free
  /\ \/ task[c].at = "new" /\ now < c.start /\ GoTo(c, "sleep") /\ UNCHANGED active_contacts
     \/ /\ task[c].at \in {"new", "sleep"} /\ now >= c.start
        /\ GoTo(c, "up") /\ active_contacts' = active_contacts \cup {c}
  /\ UNCHANGED <<now, main, plan, books, sched_db, links, events, store, count, sent>>

Over(c) == now >= c.end

\* The link is there: wait_for with no time left does not run what it is given.
Transmitting(c) == IF Over(c) THEN GoTo(c, "end") ELSE GoTo(c, "idle")

LinkAsked(c) ==
  /\ Free /\ task[c].at = "up"
  /\ IF c.next_hop_cla_addr \in links THEN Transmitting(c) ELSE GoTo(c, "link")
  /\ UNCHANGED <<now, main, plan, active_contacts, books, sched_db, links, events, store,
                 count, sent>>

LinkAwaited(c) ==
  /\ Free /\ task[c].at = "linked"
  /\ Transmitting(c)
  /\ UNCHANGED <<now, main, plan, active_contacts, books, sched_db, links, events,
                 store, count, sent>>

\* queue.get() returns.
NextBundle(c) ==
  /\ Free /\ task[c].at = "idle" /\ sched_db[c].queue # <<>>
  /\ task' = [task EXCEPT ![c] = [At("push") EXCEPT !.bid = Head(sched_db[c].queue)]]
  /\ sched_db' = [sched_db EXCEPT ![c].queue = Tail(@)]
  /\ UNCHANGED <<now, main, plan, active_contacts, books, links, events, store,
                 count, sent>>

\* The storage agent has taken the call of _push_bundle_from_storage.
Pushed(c) ==
  /\ Free /\ task[c].at = "push"
  /\ recalled' = recalled \cup {task[c].bid}
  /\ GoTo(c, "idle")
  /\ UNCHANGED <<now, main, plan, active_contacts, books, sched_db, links, events,
                 to_store, storage, on_air, count, sent>>

\* wait_for times out (a bundle in hand goes back, its call may be carried out), or
\* sleep_until(end) is over.
ContactOver(c) ==
  /\ Free /\ Over(c)
  /\ \/ task[c].at \in {"idle", "rest"} /\ UNCHANGED <<sched_db, recalled>>
     \/ /\ task[c].at = "push"
        /\ sched_db' = [sched_db EXCEPT ![c] = Requeued(c)]
        /\ \/ recalled' = recalled \cup {task[c].bid}
           \/ UNCHANGED recalled
  /\ GoTo(c, "end")
  /\ UNCHANGED <<now, main, plan, active_contacts, books, links, events, to_store,
                 storage, on_air, count, sent>>

-----------------------------------------------------------------------------
(* The finally block: _reschedule_bundles, then the link. *)

\* The queue is emptied into bid_set.
EndContact(c) ==
  /\ Free /\ task[c].at = "end"
  /\ task' = [task EXCEPT ![c] = [At("resched") EXCEPT !.todo = ToSet(sched_db[c].queue)]]
  /\ sched_db' = [sched_db EXCEPT ![c].queue = <<>>]
  /\ UNCHANGED <<now, main, plan, active_contacts, books, links, events, store,
                 count, sent>>

\* Mutant: the new fragments replace all the old ones.
RebookedOnly(b, frags) == frags

\* The old fragment stays in scheduled_bundles.
Rebooked(b, frags) == scheduled_bundles[b] \cup frags

\* A new place is found.  The promise is not entered in capmap.  A contact that has no task,
\* or a bundle that is not known any more, is a KeyError: the task is over.
Replace(c, b, frags) ==
  IF HaveTasks(frags) /\ b \in DOMAIN scheduled_bundles
    THEN /\ sched_db' = InQueues(sched_db, b, frags)
         /\ scheduled_bundles' = [scheduled_bundles EXCEPT ![b] = Rebooked(b, frags)]
         /\ task' = [task EXCEPT ![c].todo = @ \ {b}]
    ELSE /\ \E done \in SUBSET { f \in frags : f.contact \in DOMAIN sched_db } :
              /\ HaveTasks(frags) => done = frags
              /\ sched_db' = InQueues(sched_db, b, done)
         /\ GoTo(c, "none")
         /\ UNCHANGED scheduled_bundles

Reschedule(c, b) ==
  /\ task[c].at = "resched" /\ b \in task[c].todo
  /\ LET f == sched_db[c].frags[b]
     IN \E frags \in CalcSchedule(fwd_dict, capmap, b, 0, f.fo, f.fps, now) :
          IF frags = {}
            THEN /\ task' = [task EXCEPT ![c] = [at |-> "drop", bid |-> b, todo |-> @.todo \ {b}]]
                 /\ UNCHANGED <<sched_db, scheduled_bundles>>
            ELSE Replace(c, b, frags)
  /\ UNCHANGED <<now, main, plan, active_contacts, stored_bundles, capmap, links,
                 events, store, count, sent>>

\* Mutant: a bundle that found no place is tried again.
AfterDropRetried(t) == [t EXCEPT !.at = "resched", !.bid = NoBundle, !.todo = @ \cup {t.bid}]

AfterDrop(t) == [t EXCEPT !.at = "resched", !.bid = NoBundle]

\* No place left for a part of a bundle: the whole bundle is deleted.
Dropped(c) ==
  /\ Free /\ task[c].at = "drop"
  /\ storage' = storage \ {task[c].bid}
  /\ task' = [task EXCEPT ![c] = AfterDrop(task[c])]
  /\ UNCHANGED <<now, main, plan, active_contacts, books, sched_db, links, events,
                 to_store, recalled, on_air, count, sent>>

Rescheduled(c) ==
  /\ task[c].at = "resched" /\ task[c].todo = {}
  /\ GoTo(c, "down")
  /\ UNCHANGED <<now, main, plan, active_contacts, books, sched_db, links, events,
                 store, count, sent>>

\* The link is given up.  A contact that was never active stays in sched_db, because the
\* KeyError of active_contacts.remove skips the deletion.
LinkDropped(c) ==
  /\ Free /\ task[c].at = "down"
  /\ active_contacts' = active_contacts \ {c}
  /\ sched_db' = IF c \in active_contacts THEN Without(sched_db, c) ELSE sched_db
  /\ GoTo(c, "none")
  /\ UNCHANGED <<now, main, plan, books, links, events, store, count, sent>>

-----------------------------------------------------------------------------
TaskStep(c) ==
  \/ StartContact(c) \/ LinkAsked(c) \/ LinkAwaited(c) \/ NextBundle(c) \/ Pushed(c)
  \/ ContactOver(c) \/ EndContact(c) \/ (\E b \in Bids : Reschedule(c, b))
  \/ Dropped(c) \/ Rescheduled(c) \/ LinkDropped(c)

MainStep ==
  \/ DispatchedAndDeleted
  \/ \E e \in events : ProcessDispatchEvent(e)

StorageStep == \E b \in Bids : StoreDone(b) \/ Recall(b)

Next ==
  \/ MainStep \/ StorageStep \/ Tick
  \/ \E b \in Bids : Receive(b) \/ Transmitted(b)
  \/ \E a \in Addrs, up \in BOOLEAN : UpdateLinkInfo(a, up)
  \/ \E m \in Configs : ProcessConfig(m)
  \/ \E c \in Contacts : TaskStep(c)

Spec == Init /\ [][Next]_vars

\* The event loop runs every coroutine that can run, and time passes.  Neither links
\* nor configuration nor the peers are assumed to do anything.
FairSpec ==
  /\ Spec /\ WF_vars(MainStep) /\ WF_vars(StorageStep) /\ WF_vars(Tick)
  /\ \A c \in Contacts : WF_vars(TaskStep(c))

-----------------------------------------------------------------------------
(* What the dispatcher promises. *)

Payload(b) == b.fragment_offset .. (b.fragment_offset + b.payload_length - 1)

\* Every table holds what its users expect of it; a bundle queued for a contact has its
\* fragment in the contact's sched_set, which _reschedule_bundles reads without a test.
TypeOK ==
  /\ now \in 0..MaxTime /\ main.at \in {"idle", "delete", "dead"}
  /\ main.bid \in Bids \cup {NoBundle} /\ contact_set \subseteq Contacts
  /\ DOMAIN reachable_eids = contact_set
  /\ \A n \in NodeId : fwd_dict[n] \subseteq Contacts
  /\ active_contacts \subseteq Contacts /\ DOMAIN scheduled_bundles \subseteq Bids
  /\ stored_bundles \subseteq Bids /\ storage \subseteq Bids
  /\ \A c \in Contacts : task[c].at \in TaskStates /\ task[c].todo \subseteq Bids
  /\ DOMAIN sched_db \subseteq Contacts /\ links \subseteq Addrs
  /\ \A c \in DOMAIN sched_db :
       ToSet(sched_db[c].queue) \cup task[c].todo \subseteq DOMAIN sched_db[c].frags

\* What a schedule frags for the bytes part of a bundle is good for: one fragment per
\* contact, each within what is left of its contact and the maximum size of a bundle,
\* and together they are that part: no byte missing, none twice.
Fits(frags, b, part, cap, mbs, t) ==
  /\ \A f \in frags : /\ f.fs <= RemainingCapacity(f.contact, t, cap)
                      /\ mbs # 0 => f.fs <= mbs
  /\ \A f, g \in frags : f = g \/ (f.contact # g.contact /\ Bytes({f}) \cap Bytes({g}) = {})
  /\ Bytes(frags) \cap Payload(b) = part

\* Whatever the plan, the promises made and the part of a bundle to be placed, what
\* _calc_bundle_schedule returns fits.  (Looked at once, before the first message.)
SchedulesFit ==
  configs + receptions + now = 0 /\ links = {} =>
    \A b \in Bids, P \in SUBSET Contacts, promised \in [Contacts -> 0..MaxTime],
       mbs, t \in 0..MaxTime : \A fo \in Payload(b), fl \in 1..b.payload_length :
      LET cap  == [c \in Contacts |-> [x \in {b} |-> promised[c]]]
          part == fo .. (fo + fl - 1)
      IN part \subseteq Payload(b) /\ (b.min_frag_size_last = 0 => part = Payload(b)) =>
           \A frags \in CalcSchedule([n \in NodeId |-> P], cap, b, mbs, fo, fl, t) \ {{}} :
             Fits(frags, b, part, cap, mbs, t)

\* _dispatch_bundle has a bundle deleted from the storage only when, over all the times
\* it was recalled and re-scheduled, each byte of its payload was handed to a contact.
DeletedWhenSent == main.at = "delete" => Payload(main.bid) \subseteq Bytes(sent[main.bid])

\* A contact that is in the plan and not over has its queue, and a contact that new
\* bundles may be scheduled on is in the plan: the look-ups in sched_db that have no
\* handler find what they want unless a contact ends between scheduling and storing.
PlannedHasQueue ==
  main.at # "dead" =>
    /\ \A n \in NodeId : fwd_dict[n] \subseteq contact_set
    /\ \A c \in contact_set : now < c.end => c \in DOMAIN sched_db

\* Once its link is up a contact ends, with or without bundles, cancelled or not, and
\* its queue is emptied (unless the whole process ends first).
ContactsEnd ==
  \A c \in Contacts :
    task[c].at \in {"linked", "idle", "push", "rest", "end", "drop", "down"}
      ~> (task[c].at = "none" \/ main.at = "dead")

\* Plans, queues and the forwarding database fit together: what is planned fits its contact,
\* and every contact planned for has a queue.
DispatchInv == TypeOK /\ SchedulesFit /\ PlannedHasQueue

-----------------------------------------------------------------------------
\* The instance that the run Bdm_dispatch checks: what its constants are.
Entry(from, to, rate) == [start |-> from, end |-> to, data_rate |-> rate, eidlist |-> {"dst"}]

Config(cmd, entries, auth) ==
  [cmd |-> cmd, nodeid |-> "hop", claaddr |-> "addr", eidlist |-> {}, contactlist |-> entries,
   bdm_auth |-> auth]

\* Two contacts, the second starting before the first ends.
First == Entry(0, 2, 1)
Second == Entry(1, 3, 3)

MCConfigs ==
  { Config("add", {First, Second}, TRUE), Config("add", {Second}, TRUE),
    Config("replace", {Second}, TRUE), Config("delete", {First}, TRUE),
    Config("invalid", {}, TRUE), Config("delete", {}, FALSE) }

MCContacts == UNION { ParsedContacts(m) : m \in MCConfigs }

MCEids == {"dst", "hop"}
MCGetNodeId == [e \in MCEids |-> e]

\* A bundle that may be cut, headers of one byte around three bytes of payload, and one
\* that must not be.
MCBundles ==
  { [dst_eid |-> "dst", payload_length |-> 3, fragment_offset |-> 0,
     min_frag_size_first |-> 1, min_frag_size_last |-> 1, max_bundle_size |-> 0],
    [dst_eid |-> "dst", payload_length |-> 1, fragment_offset |-> 0,
     min_frag_size_first |-> 2, min_frag_size_last |-> 0, max_bundle_size |-> 0] }
=============================================================================
