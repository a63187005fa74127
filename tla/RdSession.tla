------------------------------ MODULE RdSession ------------------------------
(***************************************************************************)
(* A resource directory and those who register with it: Registerer objects *)
(* (aiocoap, resourcedirectory/client/register.py), devices that register  *)
(* simply, so that the directory fetches their links, and devices that     *)
(* send requests of their own.  Requests may be lost, answered into the    *)
(* void or arrive after they were given up.  Observers of the lookups      *)
(* render again when they are told to.                                     *)
(*                                                                         *)
(* First comes the directory (CommonRD, with its maps by key, by path and  *)
(* of proxied hosts), and what a registration, an update and a deletion    *)
(* make of it.  A request is checked and carried out without suspension:   *)
(* an operator takes the directory and returns the next one, the code of   *)
(* the answer, and whether the observers of the lookups were told.         *)
(***************************************************************************)
EXTENDS Naturals, FiniteSets, TLC

CONSTANT ProxyDomain   \* whether the directory was started with one

Entry(f, x, v) == [y \in DOMAIN f \cup {x} |-> IF y = x THEN v ELSE f[y]]
Without(f, x) == [y \in DOMAIN f \ {x} |-> f[y]]

EmptyDirectory == [by_key |-> <<>>, by_path |-> <<>>, proxy_active |-> <<>>]
Registered(d, key) == key \in DOMAIN d.by_key

\* Query parameters; "twice" is a parameter with two values.
NoParams == [lt |-> "none", base |-> "none", proxy |-> "none", other |-> "none"]
ReservedNames == {"page", "count", "rt", "href", "anchor", "ep", "d"}
Anonymous == "anonymous"

Done(d, code, told) == [dir |-> d, code |-> code, told |-> told, location |-> 0]

\* What update_params checks before it acts.
NeedsNetworkBase(reg, p, initial) == (initial \/ ~ reg.base_is_explicit) /\ p.base = "none"
Unacceptable(reg, remote, p, initial) ==
  \/ p.other \in ReservedNames
  \/ NeedsNetworkBase(reg, p, initial) /\ ~ reg.proxy_host /\ remote = Anonymous
  \/ p.lt \in {"text", "twice"}
  \/ p.base = "twice"

NetworkBase(reg, remote) == IF reg.proxy_host THEN "host" ELSE remote
NewLt(reg, p) == IF p.lt # "none" THEN p.lt ELSE reg.lt
Updated(reg, remote, p, initial) ==
  LET explicit == reg.base_is_explicit \/ (p.base # "none" /\ (initial \/ p.base # reg.base))
  IN [reg EXCEPT !.lt = NewLt(reg, p),
                 !.base = IF p.base # "none" THEN p.base
                          ELSE IF explicit THEN @ ELSE NetworkBase(reg, remote),
                 !.base_is_explicit = explicit,
                 !.other = IF p.other # "none" THEN p.other ELSE @]

\* An explicit base that is the one the network gave: network_base is read unset.
BaseUnset(reg, p) == ~ reg.base_is_explicit /\ p.base = reg.base

\* _new_pathtail
\* Mutant: a path in use is not skipped.
NewPathUsed(d) == 1
NewPath(d) ==
  CHOOSE i \in 1 .. Cardinality(DOMAIN d.by_path) + 1 :
    i \notin DOMAIN d.by_path /\ \A j \in 1 .. i - 1 : j \in DOMAIN d.by_path

Deleted(d, path) ==
  [by_path |-> Without(d.by_path, path),
   by_key |-> Without(d.by_key, d.by_path[path].key),
   proxy_active |-> IF d.by_path[path].proxy_host
                      THEN Without(d.proxy_active, d.by_path[path].key) ELSE d.proxy_active]

Stored(d, path, reg, remote) ==
  [by_path |-> Entry(d.by_path, path, reg),
   by_key |-> Entry(d.by_key, reg.key, path),
   proxy_active |-> IF reg.proxy_host THEN Entry(d.proxy_active, reg.key, remote) ELSE d.proxy_active]

\* initialize_endpoint; an earlier registration of the key goes first, and its path is used again.
InitializeEndpoint(d, key, remote, p, links) ==
  LET refused == p.proxy = "off" \/ (p.proxy = "on" /\ ~ ProxyDomain)
      path == IF Registered(d, key) THEN d.by_key[key] ELSE NewPath(d)
      cleared == IF Registered(d, key) THEN Deleted(d, path) ELSE d
      reg == [key |-> key, links |-> links, lt |-> "90000", base |-> "none",
              base_is_explicit |-> FALSE, other |-> "none", proxy_host |-> p.proxy = "on"]
  IN IF refused THEN Done(d, "4.00", FALSE)
     ELSE IF Unacceptable(reg, remote, p, TRUE)
       THEN Done(cleared, "4.00", Registered(d, key))
     ELSE [Done(Stored(cleared, path, Updated(reg, remote, p, TRUE), remote), "2.01", TRUE)
             EXCEPT !.location = path]

\* Registration.update_params
UpdateParams(d, path, remote, p, links) ==
  LET reg == d.by_path[path]
      updated == Updated(reg, remote, p, FALSE)
  IN IF Unacceptable(reg, remote, p, FALSE) THEN Done(d, "4.00", FALSE)
     ELSE IF BaseUnset(reg, p)
       THEN Done([d EXCEPT !.by_path[path].lt = NewLt(reg, p)], "5.00", FALSE)
     ELSE Done(Stored(d, path, [updated EXCEPT !.links = links], remote), "2.04", updated # reg)

\* RegistrationResource: update, update with a body, replacement of the links, deletion.
RenderPost(d, path, remote, p, body) ==
  LET r == UpdateParams(d, path, remote, p, d.by_path[path].links)
  IN IF body THEN [r EXCEPT !.code = "4.00"] ELSE r

RenderPut(d, path, remote, p, links) ==
  IF links = "unparsable" THEN Done(d, "4.00", FALSE)
  ELSE UpdateParams(d, path, remote, p, links)

RenderDelete(d, path) == Done(Deleted(d, path), "2.02", TRUE)

\* RegistrationDispatchSite
Dispatch(d, q) ==
  IF q.path \notin DOMAIN d.by_path THEN Done(d, "4.04", FALSE)
  ELSE CASE q.op = "post" -> RenderPost(d, q.path, q.remote, q.params, q.body)
         [] q.op = "put" -> RenderPut(d, q.path, q.remote, q.params, q.links)
         [] q.op = "delete" -> RenderDelete(d, q.path)

\* What the lookups show: endpoints with base and parameters, links with their base.
EndpointLookup(d) ==
  {[path |-> p, key |-> d.by_path[p].key, base |-> d.by_path[p].base, other |-> d.by_path[p].other]
     : p \in DOMAIN d.by_path}
ResourceLookup(d) ==
  {[base |-> d.by_path[p].base, links |-> d.by_path[p].links] : p \in DOMAIN d.by_path}

-----------------------------------------------------------------------------
CONSTANTS
  Keys,        \* endpoint names
  ErrorsMax,   \* errors_max, 5
  Devices,     \* the requests of the devices, with op, key, remote, params, links, body
  Plans        \* role: per key, "registerer", "simple" or "device"; directories: how many
               \* directory resources are announced; devices: how many requests of devices,
               \* changes: how many changes of address or links there may be; faults: how
               \* many losses, outages and registrations that run out

ASSUME RdAssumption ==
  /\ IsFiniteSet(Keys) /\ ErrorsMax \in Nat \ {0}
  /\ \A q \in Devices : q.key \in Keys /\ q.op \in {"register", "post", "put", "delete"}

VARIABLES
  plan,
  dir,      \* the directory
  registerer, \* per key, a Registerer
  call,     \* per key, its request: none, or asked, or answered
  late,     \* requests that were given up and may still arrive
  fetches,  \* simple registrations that wait for links
  links,    \* per key, the links it has now
  remote,   \* per key, its address now
  told,     \* the observers are to render again
  quiet,    \* links have changed without telling
  seen,     \* what the observers of the two lookups have
  forgotten, \* a registration ran out, or was lost with the directory
  spent     \* of the plan's bounds

rdVars == <<plan, dir, registerer, call, late, fetches, links, remote, told, quiet, seen, forgotten,
          spent>>
outside == <<plan, links, remote>>

Directories == 1 .. plan.directories
NoDirectory == 0
NoLocation == 0
NoCall == [at |-> "none"]
Role(k) == plan.role[k]
NewRegisterer(k) ==
  [state |-> IF Role(k) = "registerer" THEN "discovering" ELSE "cancelled",
   directory |-> NoDirectory, location |-> NoLocation, errors |-> 0, failed |-> {}]

Views(d) == [ep |-> EndpointLookup(d), res |-> ResourceLookup(d)]

InitRd ==
  /\ plan \in Plans
  /\ dir = EmptyDirectory
  /\ registerer = [k \in Keys |-> NewRegisterer(k)]
  /\ call = [k \in Keys |-> NoCall]
  /\ late = {}
  /\ fetches = {}
  /\ links = [k \in Keys |-> 0]
  /\ remote = [k \in Keys |-> "a1"]
  /\ told = FALSE
  /\ quiet = FALSE
  /\ seen = Views(EmptyDirectory)
  /\ forgotten = FALSE
  /\ spent = [devices |-> 0, changes |-> 0, faults |-> 0]

Spend(what) == spent[what] < plan[what] /\ spent' = [spent EXCEPT ![what] = @ + 1]

\* The directory has carried out a request.
Carried(r, put) ==
  /\ dir' = r.dir
  /\ told' = (told \/ r.told)
  /\ quiet' = (quiet \/ (put /\ r.code = "2.04" /\ ~ r.told))

-----------------------------------------------------------------------------
\* The Registerer.
Set(k, fields) ==
  registerer' = [registerer EXCEPT ![k] =
                   [f \in DOMAIN registerer[k] |-> IF f \in DOMAIN fields THEN fields[f] ELSE registerer[k][f]]]
AskDirectory(k, op) ==
  call' = [call EXCEPT ![k] = [at |-> "asked", op |-> op, key |-> k, remote |-> remote[k],
                              params |-> NoParams, links |-> "known", body |-> FALSE,
                              path |-> registerer[k].location]]

\* _fill_directory_resource takes the first directory that did not fail; the request for it may.
Discover(k) ==
  LET usable == Directories \ registerer[k].failed
  IN /\ registerer[k].state = "discovering"
     /\ \/ /\ registerer[k].directory # NoDirectory \/ usable # {}
           /\ Set(k, [state |-> "registering",
                      directory |-> IF registerer[k].directory # NoDirectory THEN registerer[k].directory
                                    ELSE CHOOSE i \in usable : \A j \in usable : i <= j])
           /\ UNCHANGED spent
        \/ registerer[k].directory = NoDirectory /\ usable = {} /\ Set(k, [state |-> "failed"]) /\ UNCHANGED spent
        \/ registerer[k].directory = NoDirectory /\ Spend("faults") /\ Set(k, [state |-> "failed"])
     /\ UNCHANGED <<dir, call, late, fetches, told, quiet, seen, forgotten, outside>>

Register(k) ==
  /\ registerer[k].state = "registering"
  /\ call[k] = NoCall
  /\ AskDirectory(k, "register")
  /\ UNCHANGED <<dir, registerer, late, fetches, told, quiet, seen, forgotten, spent, outside>>

\* The sleep of three quarters of the lifetime is over.
Renew(k) ==
  /\ registerer[k].state = "registered"
  /\ Set(k, [state |-> "renewing"])
  /\ AskDirectory(k, "post")
  /\ UNCHANGED <<dir, late, fetches, told, quiet, seen, forgotten, spent, outside>>

RegisterFailed(k) ==
  LET errors == registerer[k].errors + 1
  IN Set(k, IF errors < ErrorsMax
              THEN [state |-> "discovering", errors |-> errors, directory |-> NoDirectory,
                    failed |-> registerer[k].failed \cup {registerer[k].directory}]
              ELSE [state |-> "ended", errors |-> errors])

\* Mutant: the failure is passed over.
RenewFailedPasses(k) == Set(k, [state |-> "registered"])
\* Registered again after a renewal that failed, without discovery.
RenewFailed(k) == Set(k, [state |-> "registering"])

\* An answer: taken, asked for again, and again, where the directory says when it will be
\* available (unavailable_retries stays 0), or a failure.
Take(k) ==
  LET code == call[k].code
      ok == code \in {"2.01", "2.04"}
  IN /\ call[k].at = "answered"
     /\ registerer[k].state \in {"registering", "renewing"}
     /\ IF code = "later" THEN AskDirectory(k, call[k].op) /\ UNCHANGED registerer
        ELSE /\ call' = [call EXCEPT ![k] = NoCall]
             /\ \/ /\ registerer[k].state = "registering" /\ ok
                   /\ Set(k, [state |-> "registered", location |-> call[k].location, errors |-> 0,
                              failed |-> {}])
                \/ registerer[k].state = "renewing" /\ ok /\ Set(k, [state |-> "registered"])
                \/ registerer[k].state = "registering" /\ ~ ok /\ RegisterFailed(k)
                \/ registerer[k].state = "renewing" /\ ~ ok /\ RenewFailed(k)
     /\ UNCHANGED <<dir, late, fetches, told, quiet, seen, forgotten, spent, outside>>

\* The task is cancelled; a registration that is known is deleted.
Shutdown(k) ==
  /\ registerer[k].state \notin {"cancelled", "failed", "ended"}
  /\ Spend("devices")
  /\ Set(k, [state |-> "cancelled"])
  /\ late' = IF call[k].at = "asked" THEN late \cup {call[k]} ELSE late
  /\ IF registerer[k].location = NoLocation THEN call' = [call EXCEPT ![k] = NoCall] ELSE AskDirectory(k, "delete")
  /\ UNCHANGED <<dir, fetches, told, quiet, seen, forgotten, outside>>

-----------------------------------------------------------------------------
\* The directory.
Handle(q) ==
  IF q.op = "register" THEN InitializeEndpoint(dir, q.key, q.remote, q.params, q.links) ELSE Dispatch(dir, q)

Serve(k) ==
  LET r == Handle(call[k])
  IN /\ call[k].at = "asked"
     /\ \/ /\ Carried(r, FALSE)
           /\ call' = [call EXCEPT ![k] = [at |-> "answered", op |-> @.op, code |-> r.code, location |-> r.location]]
           /\ UNCHANGED spent
        \/ /\ Spend("faults")
           /\ \E code \in {"later", "5.03"} :
                call' = [call EXCEPT ![k] = [at |-> "answered", op |-> @.op, code |-> code, location |-> 0]]
           /\ UNCHANGED <<dir, told, quiet>>
     /\ UNCHANGED <<registerer, late, fetches, seen, forgotten, outside>>

\* A request or its response is lost: response_nonraising gives 5.00.
Lose(k) ==
  /\ call[k].at \in {"asked", "answered"}
  /\ registerer[k].state \in {"registering", "renewing"}
  /\ Spend("faults")
  /\ late' = IF call[k].at = "asked" THEN late \cup {call[k]} ELSE late
  /\ call' = [call EXCEPT ![k] = [at |-> "answered", op |-> @.op, code |-> "5.00", location |-> 0]]
  /\ UNCHANGED <<dir, registerer, fetches, told, quiet, seen, forgotten, outside>>

ServeLate ==
  \E q \in late :
    /\ Carried(Handle(q), FALSE)
    /\ late' = late \ {q}
    /\ UNCHANGED <<registerer, call, fetches, seen, forgotten, spent, outside>>

\* A request of a device, to its own location or to one that does not exist.
ServeDevice ==
  \E q \in Devices :
    /\ Role(q.key) = "device"
    /\ Spend("devices")
    /\ q.path \in DOMAIN dir.by_path => dir.by_path[q.path].key = q.key
    /\ Carried(Handle(q), q.op = "put")
    /\ UNCHANGED <<registerer, call, late, fetches, seen, forgotten, outside>>

\* SimpleRegistration: the links are fetched while other requests are served.
AskSimple(k) ==
  /\ Role(k) = "simple"
  /\ Spend("devices")
  /\ fetches' = fetches \cup {[key |-> k, remote |-> remote[k], links |-> "none", n |-> spent.devices]}
  /\ UNCHANGED <<dir, registerer, call, late, told, quiet, seen, forgotten, outside>>

Fetch ==
  \E f \in fetches :
    /\ f.links = "none"
    /\ fetches' = (fetches \ {f}) \cup {[f EXCEPT !.links = ToString(links[f.key])]}
    /\ UNCHANGED <<dir, registerer, call, late, told, quiet, seen, forgotten, spent, outside>>

ProcessFetched ==
  \E f \in fetches :
    /\ f.links # "none"
    /\ fetches' = fetches \ {f}
    /\ Carried(InitializeEndpoint(dir, f.key, f.remote, NoParams, f.links), FALSE)
    /\ UNCHANGED <<registerer, call, late, seen, forgotten, spent, outside>>

\* A lifetime and its grace period are over.
RunOut(path) ==
  /\ path \in DOMAIN dir.by_path
  /\ LET key == dir.by_path[path].key
     IN /\ IF registerer[key].state \in {"cancelled", "failed", "ended"} THEN UNCHANGED spent ELSE Spend("faults")
        /\ forgotten' = TRUE
  /\ Carried(RenderDelete(dir, path), FALSE)
  /\ UNCHANGED <<registerer, call, late, fetches, seen, outside>>

\* The directory is started anew, and so are the observations.
RestartDirectory ==
  /\ Spend("faults")
  /\ dir' = EmptyDirectory
  /\ seen' = Views(EmptyDirectory)
  /\ forgotten' = TRUE
  /\ fetches' = {}
  /\ told' = FALSE
  /\ quiet' = FALSE
  /\ UNCHANGED <<registerer, call, late, outside>>

Notify ==
  /\ told
  /\ told' = FALSE
  /\ quiet' = FALSE
  /\ seen' = Views(dir)
  /\ UNCHANGED <<dir, registerer, call, late, fetches, forgotten, spent, outside>>

Change(k) ==
  /\ Spend("changes")
  /\ \/ remote' = [remote EXCEPT ![k] = "a2"] /\ UNCHANGED links
     \/ links' = [links EXCEPT ![k] = @ + 1] /\ UNCHANGED remote
  /\ UNCHANGED <<plan, dir, registerer, call, late, fetches, told, quiet, seen, forgotten>>

NextRd ==
  \/ \E k \in Keys : \/ Discover(k) \/ Register(k) \/ Renew(k) \/ Take(k) \/ Shutdown(k)
                     \/ Serve(k) \/ Lose(k) \/ AskSimple(k) \/ Change(k)
  \/ \E p \in 1 .. Cardinality(Keys) : RunOut(p)
  \/ ServeLate \/ ServeDevice \/ Fetch \/ ProcessFetched \/ RestartDirectory \/ Notify

SpecRd == InitRd /\ [][NextRd]_rdVars
RdFairness ==
  /\ WF_rdVars(Notify)
  /\ \A k \in Keys : /\ WF_rdVars(Discover(k)) /\ WF_rdVars(Register(k)) /\ WF_rdVars(Renew(k))
                    /\ WF_rdVars(Take(k)) /\ WF_rdVars(Serve(k))

-----------------------------------------------------------------------------
\* Type correctness; by_key and by_path list the same registrations, and a host is served by
\* the proxy exactly as long as a registration asks for it.
RdTypeOK ==
  /\ plan \in Plans
  /\ DOMAIN dir.by_path \subseteq 1 .. Cardinality(Keys)
  /\ \A k \in DOMAIN dir.by_key : dir.by_key[k] \in DOMAIN dir.by_path /\ dir.by_path[dir.by_key[k]].key = k
  /\ \A p \in DOMAIN dir.by_path : dir.by_path[p].key \in DOMAIN dir.by_key
  /\ DOMAIN dir.proxy_active = {k \in DOMAIN dir.by_key : dir.by_path[dir.by_key[k]].proxy_host}
  /\ \A k \in Keys : registerer[k].errors \in 0 .. ErrorsMax

\* "Ask RD to invoke the callback whenever any of the RD state changed": observers of the
\* lookups see what a new request would, unless they are about to be told.  A PUT that
\* replaces the links and nothing else tells nobody; the endpoint lookup does not show them.
Observed ==
  ~ told => /\ seen.ep = EndpointLookup(dir)
            /\ quiet \/ seen.res = ResourceLookup(dir)

\* The location a Registerer renews and deletes is its own, unless the directory
\* forgot a registration; the path may then have become another's.
Locations(k) ==
  {registerer[k].location : s \in {registerer[k].state} \cap {"registered", "renewing"}}
    \cup {q.path : q \in {x \in {call[k]} : x.at = "asked" /\ x.op = "delete"}}
OwnLocation ==
  \A k \in Keys : \A l \in Locations(k) :
    l \in DOMAIN dir.by_path /\ ~ forgotten => dir.by_path[l].key = k

\* A Registerer that goes on is registered, again and again, whatever the directory forgot,
\* unless its location has become another's.
StaysRegistered ==
  \A k \in Keys :
    Role(k) = "registerer" =>
      []<>(\/ Registered(dir, k)
           \/ registerer[k].state \in {"cancelled", "failed", "ended"}
           \/ LET l == registerer[k].location IN l \in DOMAIN dir.by_path /\ dir.by_path[l].key # k)

\* The directory, the observers and the registerers agree on what is registered where.
DirectoryInv == RdTypeOK /\ Observed /\ OwnLocation
==============================================================================
