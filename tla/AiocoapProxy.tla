---------------------------- MODULE AiocoapProxy ----------------------------
(***************************************************************************)
(* The CoAP-CoAP proxy of aiocoap (proxy/server.py).                       *)
(*                                                                         *)
(* Pooled observations: the first client that observes a resource starts   *)
(* an observation of the server, further ones join it, and when the last   *)
(* has gone it is dropped.  Every client is a task of its own              *)
(* (ObservableResource, interfaces.py) with a trigger that holds the       *)
(* latest notification.                                                    *)
(*                                                                         *)
(* Where it sends a request: the redirection rules in their order, the     *)
(* forward proxy in front of them, and the refusals.  A request is a       *)
(* record with the fields of Plain.                                        *)
(***************************************************************************)
EXTENDS Integers, Sequences, FiniteSets

CONSTANTS
  Clients,
  Observations,  \* names of the observations the proxy may start
  MaxState,      \* bounds the changes of the resource
  MaxSessions,   \* bounds how often clients observe
  Suffixes,      \* pairs <<name, domain>>: the name is in the domain
  Addresses,     \* hosts that are addresses
  Rules,         \* the lists of redirection rules
  Asked          \* the requests

VARIABLES
  resource,  \* the state at the server
  pool,      \* _outgoing_observations: the observation of the resource, or none
  obs,       \* per observation, its response, users, and whether the server still serves it
  client,    \* per client, what it observes and has got, and its trigger
  dropping,  \* _consider_dropping callbacks that the loop has yet to call
  sessions,
  crossed,   \* a callback has removed another observation than its own
  hop        \* one request at the proxy: what it is, what is sent on, what is answered

poolVars == <<resource, pool, obs, client, dropping, sessions, crossed>>

NoObs == "none"
Nothing == -1
Error == -2
Unstarted == [phase |-> "new", latest |-> Nothing, users |-> {}, cancelled |-> FALSE]
Away == [phase |-> "away", obs |-> NoObs, got |-> Nothing, trigger |-> Nothing]

Asking(o) == [phase |-> "rendering", obs |-> o, got |-> Nothing, trigger |-> Nothing]

ASSUME PoolAssumption == NoObs \notin Observations /\ MaxState \in Nat

InitPool ==
  /\ resource = 0
  /\ pool = NoObs
  /\ obs = [o \in Observations |-> Unstarted]
  /\ client = [c \in Clients |-> Away]
  /\ dropping = <<>>
  /\ sessions = 0
  /\ crossed = FALSE

-----------------------------------------------------------------------------
\* add_observation: joins the observation of the pool, or starts one.
Joined(o, c, phase) == [obs EXCEPT ![o].phase = phase, ![o].users = @ \cup {c}]
Observe(c) ==
  /\ client[c].phase = "away"
  /\ sessions < MaxSessions
  /\ sessions' = sessions + 1
  /\ \/ pool # NoObs /\ obs' = Joined(pool, c, obs[pool].phase) /\ UNCHANGED pool
     \/ /\ pool = NoObs
        /\ \E o \in Observations : /\ obs[o].phase = "new"
                                  /\ pool' = o
                                  /\ obs' = Joined(o, c, "asked")
  /\ client' = [client EXCEPT ![c] = Asking(pool')]
  /\ UNCHANGED <<resource, dropping, crossed>>

\* The first response: an observation, a plain response, or a failure.  Without observation
\* eb triggers the users with an error.
Triggered(o, value) == [c \in Clients |-> IF c \in obs[o].users THEN [client[c] EXCEPT !.trigger = value]
                                          ELSE client[c]]
Start(o) ==
  /\ obs[o].phase = "asked"
  /\ \/ obs' = [obs EXCEPT ![o].phase = "live", ![o].latest = resource] /\ UNCHANGED client
     \/ /\ obs' = [obs EXCEPT ![o].phase = "over", ![o].latest = resource, ![o].cancelled = TRUE]
        /\ client' = Triggered(o, Error)
     \/ /\ obs' = [obs EXCEPT ![o].phase = "failed", ![o].cancelled = TRUE]
        /\ client' = Triggered(o, Error)
  /\ UNCHANGED <<resource, pool, dropping, sessions, crossed>>

\* cb: a notification goes to all users.
Live(o) == obs[o].phase = "live" /\ ~ obs[o].cancelled
Relayed(o, value) == Triggered(o, value)
Renotify(o) ==
  /\ Live(o)
  /\ obs[o].latest # resource
  /\ obs' = [obs EXCEPT ![o].latest = resource]
  /\ client' = Relayed(o, resource)
  /\ UNCHANGED <<resource, pool, dropping, sessions, crossed>>

\* The server, or the network, ends the observation.
End(o) ==
  /\ Live(o)
  /\ obs' = [obs EXCEPT ![o].phase = "over", ![o].cancelled = TRUE]
  /\ client' = Triggered(o, Error)
  /\ UNCHANGED <<resource, pool, dropping, sessions, crossed>>

-----------------------------------------------------------------------------
\* The cancellation callback of a client's observation.
Left(c) ==
  /\ obs' = [obs EXCEPT ![client[c].obs].users = @ \ {c}]
  /\ dropping' = Append(dropping, client[c].obs)

\* render: the latest response of the observation it joined, once there is a first one.  All
\* clients wait for one future: its failure, or its cancellation, is that of all.
Render(c) ==
  /\ client[c].phase = "rendering"
  /\ \/ /\ obs[client[c].obs].phase \in {"live", "over"}
        /\ client' = [client EXCEPT ![c].phase = "observing", ![c].got = obs[client[c].obs].latest]
        /\ UNCHANGED <<obs, dropping>>
     \/ /\ obs[client[c].obs].phase = "failed"
        /\ client' = [client EXCEPT ![c] = Away]
        /\ Left(c)
  /\ UNCHANGED <<resource, pool, sessions, crossed>>

\* The loop of the client's task: an unsuccessful message is the last one.
Deliver(c) ==
  /\ client[c].phase = "observing"
  /\ client[c].trigger # Nothing
  /\ IF client[c].trigger = Error
       THEN client' = [client EXCEPT ![c] = Away] /\ Left(c)
       ELSE /\ client' = [client EXCEPT ![c].got = client[c].trigger, ![c].trigger = Nothing]
            /\ UNCHANGED <<obs, dropping>>
  /\ UNCHANGED <<resource, pool, sessions, crossed>>

\* The client has lost interest: its task is cancelled, and with it the first response of the
\* observation if it waits for that.  The observation itself goes on until it is dropped.
Broken(c) ==
  LET o == client[c].obs
  IN  [obs EXCEPT ![o].users = @ \ {c},
                  ![o].phase = IF client[c].phase = "rendering" /\ @ = "asked" THEN "failed" ELSE @]
Leave(c) ==
  /\ client[c].phase \in {"rendering", "observing"}
  /\ client' = [client EXCEPT ![c] = Away]
  /\ obs' = Broken(c)
  /\ dropping' = Append(dropping, client[c].obs)
  /\ UNCHANGED <<resource, pool, sessions, crossed>>

\* _consider_dropping; where there is nothing to pop the callback fails.
ConsiderDropping ==
  /\ dropping # <<>>
  /\ dropping' = Tail(dropping)
  /\ LET o == Head(dropping)
     IN IF obs[o].users # {} THEN UNCHANGED <<pool, obs, crossed>>
        ELSE /\ pool' = NoObs
             /\ crossed' = (crossed \/ pool \notin {o, NoObs})
             /\ obs' = IF pool = NoObs THEN obs ELSE [obs EXCEPT ![o].cancelled = TRUE]
  /\ UNCHANGED <<resource, client, sessions>>

ChangeState ==
  /\ resource < MaxState
  /\ resource' = resource + 1
  /\ UNCHANGED <<pool, obs, client, dropping, sessions, crossed>>

NextPool ==
  \/ \E c \in Clients : Observe(c) \/ Render(c) \/ Deliver(c) \/ Leave(c)
  \/ \E o \in Observations : Start(o) \/ Renotify(o) \/ End(o)
  \/ ConsiderDropping \/ ChangeState

SpecPool == InitPool /\ [][NextPool]_poolVars
PoolFairness ==
  /\ WF_poolVars(ConsiderDropping)
  /\ \A c \in Clients : WF_poolVars(Render(c)) /\ WF_poolVars(Deliver(c))
  /\ \A o \in Observations : WF_poolVars(Start(o)) /\ WF_poolVars(Renotify(o))

-----------------------------------------------------------------------------
\* Type correctness; a client is a user of what it observes.
PoolTyped ==
  /\ resource \in 0 .. MaxState
  /\ pool \in Observations \cup {NoObs}
  /\ \A o \in Observations : obs[o].users = {c \in Clients : client[c].obs = o}
  /\ \A i \in DOMAIN dropping : dropping[i] \in Observations

\* What a client of the pool has is what the proxy last got, or the next is on its way.
UpToDate ==
  \A c \in Clients :
    client[c].phase = "observing" /\ ~ crossed =>
      client[c].got = obs[client[c].obs].latest \/ client[c].trigger # Nothing

\* An observation that nobody uses any more is cancelled at the server, unless a second
\* callback for one observation removed another's entry.
NothingLeaks ==
  \A o \in Observations :
    Live(o) /\ obs[o].users = {} /\ ~ crossed => o \in {dropping[i] : i \in DOMAIN dropping}

\* There is one observation of the server at a time, again unless callbacks have crossed.
OneUpstream == Cardinality({o \in Observations : Live(o)}) <= 1 \/ crossed

\* The pool of the proxy: what its clients were told is up to date, and what nobody observes
\* any more is not observed upstream either.
PoolInv == PoolTyped /\ UpToDate /\ NothingLeaks /\ OneUpstream

\* Every client whose observation goes on has the state the resource settles in.  (One that
\* joins an observation that is over, before the callback has dropped it, has what that got
\* and hears no more.)
Catch ==
  \A c \in Clients :
    <>[](client[c].phase = "observing" /\ Live(client[c].obs) => client[c].got = resource)

-----------------------------------------------------------------------------
(* Where a request goes *)

NoOption == "absent"
Undecided == "none"
Plain == [proxyUri |-> NoOption, scheme |-> NoOption, host |-> NoOption, path |-> <<>>,
          unsafe |-> FALSE,      \* an unsafe option that the proxy does not know
          to |-> Undecided]      \* remote or unresolved_remote, once it is another's

Refusals == {"unsafe", "uri", "incomplete", "norule", "error"}
Refused(why) == [to |-> why]
IsRefused(r) == r.to \in Refusals
NoMatch == [to |-> "nomatch"]

\* raise_unless_safe: Proxy-Uri and Proxy-Scheme are unsafe themselves.
\* Mutant: the proxy options are taken for known.
SafeLoosely(request, known) == ~ request.unsafe
Safe(request, known) ==
  ~ request.unsafe /\ request.proxyUri = NoOption /\ (request.scheme = NoOption \/ "scheme" \in known)

-----------------------------------------------------------------------------
\* NameBasedVirtualHost, SubdomainVirtualHost, UnconditionalRedirector, SubresourceVirtualHost:
\* each looks at the options before it looks whether it is meant.
StartsWith(path, prefix) == Len(prefix) <= Len(path) /\ SubSeq(path, 1, Len(prefix)) = prefix
Meant(rule, request) ==
  CASE rule.kind = "name" -> request.host = rule.name
    [] rule.kind = "subdomain" -> <<request.host, rule.name>> \in Suffixes
    [] rule.kind = "always" -> TRUE
    [] rule.kind = "path" -> StartsWith(request.path, rule.prefix)

Rewritten(rule, request) ==
  LET proxied == IF rule.useAsProxy THEN [request EXCEPT !.scheme = "coap"] ELSE request
      renamed == IF rule.rewrite THEN [proxied EXCEPT !.host = rule.target] ELSE proxied
  IN [renamed EXCEPT
       !.to = rule.target,
       !.path = IF rule.kind = "path" THEN SubSeq(@, Len(rule.prefix) + 1, Len(@)) ELSE @]

\* A SubdomainVirtualHost takes for granted that there is a Uri-Host: a 5.00 otherwise.
ApplyRule(rule, request) ==
  IF ~ Safe(request, {}) THEN Refused("unsafe")
  ELSE IF rule.kind = "subdomain" /\ request.host = NoOption THEN Refused("error")
  ELSE IF Meant(rule, request) THEN Rewritten(rule, request) ELSE NoMatch

\* Proxy.apply_redirection: the first result counts.
ApplyRules(rules, request) ==
  LET results == [i \in DOMAIN rules |-> ApplyRule(rules[i], request)]
      hits == {i \in DOMAIN rules : results[i] # NoMatch}
  IN IF hits = {} THEN NoMatch ELSE results[CHOOSE i \in hits : \A j \in hits : i <= j]

-----------------------------------------------------------------------------
\* ForwardProxy.apply_redirection: a URI-Host that is an address goes, a name stays.
ForwardProxy(rules, request) ==
  IF request.proxyUri # NoOption THEN Refused("uri")
  ELSE IF request.scheme = NoOption THEN ApplyRules(rules, request)
  ELSE IF request.host = NoOption THEN Refused("incomplete")
  ELSE IF ~ Safe(request, {"scheme"}) THEN Refused("unsafe")
  ELSE LET onward == [request EXCEPT !.to = request.host, !.scheme = NoOption,
                                     !.host = IF @ \in Addresses THEN NoOption ELSE @]
           ruled == ApplyRules(rules, onward)
       IN IF ruled # NoMatch THEN ruled ELSE onward

\* Proxy.render: a request that no rule applies to is the proxy's own, and refused.
Redirect(forward, rules, request) ==
  LET result == IF forward THEN ForwardProxy(rules, request) ELSE ApplyRules(rules, request)
  IN IF result = NoMatch THEN Refused("norule") ELSE result

\* What the records above say; targets and hosts are no refusals.
ASSUME RedirectionAssumption ==
  /\ \A rules \in Rules : \A i \in DOMAIN rules :
       rules[i].useAsProxy \in BOOLEAN /\ rules[i].target \notin Refusals \cup {NoMatch.to, Undecided}
  /\ \A rules \in Rules : rules \in Seq({rules[i] : i \in DOMAIN rules})
  /\ \A request \in Asked :
       /\ DOMAIN request = DOMAIN Plain
       /\ request.unsafe \in BOOLEAN /\ request.to = Undecided
       /\ request.host \notin Refusals \cup {NoMatch.to, Undecided}

InitRedirection ==
  hop \in [forward : BOOLEAN, rules : Rules, request : Asked, sent : {NoMatch}, answer : {NoMatch}]
Send ==
  /\ hop.sent = NoMatch
  /\ hop' = [hop EXCEPT !.sent = Redirect(hop.forward, hop.rules, hop.request)]
\* The answer of the proxy: a refusal, or the response, which must be safe to pass on as well.
ReplyToClient(unsafe) ==
  /\ hop.sent # NoMatch
  /\ hop.answer = NoMatch
  /\ hop' = [hop EXCEPT !.answer = IF IsRefused(hop.sent) THEN hop.sent
                                  ELSE IF unsafe THEN Refused("unsafe") ELSE [to |-> "client"]]
NextRedirection == Send \/ \E unsafe \in BOOLEAN : ReplyToClient(unsafe)

-----------------------------------------------------------------------------
\* What a proxy sends on has a destination, nothing unsafe, and no Proxy-Scheme (which would
\* have the next server forward it in turn) unless the rule wants that server as a proxy;
\* only a forward proxy acts on the Proxy-Scheme of a client.
SendsSafely ==
  hop.sent # NoMatch /\ ~ IsRefused(hop.sent) =>
    /\ hop.sent.to # Undecided
    /\ ~ hop.sent.unsafe
    /\ hop.sent.proxyUri = NoOption
    /\ hop.sent.scheme # NoOption =>
         \E i \in DOMAIN hop.rules : hop.rules[i].useAsProxy /\ hop.rules[i].target = hop.sent.to
    /\ hop.request.scheme # NoOption => hop.forward

\* A proxy of aiocoap, for whom it observes and where it sends requests.
SpecCoapProxy ==
  /\ InitPool /\ InitRedirection
  /\ [][(NextPool /\ UNCHANGED hop) \/ (NextRedirection /\ UNCHANGED poolVars)]_<<poolVars, hop>>
CoapProxyInv == PoolInv /\ SendsSafely
=============================================================================
