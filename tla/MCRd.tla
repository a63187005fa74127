-------------------------------- MODULE MCRd --------------------------------
(* Resources of CoAP servers and proxies on small instances: RdSession, and beside it, each in
   a part of its own, the observations and the redirection rules of aiocoap's proxy, the
   resource tree, and the relay of the proxy D (ProxyService). *)
EXTENDS RdSession, AiocoapProxy, ProxyService

VARIABLES
  part,
  entries,                                                    \* CoapSite
  query,                                                      \* RdLookup
  mode, file, version, spool, watched, refresh, handler, reader, misled  \* FileServer

MCKeys == {"k", "l"}
Plan(k, l, directories, devices, changes, faults) ==
  [role |-> [x \in MCKeys |-> IF x = "k" THEN k ELSE l],
   directories |-> directories, devices |-> devices, changes |-> changes, faults |-> faults]
Device(op, path, address, params, list, body) ==
  [op |-> op, key |-> "l", path |-> path, remote |-> address, params |-> params, links |-> list, body |-> body]
With(field, value) == [NoParams EXCEPT ![field] = value]
\* Registrations with good and bad parameters, updates, replacements, deletions.
MCDevices ==
  {Device("register", 0, a, p, "x", FALSE) :
     a \in {"a1", "anonymous"}, p \in {NoParams, With("lt", "text"), With("proxy", "on"), With("base", "a1")}}
  \cup {Device("register", 0, "a1", With("proxy", "off"), "x", FALSE)}
  \cup {Device("post", path, "a2", p, "none", FALSE) :
     path \in {1, 2}, p \in {NoParams, With("lt", "60"), With("base", "a2"), With("base", "twice"),
                            With("other", "et"),
                            [With("lt", "60") EXCEPT !.other = "ep"]}}
  \cup {Device("post", 1, "a1", With("base", "a1"), "none", FALSE),
        Device("post", 1, "a2", NoParams, "none", TRUE),
        Device("put", 1, "a1", NoParams, "y", FALSE), Device("put", 1, "a2", NoParams, "y", FALSE),
        Device("put", 1, "a1", NoParams, "unparsable", FALSE), Device("delete", 1, "a1", NoParams, "none", FALSE)}
Idle == Plan("none", "none", 0, 0, 0, 0)
MCPlans ==
  { Plan("registerer", "registerer", 1, 1, 0, 1),
    Plan("registerer", "device", 1, 2, 0, 1),
    Plan("registerer", "simple", 1, 2, 1, 1),
    Plan("registerer", "none", 2, 1, 0, 3),
    Plan("none", "device", 1, 3, 0, 1),
    Idle }

Rule(kind, target) ==
  [kind |-> kind, name |-> "n", prefix |-> <<"p">>, target |-> target, useAsProxy |-> FALSE, rewrite |-> FALSE]
MCRules ==
  LET rules == {Rule("name", "t"), Rule("subdomain", "u"), Rule("path", "t"), Rule("always", "u"),
                [Rule("always", "t") EXCEPT !.useAsProxy = TRUE], [Rule("name", "u") EXCEPT !.rewrite = TRUE]}
  IN {<<>>} \cup {<<r>> : r \in rules} \cup {<<r, s>> : r, s \in rules}
MCSuffixes == {<<"x.n", "n">>}
MCAsked ==
  [proxyUri : {"absent", "uri"}, scheme : {"absent", "coap"}, host : {"absent", "n", "x.n", "10.0.0.1"},
   path : {<<>>, <<"p", "q">>}, unsafe : BOOLEAN, to : {"none"}]

S == INSTANCE CoapSite WITH
       Sites <- <<"root", "inner", "innermost">>, Resources <- {"r1", "hidden"}, Hidden <- {"hidden"},
       Paths <- {<<>>, <<"a">>, <<"a", "">>, <<"a", "b">>},
       Requests <- {<<>>, <<"a">>, <<"a", "">>, <<"a", "b">>, <<"a", "a">>, <<"a", "b", "">>, <<"a", "b", "a", "b">>},
       MaxEntries <- 3

Found(name, rt, d) == [href |-> name, attributes |-> [rt |-> rt, d |-> d]]
L == INSTANCE RdLookup WITH
       Candidates <- <<Found("h1", {"x"}, {"x"}), Found("h2", {"x", "y"}, {}), Found("h3", {"xy"}, {"y"})>>,
       Criteria <- {[key |-> k, accepts |-> a] : k \in {"rt", "d"}, a \in {{"x"}, {"y"}, {"x", "xy"}}}
                     \cup {[key |-> "href", accepts |-> {"h1"}], [key |-> "href", accepts |-> {"h1", "h2", "h3"}]},
       Pages <- -3 .. 2, MaxCriteria <- 2

\* Operations on the files of a server, by the scene they belong to.
Operation(method) == [method |-> method, path |-> "f", slash |-> FALSE, block |-> 0, observe |-> FALSE,
                      etags |-> FALSE, condition |-> "none", known |-> 0, size |-> 2]
Of(path, ask) == [ask EXCEPT !.path = path]
Slashed(ask) == [ask EXCEPT !.slash = TRUE]
Cached(ask) == [ask EXCEPT !.etags = TRUE]
Observing(ask) == [ask EXCEPT !.observe = TRUE]
IfMatch(ask) == [ask EXCEPT !.condition = "match"]
IfAbsent(ask) == [ask EXCEPT !.condition = "absent", !.size = 1]
Get == Operation("GET")
Put == Operation("PUT")
Delete == Operation("DELETE")
Scene(write, a, b, locals, full, ends) ==
  [write |-> write, asks |-> [x \in {"c1", "c2"} |-> IF x = "c1" THEN a ELSE b],
   locals |-> locals, full |-> full, ends |-> ends]
NoScene == Scene(FALSE, {}, {}, 0, FALSE, FALSE)
MCScenes ==
  { Scene(TRUE, {Get, [Get EXCEPT !.block = 1]}, {Put, [Put EXCEPT !.size = 1], Delete}, 1, FALSE, FALSE),
    Scene(TRUE, {Get, IfMatch(Put), IfMatch(Delete)}, {Get, IfMatch(Put), IfAbsent(Put), Delete}, 1, FALSE, FALSE),
    Scene(TRUE, {IfAbsent(Put), Delete}, {Put, Of("d", Put), Of("p", Put)}, 0, TRUE, FALSE),
    Scene(TRUE, {Observing(Get), Cached(Observing(Get))}, {Observing(Get), Put}, 1, FALSE, FALSE),
    Scene(TRUE, {Observing(Get), Cached(Observing(Get))}, {Get, Put, Delete}, 0, FALSE, TRUE),
    Scene(FALSE,
      {Get, Cached(Get), Slashed(Get), Observing(Slashed(Of("d", Get))), Of("d", Get), Of("p", Get),
       Of("core", Get), Of("outside", Get), Put, Observing(Of("outside", Get)), Observing(Of("p", Get))},
      {Observing(Get)}, 1, FALSE, TRUE),
    Scene(TRUE, {Slashed(Of("d", Put)), Of("d", Delete), Of("p", Delete)}, {Of("p", Get)}, 0, FALSE, FALSE),
    NoScene }
F == INSTANCE FileServer WITH
       Readers <- {"c1", "c2"},
       Initially <- [p \in {"f", "d", "p"} |->
                       CASE p = "f" -> "file" [] p = "d" -> "directory" [] OTHER -> "special"],
       MaxVersion <- 3, FileScenes <- MCScenes

fileVars == <<mode, file, version, spool, watched, refresh, handler, reader, misled>>
siteVars == <<hop, entries, query, fileVars>>
allVars == <<rdVars, part, poolVars, siteVars, vars>>

MCInit ==
  /\ part \in {"directory", "observations", "redirection", "site", "lookup", "files", "relay"}
  /\ InitRd /\ (part = "directory" <=> plan # Idle)
  /\ InitPool /\ S!InitSite
  /\ IF part = "redirection" THEN InitRedirection ELSE hop = [sent |-> NoMatch]
  /\ F!InitFiles /\ (part = "files" <=> mode # NoScene)
  /\ IF part = "lookup" THEN L!InitQuery ELSE query = L!NoQuery
  /\ Init
MCNext ==
  /\ UNCHANGED part
  /\ \/ part = "directory" /\ NextRd /\ UNCHANGED <<poolVars, siteVars, vars>>
     \/ part = "observations" /\ NextPool /\ UNCHANGED <<rdVars, siteVars, vars>>
     \/ /\ UNCHANGED <<rdVars, poolVars, vars>>
        /\ \/ part = "redirection" /\ NextRedirection /\ UNCHANGED <<entries, query, fileVars>>
           \/ part = "site" /\ S!ModifySite /\ UNCHANGED <<hop, query, fileVars>>
           \/ part = "lookup" /\ L!Search /\ UNCHANGED <<hop, entries, fileVars>>
           \/ part = "files" /\ F!NextFiles /\ UNCHANGED <<hop, entries, query>>
     \/ part = "relay" /\ Next /\ UNCHANGED <<rdVars, poolVars, siteVars>>
MCSpec == MCInit /\ [][MCNext]_allVars /\ RdFairness /\ PoolFairness

\* Requests are served as they were meant: by the tree of sites, on the pages of a lookup, and from
\* files; and who observes a file is told of it.
LinksLead == S!LinksLead
FilesInv == F!FilesInv
ServedRight == LinksLead /\ L!PagesPartition /\ FilesInv

\* What is asked for is reached: a registration, and the present state of what is observed.
Settles == StaysRegistered /\ Catch
==============================================================================
