---------------------------- MODULE EdhocExchange ----------------------------
(***************************************************************************)
(* How an aiocoap client and a server come to share an OSCORE context by   *)
(* EDHOC: the client in transports/oscore.py and edhoc.py, the server in   *)
(* oscore_sitewrapper.py and edhoc.py, with the credentials both have      *)
(* loaded; and what the same map decides for requests                      *)
(* that go over DTLS, TLS or in the clear.                                 *)
(*                                                                         *)
(* lakers and the ciphers are reduced to what they tell apart: a message,  *)
(* or a protected payload, is good for the context of its own session, a   *)
(* session being named by the request that began it.  The transport below  *)
(* answers each message once, or its sender times out.                     *)
(*                                                                         *)
(* First come the credentials of a node (credentials.py, and the keys of   *)
(* edhoc.py): a dictionary from URI patterns and names to credentials,     *)
(* loaded from a configuration file, and the searches in it.  A map is the *)
(* sequence of its entries in the order of their insertion, a credential   *)
(* its owner and key identifier.                                           *)
(***************************************************************************)
EXTENDS Integers, Sequences, SequencesExt, FiniteSets

CONSTANTS
  Length,  \* per key, the length of the pattern
  Covers   \* per key, the URIs its pattern matches

Credential(owner, kid) == [owner |-> owner, kid |-> kid]
NoCredential == Credential("none", 0)
Unauthenticated == Credential("anyone", 0)
Generated == Credential("generated", 1)

Keys(map) == {map[i].key : i \in DOMAIN map}
At(map, key) == CHOOSE i \in DOMAIN map : map[i].key = key
Missing == [type |-> "missing"]
Get(map, key) == IF key \in Keys(map) THEN map[At(map, key)].item ELSE Missing
Put(map, key, item) ==
  IF key \in Keys(map)
    THEN [map EXCEPT ![At(map, key)].item = item]
    ELSE Append(map, [key |-> key, item |-> item])
Delete(map, key) == SelectSeq(map, LAMBDA e : e.key # key)
\* The first entry for which Test holds, or 0.
FirstOf(map, Test(_)) ==
  LET good == {i \in DOMAIN map : Test(map[i].item)}
  IN IF good = {} THEN 0 ELSE CHOOSE i \in good : \A j \in good : i <= j

-----------------------------------------------------------------------------
\* from_file and from_map: a private key that nobody else can read, of the one kind there is.
KeyLoads(key) == key \in {"file", "inline"}

\* EdhocCredentials: own credential, style and key go together; without own credential to show,
\* a key is generated for one that is sent by value.
Complete(v) ==
  IF v.own = Unauthenticated
    THEN v.key = "none" /\ v.style \in {"none", "by-value"}
    ELSE /\ v.key = "none" \/ KeyLoads(v.key)
         /\ (v.own = NoCredential) <=> (v.style = "none")
         /\ (v.own = NoCredential) <=> (v.key = "none")
EdhocCredentials(v) ==
  IF v.own = Unauthenticated THEN [v EXCEPT !.own = Generated, !.style = "by-value"] ELSE v

\* _item_from_dict: what a value of the file becomes, where it is accepted.
Accepted(v) ==
  CASE v.type = "edhoc-oscore" -> Complete(v)
    [] v.type = "reference" -> v.colon
    [] OTHER -> v.type \in {"oscore", "dtls", "tlscert", "any-of"}
Item(v) == IF v.type = "edhoc-oscore" THEN EdhocCredentials(v) ELSE v

\* load_from_dict: entry by entry; one that is refused leaves those before it in place, and a
\* list in the place of an entry is found out when None is in the map already.
Deletion == [type |-> "null"]
LoadEntry(loaded, e) ==
  CASE loaded.failed -> loaded
    [] e.item = Deletion -> [loaded EXCEPT !.map = Delete(@, e.key)]
    [] e.item.type = "list" -> [map |-> Put(loaded.map, e.key, Missing), failed |-> TRUE]
    [] OTHER -> IF Accepted(e.item)
                  THEN [loaded EXCEPT !.map = Put(@, e.key, Item(e.item))]
                  ELSE [loaded EXCEPT !.failed = TRUE]
Load(map, file) == FoldLeft(LoadEntry, [map |-> map, failed |-> FALSE], file)

-----------------------------------------------------------------------------
\* credentials_from_request: the longest pattern that matches, of those of one length the first;
\* a reference is returned as it is.
Matching(map, uri) == {i \in DOMAIN map : uri \in Covers[map[i].key]}
CredentialsFromRequest(map, uri) ==
  IF Matching(map, uri) = {} THEN Missing
  ELSE map[CHOOSE i \in Matching(map, uri) :
             \A j \in Matching(map, uri) \ {i} :
               \/ Length[map[i].key] > Length[map[j].key]
               \/ Length[map[i].key] = Length[map[j].key] /\ i < j].item

\* ssl_client_context: only the entry of this very host is ever used.
TrustedByTls(map, key) == Get(map, key).type = "tlscert"

\* CredentialReference.as_dtls_psk: through references to references, as far as they lead.
Dereferenced(map, item) ==
  LET follow[n \in 0..Len(map)] ==
        IF n = 0 THEN item
        ELSE IF follow[n - 1].type = "reference" THEN Get(map, follow[n - 1].target)
        ELSE follow[n - 1]
  IN follow[Len(map)]
\* find_dtls_psk: the entries in their order; a reference that leads to anything else raises.
HasPsk(item) == item.type \in {"dtls", "reference"}
Tried(map, identity) ==
  FirstOf(map, LAMBDA item :
    HasPsk(item) /\ (Dereferenced(map, item).type = "dtls"
                       => Dereferenced(map, item).identity = identity))
FindDtlsPsk(map, identity) ==
  IF Tried(map, identity) = 0 THEN Missing
  ELSE Dereferenced(map, map[Tried(map, identity)].item)

\* find_oscore, for a kid without a context.
FindOscore(map, kid) ==
  FirstOf(map, LAMBDA item : \/ item.type = "responder" /\ item.recipient = kid
                             \/ item.type = "oscore" /\ item.recipient = kid /\ ~item.context)
\* find_all_used_contextless_oscore_kid: the recipient, even of one with a context.
UsedIdentifiers(map) ==
  {map[i].item.recipient : i \in {j \in DOMAIN map : map[j].item.type \in {"oscore", "responder"}}}

\* find_edhoc_by_id_cred_peer, of one entry and of the map: a known credential, shown by value or
\* by its kid; else an entry for anyone, if the credential is shown by value.  A second entry for
\* anyone finds the credential decoded already, and raises.
Known(item, shown) ==
  /\ item.type = "edhoc-oscore" /\ item.peer \notin {NoCredential, Unauthenticated}
  /\ IF shown.style = "by-value" THEN item.peer = shown.credential
     ELSE item.peer.kid # 0 /\ item.peer.kid = shown.credential.kid
ForAnyone(item) == item.type = "edhoc-oscore" /\ item.peer = Unauthenticated
Found(outcome, credential, key) == [outcome |-> outcome, credential |-> credential, key |-> key]
FindEdhoc(map, shown) ==
  LET known == FirstOf(map, LAMBDA item : Known(item, shown))
      anyone == SelectSeq(map, LAMBDA e : ForAnyone(e.item))
  IN CASE known # 0 -> Found("found", map[known].item.peer, map[known].key)
       [] known = 0 /\ anyone = <<>> -> Found("missing", NoCredential, "none")
       [] OTHER -> IF shown.style = "by-value"
                     THEN Found("found", shown.credential, anyone[1].key)
                     ELSE Found(IF Len(anyone) = 1 THEN "missing" ELSE "raises",
                                NoCredential, "none")

-----------------------------------------------------------------------------
CONSTANTS
  Requests,      \* 1..n
  InitiatorIds,  \* of 0..23, what establish_context draws c_i from
  Candidates,    \* of -24..23, in this order: what the server takes c_r from
  Uuid,          \* per session, the name the server files its context under
  EdhocSettings  \* each has the files of both nodes, and what is loaded on top of them later; the
                 \* origin as the key of the server's identity; what is asked; whether both know each
                 \* other; a bound on what the environment does.  A call after another goes to the
                 \* remote of its response, where that came over EDHOC

VARIABLES
  scene,
  maps,     \* the credentials of client and server
  context,  \* per session, the context the client has derived
  request,  \* per request, where it stands
  harm      \* history: what the environment has done to the exchanges

edhocVars == <<scene, maps, context, request, harm>>

NoContext == [c_i |-> 0, c_r |-> 0, credential |-> NoCredential, style |-> "none",
              combined |-> FALSE, expected |-> NoCredential, ready |-> FALSE]
NewRequest == [stage |-> "new", session |-> 0, included |-> FALSE, why |-> "none", c_r |-> 0,
               shown |-> NoCredential, style |-> "none", claims |-> <<>>]

InitEdhoc ==
  /\ scene \in EdhocSettings
  /\ maps = [n \in {"client", "server"} |-> Load(<<>>, scene.files[n]).map]
  /\ context = [r \in Requests |-> NoContext]
  /\ request = [r \in Requests |-> NewRequest]
  /\ harm = <<>>

Call(r) == scene.calls[r]
Becomes(r, to) == request' = [request EXCEPT ![r] = to]
Moves(r, stage) == Becomes(r, [request[r] EXCEPT !.stage = stage])
Failed(r, why) == Becomes(r, [request[r] EXCEPT !.stage = "failed", !.why = why])
\* A response with an error code: response_raising raises it, verify_start does not take it.
Refuse(r, why) == Becomes(r, [request[r] EXCEPT !.stage = "refused", !.why = why])
Served(r, claims) ==
  Becomes(r, [request[r] EXCEPT !.stage = "served", !.claims = claims])

-----------------------------------------------------------------------------
\* A new request: fill_or_recognize_remote looks for credentials that are good for OSCORE ...
New(r) == request[r].stage = "new" /\ Call(r).scheme # "none"
ItemFor(r) == CredentialsFromRequest(maps.client, Call(r).uri)
InTheClear(r) ==
  /\ New(r) /\ Call(r).scheme = "coap" /\ Call(r).after = 0
  /\ ItemFor(r).type \notin {"edhoc-oscore", "oscore"}
  /\ Served(r, <<>>)
  /\ UNCHANGED <<scene, maps, context, harm>>

\* ... and with those for EDHOC each request begins an exchange of its own.
EstablishContext(r) ==
  /\ New(r) /\ Call(r).scheme = "coap" /\ Call(r).after = 0
  /\ \E item \in {ItemFor(r)}, c_i \in InitiatorIds :
       /\ item.type = "edhoc-oscore"
       /\ context' = [context EXCEPT ![r] =
                        [NoContext EXCEPT !.c_i = c_i, !.credential = item.own, !.style = item.style,
                                          !.combined = item.combined, !.expected = item.peer]]
       /\ Becomes(r, [request[r] EXCEPT !.stage = "message 1", !.session = r])
  /\ UNCHANGED <<scene, maps, harm>>

\* A request for the remote of an earlier response has that one's context.
FollowUp(r) ==
  /\ New(r) /\ Call(r).after # 0
  /\ request[Call(r).after].stage = "served"
  /\ Becomes(r, [request[r] EXCEPT !.stage = "protected",
                                   !.session = request[Call(r).after].session])
  /\ UNCHANGED <<scene, maps, context, harm>>
NoRemote(r) ==
  /\ New(r) /\ Call(r).after # 0
  /\ request[Call(r).after].stage = "failed"
  /\ Failed(r, "no remote")
  /\ UNCHANGED <<scene, maps, context, harm>>

-----------------------------------------------------------------------------
\* _process_edhoc_msg12, where it refuses.
Identity == Get(maps.server, scene.origin)
Responder(r, c_r) ==
  [type |-> "responder", session |-> r, sender |-> context[r].c_i, recipient |-> c_r,
   incomplete |-> TRUE, spent |-> FALSE, claims |-> <<>>]
\* Mutant: only the other contexts' identifiers are avoided.
FreeOfOthers(r) == SelectSeq(Candidates, LAMBDA c : c \notin UsedIdentifiers(maps.server))
FreeIdentifiers(r) ==
  SelectSeq(Candidates, LAMBDA c : c \notin UsedIdentifiers(maps.server) \cup {context[r].c_i})
RefuseMessage1(r) ==
  /\ request[r].stage = "message 1"
  /\ \/ Identity.type # "edhoc-oscore" /\ Refuse(r, "not found")
     \/ /\ Identity.type = "edhoc-oscore"
        /\ \/ Identity.own = NoCredential /\ Refuse(r, "no own credential")
           \/ /\ Identity.own # NoCredential
              /\ FreeIdentifiers(r) = <<>> /\ Refuse(r, "too many contexts")
  /\ UNCHANGED <<scene, maps, context, harm>>

\* It takes the first free identifier, and keeps the new context under a name of its own.
ProcessMessage1(r) ==
  /\ request[r].stage = "message 1"
  /\ Identity.type = "edhoc-oscore" /\ Identity.own # NoCredential
  /\ FreeIdentifiers(r) # <<>>
  /\ \E c_r \in {FreeIdentifiers(r)[1]} :
       /\ maps' = [maps EXCEPT !.server = Put(@, Uuid[r], Responder(r, c_r))]
       /\ Becomes(r, [request[r] EXCEPT !.stage = "message 2", !.c_r = c_r,
                                        !.shown = Identity.own, !.style = Identity.style])
  /\ UNCHANGED <<scene, context, harm>>

\* establish_context with message 2: what the peer must have shown, and whether it has.
Expected(r) ==
  IF context[r].expected = Unauthenticated
    THEN IF request[r].style = "by-value" THEN request[r].shown ELSE NoCredential
    ELSE context[r].expected
Usable(r) == context[r].credential # NoCredential /\ Expected(r) # NoCredential
RejectMessage2(r) ==
  /\ request[r].stage = "message 2"
  /\ \/ ~Usable(r) /\ Failed(r, "credentials missing")
     \/ Usable(r) /\ Expected(r) # request[r].shown /\ Failed(r, "message 2 not verified")
  /\ UNCHANGED <<scene, maps, context, harm>>
Verified(r) ==
  /\ request[r].stage = "message 2"
  /\ Usable(r) /\ Expected(r) = request[r].shown

\* Combined: the context is ready, and message 3 goes with the first message it protects.
Combine(r) ==
  /\ Verified(r) /\ context[r].combined
  /\ context' = [context EXCEPT ![r].c_r = request[r].c_r, ![r].ready = TRUE]
  /\ Becomes(r, [request[r] EXCEPT !.stage = "protected", !.included = TRUE])
  /\ UNCHANGED <<scene, maps, harm>>
\* Explicit: message 3 goes first.
SendMessage3(r) ==
  /\ Verified(r) /\ ~context[r].combined
  /\ context' = [context EXCEPT ![r].c_r = request[r].c_r]
  /\ Moves(r, "message 3")
  /\ UNCHANGED <<scene, maps, harm>>

-----------------------------------------------------------------------------
\* _offer_message_3: of the message 3 of session s to the responder at i.  One that lakers does not
\* take may leave its responder without a state to take another.
Shown(s) == [credential |-> context[s].credential, style |-> context[s].style]
Attempt(entry, outcome) == [entry |-> entry, outcome |-> outcome]
Attempts(entry, outcome) == {Attempt([entry EXCEPT !.spent = lost], outcome) : lost \in BOOLEAN}
Claiming(entry, key) == [entry EXCEPT !.claims = Append(@, key)]
Offer(i, s) ==
  LET entry == maps.server[i].item
      found == FindEdhoc(maps.server, Shown(s))
  IN CASE ~entry.incomplete -> {Attempt(entry, "done")}
       [] entry.incomplete /\ (entry.spent \/ entry.session # s) ->
            {Attempt([entry EXCEPT !.spent = lost], "message 3 not parsed") :
               lost \in {entry.spent, TRUE}}
       [] entry.incomplete /\ ~entry.spent /\ entry.session = s ->
            CASE found.outcome = "missing" -> Attempts(entry, "unknown client")
              [] found.outcome = "raises" -> Attempts(entry, "decoded twice")
              [] found.outcome = "found" ->
                   IF found.credential # context[s].credential
                     THEN Attempts(Claiming(entry, found.key), "message 3 not verified")
                     ELSE {Attempt([Claiming(entry, found.key) EXCEPT !.incomplete = FALSE], "done")}
Store(i, entry) == maps' = [maps EXCEPT !.server[i].item = entry]

\* _process_edhoc_msg34, with the identifier as the payload begins with it.
Readable(c) == -24 <= c /\ c < 23
Addressed(r) == FindOscore(maps.server, context[request[r].session].c_r)
RefuseMessage3(r) ==
  /\ request[r].stage = "message 3"
  /\ \/ ~Readable(context[r].c_r) /\ Refuse(r, "invalid C_R")
     \/ /\ Readable(context[r].c_r)
        /\ \/ Addressed(r) = 0 /\ Refuse(r, "no context")
           \/ /\ Addressed(r) # 0
              /\ maps.server[Addressed(r)].item.type # "responder"
              /\ Refuse(r, "not an EDHOC context")
  /\ UNCHANGED <<scene, maps, context, harm>>
ProcessMessage3(r) ==
  /\ request[r].stage = "message 3"
  /\ Readable(context[r].c_r) /\ Addressed(r) # 0
  /\ maps.server[Addressed(r)].item.type = "responder"
  /\ \E offered \in Offer(Addressed(r), r) :
       /\ Store(Addressed(r), offered.entry)
       /\ IF offered.outcome = "done"
            THEN IF offered.entry.session = r THEN Moves(r, "message 4")
                 ELSE Refuse(r, "message 4 of another session")
            ELSE Refuse(r, offered.outcome)
  /\ UNCHANGED <<scene, context, harm>>
\* complete_with_message_4, and the request that waited for it.
TakeMessage4(r) ==
  /\ request[r].stage = "message 4"
  /\ context' = [context EXCEPT ![r].ready = TRUE]
  /\ Moves(r, "protected")
  /\ UNCHANGED <<scene, maps, harm>>

-----------------------------------------------------------------------------
\* render_to_pipe of the site wrapper, with a request that is protected in a context of EDHOC.
Unknown(r) ==
  /\ request[r].stage = "protected" /\ Addressed(r) = 0
  /\ Refuse(r, "unauthorized")
  /\ UNCHANGED <<scene, maps, context, harm>>
\* A context that awaits message 3 has nothing to decrypt with.
Incomplete(r) ==
  /\ request[r].stage = "protected" /\ Addressed(r) # 0
  /\ LET item == maps.server[Addressed(r)].item
     IN item.type = "responder" /\ item.incomplete
  /\ ~request[r].included
  /\ Refuse(r, "EDHOC incomplete")
  /\ UNCHANGED <<scene, maps, context, harm>>
\* EdhocResponderContext.unprotect: message 3 first, if it is awaited, then the request.
Mine(r, item) == item.type = "responder" /\ item.session = request[r].session
Decrypts(r, before, after) ==
  Mine(r, after) /\ ~after.incomplete /\ (request[r].included => before.incomplete)
Unprotect(r) ==
  /\ request[r].stage = "protected" /\ Addressed(r) # 0
  /\ \E item \in {maps.server[Addressed(r)].item} :
       \/ /\ item.type = "responder" /\ item.incomplete /\ request[r].included
          /\ \E offered \in Offer(Addressed(r), request[r].session) :
               /\ Store(Addressed(r), offered.entry)
               /\ IF offered.outcome = "done"
                    THEN IF Decrypts(r, item, offered.entry) THEN Served(r, offered.entry.claims)
                         ELSE Refuse(r, "decryption failed")
                    ELSE Refuse(r, offered.outcome)
       \/ /\ ~(item.type = "responder" /\ item.incomplete)
          /\ IF Decrypts(r, item, item) THEN Served(r, item.claims)
             ELSE Refuse(r, "decryption failed")
          /\ UNCHANGED maps
  /\ UNCHANGED <<scene, context, harm>>
\* _request with a response that is not protected, and establish_context with one that is an error.
Raise(r) ==
  /\ request[r].stage = "refused"
  /\ Moves(r, "failed")
  /\ UNCHANGED <<scene, maps, context, harm>>

-----------------------------------------------------------------------------
\* determine_remote of tinydtls, and the PSK store of its server, whose errors end the handshake.
OverDtls(r) ==
  /\ New(r) /\ Call(r).scheme = "coaps"
  /\ \E item \in {Dereferenced(maps.client, ItemFor(r))} :
       \/ item.type # "dtls" /\ Failed(r, "not compatible with DTLS-PSK")
       \/ /\ item.type = "dtls"
          /\ \E found \in {FindDtlsPsk(maps.server, item.identity)} :
               IF found.type = "dtls" /\ found.psk = item.psk THEN Served(r, <<item.identity>>)
               ELSE Failed(r, "handshake")
  /\ UNCHANGED <<scene, maps, context, harm>>
\* _ssl_context_factory of tls: without certificates of its own, those of the system.
OverTls(r) ==
  /\ New(r) /\ Call(r).scheme = "coaps+tcp"
  /\ IF TrustedByTls(maps.client, Call(r).key) THEN Served(r, <<Call(r).key>>) ELSE Served(r, <<>>)
  /\ UNCHANGED <<scene, maps, context, harm>>

-----------------------------------------------------------------------------
\* The environment: a message or its answer is lost for good; the server starts again, with what
\* its file says; a file is loaded on top of what was loaded.
InFlight(r) ==
  request[r].stage \in {"message 1", "message 2", "message 3", "message 4", "protected", "refused"}
Harm(what) == Len(harm) < scene.harms /\ harm' = Append(harm, what)
TimeOut(r) ==
  /\ InFlight(r)
  /\ Harm("loss")
  /\ Failed(r, "timeout")
  /\ UNCHANGED <<scene, maps, context>>
Restart ==
  /\ Harm("restart")
  /\ maps' = [maps EXCEPT !.server = Load(<<>>, scene.files.server).map]
  /\ UNCHANGED <<scene, context, request>>
Reload(n) ==
  /\ scene.reload[n] # <<>>
  /\ \E map \in {Load(maps[n], scene.reload[n]).map} :
       map # maps[n] /\ maps' = [maps EXCEPT ![n] = map]
  /\ UNCHANGED <<scene, context, request, harm>>

Progress ==
  \E r \in Requests :
    \/ InTheClear(r) \/ EstablishContext(r) \/ FollowUp(r) \/ NoRemote(r)
    \/ RefuseMessage1(r) \/ ProcessMessage1(r) \/ RejectMessage2(r) \/ Combine(r)
    \/ SendMessage3(r) \/ RefuseMessage3(r) \/ ProcessMessage3(r) \/ TakeMessage4(r)
    \/ Unknown(r) \/ Incomplete(r) \/ Unprotect(r) \/ Raise(r)
    \/ OverDtls(r) \/ OverTls(r)
NextEdhoc ==
  \/ Progress
  \/ \E r \in Requests : TimeOut(r)
  \/ Restart
  \/ \E n \in {"client", "server"} : Reload(n)

-----------------------------------------------------------------------------
Stages == {"new", "served", "failed"} \cup
          {"message 1", "message 2", "message 3", "message 4", "protected", "refused"}
TypeOK ==
  /\ \A n \in {"client", "server"} : Cardinality(Keys(maps[n])) = Len(maps[n])
  /\ \A r \in Requests : /\ request[r].stage \in Stages
                         /\ request[r].session \in Requests \cup {0}
                         /\ context[r].c_i \in InitiatorIds \cup {0}

Entries(n) == {maps[n][i] : i \in DOMAIN maps[n]}
Responders == {e.item : e \in {x \in Entries("server") : x.item.type = "responder"}}

\* The kid of a new context leads the server to none that came about or was configured before, and
\* no context has one identifier for both directions (oscore_sitewrapper.py:235, edhoc.py:417).
IdentifiersDistinct ==
  /\ \A i, j \in DOMAIN maps.server :
       /\ i < j /\ maps.server[j].item.type = "responder"
       /\ maps.server[i].item.type \in {"oscore", "responder"}
       => maps.server[i].item.recipient # maps.server[j].item.recipient
  /\ \A x \in Responders : x.sender # x.recipient

\* What is served with claims is claimed by one entry, which accepts the very credential the client
\* has a key for, or anyone who shows the whole of it (edhoc.py:551, credentials.py:382).
Vouches(key, s) ==
  \E f \in {scene.files.server, scene.reload.server} : \E i \in DOMAIN f :
    /\ f[i].key = key /\ f[i].item.type = "edhoc-oscore"
    /\ \/ f[i].item.peer = context[s].credential
       \/ f[i].item.peer = Unauthenticated /\ context[s].style = "by-value"
ServedAsItself ==
  \A r \in Requests :
    request[r].stage = "served" /\ request[r].session # 0
      => Len(request[r].claims) = 1 /\ Vouches(request[r].claims[1], request[r].session)

\* A context never asks the server for what needs message 3 before message 3 got there, while the
\* server does not lose it: message 3 is sent only once (the FIXME of edhoc.py:442).
NeverIncomplete ==
  \A r \in Requests : request[r].why = "EDHOC incomplete" => \E i \in DOMAIN harm : harm[i] = "restart"

\* Where both know each other and nothing is lost, only the limits of the identifiers refuse.
Undisturbed ==
  scene.agree /\ harm = <<>>
    => \A r \in Requests :
         request[r].why \in {"none", "too many contexts", "invalid C_R", "no remote"}

\* No request of a user is left without an outcome while nothing is left to do.
Over == \A r \in Requests : Call(r).scheme # "none" => request[r].stage \in {"served", "failed"}
NeverStuck == Over \/ ENABLED Progress

EdhocInv ==
  TypeOK /\ IdentifiersDistinct /\ ServedAsItself /\ NeverIncomplete /\ Undisturbed /\ NeverStuck
==============================================================================
