----------------------------- MODULE MCEndpoints -----------------------------
(* The programs at the ends on small instances: the server (ServerService) and the client
   (ClientService), each with the rest of the system as its surroundings, and the client of the
   node's agent that they and the tools of uD3TN use (Aap2Client). *)
EXTENDS ServerService, ClientService

VARIABLES
  part,
  tool, wire, thread, lock, ping, output, got, spoilt, trouble  \* Aap2Client

Req(c, p, v) == [code |-> c, path |-> p, payload |-> v]

\* Every method on an existing and a missing resource, valid and invalid.
AllRequests ==
  { Req("POST", Root, x) : x \in Names \cup {"bad"} }
    \cup { Req("POST", x, x) : x \in Names }
    \cup { Req("PUT", x, v) : x \in Names, v \in Values \cup {"bad"} }
    \cup { Req(c, x, "text") : c \in {"GET", "DELETE"}, x \in Names }

\* A resource that was there before.
MCDatabases == { [x \in Names |-> <<"u">>] }

\* The commands of the client only differ in their number.
MCCommands == {Req("PUT", "x", "u")}

Tool(name, pushes, faults, mishaps) ==
  [name |-> name, tcp |-> FALSE, agentid |-> "none", count |-> 0, timeout |-> FALSE,
   lossy |-> FALSE, others |-> {}, pushes |-> pushes, faults |-> faults, mishaps |-> mishaps]
NoTool == Tool("none", <<>>, {}, 0)
Connection == {"refused", "version", "gone"}
\* A call of each tool, one with an agent id that is taken; the subscribers; ping with and
\* without a time-out, with an echo lost, a broken bundle or a signal; the dispatcher's tasks.
MCTools ==
  { NoTool,
    Tool("aap2_send", <<>>, Connection, 1),
    [Tool("aap2_config", <<>>, Connection, 1) EXCEPT !.tcp = TRUE],
    Tool("aap2_storage_agent", <<>>, Connection, 1),
    [Tool("aap2_configure_link", <<>>, {}, 0) EXCEPT
       !.agentid = "taken", !.others = {[agent |-> "taken", secret |-> "other"]}],
    Tool("aap2_configure_link", <<>>, Connection, 1),
    [Tool("aap2_receive", <<"adu", "keepalive", "other", "adu">>, {"gone", "short"}, 2) EXCEPT !.count = 2],
    Tool("aap2_bdm_static", <<"dispatch", "keepalive", "other", "dispatch">>, {"gone"}, 1),
    [Tool("aap2_ping", <<>>, {"gone"}, 1) EXCEPT !.count = 2, !.lossy = TRUE],
    [Tool("aap2_ping", <<>>, {"refused", "sigint"}, 1) EXCEPT
       !.count = 2, !.lossy = TRUE, !.timeout = TRUE],
    [Tool("aap2_ping", <<"adu", "keepalive">>, {"short"}, 1) EXCEPT !.count = 1],
    Tool("aap2_ping", <<>>, {"sigint"}, 1),
    Tool("bdm", <<"dispatch">>, {"cancel", "gone"}, 1),
    Tool("bdm", <<"adu", "keepalive", "dispatch">>, {"cancel"}, 2) }
T == INSTANCE Aap2Client WITH Tools <- MCTools, MaxTicks <- 1, MaxPings <- 2

toolVars == <<tool, wire, thread, lock, ping, output, got, spoilt, trouble>>

\* The network is that of the part.  Without a request and a command to send, the nodes idle.
Idle == T!InitAap /\ tool = NoTool
NoHistory == first = resources /\ made = 0 /\ held = <<>> /\ saved = <<>> /\ answers = {} /\ crashes = 0
NothingWritten == queued = <<>> /\ written = <<>> /\ aborted = FALSE /\ waited = FALSE
MCInit ==
  \/ part = "server" /\ Init /\ ClientInit /\ NothingWritten /\ Idle
  \/ part = "client" /\ InitClient /\ ServerInit /\ file = Absent /\ NoHistory /\ Idle
  \/ /\ part = "tools" /\ T!InitAap /\ tool # NoTool
     /\ Init /\ file = Absent /\ ClientInit /\ NothingWritten
MCNext ==
  /\ UNCHANGED part
  /\ \/ part = "server" /\ Next /\ UNCHANGED <<clientVars, userLog, toolVars>>
     \/ part = "client" /\ NextClient /\ UNCHANGED <<serverVars, history, toolVars>>
     \/ part = "tools" /\ T!NextAap /\ UNCHANGED <<vars, clientVars, userLog>>
MCSpec ==
  /\ MCInit /\ [][MCNext]_<<part, vars, clientVars, userLog, toolVars>>
  /\ WF_vars(part = "server" /\ Serve)
  /\ WF_userVars(part = "client" /\ RunTasks) /\ WF_userVars(part = "client" /\ UD3TN)

\* The properties of the tools, under a name of their own.
AapInv == T!AapInv
\* What is received is worked off, and what is typed is sent.
NodesProgress == (part = "server" => AnswersAll) /\ (part = "client" => ClientProgress)
==============================================================================
