---------------------------- MODULE ServerService ----------------------------
(***************************************************************************)
(* The server (CoapServer) with any clients behind the network: what it    *)
(* promises about the effects of the requests it answered, over crashes    *)
(* and disk errors.                                                        *)
(***************************************************************************)
EXTENDS CoapServer, SequencesExt

CONSTANTS
  Requests,     \* the requests that may be made: [code, path, payload]
  MaxRequests,  \* bound: requests made
  MaxCrashes    \* bound: crashes of the server

ASSUME DatabasesAssumption == \A r \in Databases : IsDictionary(r)

ASSUME NodesAssumption == NodeB # NodeD

VARIABLES
  first,     \* the dictionary the server first started with
  made,      \* number of requests made
  held,      \* the requests whose changes are in memory, in order
  saved,     \* those whose changes are in the file
  answers,   \* the responses handed to the network
  crashes

history == <<first, made, held, saved, answers, crashes>>
serverVars == <<resources, file, recv_payload, pc, code, content>>
vars == <<serverVars, network, history>>

Init ==
  /\ ServerInit
  /\ net = {} /\ seqno = [v \in {NodeB, NodeD} |-> 0]
  /\ first = resources /\ made = 0 /\ held = <<>> /\ saved = <<>> /\ answers = {} /\ crashes = 0

-----------------------------------------------------------------------------
Number(r, i) ==
  [n |-> made + i, token |-> made + i, mid |-> made + i, mtype |-> "CON",
   code |-> r.code, path |-> r.path, payload |-> r.payload]

\* An ADU of one or two requests, or of one with a broken frame behind or
\* before it; more than one only from clients that send to B directly.  Requests are
\* numbered as they arrive, so the next one is made when the last has arrived.
Ask ==
  /\ \A b \in net : b.dst # NodeB
  /\ \E r \in Requests :
       \/ /\ made < MaxRequests /\ made' = made + 1
          /\ \E adu \in { <<Number(r, 1)>>, <<Junk, Number(r, 1)>>, <<Number(r, 1), Junk>> } :
               Submit(NodeD, NodeB, adu)
       \/ /\ made + 1 < MaxRequests /\ made' = made + 2
          /\ \E s \in Requests : Submit(NodeD, NodeB, <<Number(r, 1), Number(s, 2)>>)
  /\ UNCHANGED <<serverVars, first, held, saved, answers, crashes>>

ReceiveADU == (\E b \in net : Receive(b)) /\ UNCHANGED history

\* What a step of the server is recorded as: a request that changes the dictionary or is
\* to be saved, a save that succeeded, a response handed over.
Record ==
  /\ held' = IF resources' # resources \/ (pc = "loop" /\ pc' \in {"saving", "savefailed"})
             THEN Append(held, Request) ELSE held
  /\ saved' = IF pc = "saving" /\ pc' = "respond" THEN held ELSE saved
  /\ answers' = IF pc = "respond" /\ seqno' # seqno THEN answers \cup {Response} ELSE answers
  /\ UNCHANGED <<first, made, crashes>>

Serve == Work /\ Record

CrashServer ==
  /\ crashes < MaxCrashes
  /\ Crash
  /\ crashes' = crashes + 1
  /\ UNCHANGED <<first, made, held, saved, answers>>

RestartServer ==
  /\ Restart
  /\ held' = saved
  /\ UNCHANGED <<first, made, saved, answers, crashes>>

Next ==
  \/ Ask \/ ReceiveADU \/ Serve
  \/ CrashServer \/ RestartServer

Spec == Init /\ [][Next]_vars

\* One coroutine that waits for its handlers and for the local uD3TN.
Fairness == WF_vars(Serve)

-----------------------------------------------------------------------------
(* Properties *)

\* The variables have their types; outside a save nothing is being written.
TypeOK ==
  /\ IsDictionary(resources) /\ IsDictionary(first)
  /\ file \in {Absent, Torn} \/ (file = File(file.values) /\ IsDictionary(file.values))
  /\ pc \in {"idle", "loop", "saving", "savefailed", "respond", "down", "dead"}
  /\ pc \in {"saving", "savefailed", "respond"} => recv_payload # <<>>

\* save_resources_to_file (NodeBaap2.py:37), ``Persist resource values to disk'': what
\* was answered with success is in memory and in the file, and stays there over
\* disk errors, lost connections and restarts (a crash in the middle of a save
\* loses the file); memory and file are what the requests in them make of the
\* dictionary of the start.
ConfirmedSurvives ==
  LET confirmed == { a.n : a \in { b \in answers : b.code \in Success } }
  IN  /\ Running => Agrees(resources, first, held) /\ confirmed \subseteq Numbers(held)
      /\ file # Torn => Agrees(Contents, first, saved) /\ confirmed \subseteq Numbers(saved)

\* Every request is served at most once, wherever the ADU is dropped or
\* the server restarted, and its effect is never undone but by a later request or
\* a restart.
ServedOnce ==
  \A log \in {held, saved} : \A i, j \in DOMAIN log : i < j => log[i].n # log[j].n

\* Every ADU the server receives is worked off, unless the server goes down.
AnswersAll == pc = "loop" ~> pc \in {"idle", "down", "dead"}

\* Every request is served at most once, in states of the right types.
ServerInv == TypeOK /\ ServedOnce
=============================================================================
