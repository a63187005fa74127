--------------------------- MODULE RequestService ---------------------------
(***************************************************************************)
(* What aiocoap's request interface promises of requests and responses,    *)
(* with messages, IDs and tokens abstracted away: a request is served at   *)
(* most once, only what was served is answered, and a request is settled   *)
(* once.  That a pending request is ever settled is not promised.          *)
(***************************************************************************)
EXTENDS Naturals

CONSTANT Tokens

VARIABLES status, \* per request: "new", "pending", "answered", "failed", "cancelled"
          served  \* per request: how often its handler was started

vars == <<status, served>>

Init == /\ status = [t \in Tokens |-> "new"]
        /\ served = [t \in Tokens |-> 0]

Ask(t) == status[t] = "new" /\ status' = [status EXCEPT ![t] = "pending"] /\ UNCHANGED served

Serve(t) == /\ status[t] # "new"
            /\ served[t] = 0
            /\ served' = [served EXCEPT ![t] = 1]
            /\ UNCHANGED status

Answer(t) == /\ status[t] = "pending"
             /\ served[t] = 1
             /\ status' = [status EXCEPT ![t] = "answered"]
             /\ UNCHANGED served

\* One failure of the link ends any number of pending requests.
Fail(lost) == /\ \A t \in lost : status[t] = "pending"
              /\ status' = [t \in Tokens |-> IF t \in lost THEN "failed" ELSE status[t]]
              /\ UNCHANGED served

Withdraw(t) == /\ status[t] = "pending"
               /\ status' = [status EXCEPT ![t] = "cancelled"]
               /\ UNCHANGED served

Next == \/ \E t \in Tokens : Ask(t) \/ Serve(t) \/ Answer(t) \/ Withdraw(t)
        \/ \E lost \in SUBSET Tokens : Fail(lost)

Spec == Init /\ [][Next]_vars
=============================================================================
