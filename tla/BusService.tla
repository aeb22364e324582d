----------------------------- MODULE BusService -----------------------------
(***************************************************************************)
(* What the bridge promises the services (README, "RS485-TCP"): they share *)
(* the half duplex bus one at a time, and a request is answered with its   *)
(* own reply or fails.                                                     *)
(***************************************************************************)
CONSTANTS Clients, Nobody

VARIABLES
    st,    \* st[c]: "idle", "waiting" or "answered"
    bus    \* the client whose request the bus is working on, or Nobody

vars == <<st, bus>>

Init == st = [c \in Clients |-> "idle"] /\ bus = Nobody

Ask(c) == st[c] = "idle" /\ st' = [st EXCEPT ![c] = "waiting"] /\ UNCHANGED bus

\* The bus takes up one request when it is free.
Grab(c) == st[c] = "waiting" /\ bus = Nobody /\ bus' = c /\ UNCHANGED st

\* The last of the reply is handed to the client that asked.
Deliver(c) ==
    /\ bus = c /\ st[c] = "waiting"
    /\ st' = [st EXCEPT ![c] = "answered"] /\ bus' = Nobody

\* The request, or what was left of its reply, is lost.
Drop == bus # Nobody /\ bus' = Nobody /\ UNCHANGED st

Take(c) == st[c] = "answered" /\ st' = [st EXCEPT ![c] = "idle"] /\ UNCHANGED bus

\* The transaction fails, and leaves nothing of it on the bus.
Fail(c) ==
    /\ st[c] = "waiting" /\ bus # c
    /\ st' = [st EXCEPT ![c] = "idle"] /\ UNCHANGED bus

Next ==
    \/ \E c \in Clients : Ask(c) \/ Grab(c) \/ Deliver(c) \/ Take(c) \/ Fail(c)
    \/ Drop

Safety   == Init /\ [][Next]_vars
Fairness == \A c \in Clients : WF_vars(Take(c))

Spec == Safety /\ Fairness
=============================================================================
