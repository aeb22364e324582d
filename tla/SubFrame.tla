------------------------------- MODULE SubFrame -------------------------------
(***************************************************************************)
(* A page of the client shows one charge controller.  update() asks        *)
(* controller_read for its report and, each on its own turn, history for   *)
(* four graphs; num_processes counts the requests that are out, and when   *)
(* it is back at zero the next update() is put on a timer.  The user may   *)
(* zoom a graph or change the mode of the graphs at any time, which calls  *)
(* update() at once.                                                       *)
(*                                                                         *)
(* Each request is a connection of its own, so that answers come in any    *)
(* order.  A handler that is given no document, as with a 404, throws      *)
(* before it comes to doneProcess().                                       *)
(***************************************************************************)
EXTENDS Naturals, Sequences

CONSTANTS
    Limit,       \* Limit[g]: updates between two requests for graph g
    MaxReloads,  \* bound: times the user zooms or toggles
    MaxBroken    \* bound: handlers that throw

Graphs == {"Recent", "Minutes", "Hours", "Days"}
Kinds  == Graphs \union {"report"}

ASSUME PageAssumption ==
    Limit \in [Graphs -> Nat] /\ MaxReloads \in Nat /\ MaxBroken \in Nat

VARIABLES
    out,            \* the requests that are out, in the order they were sent
    num_processes,
    timers,         \* calls of update() on a timer
    counter,        \* counter_recent and so on
    known,          \* controller_id # 0
    reloads, broken

vars == <<out, num_processes, timers, counter, known, reloads, broken>>

\* A request that is out, and whether the answer to a later one is shown.
Requests == [kind : Kinds, late : BOOLEAN]
New(k) == [kind |-> k, late |-> FALSE]

TypeOK ==
    /\ out \in Seq(Requests)
    /\ num_processes \in Nat /\ timers \in Nat
    /\ counter \in [Graphs -> Nat] /\ \A g \in Graphs : counter[g] <= Limit[g]
    /\ known \in BOOLEAN
    /\ reloads \in 0..MaxReloads /\ broken \in 0..MaxBroken

-----------------------------------------------------------------------------
\* Mutant: the counter is reset whether the graph was due or not.
Counted_Reset(c) == [g \in Graphs |-> 0]

Counted(c) == [g \in Graphs |-> IF c[g] = Limit[g] THEN 0 ELSE c[g] + 1]

Due(c, g) == IF c[g] = Limit[g] THEN <<New(g)>> ELSE <<>>

\* Mutant: the copy for the hours still asks for the minutes.
Sent_Copied(c) ==
    LET report == <<New("report")>>
    IN  IF known THEN report \o Due(c, "Recent") \o Due(c, "Minutes") \o Due(c, "Minutes")
                             \o Due(c, "Days")
                 ELSE report

\* The graphs are asked for only when the report has told the controller's id.
Sent(c) ==
    LET report == <<New("report")>>
    IN  IF known THEN report \o Due(c, "Recent") \o Due(c, "Minutes") \o Due(c, "Hours")
                             \o Due(c, "Days")
                 ELSE report

\* update(), with the counters as they are then.
Update(c) ==
    /\ out' = out \o Sent(c)
    /\ num_processes' = num_processes + Len(Sent(c))
    /\ counter' = IF known THEN Counted(c) ELSE c

\* onload.
Init ==
    /\ out = <<New("report")>> /\ num_processes = 1
    /\ timers = 0 /\ counter = Limit /\ known = FALSE
    /\ reloads = 0 /\ broken = 0

Timer ==
    /\ timers > 0
    /\ timers' = timers - 1 /\ Update(counter)
    /\ UNCHANGED <<known, reloads, broken>>

\* reload(), from zoom() or toggleGraphMode(): every graph is due.
Reload ==
    /\ reloads < MaxReloads /\ reloads' = reloads + 1
    /\ Update(Limit)
    /\ UNCHANGED <<timers, known, broken>>

\* Mutant: every answer sets a timer.
doneProcess_EveryTime ==
    num_processes' = num_processes - 1 /\ timers' = timers + 1

\* The last answer of all that were waited for sets a timer.
doneProcess ==
    IF num_processes = 0 THEN UNCHANGED <<num_processes, timers>>
    ELSE /\ num_processes' = num_processes - 1
         /\ timers' = IF num_processes = 1 THEN timers + 1 ELSE timers

\* Request i is out no more; those of its kind sent before it are late now if
\* it is shown.
Without(i, shown) ==
    [j \in 1 .. Len(out) - 1 |->
        IF j >= i THEN out[j + 1]
        ELSE [out[j] EXCEPT !.late = @ \/ (shown /\ out[j].kind = out[i].kind)]]

\* The handler of an answer with a document shows it.
Load(i) ==
    /\ out' = Without(i, TRUE)
    /\ known' = (known \/ out[i].kind = "report")
    /\ doneProcess
    /\ UNCHANGED <<counter, reloads, broken>>

\* Mutant: only answers are counted.
Fail_NotCounted(i) ==
    /\ out' = Without(i, FALSE)
    /\ UNCHANGED <<num_processes, timers, known, counter, reloads, broken>>

\* There is no connection, or it is reset.
Fail(i) ==
    /\ out' = Without(i, FALSE)
    /\ doneProcess
    /\ UNCHANGED <<known, counter, reloads, broken>>

\* responseXML is null.
Break(i) ==
    /\ broken < MaxBroken /\ broken' = broken + 1
    /\ out' = Without(i, FALSE)
    /\ UNCHANGED <<num_processes, timers, known, counter, reloads>>

Answer == \E i \in DOMAIN out : Load(i) \/ Fail(i) \/ Break(i)

\* When a handler has thrown there may be nothing left to wait for.
Stopped == out = <<>> /\ timers = 0 /\ UNCHANGED vars

Next == Timer \/ Reload \/ Answer \/ Stopped

\* A timer fires, and each request is answered or fails (HttpServer).
Spec == Init /\ [][Next]_vars /\ WF_vars(Timer) /\ WF_vars(Answer)

-----------------------------------------------------------------------------
(* Properties. *)

\* num_processes is the requests that are out and the handlers that threw: it is
\* zero, and the next update() on a timer, exactly when all have been answered.
Counts == num_processes = Len(out) + broken

\* The updates do not multiply but by the user's reloads: one that comes while
\* the timer runs stays beside it.
ChainsBounded == timers + (IF num_processes > 0 THEN 1 ELSE 0) <= 1 + reloads

\* As long as the user does not reload, no answer is shown after that of a later
\* request.
NeverBack == reloads = 0 => \A i \in DOMAIN out : ~out[i].late

\* The page goes on asking for the report and, once it knows its controller, for
\* every graph, whatever requests fail, unless a handler throws.
KeepsAsking ==
    [](broken = 0) =>
        \A k \in Kinds : (k = "report" \/ <>known)
                            => []<>(\E i \in DOMAIN out : out[i].kind = k)
=============================================================================
