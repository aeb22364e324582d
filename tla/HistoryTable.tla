---------------------------- MODULE HistoryTable ----------------------------
(***************************************************************************)
(* The history database: a chain of tables (Recent, Minutes, Hours, Days), *)
(* the polling thread that adds a record to the first and lets the average *)
(* of the open window cascade into the next, and the HTTP thread that      *)
(* reads a table.  Time is in seconds.                                     *)
(*                                                                         *)
(* Every SQL statement commits by itself.  One recursive lock, c_lock,     *)
(* covers addRecord() from its first statement to its last, nested calls   *)
(* included, and the query of toXML(); it does not cover mktimestamp(),    *)
(* and that keeps its result in the static buffer of localtime(), which    *)
(* both threads use: filling the buffer and formatting it are two steps,   *)
(* and what the one fills while the other formats, field by field, mixes   *)
(* with what was there.                                                    *)
(*                                                                         *)
(* A record's value is symbolic: a reading in the first table, in the      *)
(* others the average with the set of the records it is the average of.    *)
(***************************************************************************)
EXTENDS Integers, FiniteSets

CONSTANTS
    N,            \* number of tables, in the order of the cascade
    Cascade,      \* m_cascade_time of table l
    Expiry,       \* m_expiry
    Window,       \* m_window
    Ids,          \* MODBUS ids polled
    Readings,     \* what a successful read of a controller returns
    Requests,     \* are there HTTP requests?
    Fresh,        \* is the database created by the first start?
    DstAt, DstShift,  \* the local clock is set back DstShift seconds at DstAt
    Coarse,       \* seconds of the largest field of a timestamp
    GoesOn,       \* bound: does a round begin when the threads have raced?
    MaxNow,       \* bound: seconds the clock runs
    MaxFaults     \* bound: failed reads, and deaths of the process

Tables == 1..N

\* What a failed read leaves in the record.
NaN == [is |-> "nan"]

ASSUME HistoryAssumption ==
    /\ N \in Nat \ {0}
    /\ Cascade \in [Tables -> Nat \ {0}]
    /\ Expiry \in [Tables -> Nat]
    /\ Window \in [Tables -> Nat]
    /\ \A l \in Tables : Cascade[l] <= Expiry[l] /\ Window[l] <= Expiry[l]
    /\ NaN \notin Readings
    /\ {Requests, Fresh, GoesOn} \subseteq BOOLEAN
    /\ DstAt \in Int /\ DstShift \in Nat /\ Coarse \in Nat \ {0}
    /\ MaxNow \in Nat /\ MaxFaults \in Nat

VARIABLES
    now,      \* time(NULL)
    rows,     \* rows[l]: the records of table l
    live,     \* live[l]: m_for_each_in_range of table l can be stepped
    held,     \* times the polling thread holds c_lock
    pmix, hmix,   \* what the other thread has filled the static buffer of localtime()
                  \* with since the polling, the HTTP thread began to: each its set
    raced,    \* one thread filled it before the other had formatted it
    ppc,      \* the polling thread: its next step
    lvl,      \* the table of the current addRecord() call
    t, id, val,   \* the arguments of that call
    stamp,    \* its timestamp buffer
    from,     \* its start_time buffer
    hpc,      \* the HTTP thread: its next step
    asked,    \* the table and id of its request
    hstart, hend, \* the times its window starts and ends, and ...
    hfrom, hto,   \* ... its start_time and end_time buffers
    ever,     \* ever[l]: records inserted, by the time they are about
    faults    \* failed reads and deaths so far

buffer == <<pmix, hmix, raced>>
pollVars == <<ppc, lvl, t, id, val, stamp, from>>
httpVars == <<hpc, asked, hstart, hend, hfrom, hto>>
vars == <<now, rows, live, held, buffer, pollVars, httpVars, ever, faults>>

Free == held = 0

\* localtime(): local time repeats itself when the clocks are set back.
Local(x) == IF x >= DstAt THEN x - DstShift ELSE x

\* ( now / m_cascade_time ) * m_cascade_time
Start(x, l) == (x \div Cascade[l]) * Cascade[l]

\* The records of one id between two timestamps.
Between(l, i, a, b) ==
    {r \in rows[l] : r.id = i /\ a <= r.stamp /\ r.stamp <= b}

\* A window holds whole windows of the tables before; and the window that is
\* open when the clock is set back, at a full hour, ends so much later that its
\* end is still past the records from before.
ASSUME WindowAssumption ==
    /\ \A l, k \in 1..(N - 1) : l < k => Cascade[k] % Cascade[l] = 0
    /\ \A l \in 1..(N - 1), x \in 0..MaxNow :
          LET end == Start(x, l) + Cascade[l] - 1
          IN  x < DstAt /\ DstAt <= end => DstAt - 1 <= Local(end)

\* doAveraging: the average, as the set of what it is the average of.
Average(recs) == [is |-> "average", of |-> {<<r.stamp, r.val>> : r \in recs}]

\* A thread has filled the buffer of localtime() and not yet formatted it.
PollerStamps == ppc \in {"stamp", "expire", "from", "average"}
HttpStamps   == hpc \in {"from", "to"}

\* What each has filled it with last.
PollerFilled ==
    Local(CASE ppc = "stamp"  -> t
            [] ppc = "expire" -> t - Expiry[lvl]
            [] ppc = "from"   -> Start(t, lvl)
            [] OTHER          -> Start(t, lvl) + Cascade[lvl] - 1)
HttpFilled == Local(IF hpc = "from" THEN hstart ELSE hend)

\* Filling it spoils what the other thread is about to format, or formats, and
\* may be spoilt by its filling.
PollerFills(x) ==
    /\ pmix' = IF HttpStamps THEN {HttpFilled} ELSE {}
    /\ hmix' = IF HttpStamps THEN hmix \union {Local(x)} ELSE {}
    /\ raced' = (raced \/ HttpStamps)

HttpFills(x) ==
    /\ hmix' = IF PollerStamps THEN {PollerFilled} ELSE {}
    /\ pmix' = IF PollerStamps THEN pmix \union {Local(x)} ELSE {}
    /\ raced' = (raced \/ PollerStamps)

\* A timestamp formatted from fields of several times: the largest field is of one
\* of them, those below may come to anything.
Within(x) == Coarse * (x \div Coarse) .. Coarse * (x \div Coarse) + Coarse - 1
Mix(x, S) == IF S \subseteq {x} THEN {x} ELSE UNION {Within(y) : y \in S \union {x}}
PollerFormats == Mix(PollerFilled, pmix)
HttpFormats   == Mix(HttpFilled, hmix)

Init ==
    /\ now = 0
    /\ rows = [l \in Tables |-> {}] /\ ever = [l \in Tables |-> {}]
    /\ live = [l \in Tables |-> l = N \/ ~Fresh]
    /\ held = 0 /\ pmix = {} /\ hmix = {} /\ raced = FALSE
    /\ ppc = "idle" /\ lvl = 1 /\ t = 0 /\ id \in Ids /\ val = NaN
    /\ stamp = 0 /\ from = 0
    /\ hpc = "idle" /\ asked \in Tables \X Ids
    /\ hstart = 0 /\ hend = 0 /\ hfrom = 0 /\ hto = 0
    /\ faults = 0

-----------------------------------------------------------------------------
(* The polling thread: History::run and HistoryTable::addRecord. *)

\* One round of the loop: localtime() for a timestamp nobody uses, then the
\* two reads; a read that fails leaves NaN.
Read ==
    /\ ppc = "idle" /\ (raced => GoesOn) /\ PollerFills(now)
    /\ id' \in Ids
    /\ \/ val' \in Readings /\ UNCHANGED faults
       \/ faults < MaxFaults /\ val' = NaN /\ faults' = faults + 1
    /\ ppc' = "call"
    /\ UNCHANGED <<now, rows, live, held, lvl, t, stamp, from, httpVars, ever>>

\* t_recent->addRecord( time(NULL), ... ): fill the timestamp.
Call ==
    /\ ppc = "call" /\ PollerFills(now)
    /\ t' = now /\ lvl' = 1 /\ ppc' = "stamp"
    /\ UNCHANGED <<now, rows, live, held, id, val, stamp, from, httpVars, ever, faults>>

\* Format the timestamp.
Stamp ==
    /\ ppc = "stamp"
    /\ stamp' \in PollerFormats
    /\ ppc' = "lock"
    /\ UNCHANGED <<now, rows, live, held, buffer, lvl, t, id, val, from, httpVars, ever, faults>>

\* c_lock.lock(): the lock is recursive, and a query holds it for the length of
\* one step only.
Lock ==
    /\ ppc = "lock"
    /\ held' = held + 1 /\ ppc' = "delete"
    /\ UNCHANGED <<now, rows, live, buffer, lvl, t, id, val, stamp, from, httpVars, ever, faults>>

\* Mutants: no DELETE; the DELETE forgets the id.
Delete_Nothing ==
    /\ ppc = "delete" /\ ppc' = "insert"
    /\ UNCHANGED <<now, rows, live, held, buffer, lvl, t, id, val, stamp, from, httpVars, ever, faults>>

Delete_AnyId ==
    /\ ppc = "delete"
    /\ rows' = [rows EXCEPT ![lvl] = {r \in @ : r.stamp # stamp}]
    /\ ppc' = "insert"
    /\ UNCHANGED <<now, live, held, buffer, lvl, t, id, val, stamp, from, httpVars, ever, faults>>

\* DELETE ... WHERE id= and timestamp=
Delete ==
    /\ ppc = "delete"
    /\ rows' = [rows EXCEPT ![lvl] = {r \in @ : ~(r.id = id /\ r.stamp = stamp)}]
    /\ ppc' = "insert"
    /\ UNCHANGED <<now, live, held, buffer, lvl, t, id, val, stamp, from, httpVars, ever, faults>>

\* INSERT; "nan" is no SQL number and the statement fails.  Then fill the
\* timestamp of the expiry.
Insert ==
    /\ ppc = "insert" /\ PollerFills(t - Expiry[lvl])
    /\ IF val = NaN
       THEN UNCHANGED <<rows, ever>>
       ELSE /\ rows' = [rows EXCEPT ![lvl] =
                          @ \union {[id |-> id, stamp |-> stamp, val |-> val]}]
            /\ ever' = [ever EXCEPT ![lvl] =
                          {e \in @ : ~(e.id = id /\ e.at = t)}
                          \union {[id |-> id, at |-> t, val |-> val]}]
    /\ ppc' = "expire"
    /\ UNCHANGED <<now, live, held, lvl, t, id, val, stamp, from, httpVars, faults>>

\* Mutant: the innermost call unlocks before it returns, too.
Return_UnlocksTwice ==
    /\ ppc' = "idle" /\ lvl' = 1
    /\ held' = held - lvl - 1
    /\ t' = 0 /\ val' = NaN /\ stamp' = 0 /\ from' = 0

\* The call returns, and with it the calls it was nested in: each unlocks once,
\* and their locals go out of scope.
Return ==
    /\ ppc' = "idle" /\ lvl' = 1
    /\ held' = held - lvl
    /\ t' = 0 /\ val' = NaN /\ stamp' = 0 /\ from' = 0

\* Mutant: timestamp<= in the second DELETE.
Expire_Inclusive ==
    /\ ppc = "expire"
    /\ \E x \in PollerFormats :
          rows' = [rows EXCEPT ![lvl] = {r \in @ : ~(r.id = id /\ r.stamp <= x)}]
    /\ \/ /\ lvl < N /\ PollerFills(Start(t, lvl)) /\ ppc' = "from"
          /\ UNCHANGED <<held, lvl, t, val, stamp, from>>
       \/ lvl = N /\ Return /\ UNCHANGED buffer
    /\ UNCHANGED <<now, live, id, httpVars, ever, faults>>

\* DELETE ... WHERE id= and timestamp< ; then fill the start of the window, or
\* return from the last table, and with it from all.
Expire ==
    /\ ppc = "expire"
    /\ \E x \in PollerFormats :
          rows' = [rows EXCEPT ![lvl] = {r \in @ : ~(r.id = id /\ r.stamp < x)}]
    /\ \/ /\ lvl < N /\ PollerFills(Start(t, lvl)) /\ ppc' = "from"
          /\ UNCHANGED <<held, lvl, t, val, stamp, from>>
       \/ lvl = N /\ Return /\ UNCHANGED buffer
    /\ UNCHANGED <<now, live, id, httpVars, ever, faults>>

\* Format the start of the window, fill its end.
From ==
    /\ ppc = "from" /\ PollerFills(Start(t, lvl) + Cascade[lvl] - 1)
    /\ from' \in PollerFormats
    /\ ppc' = "average"
    /\ UNCHANGED <<now, rows, live, held, lvl, t, id, val, stamp, httpVars, ever, faults>>

\* The records of the window, up to what is formatted as its end.
Gathered == {IF live[lvl] THEN Between(lvl, id, from, to) ELSE {} : to \in PollerFormats}

\* Mutants: the average is recorded at the time of the record that caused it, or
\* at the end of its window; an empty window is looked at again.
Cascades_AtRecord ==
    /\ ppc = "average"
    /\ \E recs \in Gathered :
          \/ /\ recs # {} /\ PollerFills(t)
             /\ lvl' = lvl + 1 /\ t' = t /\ val' = Average(recs)
             /\ ppc' = "stamp"
             /\ UNCHANGED <<held, stamp, from>>
          \/ recs = {} /\ Return /\ UNCHANGED buffer
    /\ UNCHANGED <<now, rows, live, id, httpVars, ever, faults>>

Cascades_AtEnd ==
    /\ ppc = "average"
    /\ \E recs \in Gathered :
          \/ /\ recs # {} /\ PollerFills(Start(t, lvl) + Cascade[lvl])
             /\ lvl' = lvl + 1 /\ t' = Start(t, lvl) + Cascade[lvl] /\ val' = Average(recs)
             /\ ppc' = "stamp"
             /\ UNCHANGED <<held, stamp, from>>
          \/ recs = {} /\ Return /\ UNCHANGED buffer
    /\ UNCHANGED <<now, rows, live, id, httpVars, ever, faults>>

Cascades_Retries ==
    /\ ppc = "average"
    /\ \E recs \in Gathered :
          \/ /\ recs # {} /\ PollerFills(Start(t, lvl))
             /\ lvl' = lvl + 1 /\ t' = Start(t, lvl) /\ val' = Average(recs)
             /\ ppc' = "stamp"
             /\ UNCHANGED <<held, stamp, from>>
          \/ /\ recs = {} /\ PollerFills(Start(t, lvl)) /\ ppc' = "from"
             /\ UNCHANGED <<held, lvl, t, val, stamp, from>>
    /\ UNCHANGED <<now, rows, live, id, httpVars, ever, faults>>

\* Average the window: into the next table, whose addRecord() fills its
\* timestamp, or back to the caller when there was no record.
Cascades ==
    /\ ppc = "average"
    /\ \E recs \in Gathered :
          \/ /\ recs # {} /\ PollerFills(Start(t, lvl))
             /\ lvl' = lvl + 1 /\ t' = Start(t, lvl) /\ val' = Average(recs)
             /\ ppc' = "stamp"
             /\ UNCHANGED <<held, stamp, from>>
          \/ recs = {} /\ Return /\ UNCHANGED buffer
    /\ UNCHANGED <<now, rows, live, id, httpVars, ever, faults>>

Poller == Read \/ Call \/ Stamp \/ Lock \/ Delete \/ Insert \/ Expire \/ From \/ Cascades

-----------------------------------------------------------------------------
(* The HTTP thread: HistoryTable::toXML. *)

\* Fill the start of the window.
Ask ==
    /\ hpc = "idle" /\ Requests
    /\ asked' \in Tables \X Ids
    /\ hstart' = now - Window[asked'[1]]
    /\ HttpFills(now - Window[asked'[1]])
    /\ hpc' = "from"
    /\ UNCHANGED <<now, rows, live, held, pollVars, hend, hfrom, hto, ever, faults>>

\* Format it, fill its end.
HttpFrom ==
    /\ hpc = "from" /\ HttpFills(now) /\ hend' = now
    /\ hfrom' \in HttpFormats
    /\ hpc' = "to"
    /\ UNCHANGED <<now, rows, live, held, pollVars, asked, hstart, hto, ever, faults>>

HttpTo ==
    /\ hpc = "to"
    /\ hto' \in HttpFormats
    /\ hpc' = "query"
    /\ UNCHANGED <<now, rows, live, held, buffer, pollVars, asked, hstart, hend, hfrom, ever, faults>>

\* The records a request reads.
Report == IF live[asked[1]] THEN Between(asked[1], asked[2], hfrom, hto) ELSE {}

\* Mutants: the table is read without the lock; a lock that is taken sends the
\* request back to the start.
Query_Unlocked ==
    /\ hpc = "query"
    /\ hpc' = "idle" /\ hstart' = 0 /\ hend' = 0 /\ hfrom' = 0 /\ hto' = 0
    /\ UNCHANGED <<now, rows, live, held, buffer, pollVars, asked, ever, faults>>

Query_TriesLock ==
    /\ hpc = "query"
    /\ IF Free THEN hpc' = "idle" /\ hstart' = 0 /\ hend' = 0 /\ hfrom' = 0 /\ hto' = 0
               ELSE hpc' = "to" /\ UNCHANGED <<hstart, hend, hfrom, hto>>
    /\ UNCHANGED <<now, rows, live, held, buffer, pollVars, asked, ever, faults>>

\* Lock, read the table, unlock, answer with the Report; the buffers go out of
\* scope.
Query ==
    /\ hpc = "query" /\ Free
    /\ hpc' = "idle" /\ hstart' = 0 /\ hend' = 0 /\ hfrom' = 0 /\ hto' = 0
    /\ UNCHANGED <<now, rows, live, held, buffer, pollVars, asked, ever, faults>>

Http == Ask \/ HttpFrom \/ HttpTo \/ Query

-----------------------------------------------------------------------------
Tick ==
    /\ now < MaxNow
    /\ now' = now + 1
    /\ UNCHANGED <<rows, live, held, buffer, pollVars, httpVars, ever, faults>>

\* The process dies (another request's std::stoi throws, an assert fails) and
\* Task::main starts it again: the tables are there, and the statements are
\* prepared for them.
Crash ==
    /\ faults < MaxFaults
    /\ faults' = faults + 1
    /\ held' = 0 /\ pmix' = {} /\ hmix' = {}
    /\ ppc' = "idle" /\ lvl' = 1 /\ t' = 0 /\ val' = NaN /\ stamp' = 0 /\ from' = 0
    /\ hpc' = "idle" /\ hstart' = 0 /\ hend' = 0 /\ hfrom' = 0 /\ hto' = 0
    /\ live' = [l \in Tables |-> TRUE]
    /\ UNCHANGED <<now, rows, raced, id, asked, ever>>

Next == Poller \/ Http \/ Tick \/ Crash

\* Both threads run.  The lock is not fair, but the polling thread leaves it
\* free while it talks to the bus: a waiting query gets it in the end.
Spec == Init /\ [][Next]_vars /\ WF_vars(Poller) /\ WF_vars(Ask \/ HttpFrom \/ HttpTo)
             /\ SF_vars(Query)

-----------------------------------------------------------------------------
(* Properties. *)

TypeOK ==
    /\ now \in 0..MaxNow /\ faults \in 0..MaxFaults
    /\ DOMAIN rows = Tables /\ DOMAIN ever = Tables
    /\ \A l \in Tables : \A r \in rows[l] : r.id \in Ids /\ r.stamp \in Int
    /\ live \in [Tables -> BOOLEAN]
    /\ held \in 0..N
    /\ pmix \subseteq Int /\ hmix \subseteq Int /\ raced \in BOOLEAN /\ t \in Int /\ stamp \in Int /\ from \in Int
    /\ ppc \in {"idle", "call", "stamp", "lock", "delete", "insert", "expire",
                "from", "average"}
    /\ lvl \in Tables /\ id \in Ids
    /\ hpc \in {"idle", "from", "to", "query"}
    /\ asked \in Tables \X Ids
    /\ hstart \in Int /\ hend \in Int /\ hfrom \in Int /\ hto \in Int

\* A table has one record per id and timestamp, whatever the threads, the
\* clocks or a crash do: the DELETE before the INSERT stands for the key the
\* tables do not have.
UniqueRecord ==
    \A l \in Tables : \A r, s \in rows[l] :
        r.id = s.id /\ r.stamp = s.stamp => r = s

\* Neither the race for the buffer nor the clock going back has spoilt a
\* timestamp.
Steady == ~raced /\ now < DstAt

\* The row of a record.
RowOf(e) == [id |-> e.id, stamp |-> Local(e.at), val |-> e.val]

\* What was inserted into a table, is young, and is not there.
Missing ==
    UNION {{<<l, e>> : e \in {x \in ever[l] : x.at >= now - Expiry[l] /\ RowOf(x) \notin rows[l]}}
              : l \in Tables}

\* Whenever the lock is free, every record younger than the expiry of its
\* table is in the table, with the value that was inserted last, except for one
\* at most for every failed read and every death of the process: addRecord()
\* deletes before it inserts, in two statements no transaction joins.
Retained == Free /\ Steady => Cardinality(Missing) <= faults

InWindow(at, l, start) == start <= at /\ at <= start + Cascade[l] - 1

\* What the window of record e averages to.
WindowAverage(l, e) ==
    LET its == {y \in ever[l] : y.id = e.id /\ InWindow(y.at, l, Start(e.at, l))}
    IN  [is |-> "average", of |-> {<<x.at, x.val>> : x \in its}]

\* The windows of table l, by id and start, whose average the next table never
\* got, or got from a part of their records.
Gaps(l) ==
    {<<e.id, Start(e.at, l)>> :
        e \in {x \in ever[l] : [id |-> x.id, at |-> Start(x.at, l),
                                val |-> WindowAverage(l, x)] \notin ever[l + 1]}}

\* Whenever the lock is free, the next table has, for every window of this one
\* in which something was recorded, the average of all that was recorded in
\* it, also when the records themselves have expired since; a failed read or a
\* death of the process spoils one window of each table at most.
Cascaded == Free /\ Steady => \A l \in 1..(N - 1) : Cardinality(Gaps(l)) <= faults

\* A report has every record of its window that is younger than the expiry,
\* but those a fault has lost: a reader never comes between the DELETE and the
\* INSERT of a record.
ReportsAll ==
    [][Query /\ Steady /\ faults = 0 =>
         \A e \in ever[asked[1]] :
             (/\ e.id = asked[2] /\ e.at >= hstart /\ e.at <= hto
              /\ e.at >= now - Expiry[asked[1]])
             => [id |-> e.id, stamp |-> e.at, val |-> e.val] \in Report]_vars

\* addRecord() touches the records of its own id only.
OwnRecordsOnly ==
    [][\A l \in Tables : \A r \in rows[l] \union rows'[l] :
           (r \in rows[l] /\ r \in rows'[l]) \/ r.id = id]_vars

\* No record is about a later time than the clock has reached, unless the threads
\* have mixed the fields of two times; and its largest field is none to come even
\* then.
NoneFromTheFuture ==
    \A l \in Tables : \A r \in rows[l] :
        /\ r.stamp \div Coarse <= now \div Coarse
        /\ ~raced => r.stamp <= now

\* Every request is answered, and the polling goes on.
Answered == hpc # "idle" ~> hpc = "idle"
PollingGoesOn == []<>(ppc = "idle")
=============================================================================
