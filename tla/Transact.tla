------------------------------ MODULE Transact ------------------------------
(***************************************************************************)
(* One ModBus::transact() call of a client: connect to the bridge, write   *)
(* the request, read the three byte header with timedRead(), read the rest *)
(* of the reply with a second timedRead().  The clock is in milliseconds.  *)
(*                                                                         *)
(* timedRead() gives poll() the time that has ELAPSED, not the time that   *)
(* remains, so a wait may end as late as twice the timeout; it tests       *)
(* whether it is complete before it tests the clock; it treats an end of   *)
(* file as zero more bytes and goes on.  The process is not assumed to run *)
(* at once: while it could run it may be kept waiting, at most Slack       *)
(* milliseconds between two tests of the clock.                            *)
(***************************************************************************)
EXTENDS Integers

CONSTANTS
    TimeoutMs,   \* timeout_ms of timedRead (350 in readComplete)
    HeaderLen,   \* bytes of the first read (3)
    RxLen,       \* rx_len: bytes of the whole reply
    Slack,       \* scheduling delay between two tests of the clock
    MaxBytes     \* bound: bytes the peer sends

ASSUME TransactAssumption ==
    /\ TimeoutMs \in Nat
    /\ HeaderLen \in Nat \ {0}
    /\ RxLen \in Nat /\ RxLen > HeaderLen
    /\ Slack \in Nat \ {0}
    /\ MaxBytes \in Nat

VARIABLES
    pc,      \* where the call stands
    stage,   \* 1 while the header is read, 2 while the rest is
    rc,      \* bytes the current timedRead has read
    now,     \* Task::NOWms()
    begin,   \* when the request had been written
    start,   \* start_time of the current timedRead
    wake,    \* when the current poll() times out
    lag,     \* time the runnable process has waited since it tested the clock
    sent,    \* bytes the peer has sent on this connection
    eof,     \* the peer has closed its side
    reset,   \* the peer has reset the connection
    whole    \* when the last byte of the reply arrived, -1 before that

peerVars == <<sent, eof, reset, whole>>
vars == <<pc, stage, rc, now, begin, start, wake, lag, sent, eof, reset, whole>>

Reading == {"loop", "poll", "read"}
Final   == {"ok", "failed", "abort"}

Length == IF stage = 1 THEN HeaderLen ELSE RxLen - HeaderLen
Taken  == (IF stage = 1 THEN 0 ELSE HeaderLen) + rc
Avail  == sent - Taken

TypeOK ==
    /\ pc \in {"connect", "write"} \union Reading \union Final
    /\ stage \in {1, 2}
    /\ rc \in 0..Length
    /\ now \in Nat /\ begin \in Nat /\ start \in Nat /\ wake \in Nat
    /\ lag \in 0..Slack
    /\ sent \in 0..MaxBytes
    /\ eof \in BOOLEAN /\ reset \in BOOLEAN
    /\ whole \in Nat \union {-1}

Init ==
    /\ pc = "connect" /\ stage = 1 /\ rc = 0
    /\ now = 0 /\ begin = 0 /\ start = 0 /\ wake = 0 /\ lag = 0
    /\ sent = 0 /\ eof = FALSE /\ reset = FALSE /\ whole = -1

-----------------------------------------------------------------------------
(* The client. *)

\* TCP::connect() returns -1: transact returns -1 at once.
ConnectFails ==
    /\ pc = "connect"
    /\ pc' = "failed"
    /\ UNCHANGED <<stage, rc, now, begin, start, wake, lag, peerVars>>

Connect ==
    /\ pc = "connect"
    /\ pc' = "write"
    /\ UNCHANGED <<stage, rc, now, begin, start, wake, lag, peerVars>>

\* writeComplete(), then the first timedRead takes its start time.
Write ==
    /\ pc = "write"
    /\ pc' = IF reset THEN "failed" ELSE "loop"
    /\ begin' = now /\ start' = now /\ lag' = 0
    /\ UNCHANGED <<stage, rc, now, wake, peerVars>>

\* Top of the loop, all bytes read.  The header leads to the second read or,
\* when it announces an exception, to assert(0); the rest ends the call.
Complete ==
    /\ pc = "loop" /\ rc = Length
    /\ \/ /\ stage = 1
          /\ pc' = "abort"
          /\ UNCHANGED <<stage, rc, start, lag>>
       \/ /\ stage = 1
          /\ stage' = 2 /\ rc' = 0 /\ start' = now /\ lag' = 0
          /\ UNCHANGED pc
       \/ /\ stage = 2
          /\ pc' = "ok"
          /\ UNCHANGED <<stage, rc, start, lag>>
    /\ UNCHANGED <<now, begin, wake, peerVars>>

\* Mutant: the whole timeout is added to what has elapsed.
Poll_Accumulates ==
    /\ pc = "loop" /\ rc # Length
    /\ now - start <= TimeoutMs
    /\ wake' = now + 2 * TimeoutMs + (now - start)
    /\ pc' = "poll" /\ lag' = 0
    /\ UNCHANGED <<stage, rc, now, begin, start, peerVars>>

\* Top of the loop, bytes missing, to <= timeout_ms: poll for `to' ms.
Poll ==
    /\ pc = "loop" /\ rc # Length
    /\ now - start <= TimeoutMs
    /\ wake' = now + (now - start)
    /\ pc' = "poll" /\ lag' = 0
    /\ UNCHANGED <<stage, rc, now, begin, start, peerVars>>

\* Mutant: errno is set and the loop goes on.
TimedOut_GoesOn ==
    /\ pc = "loop" /\ rc # Length
    /\ now - start > TimeoutMs
    /\ UNCHANGED vars

\* Top of the loop, bytes missing, to > timeout_ms: ETIMEDOUT.
TimedOut ==
    /\ pc = "loop" /\ rc # Length
    /\ now - start > TimeoutMs
    /\ pc' = "failed"
    /\ UNCHANGED <<stage, rc, now, begin, start, wake, lag, peerVars>>

Readable == Avail > 0 \/ eof \/ reset

\* poll() returns with POLLIN, or because its time is up.
PollReturns ==
    /\ pc = "poll"
    /\ \/ Readable /\ pc' = "read"
       \/ ~Readable /\ now >= wake /\ pc' = "loop"
    /\ UNCHANGED <<stage, rc, now, begin, start, wake, lag, peerVars>>

\* Mutant: the header's read takes whatever is in the socket.
Read_TakesAll ==
    /\ pc = "read"
    /\ IF reset
       THEN pc' = "failed" /\ UNCHANGED rc
       ELSE pc' = "loop" /\ rc' = rc + Avail
    /\ UNCHANGED <<stage, now, begin, start, wake, lag, peerVars>>

\* Mutant: the clock is looked at before the result of the last read().
Read_ThenClock ==
    /\ pc = "read"
    /\ IF reset \/ now - start >= TimeoutMs
       THEN pc' = "failed" /\ UNCHANGED rc
       ELSE /\ pc' = "loop"
            /\ rc' = IF Avail < Length - rc THEN rc + Avail ELSE Length
    /\ UNCHANGED <<stage, now, begin, start, wake, lag, peerVars>>

\* read() of what is there, up to length - rc; nothing at the end of file.
Read ==
    /\ pc = "read"
    /\ IF reset
       THEN pc' = "failed" /\ UNCHANGED rc
       ELSE /\ pc' = "loop"
            /\ rc' = IF Avail < Length - rc THEN rc + Avail ELSE Length
    /\ UNCHANGED <<stage, now, begin, start, wake, lag, peerVars>>

-----------------------------------------------------------------------------
(* The peer: the bridge at the other end of the socket. *)

Connected == pc \in {"write"} \union Reading

PeerSends ==
    /\ Connected /\ ~eof /\ ~reset
    /\ \E n \in (sent + 1)..MaxBytes :
          /\ sent' = n
          /\ whole' = IF whole = -1 /\ n >= RxLen THEN now ELSE whole
    /\ UNCHANGED <<pc, stage, rc, now, begin, start, wake, lag, eof, reset>>

PeerCloses ==
    /\ Connected /\ ~eof /\ ~reset
    /\ \/ eof' = TRUE /\ UNCHANGED reset
       \/ reset' = TRUE /\ UNCHANGED eof
    /\ UNCHANGED <<pc, stage, rc, now, begin, start, wake, lag, sent, whole>>

-----------------------------------------------------------------------------
(* The clock. *)

Runnable == pc \in {"loop", "read"} \/ (pc = "poll" /\ (Readable \/ now >= wake))

Tick ==
    /\ pc \in Reading
    /\ Runnable => lag < Slack
    /\ now' = now + 1
    /\ lag' = IF Runnable THEN lag + 1 ELSE lag
    /\ UNCHANGED <<pc, stage, rc, begin, start, wake, sent, eof, reset, whole>>

Finished == pc \in Final /\ UNCHANGED vars

Client ==
    \/ ConnectFails \/ Connect \/ Write \/ Complete
    \/ Poll \/ TimedOut \/ PollReturns \/ Read

Next == Client \/ PeerSends \/ PeerCloses \/ Tick \/ Finished

\* The process runs when it can and time goes by; the peer owes nothing.
Spec == Init /\ [][Next]_vars /\ WF_vars(Client) /\ WF_vars(Tick)

-----------------------------------------------------------------------------
(* Properties. *)

Bound == 2 * TimeoutMs + Slack

\* A call is over, or is still reading, no later than two reads of twice the
\* timeout each after the request was written: the poll argument of
\* ModBus::timedRead doubles the wait, it does not unbound it.
BoundedWait == pc \in Reading \union Final => now - begin <= 2 * Bound

\* A reply that is in the socket, whole, a scheduling delay before the timeout
\* is never reported as a failed transaction: the loop tests for completeness
\* before it tests the clock, and the second read has a timeout of its own.
NoFalseTimeout ==
    (pc = "failed" /\ ~reset /\ whole # -1) => whole + Slack > begin + TimeoutMs

\* Every call ends, also when the peer closes early and poll() then returns
\* at once, time after time, with nothing to read.
Returns == <>(pc \in Final)
=============================================================================
