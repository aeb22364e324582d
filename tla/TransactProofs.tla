--------------------------- MODULE TransactProofs ---------------------------
(***************************************************************************)
(* The wait of a transaction is bounded, and a reply that came in time is  *)
(* not reported as missing: for every timeout, every reply length, every   *)
(* scheduling delay and every way the peer cuts its bytes.                 *)
(***************************************************************************)
EXTENDS Transact, TLAPS

\* Where the clock may stand, from the start of the current read: a poll adds
\* at most the timeout to an elapsed time of at most the timeout.
ClockInv ==
    /\ begin <= start /\ start <= now
    /\ pc \in {"connect", "write"} => now = begin
    /\ pc \in Reading /\ stage = 1 => start = begin
    /\ pc \in Reading /\ stage = 2 => start <= begin + Bound
    /\ pc \in {"loop", "read"} => now <= start + 2 * TimeoutMs + lag
    /\ pc = "poll" => /\ now <= wake + lag
                      /\ wake <= start + 2 * TimeoutMs

\* The bytes read are bytes sent, and when the whole reply is in the socket
\* with bytes still to read, the loop either has just started or has left
\* poll() before the reply arrived.
BytesInv ==
    /\ Taken <= sent
    /\ pc \in {"connect", "write"} => stage = 1 /\ rc = 0
    /\ pc = "connect" => whole = -1
    /\ pc \in {"poll", "read"} => rc # Length
    /\ whole # -1 => sent >= RxLen /\ whole >= begin
    /\ (pc = "loop" /\ rc # Length /\ whole # -1) =>
          \/ whole >= now - lag
          \/ now - lag <= start

IInv == TypeOK /\ ClockInv /\ BytesInv /\ BoundedWait /\ NoFalseTimeout

\* The initial state satisfies the invariant.
LEMMA InitIInv == Init => IInv
<1> SUFFICES ASSUME Init PROVE IInv
  OBVIOUS
<1> USE TransactAssumption DEF TransactAssumption, Init
<1>1. TypeOK
  <2>1. Length \in Nat
    BY DEF Length
  <2>2. eof \in BOOLEAN /\ reset \in BOOLEAN
    BY Zenon
  <2>3. pc \in {"connect", "write"} \union Reading \union Final
    OBVIOUS
  <2>4. rc \in 0..Length /\ lag \in 0..Slack /\ sent \in 0..MaxBytes
    BY <2>1
  <2> QED
    BY <2>1, <2>2, <2>3, <2>4 DEF TypeOK
<1>2. ClockInv
  BY DEF ClockInv, Reading
<1>3. BytesInv
  BY DEF BytesInv, Taken, Length
<1>4. BoundedWait /\ NoFalseTimeout
  BY DEF BoundedWait, NoFalseTimeout, Reading, Final
<1> QED
  BY <1>1, <1>2, <1>3, <1>4 DEF IInv

\* Every step preserves it: one step per action of the client, of the peer and
\* of the clock.
LEMMA NextIInv == IInv /\ [Next]_vars => IInv'
<1> SUFFICES ASSUME IInv, [Next]_vars PROVE IInv'
  OBVIOUS
<1> USE TransactAssumption
    DEF TransactAssumption, IInv, TypeOK, ClockInv, BytesInv, BoundedWait,
        NoFalseTimeout,
        Reading, Final, Length, Taken, Bound, peerVars
<1>1. CASE ConnectFails
  BY <1>1 DEF ConnectFails
<1>2. CASE Connect
  BY <1>2 DEF Connect
<1>3. CASE Write
  BY <1>3 DEF Write
<1>4. CASE Complete
  <2>1. ASSUME stage = 1, pc' = "abort", UNCHANGED <<stage, rc, start, lag>>
        PROVE  IInv'
    BY <1>4, <2>1 DEF Complete
  <2>2. ASSUME stage = 1, stage' = 2, rc' = 0, start' = now, lag' = 0, pc' = pc
        PROVE  IInv'
    BY <1>4, <2>2 DEF Complete
  <2>3. ASSUME stage = 2, pc' = "ok", UNCHANGED <<stage, rc, start, lag>>
        PROVE  IInv'
    BY <1>4, <2>3 DEF Complete
  <2> QED
    BY <1>4, <2>1, <2>2, <2>3 DEF Complete
<1>5. CASE Poll
  BY <1>5 DEF Poll
<1>6. CASE TimedOut
  <2>1. (~reset /\ whole # -1) => whole + Slack > begin + TimeoutMs
    BY <1>6 DEF TimedOut
  <2> QED
    BY <1>6, <2>1 DEF TimedOut
<1>7. CASE PollReturns
  BY <1>7 DEF PollReturns, Readable, Avail
<1>8. CASE Read
  BY <1>8 DEF Read, Avail
<1>9. CASE PeerSends
  BY <1>9 DEF PeerSends, Connected
<1>10. CASE PeerCloses
  <2>1. eof' \in BOOLEAN /\ reset' \in BOOLEAN
    BY <1>10, Zenon DEF PeerCloses
  <2>2. UNCHANGED <<pc, stage, rc, now, begin, start, wake, lag, sent, whole>>
    BY <1>10 DEF PeerCloses
  <2>3. pc \notin Final
    BY <1>10 DEF PeerCloses, Connected
  <2>4. ~(pc' = "failed" /\ ~reset' /\ whole' # -1)
    BY <2>2, <2>3
  <2> QED
    BY <2>1, <2>2, <2>4
<1>11. CASE Tick
  <2>1. CASE Runnable
    BY <1>11, <2>1 DEF Tick, Runnable
  <2>2. CASE ~Runnable
    BY <1>11, <2>2 DEF Tick, Runnable
  <2> QED
    BY <2>1, <2>2
<1>12. CASE UNCHANGED vars
  BY <1>12 DEF vars
<1> QED
  BY <1>1, <1>2, <1>3, <1>4, <1>5, <1>6, <1>7, <1>8, <1>9, <1>10, <1>11, <1>12
  DEF Next, Client, Finished

LEMMA SpecIInv == Spec => []IInv
  BY InitIInv, NextIInv, PTL DEF Spec

\* Type correctness of the transaction.
THEOREM TypeCorrect == Spec => []TypeOK
  BY SpecIInv, PTL DEF IInv

\* A transaction is answered or given up within two reads of twice the timeout
\* each, plus the scheduling delays.
THEOREM WaitIsBounded == Spec => []BoundedWait
  BY SpecIInv, PTL DEF IInv

\* A reply whole in the socket a scheduling delay before the timeout is never
\* lost to ETIMEDOUT.
THEOREM ReplyInTimeIsRead == Spec => []NoFalseTimeout
  BY SpecIInv, PTL DEF IInv
=============================================================================
