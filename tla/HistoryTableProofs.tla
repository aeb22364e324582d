------------------------ MODULE HistoryTableProofs ------------------------
(***************************************************************************)
(* Proofs about the history tables, for any number of tables, ids and      *)
(* readings, with failed reads, concurrent requests, the shared buffer of  *)
(* localtime(), a clock that is set back and crashes all allowed.          *)
(***************************************************************************)
EXTENDS HistoryTable, FiniteSetTheorems, TLAPS

\* Where the polling thread stands says how often it holds the lock; only a
\* table with a next one is averaged; only a call leaves the first table.
LockDepth ==
    /\ held = IF ppc \in {"delete", "insert", "expire", "from", "average"}
              THEN lvl ELSE lvl - 1
    /\ ppc \in {"idle", "call"} => lvl = 1
    /\ ppc \in {"from", "average"} => lvl < N

\* Between the DELETE and the INSERT the place of the record is empty.
Cleared ==
    ppc = "insert" => \A r \in rows[lvl] : ~(r.id = id /\ r.stamp = stamp)

IInv == TypeOK /\ UniqueRecord /\ LockDepth /\ Cleared

-----------------------------------------------------------------------------
\* The clock arithmetic stays within the integers.
LEMMA StartIsInteger ==
    ASSUME NEW x \in Int, NEW l \in Tables
    PROVE  Start(x, l) \in Int
BY HistoryAssumption DEF Start

LEMMA LocalIsInteger ==
    ASSUME NEW x \in Int
    PROVE  Local(x) \in Int
BY HistoryAssumption DEF Local

\* So do the fields of a timestamp, mixed or not.
LEMMA MixIsInteger ==
    ASSUME NEW x \in Int, NEW S, S \subseteq Int
    PROVE  Mix(x, S) \subseteq Int
<1>1. ASSUME NEW y PROVE Within(y) \subseteq Int
  BY DEF Within
<1> HIDE DEF Within
<1> QED
  BY <1>1 DEF Mix

LEMMA FormatsAreIntegers ==
    ASSUME TypeOK
    PROVE  /\ PollerFilled \in Int /\ HttpFilled \in Int
           /\ PollerFormats \subseteq Int /\ HttpFormats \subseteq Int
<1>1. /\ t \in Int /\ lvl \in Tables /\ hstart \in Int /\ hend \in Int
      /\ pmix \subseteq Int /\ hmix \subseteq Int
      /\ Expiry[lvl] \in Int /\ Cascade[lvl] \in Int
  BY HistoryAssumption DEF TypeOK
<1>2. Start(t, lvl) \in Int
  BY <1>1, StartIsInteger
<1>3. /\ Local(t) \in Int /\ Local(t - Expiry[lvl]) \in Int /\ Local(Start(t, lvl)) \in Int
      /\ Local(Start(t, lvl) + Cascade[lvl] - 1) \in Int
      /\ Local(hstart) \in Int /\ Local(hend) \in Int
  <2>1. t - Expiry[lvl] \in Int /\ Start(t, lvl) + Cascade[lvl] - 1 \in Int
    BY <1>1, <1>2
  <2> QED
    BY <1>1, <1>2, <2>1, LocalIsInteger
<1>4. PollerFilled \in Int /\ HttpFilled \in Int
  BY <1>3 DEF PollerFilled, HttpFilled
<1> QED
  BY <1>1, <1>4, MixIsInteger DEF PollerFormats, HttpFormats

LEMMA InitHolds == Init => IInv
<1>1. Init => raced \in BOOLEAN
  BY DEF Init
<1>2. Init => TypeOK
  BY <1>1, HistoryAssumption DEF Init, TypeOK, Tables
<1>3. Init => UniqueRecord /\ LockDepth /\ Cleared
  BY HistoryAssumption DEF Init, UniqueRecord, LockDepth, Cleared, Tables
<1> QED
  BY <1>2, <1>3 DEF IInv

\* The mark of a race stays a truth value.
LEMMA RacedIsBoolean ==
    ASSUME raced \in BOOLEAN, Next
    PROVE  raced' \in BOOLEAN
<1>1. ASSUME NEW x, PollerFills(x) PROVE raced' \in BOOLEAN
  BY <1>1 DEF PollerFills
<1>2. ASSUME NEW x, HttpFills(x) PROVE raced' \in BOOLEAN
  BY <1>2 DEF HttpFills
<1>3. UNCHANGED raced => raced' \in BOOLEAN
  OBVIOUS
<1> QED
  BY <1>1, <1>2, <1>3
     DEF Next, Poller, Http, Read, Call, Stamp, Lock, Delete, Insert, Expire, From,
         Cascades, Ask, HttpFrom, HttpTo, Query, Tick, Crash, buffer

\* Only times mix.
LEMMA MixesAreTimes ==
    ASSUME TypeOK, Next
    PROVE  pmix' \subseteq Int /\ hmix' \subseteq Int
<1>1. /\ PollerFilled \in Int /\ HttpFilled \in Int
      /\ pmix \subseteq Int /\ hmix \subseteq Int
  BY FormatsAreIntegers DEF TypeOK
<1>2. ASSUME NEW x \in Int, PollerFills(x) PROVE pmix' \subseteq Int /\ hmix' \subseteq Int
  <2>1. Local(x) \in Int
    BY LocalIsInteger
  <2> QED
    BY <1>1, <1>2, <2>1 DEF PollerFills
<1>3. ASSUME NEW x \in Int, HttpFills(x) PROVE pmix' \subseteq Int /\ hmix' \subseteq Int
  <2>1. Local(x) \in Int
    BY LocalIsInteger
  <2> QED
    BY <1>1, <1>3, <2>1 DEF HttpFills
<1>4. /\ now \in Int /\ t \in Int /\ lvl \in Tables /\ Start(t, lvl) \in Int
      /\ t - Expiry[lvl] \in Int /\ Start(t, lvl) + Cascade[lvl] - 1 \in Int
  <2>1. t \in Int /\ lvl \in Tables /\ now \in 0..MaxNow
    BY DEF TypeOK
  <2>2. Start(t, lvl) \in Int /\ Expiry[lvl] \in Int /\ Cascade[lvl] \in Int
    BY <2>1, StartIsInteger, HistoryAssumption
  <2> QED
    BY <2>1, <2>2, HistoryAssumption
<1>5. ASSUME UNCHANGED buffer PROVE pmix' \subseteq Int /\ hmix' \subseteq Int
  BY <1>1, <1>5 DEF buffer
<1>6. CASE Read \/ Call
  BY <1>2, <1>4, <1>6 DEF Read, Call
<1>7. CASE Insert \/ From
  BY <1>2, <1>4, <1>7 DEF Insert, From
<1>8. CASE Expire
  BY <1>2, <1>4, <1>5, <1>8 DEF Expire
<1>9. CASE Cascades
  BY <1>2, <1>4, <1>5, <1>9 DEF Cascades
<1>10. CASE Ask
  <2>1. asked'[1] \in Tables
    BY <1>10 DEF Ask
  <2>2. now - Window[asked'[1]] \in Int
    BY <1>4, <2>1, HistoryAssumption
  <2> QED
    BY <1>3, <1>10, <2>2 DEF Ask
<1>11. CASE HttpFrom
  BY <1>3, <1>4, <1>11 DEF HttpFrom
<1>12. CASE Stamp \/ Lock \/ Delete \/ HttpTo \/ Query \/ Tick
  BY <1>5, <1>12 DEF Stamp, Lock, Delete, HttpTo, Query, Tick
<1>13. CASE Crash
  BY <1>13 DEF Crash
<1> QED
  BY <1>6, <1>7, <1>8, <1>9, <1>10, <1>11, <1>12, <1>13 DEF Next, Poller, Http

LEMMA TypeStep ==
    ASSUME TypeOK, LockDepth, Next
    PROVE  TypeOK' /\ LockDepth'
<1> USE HistoryAssumption DEF Tables
<1>0. raced' \in BOOLEAN /\ pmix' \subseteq Int /\ hmix' \subseteq Int
  BY RacedIsBoolean, MixesAreTimes DEF TypeOK
<1> USE <1>0
<1>00. PollerFormats \subseteq Int /\ HttpFormats \subseteq Int
  BY FormatsAreIntegers
<1>1. CASE Read
  <2>1. faults' \in 0..MaxFaults
    <3>1. faults' = faults \/ (faults < MaxFaults /\ faults' = faults + 1)
      BY <1>1 DEF Read
    <3>2. faults \in 0..MaxFaults /\ MaxFaults \in Nat
      BY DEF TypeOK
    <3> QED
      BY <3>1, <3>2
  <2> QED
    BY <1>1, <2>1 DEF Read, TypeOK, LockDepth, httpVars
<1>2. CASE Call
  BY <1>2 DEF Call, TypeOK, LockDepth, buffer, pollVars, httpVars
<1>3. CASE Stamp
  <2>1. stamp' \in Int
    BY <1>00, <1>3 DEF Stamp
  <2> QED
    BY <1>3, <2>1 DEF Stamp, TypeOK, LockDepth, buffer, pollVars, httpVars
<1>4. CASE Lock
  BY <1>4 DEF Lock, TypeOK, LockDepth, buffer, pollVars, httpVars
<1>5. CASE Delete
  BY <1>5 DEF Delete, TypeOK, LockDepth, buffer, pollVars, httpVars
<1>6. CASE Insert
  <2>2. /\ DOMAIN rows' = Tables /\ DOMAIN ever' = Tables
        /\ \A l \in Tables : \A r \in rows'[l] : r.id \in Ids /\ r.stamp \in Int
    <3>1. CASE val = NaN
      BY <1>6, <3>1 DEF Insert, TypeOK
    <3>2. CASE val # NaN
      <4> DEFINE new == [id |-> id, stamp |-> stamp, val |-> val]
      <4>1. new.id \in Ids /\ new.stamp \in Int
        BY DEF TypeOK
      <4>2. /\ rows' = [rows EXCEPT ![lvl] = rows[lvl] \union {new}]
            /\ DOMAIN ever' = DOMAIN ever
        BY <1>6, <3>2 DEF Insert
      <4> HIDE DEF new
      <4> QED
        BY <4>1, <4>2 DEF TypeOK
    <3> QED
      BY <3>1, <3>2
  <2> QED
    BY <1>6, <2>2 DEF Insert, TypeOK, LockDepth, buffer, pollVars, httpVars
<1>7. CASE Expire
  <2>1. /\ DOMAIN rows' = Tables /\ DOMAIN ever' = Tables
        /\ \A l \in Tables : \A r \in rows'[l] : r.id \in Ids /\ r.stamp \in Int
    <3>1. PICK x \in PollerFormats :
             rows' = [rows EXCEPT ![lvl] = {r \in rows[lvl] : ~(r.id = id /\ r.stamp < x)}]
      BY <1>7 DEF Expire
    <3>2. ever' = ever
      BY <1>7 DEF Expire
    <3> QED
      BY <3>1, <3>2 DEF TypeOK
  <2>2. CASE lvl < N /\ PollerFills(Start(t, lvl)) /\ ppc' = "from"
             /\ UNCHANGED <<held, lvl, t, val, stamp, from>>
    <3>1. ppc = "expire" /\ UNCHANGED <<now, live, id, httpVars, ever, faults>>
      BY <1>7 DEF Expire
    <3>2. UNCHANGED <<hpc, asked, hstart, hend, hfrom, hto>>
      BY <3>1 DEF httpVars
    <3> QED
      BY <2>1, <2>2, <3>1, <3>2 DEF TypeOK, LockDepth
  <2>3. CASE lvl = N /\ Return /\ UNCHANGED buffer
    BY <1>7, <2>1, <2>3 DEF Expire, Return, TypeOK, LockDepth, buffer, httpVars
  <2> QED
    BY <1>7, <2>2, <2>3 DEF Expire
<1>8. CASE From
  <2>1. from' \in Int
    BY <1>00, <1>8 DEF From
  <2> QED
    BY <1>8, <2>1 DEF From, TypeOK, LockDepth, buffer, httpVars
<1>9. CASE Cascades
  <2>1. CASE ppc' = "stamp"
    <3>1. PollerFills(Start(t, lvl)) /\ t' = Start(t, lvl)
      BY <1>9, <2>1 DEF Cascades, Return
    <3>2. t' \in Int
      BY <3>1, StartIsInteger DEF TypeOK
    <3>3. lvl' = lvl + 1 /\ UNCHANGED <<held, stamp, from>>
      BY <1>9, <2>1 DEF Cascades, Return
    <3>4. ppc = "average" /\ UNCHANGED <<now, rows, live, id, httpVars, ever, faults>>
      BY <1>9 DEF Cascades
    <3>5. UNCHANGED <<hpc, asked, hstart, hend, hfrom, hto>>
      BY <3>4 DEF httpVars
    <3> QED
      BY <2>1, <3>2, <3>3, <3>4, <3>5 DEF TypeOK, LockDepth
  <2>2. CASE Return /\ UNCHANGED buffer
    BY <1>9, <2>2 DEF Cascades, Return, TypeOK, LockDepth, buffer, httpVars
  <2> QED
    BY <1>9, <2>1, <2>2 DEF Cascades
<1>10. CASE Ask
  <2>1. asked'[1] \in Tables
    BY <1>10 DEF Ask
  <2>2. now - Window[asked'[1]] \in Int
    <3>1. now \in Int
      BY DEF TypeOK
    <3>2. Window[asked'[1]] \in Int
      BY <2>1
    <3> QED
      BY <3>1, <3>2
  <2> QED
    BY <1>10, <2>2 DEF Ask, TypeOK, LockDepth, buffer, pollVars
<1>11. CASE HttpFrom
  <2>1. hfrom' \in Int
    BY <1>00, <1>11 DEF HttpFrom
  <2> QED
    BY <1>11, <2>1 DEF HttpFrom, TypeOK, LockDepth, buffer, pollVars, httpVars
<1>12. CASE HttpTo
  <2>1. hto' \in Int
    BY <1>00, <1>12 DEF HttpTo
  <2> QED
    BY <1>12, <2>1 DEF HttpTo, TypeOK, LockDepth, buffer, pollVars, httpVars
<1>13. CASE Query
  BY <1>13 DEF Query, TypeOK, LockDepth, buffer, pollVars, httpVars
<1>14. CASE Tick
  BY <1>14 DEF Tick, TypeOK, LockDepth, buffer, pollVars, httpVars
<1>15. CASE Crash
  BY <1>15 DEF Crash, TypeOK, LockDepth, buffer, pollVars, httpVars
<1>16. QED
  BY <1>1, <1>2, <1>3, <1>4, <1>5, <1>6, <1>7, <1>8, <1>9, <1>10, <1>11, <1>12, <1>13, <1>14, <1>15 DEF Next, Poller, Http

-----------------------------------------------------------------------------
\* What the steps that touch no record and leave no DELETE behind preserve.
LEMMA OtherSteps ==
    ASSUME UniqueRecord, Cleared, UNCHANGED rows,
           ppc' = "insert" => UNCHANGED <<ppc, lvl, id, stamp>>
    PROVE  UniqueRecord' /\ Cleared'
BY DEF UniqueRecord, Cleared

LEMMA RecordStep ==
    ASSUME IInv, Next
    PROVE  UniqueRecord' /\ Cleared'
<1> USE HistoryAssumption DEF Tables
<1>1. CASE Delete
  <2>1. /\ lvl' = lvl /\ id' = id /\ stamp' = stamp /\ lvl \in Tables
        /\ rows' = [rows EXCEPT ![lvl] = {r \in @ : ~(r.id = id /\ r.stamp = stamp)}]
    BY <1>1 DEF Delete, IInv, TypeOK
  <2>2. \A l \in Tables : rows'[l] \subseteq rows[l]
    BY <2>1 DEF IInv, TypeOK
  <2>3. \A r \in rows'[lvl] : ~(r.id = id /\ r.stamp = stamp)
    BY <2>1 DEF IInv, TypeOK
  <2> QED
    BY <2>1, <2>2, <2>3 DEF UniqueRecord, Cleared, IInv
<1>2. CASE Insert
  <2>1. CASE val = NaN
    BY <1>2, <2>1, OtherSteps DEF Insert, IInv
  <2>2. CASE val # NaN
    <3> DEFINE new == [id |-> id, stamp |-> stamp, val |-> val]
    <3>1. new.id = id /\ new.stamp = stamp
      OBVIOUS
    <3>2. rows' = [rows EXCEPT ![lvl] = rows[lvl] \union {new}]
      BY <1>2, <2>2 DEF Insert
    <3>3. ppc' # "insert"
      BY <1>2 DEF Insert
    <3>4. \A r \in rows[lvl] : ~(r.id = id /\ r.stamp = stamp)
      BY <1>2 DEF Insert, IInv, Cleared
    <3> HIDE DEF new
    <3>5. UniqueRecord'
      <4> SUFFICES ASSUME NEW l \in Tables, NEW r \in rows'[l], NEW s \in rows'[l],
                          r.id = s.id, r.stamp = s.stamp
                   PROVE  r = s
        BY DEF UniqueRecord
      <4>1. CASE l = lvl
        <5>1. rows'[l] = rows[l] \union {new}
          BY <3>2, <4>1 DEF IInv, TypeOK
        <5> QED
          BY <3>1, <3>4, <4>1, <5>1 DEF IInv, UniqueRecord
      <4>2. CASE l # lvl
        <5>1. rows'[l] = rows[l]
          BY <3>2, <4>2 DEF IInv, TypeOK
        <5> QED
          BY <5>1 DEF IInv, UniqueRecord
      <4> QED
        BY <4>1, <4>2
    <3> QED
      BY <3>3, <3>5 DEF Cleared
  <2> QED
    BY <2>1, <2>2
<1>3. CASE Expire
  <2>1. \A l \in Tables : rows'[l] \subseteq rows[l]
    BY <1>3 DEF Expire, IInv, TypeOK
  <2>2. ppc' # "insert"
    BY <1>3 DEF Expire, Return
  <2> QED
    BY <2>1, <2>2 DEF UniqueRecord, Cleared, IInv
<1>4. CASE Read
  BY <1>4, OtherSteps DEF Read, IInv
<1>5. CASE Call
  BY <1>5, OtherSteps DEF Call, IInv
<1>6. CASE Stamp
  BY <1>6, OtherSteps DEF Stamp, IInv
<1>7. CASE Lock
  BY <1>7, OtherSteps DEF Lock, IInv
<1>8. CASE From
  BY <1>8, OtherSteps DEF From, IInv
<1>9. CASE Cascades
  BY <1>9, OtherSteps DEF Cascades, IInv, Return
<1>10. CASE Ask
  BY <1>10, OtherSteps DEF Ask, IInv, buffer, pollVars
<1>11. CASE HttpFrom
  BY <1>11, OtherSteps DEF HttpFrom, IInv, buffer, pollVars
<1>12. CASE HttpTo
  BY <1>12, OtherSteps DEF HttpTo, IInv, buffer, pollVars
<1>13. CASE Query
  BY <1>13, OtherSteps DEF Query, IInv, buffer, pollVars
<1>14. CASE Tick
  BY <1>14, OtherSteps DEF Tick, IInv, buffer, pollVars
<1>15. CASE Crash
  BY <1>15, OtherSteps DEF Crash, IInv
<1> QED
  BY <1>1, <1>2, <1>3, <1>4, <1>5, <1>6, <1>7, <1>8, <1>9, <1>10, <1>11, <1>12, <1>13, <1>14, <1>15 DEF Next, Poller, Http

-----------------------------------------------------------------------------
\* Every step keeps the strengthened invariant.
LEMMA InductiveStep ==
    ASSUME IInv, [Next]_vars
    PROVE  IInv'
<1>1. CASE Next
  BY <1>1, TypeStep, RecordStep DEF IInv
<1>2. CASE UNCHANGED vars
  BY <1>2 DEF IInv, TypeOK, UniqueRecord, LockDepth, Cleared, vars, buffer, pollVars, httpVars
<1> QED
  BY <1>1, <1>2

THEOREM Invariance == Spec => []IInv
<1>1. Init => IInv
  BY InitHolds
<1>2. IInv /\ [Next]_vars => IInv'
  BY InductiveStep
<1> QED
  BY <1>1, <1>2, PTL DEF Spec

\* Type correctness: the lock is never taken more often than there are tables,
\* nor released more often than taken, and no timestamp leaves the integers.
THEOREM TypeCorrect == Spec => []TypeOK
<1>1. IInv => TypeOK
  BY DEF IInv
<1> QED
  BY <1>1, Invariance, PTL

\* The DELETE before the INSERT is a key: no table ever has two records of one
\* id and timestamp, though the threads race for the buffer of localtime(), the
\* clock is set back, and the process dies between the two statements.
THEOREM RecordsAreUnique == Spec => []UniqueRecord
<1>1. IInv => UniqueRecord
  BY DEF IInv
<1> QED
  BY <1>1, Invariance, PTL

-----------------------------------------------------------------------------
(* Multiples and fields. *)

LEMMA Quotient ==
    ASSUME NEW x \in Int, NEW c \in Nat \ {0}
    PROVE  (x \div c) \in Int /\ (x \div c) * c <= x /\ x < (x \div c) * c + c
<1> DEFINE q == x \div c
<1>1. q \in Int /\ c * q <= x /\ x < c * q + c
  OBVIOUS
<1> HIDE DEF q
<1>2. c * q = q * c
  BY <1>1
<1>3. q * c \in Int /\ q * c <= x /\ x < q * c + c
  BY <1>1, <1>2
<1> QED
  BY <1>1, <1>3 DEF q

\* A number is in one interval of length c that begins with a multiple of c.
LEMMA OneMultiple ==
    ASSUME NEW c \in Nat \ {0}, NEW q \in Int, NEW r \in Int, NEW y \in Int,
           q * c <= y, y < q * c + c, r * c <= y, y < r * c + c
    PROVE  q = r
<1>1. ASSUME NEW a \in Int, NEW b \in Int, a < b PROVE a * c + c <= b * c
  <2>1. PICK d \in Nat : b = a + 1 + d
    <3>1. b - a - 1 \in Nat /\ b = a + 1 + (b - a - 1)
      BY <1>1
    <3> QED
      BY <3>1
  <2>2. b * c = a * c + c + d * c /\ d * c \in Nat /\ a * c \in Int
    BY <2>1
  <2> QED
    BY <2>2
<1>2. ~(q < r)
  <2>1. SUFFICES ASSUME q < r PROVE FALSE
    OBVIOUS
  <2>2. q * c + c <= r * c /\ q * c \in Int /\ r * c \in Int
    BY <1>1, <2>1
  <2> QED
    BY <2>2
<1>3. ~(r < q)
  <2>1. SUFFICES ASSUME r < q PROVE FALSE
    OBVIOUS
  <2>2. r * c + c <= q * c /\ q * c \in Int /\ r * c \in Int
    BY <1>1, <2>1
  <2> QED
    BY <2>2
<1> QED
  BY <1>2, <1>3

\* Of two numbers the later one has no smaller quotient.
LEMMA QuotientGrows ==
    ASSUME NEW x \in Int, NEW y \in Int, x <= y, NEW c \in Nat \ {0}
    PROVE  x \div c <= y \div c
<1> DEFINE q == x \div c
           r == y \div c
<1>1. q \in Int /\ r \in Int /\ q * c <= x /\ y < r * c + c
  BY Quotient
<1> HIDE DEF q, r
<1>2. ~(r < q)
  <2> SUFFICES ASSUME r < q PROVE FALSE
    OBVIOUS
  <2>1. PICK d \in Nat : q = r + 1 + d
    <3>1. q - r - 1 \in Nat /\ q = r + 1 + (q - r - 1)
      BY <1>1
    <3> QED
      BY <3>1
  <2>2. q * c = r * c + c + d * c /\ d * c \in Nat /\ r * c \in Int
    BY <1>1, <2>1
  <2> QED
    BY <1>1, <2>2
<1>3. q <= r
  BY <1>1, <1>2
<1> QED
  BY <1>3 DEF q, r

\* What shares its largest field with x.
LEMMA WithinIsSame ==
    ASSUME NEW x \in Int, NEW y \in Within(x)
    PROVE  y \div Coarse = x \div Coarse
<1> DEFINE q == x \div Coarse
           r == y \div Coarse
<1>1. Coarse \in Nat \ {0}
  BY HistoryAssumption
<1>2. q \in Int /\ q * Coarse = Coarse * q
  BY <1>1, Quotient
<1>3. y \in Int /\ Coarse * q <= y /\ y <= Coarse * q + Coarse - 1
  BY DEF Within
<1>4. r \in Int /\ r * Coarse <= y /\ y < r * Coarse + Coarse
  BY <1>1, <1>3, Quotient
<1> HIDE DEF q, r
<1>5. q * Coarse \in Int
  BY <1>1, <1>2
<1>6. q * Coarse <= y /\ y < q * Coarse + Coarse
  BY <1>1, <1>2, <1>3, <1>5
<1>7. q = r
  BY <1>1, <1>2, <1>3, <1>4, <1>6, OneMultiple
<1> QED
  BY <1>7 DEF q, r

-----------------------------------------------------------------------------
(* Times. *)

\* The polling thread knows no later time than now, and mixes with none: the end
\* of a window, which may be later, is never what it formats a timestamp from,
\* and what it formats has no later largest field.
InPast ==
    /\ t <= now /\ hstart <= now /\ hend <= now
    /\ \A x \in pmix : x <= now
    /\ stamp \div Coarse <= now \div Coarse
    /\ ~raced => stamp <= now /\ pmix = {} /\ hmix = {}

LEMMA StartIsNotLater ==
    ASSUME NEW x \in Int, NEW l \in Tables
    PROVE  Start(x, l) <= x
<1> DEFINE c == Cascade[l]
           q == x \div c
<1>1. c \in Nat \ {0}
  BY HistoryAssumption
<1> HIDE DEF c
<1>2. q \in Int /\ c * q <= x
  BY <1>1
<1>3. Start(x, l) = q * c
  BY DEF Start, q, c
<1> HIDE DEF q
<1>4. q * c = c * q
  BY <1>1, <1>2
<1> QED
  BY <1>2, <1>3, <1>4

LEMMA LocalIsNotLater ==
    ASSUME NEW x \in Int
    PROVE  Local(x) <= x
BY HistoryAssumption DEF Local

\* Without a race one formats what one has filled the buffer with.
LEMMA FormatsWhatItFilled ==
    ASSUME InPast, ~raced
    PROVE  PollerFormats = {PollerFilled} /\ HttpFormats = {HttpFilled}
BY DEF InPast, PollerFormats, HttpFormats, Mix

\* No timestamp is formatted that has a later largest field than now; nor a later
\* one at all, without a race.
LEMMA StampIsPast ==
    ASSUME IInv, InPast, ppc = "stamp", NEW y \in PollerFormats
    PROVE  y \in Int /\ y \div Coarse <= now \div Coarse /\ (~raced => y <= now)
<1>1. /\ t \in Int /\ now \in Int /\ t <= now /\ pmix \subseteq Int /\ Coarse \in Nat \ {0}
      /\ \A x \in pmix : x <= now
  BY HistoryAssumption DEF IInv, TypeOK, InPast
<1>2. PollerFilled \in Int /\ PollerFilled <= now
  <2>1. PollerFilled = Local(t)
    BY DEF PollerFilled
  <2>2. Local(t) \in Int /\ Local(t) <= t
    BY <1>1, LocalIsInteger, LocalIsNotLater
  <2> QED
    BY <1>1, <2>1, <2>2
<1>3. y \in Int
  BY FormatsAreIntegers DEF IInv
<1>4. y \div Coarse <= now \div Coarse
  <2>1. CASE y = PollerFilled
    BY <1>1, <1>2, <2>1, QuotientGrows
  <2>2. CASE y # PollerFilled
    <3>1. PICK x \in pmix \union {PollerFilled} : y \in Within(x)
      BY <2>2 DEF PollerFormats, Mix
    <3>2. x \in Int /\ x <= now
      BY <1>1, <1>2
    <3>3. y \div Coarse = x \div Coarse
      BY <3>1, <3>2, WithinIsSame
    <3>4. x \div Coarse <= now \div Coarse
      BY <1>1, <3>2, QuotientGrows
    <3> QED
      BY <3>3, <3>4
  <2> QED
    BY <2>1, <2>2
<1>5. ~raced => y <= now
  BY <1>2, FormatsWhatItFilled
<1> QED
  BY <1>3, <1>4, <1>5

\* What a thread mixes with when the other fills the buffer, and when it does so
\* itself.
LEMMA FillsArePast ==
    ASSUME IInv, InPast
    PROVE  /\ \A x : PollerFills(x) => /\ \A y \in pmix' : y <= now
                                       /\ ~raced' => ~raced /\ pmix' = {} /\ hmix' = {}
           /\ \A x : HttpFills(x) /\ Local(x) <= now
                        => /\ \A y \in pmix' : y <= now
                           /\ ~raced' => ~raced /\ pmix' = {} /\ hmix' = {}
<1>1. HttpFilled <= now
  <2>1. hstart \in Int /\ hend \in Int /\ now \in Int /\ hstart <= now /\ hend <= now
    BY DEF IInv, TypeOK, InPast
  <2>2. /\ Local(hstart) \in Int /\ Local(hstart) <= hstart
        /\ Local(hend) \in Int /\ Local(hend) <= hend
    BY <2>1, LocalIsInteger, LocalIsNotLater
  <2> QED
    BY <2>1, <2>2 DEF HttpFilled
<1> QED
  BY <1>1 DEF PollerFills, HttpFills, InPast

LEMMA InitIsPast == Init => InPast /\ NoneFromTheFuture
<1> SUFFICES ASSUME Init PROVE InPast /\ NoneFromTheFuture
  OBVIOUS
<1>1. /\ now = 0 /\ t = 0 /\ stamp = 0 /\ hstart = 0 /\ hend = 0
      /\ pmix = {} /\ hmix = {} /\ \A l \in Tables : rows[l] = {}
  BY DEF Init
<1>2. (0 \div Coarse) \in Int
  BY HistoryAssumption, Quotient
<1> QED
  BY <1>1, <1>2 DEF InPast, NoneFromTheFuture

LEMMA PastStep ==
    ASSUME IInv, InPast, NoneFromTheFuture, Next
    PROVE  InPast' /\ NoneFromTheFuture'
<1>1. /\ now \in Nat /\ t \in Int /\ stamp \in Int /\ lvl \in Tables
      /\ hstart \in Int /\ hend \in Int /\ pmix \subseteq Int
      /\ t <= now /\ hstart <= now /\ hend <= now /\ stamp \div Coarse <= now \div Coarse
      /\ \A x \in pmix : x <= now
      /\ ~raced => stamp <= now /\ pmix = {} /\ hmix = {}
      /\ DOMAIN rows = Tables /\ Coarse \in Nat \ {0}
  BY HistoryAssumption DEF IInv, TypeOK, InPast
<1> DEFINE Old(r) == r.stamp \div Coarse <= now \div Coarse /\ (~raced => r.stamp <= now)
<1>2. \A l \in Tables : \A r \in rows[l] : r.stamp \in Int /\ Old(r)
  BY DEF IInv, TypeOK, NoneFromTheFuture
<1>3. 0 \div Coarse <= now \div Coarse
  BY <1>1, QuotientGrows
<1>4. ASSUME now' = now, ~raced' => ~raced, \A l \in Tables : \A r \in rows'[l] : Old(r)
      PROVE  NoneFromTheFuture'
  BY <1>4 DEF NoneFromTheFuture
<1>5. ASSUME UNCHANGED <<now, rows>>, ~raced' => ~raced PROVE NoneFromTheFuture'
  BY <1>2, <1>4, <1>5
<1> DEFINE Mixed == \A y \in pmix' : y <= now
           Clean == ~raced' => ~raced /\ pmix' = {} /\ hmix' = {}
<1>6. ASSUME UNCHANGED buffer PROVE Mixed /\ Clean
  BY <1>1, <1>6 DEF buffer
<1>7. ASSUME NEW x, PollerFills(x) PROVE Mixed /\ Clean
  BY <1>7, FillsArePast
<1>8. ASSUME httpVars' = httpVars PROVE UNCHANGED <<hstart, hend>>
  BY <1>8 DEF httpVars
<1>w. ASSUME Mixed, Clean, now' = now, t' <= now, hstart' <= now, hend' <= now,
             stamp' \div Coarse <= now \div Coarse, ~raced => stamp' <= now
      PROVE  InPast'
  BY <1>w DEF InPast
<1>9. CASE Read
  BY <1>1, <1>5, <1>7, <1>8, <1>w, <1>9 DEF Read
<1>10. CASE Call
  BY <1>1, <1>5, <1>7, <1>8, <1>w, <1>10 DEF Call
<1>11. CASE Stamp
  <2>1. /\ stamp' \in PollerFormats /\ ppc = "stamp" /\ UNCHANGED <<now, rows, buffer, t, httpVars>>
    BY <1>11 DEF Stamp
  <2>2. /\ stamp' \div Coarse <= now \div Coarse /\ (~raced => stamp' <= now)
    BY <2>1, StampIsPast
  <2> QED
    BY <1>1, <1>5, <1>6, <1>8, <1>w, <2>1, <2>2
<1>12. CASE Lock
  BY <1>1, <1>5, <1>6, <1>8, <1>w, <1>12 DEF Lock
<1>13. CASE Delete
  <2>1. \A l \in Tables : rows'[l] \subseteq rows[l]
    BY <1>1, <1>13 DEF Delete
  <2>2. UNCHANGED <<now, buffer, t, stamp, httpVars>>
    BY <1>13 DEF Delete
  <2>3. NoneFromTheFuture'
    BY <1>2, <1>4, <1>6, <2>1, <2>2
  <2> QED
    BY <1>1, <1>6, <1>8, <1>w, <2>2, <2>3
<1>14. CASE Insert
  <2>1. UNCHANGED <<now, t, stamp, httpVars>> /\ PollerFills(t - Expiry[lvl])
    BY <1>14 DEF Insert
  <2>2. InPast'
    BY <1>1, <1>7, <1>8, <1>w, <2>1
  <2>3. CASE val = NaN
    BY <1>5, <1>7, <1>14, <2>1, <2>2, <2>3 DEF Insert
  <2>4. CASE val # NaN
    <3> DEFINE new == [id |-> id, stamp |-> stamp, val |-> val]
    <3>1. Old(new)
      BY <1>1
    <3>2. rows' = [rows EXCEPT ![lvl] = rows[lvl] \union {new}]
      BY <1>14, <2>4 DEF Insert
    <3> HIDE DEF new, Old
    <3>3. \A l \in Tables : \A r \in rows'[l] : r \in rows[l] \/ r = new
      BY <1>1, <3>2
    <3>4. \A l \in Tables : \A r \in rows'[l] : Old(r)
      BY <1>2, <3>1, <3>3
    <3> QED
      BY <1>4, <1>7, <2>1, <2>2, <3>4
  <2> QED
    BY <2>3, <2>4
<1>15. CASE Expire
  <2>1. \A l \in Tables : rows'[l] \subseteq rows[l]
    BY <1>1, <1>15 DEF Expire
  <2>2. /\ UNCHANGED <<now, httpVars>>
        /\ \/ PollerFills(Start(t, lvl)) /\ UNCHANGED <<t, stamp>>
           \/ UNCHANGED buffer /\ t' = 0 /\ stamp' = 0
    BY <1>15 DEF Expire, Return
  <2>3. Mixed /\ Clean
    BY <1>6, <1>7, <2>2
  <2>4. t' <= now /\ stamp' \div Coarse <= now \div Coarse /\ (~raced => stamp' <= now)
    BY <1>1, <1>3, <2>2
  <2>5. InPast'
    BY <1>1, <1>8, <1>w, <2>2, <2>3, <2>4
  <2> QED
    BY <1>2, <1>4, <2>1, <2>2, <2>3, <2>5
<1>16. CASE From
  BY <1>1, <1>5, <1>7, <1>8, <1>w, <1>16 DEF From
<1>17. CASE Cascades
  <2>1. /\ UNCHANGED <<now, rows, httpVars>>
        /\ \/ PollerFills(Start(t, lvl)) /\ t' = Start(t, lvl) /\ stamp' = stamp
           \/ UNCHANGED buffer /\ t' = 0 /\ stamp' = 0
    BY <1>17 DEF Cascades, Return
  <2>2. Start(t, lvl) \in Int /\ Start(t, lvl) <= t
    BY <1>1, StartIsInteger, StartIsNotLater
  <2>3. Mixed /\ Clean
    BY <1>6, <1>7, <2>1
  <2>4. t' <= now /\ stamp' \div Coarse <= now \div Coarse /\ (~raced => stamp' <= now)
    BY <1>1, <1>3, <2>1, <2>2
  <2>5. InPast'
    BY <1>1, <1>8, <1>w, <2>1, <2>3, <2>4
  <2> QED
    BY <1>5, <2>1, <2>3, <2>5
<1>18. CASE Ask
  <2>1. /\ asked'[1] \in Tables /\ hstart' = now - Window[asked'[1]] /\ HttpFills(hstart')
        /\ UNCHANGED <<now, rows, pollVars, hend>>
    BY <1>18 DEF Ask
  <2>2. hstart' \in Int /\ hstart' <= now
    <3>1. Window[asked'[1]] \in Nat
      BY <2>1, HistoryAssumption
    <3> QED
      BY <1>1, <2>1, <3>1
  <2>3. Local(hstart') \in Int /\ Local(hstart') <= now
    BY <1>1, <2>2, LocalIsInteger, LocalIsNotLater
  <2>4. /\ \A y \in pmix' : y <= now
        /\ ~raced' => ~raced /\ pmix' = {} /\ hmix' = {}
    BY <2>1, <2>3, FillsArePast
  <2> QED
    BY <1>1, <1>5, <1>w, <2>1, <2>2, <2>4 DEF pollVars
<1>19. CASE HttpFrom
  <2>1. HttpFills(now) /\ hend' = now /\ UNCHANGED <<now, rows, pollVars, hstart>>
    BY <1>19 DEF HttpFrom
  <2>2. Local(now) <= now
    BY <1>1, LocalIsNotLater
  <2>3. /\ \A y \in pmix' : y <= now
        /\ ~raced' => ~raced /\ pmix' = {} /\ hmix' = {}
    BY <2>1, <2>2, FillsArePast
  <2> QED
    BY <1>1, <1>5, <1>w, <2>1, <2>3 DEF pollVars
<1>20. CASE HttpTo
  BY <1>1, <1>5, <1>6, <1>w, <1>20 DEF HttpTo, pollVars
<1>21. CASE Query
  <2>1. UNCHANGED <<now, rows, buffer, pollVars>> /\ hstart' = 0 /\ hend' = 0
    BY <1>21 DEF Query
  <2>2. UNCHANGED <<t, stamp>>
    BY <2>1 DEF pollVars
  <2> QED
    BY <1>1, <1>5, <1>6, <1>w, <2>1, <2>2
<1>22. CASE Tick
  <2>1. /\ now' = now + 1 /\ UNCHANGED <<rows, buffer, pollVars, httpVars>>
    BY <1>22 DEF Tick
  <2>2. now \div Coarse <= now' \div Coarse
    BY <1>1, <2>1, QuotientGrows
  <2>3. (now \div Coarse) \in Int /\ (now' \div Coarse) \in Int /\ (stamp \div Coarse) \in Int
    BY <1>1, <2>1, Quotient
  <2>4. NoneFromTheFuture'
    <3> SUFFICES ASSUME NEW l \in Tables, NEW r \in rows[l]
                 PROVE  /\ r.stamp \div Coarse <= now' \div Coarse
                        /\ ~raced => r.stamp <= now'
      BY <2>1 DEF NoneFromTheFuture, buffer
    <3>1. r.stamp \in Int /\ Old(r) /\ (r.stamp \div Coarse) \in Int
      BY <1>1, <1>2, Quotient
    <3> QED
      BY <1>1, <2>1, <2>2, <2>3, <3>1
  <2>5. /\ t <= now' /\ hstart <= now' /\ hend <= now' /\ \A x \in pmix : x <= now'
        /\ stamp \div Coarse <= now' \div Coarse
        /\ ~raced => stamp <= now' /\ pmix = {} /\ hmix = {}
    BY <1>1, <2>1, <2>2, <2>3
  <2> QED
    BY <2>1, <2>4, <2>5 DEF InPast, buffer, pollVars, httpVars
<1>23. CASE Crash
  BY <1>1, <1>3, <1>5, <1>23 DEF Crash, InPast
<1> QED
  BY <1>9, <1>10, <1>11, <1>12, <1>13, <1>14, <1>15, <1>16, <1>17, <1>18, <1>19, <1>20,
     <1>21, <1>22, <1>23
     DEF Next, Poller, Http

\* Whichever thread fills the buffer of localtime() under the other's hands, field
\* by field, and though the polling thread itself fills it with the end of a
\* window that lies ahead: no record has a later largest field than the clock,
\* and as long as the threads have not met in the buffer none is about a later
\* time than the clock has reached.
THEOREM NothingFromTheFuture == Spec => []NoneFromTheFuture
<1>1. Init => InPast /\ NoneFromTheFuture
  BY InitIsPast
<1>2. IInv /\ InPast /\ NoneFromTheFuture /\ [Next]_vars => InPast' /\ NoneFromTheFuture'
  <2>1. ASSUME InPast, NoneFromTheFuture, UNCHANGED vars PROVE InPast' /\ NoneFromTheFuture'
    BY <2>1 DEF vars, buffer, pollVars, httpVars, InPast, NoneFromTheFuture
  <2> QED
    BY <2>1, PastStep
<1> QED
  BY <1>1, <1>2, Invariance, PTL DEF Spec

\* addRecord() leaves the records of the other controllers alone.
THEOREM OthersAreLeftAlone == Spec => OwnRecordsOnly
<1> DEFINE Only == \A l \in Tables : \A r \in rows[l] \union rows'[l] :
                      (r \in rows[l] /\ r \in rows'[l]) \/ r.id = id
<1>1. ASSUME IInv, Next, rows' # rows PROVE Only
  <2>1. DOMAIN rows = Tables
    BY <1>1 DEF IInv, TypeOK
  <2>2. Delete \/ Insert \/ Expire
    BY <1>1 DEF Next, Poller, Http, Read, Call, Stamp, Lock, From, Cascades, Ask, HttpFrom,
                HttpTo, Query, Tick, Crash
  <2>3. CASE Delete
    BY <2>1, <2>3 DEF Delete
  <2>4. CASE Insert
    <3> DEFINE new == [id |-> id, stamp |-> stamp, val |-> val]
    <3>1. new.id = id
      OBVIOUS
    <3>2. rows' = [rows EXCEPT ![lvl] = rows[lvl] \union {new}]
      BY <1>1, <2>4 DEF Insert
    <3> HIDE DEF new
    <3> QED
      BY <2>1, <3>1, <3>2
  <2>5. CASE Expire
    BY <2>1, <2>5 DEF Expire
  <2> QED
    BY <2>2, <2>3, <2>4, <2>5
<1>2. rows' = rows => Only
  OBVIOUS
<1>3. IInv /\ [Next]_vars => [Only]_vars
  BY <1>1, <1>2
<1> QED
  BY <1>3, Invariance, PTL DEF Spec, OwnRecordsOnly

-----------------------------------------------------------------------------
(* The arithmetic of windows. *)

LEMMA StartBounds ==
    ASSUME NEW x \in Int, NEW l \in Tables
    PROVE  Start(x, l) \in Int /\ Start(x, l) <= x /\ x < Start(x, l) + Cascade[l]
<1>1. Cascade[l] \in Nat \ {0}
  BY HistoryAssumption
<1> QED
  BY <1>1, Quotient, StartIsInteger DEF Start

LEMMA SameStart ==
    ASSUME NEW x \in Int, NEW y \in Int, NEW l \in Tables,
           Start(x, l) <= y, y < Start(x, l) + Cascade[l]
    PROVE  Start(y, l) = Start(x, l)
<1> DEFINE c == Cascade[l]
           q == x \div c
           r == y \div c
<1>1. c \in Nat \ {0}
  BY HistoryAssumption
<1>2. q \in Int /\ r \in Int /\ q * c <= y /\ y < q * c + c
  BY <1>1, Quotient DEF Start
<1>3. r * c <= y /\ y < r * c + c
  BY <1>1, Quotient
<1> HIDE DEF c, q, r
<1>4. q = r
  BY <1>1, <1>2, <1>3, OneMultiple
<1> QED
  BY <1>4 DEF Start, c, q, r

\* The records of a window are those whose window has the same start.
LEMMA WindowIsStart ==
    ASSUME NEW x \in Int, NEW y \in Int, NEW l \in Tables
    PROVE  InWindow(y, l, Start(x, l)) <=> Start(y, l) = Start(x, l)
<1>1. Cascade[l] \in Nat \ {0}
  BY HistoryAssumption
<1>2. Start(x, l) \in Int /\ Start(y, l) \in Int
  BY StartIsInteger
<1>3. ASSUME InWindow(y, l, Start(x, l)) PROVE Start(y, l) = Start(x, l)
  <2>1. Start(x, l) <= y /\ y < Start(x, l) + Cascade[l]
    BY <1>1, <1>2, <1>3 DEF InWindow
  <2> QED
    BY <2>1, SameStart
<1>4. ASSUME Start(y, l) = Start(x, l) PROVE InWindow(y, l, Start(x, l))
  <2>1. Start(y, l) <= y /\ y < Start(y, l) + Cascade[l]
    BY StartBounds
  <2> QED
    BY <1>1, <1>2, <1>4, <2>1 DEF InWindow
<1> QED
  BY <1>3, <1>4

\* The start of a window is in that window and, of any later table, in the one
\* around it.
LEMMA StartOfStart ==
    ASSUME NEW x \in Int, NEW l \in 1..(N - 1), NEW k \in 1..(N - 1), l <= k
    PROVE  Start(Start(x, l), k) = Start(x, k)
<1>1. l \in Tables /\ k \in Tables /\ Cascade[l] \in Nat \ {0} /\ Cascade[k] \in Nat \ {0}
  BY HistoryAssumption DEF Tables
<1> DEFINE c == Cascade[l]
           d == Cascade[k]
           p == x \div c
           q == x \div d
<1>2. PICK m \in Int : d = m * c
  <2>1. CASE l = k
    <3>1. d = 1 * c
      BY <1>1, <2>1
    <3> QED
      BY <3>1
  <2>2. CASE l < k
    <3>1. d % c = 0
      BY <2>2, WindowAssumption
    <3>2. c \in Nat \ {0} /\ d \in Int
      BY <1>1
    <3> HIDE DEF c, d
    <3>3. (d \div c) \in Int /\ d = c * (d \div c)
      BY <3>1, <3>2
    <3>4. d = (d \div c) * c
      BY <3>2, <3>3
    <3> QED
      BY <3>3, <3>4
  <2> QED
    BY <2>1, <2>2
<1>3. /\ c \in Nat \ {0} /\ d \in Nat \ {0} /\ p \in Int /\ q \in Int
      /\ p * c <= x /\ x < p * c + c /\ q * d <= x /\ x < q * d + d
  BY <1>1, Quotient
<1>4. Start(x, l) = p * c /\ Start(x, k) = q * d
  BY DEF Start
<1> HIDE DEF c, d, p, q
<1>5. q * d = (q * m) * c /\ q * m \in Int
  BY <1>2, <1>3
<1>6. q * d <= p * c
  <2> DEFINE a == q * m
  <2>1. a \in Int /\ a * c <= x /\ x < p * c + c
    BY <1>3, <1>5
  <2> HIDE DEF a
  <2>2. ~(p < a)
    <3> SUFFICES ASSUME p < a PROVE FALSE
      OBVIOUS
    <3>1. PICK e \in Nat : a = p + 1 + e
      <4>1. a - p - 1 \in Nat /\ a = p + 1 + (a - p - 1)
        BY <1>3, <2>1
      <4> QED
        BY <4>1
    <3>2. a * c = p * c + c + e * c /\ e * c \in Nat /\ p * c \in Int
      BY <1>3, <3>1
    <3> QED
      BY <1>3, <2>1, <3>2
  <2>3. PICK e \in Nat : p = a + e
    <3>1. p - a \in Nat /\ p = a + (p - a)
      BY <1>3, <2>1, <2>2
    <3> QED
      BY <3>1
  <2>4. p * c = a * c + e * c /\ e * c \in Nat /\ a * c \in Int
    BY <1>3, <2>1, <2>3
  <2>5. q * d = a * c
    BY <1>5 DEF a
  <2> QED
    BY <2>4, <2>5
<1>7. Start(x, k) <= Start(x, l) /\ Start(x, l) < Start(x, k) + Cascade[k] /\ Start(x, l) \in Int
  <2>1. p * c \in Int /\ q * d \in Int
    BY <1>3
  <2> QED
    BY <1>3, <1>4, <1>6, <2>1 DEF d
<1> QED
  BY <1>1, <1>7, SameStart

-----------------------------------------------------------------------------
(* Steady states: the times the threads have formatted are the times meant. *)

PollerOnTime ==
    /\ ppc \in {"lock", "delete", "insert"} => stamp = t
    /\ ppc = "average" => from = Start(t, lvl)

HttpOnTime == hpc \in {"to", "query"} => hfrom = hstart

OnTime == Steady => PollerOnTime /\ HttpOnTime

\* Once spoilt a timestamp stays so: what is steady has always been.
LEMMA WasSteady ==
    ASSUME IInv, [Next]_vars, Steady'
    PROVE  Steady /\ now' < DstAt /\ ~raced'
<1>1. now' \in Int /\ now \in Int /\ now <= now' /\ DstAt \in Int
  <2>1. now' = now \/ now' = now + 1
    BY DEF Next, Poller, Http, Read, Call, Stamp, Lock, Delete, Insert, Expire, From, Cascades,
           Ask, HttpFrom, HttpTo, Query, Tick, Crash, vars
  <2> QED
    BY <2>1, HistoryAssumption DEF IInv, TypeOK
<1>2. raced => raced'
  <2>1. ASSUME NEW x, PollerFills(x) PROVE raced => raced'
    BY <2>1 DEF PollerFills
  <2>2. ASSUME NEW x, HttpFills(x) PROVE raced => raced'
    BY <2>2 DEF HttpFills
  <2>3. raced' = raced => (raced => raced')
    OBVIOUS
  <2> QED
    BY <2>1, <2>2, <2>3
       DEF Next, Poller, Http, Read, Call, Stamp, Lock, Delete, Insert, Expire, From,
           Cascades, Ask, HttpFrom, HttpTo, Query, Tick, Crash, buffer, vars
<1>3. now' < DstAt /\ ~raced'
  BY DEF Steady
<1> QED
  BY <1>1, <1>2, <1>3 DEF Steady

LEMMA LocalIsNow ==
    ASSUME NEW x \in Int, IInv, Steady, x <= now
    PROVE  Local(x) = x
BY HistoryAssumption DEF Local, Steady, IInv, TypeOK

\* What is formatted then.
LEMMA FormatsTheTime ==
    ASSUME IInv, InPast, Steady
    PROVE  /\ ppc = "stamp" => PollerFormats = {t}
           /\ ppc = "expire" => PollerFormats = {t - Expiry[lvl]}
           /\ ppc = "from" => PollerFormats = {Start(t, lvl)}
           /\ ppc = "average" => PollerFormats = {Local(Start(t, lvl) + Cascade[lvl] - 1)}
           /\ hpc = "from" => HttpFormats = {hstart}
<1>1. /\ now \in Int /\ t \in Int /\ t <= now /\ hstart \in Int /\ hstart <= now
      /\ lvl \in Tables /\ Expiry[lvl] \in Nat
      /\ Start(t, lvl) \in Int /\ Start(t, lvl) <= t
  BY StartIsInteger, StartIsNotLater, HistoryAssumption DEF IInv, TypeOK, InPast
<1>2. PollerFormats = {PollerFilled} /\ HttpFormats = {HttpFilled}
  BY FormatsWhatItFilled DEF Steady
<1>3. /\ Local(t) = t /\ Local(hstart) = hstart
      /\ Local(t - Expiry[lvl]) = t - Expiry[lvl] /\ Local(Start(t, lvl)) = Start(t, lvl)
  <2>1. t - Expiry[lvl] \in Int /\ t - Expiry[lvl] <= now /\ Start(t, lvl) <= now
    BY <1>1
  <2> QED
    BY <1>1, <2>1, LocalIsNow
<1> QED
  BY <1>2, <1>3 DEF PollerFilled, HttpFilled

LEMMA OnTimeStep ==
    ASSUME IInv, InPast, OnTime, Next
    PROVE  OnTime'
<1> SUFFICES ASSUME Steady' PROVE PollerOnTime' /\ HttpOnTime'
  BY DEF OnTime
<1>0. Steady /\ PollerOnTime /\ HttpOnTime
  BY WasSteady DEF OnTime
<1>1. CASE Read
  BY <1>0, <1>1 DEF Read, PollerOnTime, HttpOnTime, httpVars
<1>2. CASE Call
  BY <1>0, <1>2 DEF Call, PollerOnTime, HttpOnTime, httpVars
<1>3. CASE Stamp
  <2>1. stamp' = t
    BY <1>0, <1>3, FormatsTheTime DEF Stamp
  <2> QED
    BY <1>0, <1>3, <2>1 DEF Stamp, PollerOnTime, HttpOnTime, httpVars
<1>4. CASE Lock
  BY <1>0, <1>4 DEF Lock, PollerOnTime, HttpOnTime, httpVars
<1>5. CASE Delete
  BY <1>0, <1>5 DEF Delete, PollerOnTime, HttpOnTime, httpVars
<1>6. CASE Insert
  BY <1>0, <1>6 DEF Insert, PollerOnTime, HttpOnTime, httpVars
<1>7. CASE Expire
  BY <1>0, <1>7 DEF Expire, Return, PollerOnTime, HttpOnTime, httpVars
<1>8. CASE From
  <2>1. from' = Start(t, lvl)
    BY <1>0, <1>8, FormatsTheTime DEF From
  <2> QED
    BY <1>0, <1>8, <2>1 DEF From, PollerOnTime, HttpOnTime, httpVars
<1>9. CASE Cascades
  BY <1>0, <1>9 DEF Cascades, Return, PollerOnTime, HttpOnTime, httpVars
<1>10. CASE Ask
  BY <1>0, <1>10 DEF Ask, PollerOnTime, HttpOnTime, pollVars
<1>11. CASE HttpFrom
  <2>1. hfrom' = hstart
    BY <1>0, <1>11, FormatsTheTime DEF HttpFrom
  <2> QED
    BY <1>0, <1>11, <2>1 DEF HttpFrom, PollerOnTime, HttpOnTime, pollVars
<1>12. CASE HttpTo
  BY <1>0, <1>12 DEF HttpTo, PollerOnTime, HttpOnTime, pollVars
<1>13. CASE Query
  BY <1>0, <1>13 DEF Query, PollerOnTime, HttpOnTime, pollVars
<1>14. CASE Tick
  BY <1>0, <1>14 DEF Tick, PollerOnTime, HttpOnTime, pollVars, httpVars
<1>15. CASE Crash
  BY <1>0, <1>15 DEF Crash, PollerOnTime, HttpOnTime
<1> QED
  BY <1>1, <1>2, <1>3, <1>4, <1>5, <1>6, <1>7, <1>8, <1>9, <1>10, <1>11, <1>12, <1>13, <1>14, <1>15
     DEF Next, Poller, Http

LEMMA AlwaysOnTime == Spec => [](IInv /\ InPast /\ OnTime)
<1>1. Init => InPast /\ NoneFromTheFuture /\ OnTime
  BY InitIsPast DEF Init, OnTime, PollerOnTime, HttpOnTime
<1>2. IInv /\ InPast /\ NoneFromTheFuture /\ OnTime /\ [Next]_vars
         => InPast' /\ NoneFromTheFuture' /\ OnTime'
  <2>1. ASSUME InPast, NoneFromTheFuture, OnTime, UNCHANGED vars
        PROVE  InPast' /\ NoneFromTheFuture' /\ OnTime'
    BY <2>1 DEF vars, buffer, pollVars, httpVars, InPast, NoneFromTheFuture, OnTime, Steady,
                PollerOnTime, HttpOnTime
  <2> QED
    BY <2>1, PastStep, OnTimeStep
<1> QED
  BY <1>1, <1>2, Invariance, PTL DEF Spec

-----------------------------------------------------------------------------
(* What has been recorded, and what of it is in the tables. *)

\* ever[l] has one record per id and time, of the past.
RecordedOnce ==
    \A l \in Tables :
        /\ \A e \in ever[l] : /\ e.at \in Int /\ e.at <= now
                              /\ e = [id |-> e.id, at |-> e.at, val |-> e.val]
        /\ \A e, f \in ever[l] : e.id = f.id /\ e.at = f.at => e = f

\* What is in a table has been recorded, at the time it says.
InRecord(r, l) == /\ r = [id |-> r.id, stamp |-> r.stamp, val |-> r.val]
                  /\ [id |-> r.id, at |-> r.stamp, val |-> r.val] \in ever[l]
RowsAreRecorded == Steady => \A l \in Tables : \A r \in rows[l] : InRecord(r, l)

LEMMA RecordedKept ==
    ASSUME IInv, RecordedOnce, RowsAreRecorded, Steady' => Steady, UNCHANGED ever, now <= now',
           now' \in Int, \A l \in Tables : rows'[l] \subseteq rows[l]
    PROVE  RecordedOnce' /\ RowsAreRecorded'
<1>1. RecordedOnce'
  <2>1. ASSUME NEW l \in Tables, NEW e \in ever[l] PROVE e.at <= now'
    BY <2>1 DEF RecordedOnce, IInv, TypeOK
  <2> QED
    BY <2>1 DEF RecordedOnce
<1>2. RowsAreRecorded'
  <2>1. ASSUME NEW l \in Tables, NEW r \in rows[l], InRecord(r, l) PROVE InRecord(r, l)'
    BY <2>1 DEF InRecord
  <2> HIDE DEF InRecord
  <2> QED
    BY <2>1 DEF RowsAreRecorded
<1> QED
  BY <1>1, <1>2

\* What an INSERT adds, and what it is added to.
LEMMA InsertAdds ==
    ASSUME IInv, Insert, val # NaN, NEW l \in Tables
    PROVE  /\ l = lvl => /\ rows'[l] = rows[l] \union {[id |-> id, stamp |-> stamp, val |-> val]}
                         /\ ever'[l] = {e \in ever[l] : ~(e.id = id /\ e.at = t)}
                                         \union {[id |-> id, at |-> t, val |-> val]}
           /\ l # lvl => rows'[l] = rows[l] /\ ever'[l] = ever[l]
BY DEF Insert, IInv, TypeOK

LEMMA RecordedStep ==
    ASSUME IInv, InPast, OnTime, RecordedOnce, RowsAreRecorded, Next
    PROVE  RecordedOnce' /\ RowsAreRecorded'
<1>0. /\ Steady' => Steady
      /\ now \in Int /\ t \in Int /\ t <= now /\ DOMAIN rows = Tables
  BY WasSteady DEF IInv, TypeOK, InPast
<1>1. CASE Insert /\ val # NaN
  <2> DEFINE new == [id |-> id, at |-> t, val |-> val]
             row == [id |-> id, stamp |-> stamp, val |-> val]
  <2>1. now' = now /\ new.at \in Int /\ new.at <= now
        /\ new = [id |-> new.id, at |-> new.at, val |-> new.val] /\ new.id = id /\ new.at = t
    BY <1>0, <1>1 DEF Insert
  <2>2. \A l \in Tables :
           /\ l = lvl => /\ rows'[l] = rows[l] \union {row}
                         /\ ever'[l] = {e \in ever[l] : ~(e.id = id /\ e.at = t)} \union {new}
           /\ l # lvl => rows'[l] = rows[l] /\ ever'[l] = ever[l]
    BY <1>1, InsertAdds
  <2>3. Steady => stamp = t
    BY <1>1 DEF Insert, OnTime, PollerOnTime
  <2>4. row = [id |-> row.id, stamp |-> row.stamp, val |-> row.val]
        /\ [id |-> row.id, at |-> t, val |-> row.val] = new /\ row.stamp = stamp
    OBVIOUS
  <2>5. \A r \in rows[lvl] : ~(r.id = id /\ r.stamp = stamp)
    BY <1>1 DEF Insert, IInv, Cleared
  <2> HIDE DEF new, row
  <2>6. RecordedOnce'
    <3> SUFFICES ASSUME NEW l \in Tables
                 PROVE  /\ \A e \in ever'[l] : /\ e.at \in Int /\ e.at <= now
                                               /\ e = [id |-> e.id, at |-> e.at, val |-> e.val]
                        /\ \A e, f \in ever'[l] : e.id = f.id /\ e.at = f.at => e = f
      BY <2>1 DEF RecordedOnce
    <3>1. CASE l # lvl
      BY <2>2, <3>1 DEF RecordedOnce
    <3>2. CASE l = lvl
      <4>1. \A e \in ever'[l] : e = new \/ (e \in ever[l] /\ ~(e.id = id /\ e.at = t))
        BY <2>2, <3>2
      <4> QED
        BY <2>1, <4>1 DEF RecordedOnce
    <3> QED
      BY <3>1, <3>2
  <2>7. RowsAreRecorded'
    <3> SUFFICES ASSUME Steady, NEW l \in Tables, NEW r \in rows'[l]
                 PROVE  InRecord(r, l)'
      BY <1>0 DEF RowsAreRecorded
    <3>1. CASE r \in rows[l]
      <4>1. InRecord(r, l) /\ (l = lvl => ~(r.id = id /\ r.stamp = t))
        BY <2>3, <2>5, <3>1 DEF RowsAreRecorded
      <4> DEFINE e == [id |-> r.id, at |-> r.stamp, val |-> r.val]
      <4>2. e \in ever[l] /\ e.id = r.id /\ e.at = r.stamp
        BY <4>1 DEF InRecord
      <4> HIDE DEF e
      <4>3. e \in ever'[l]
        BY <2>2, <4>1, <4>2
      <4> QED
        BY <4>1, <4>3 DEF InRecord, e
    <3>2. CASE r \notin rows[l]
      <4>1. l = lvl /\ r = row
        BY <2>2, <3>2
      <4>2. new \in ever'[l]
        BY <2>2, <4>1
      <4> QED
        BY <2>3, <2>4, <4>1, <4>2 DEF InRecord
    <3> QED
      BY <3>1, <3>2
  <2> QED
    BY <2>6, <2>7
<1>2. CASE ~(Insert /\ val # NaN)
  <2>1. /\ UNCHANGED ever /\ now' \in Int /\ now <= now'
        /\ \A l \in Tables : rows'[l] \subseteq rows[l]
    <3>1. ever' = ever /\ (now' = now \/ now' = now + 1)
      BY <1>2 DEF Next, Poller, Http, Read, Call, Stamp, Lock, Delete, Insert, Expire, From, Cascades,
                  Ask, HttpFrom, HttpTo, Query, Tick, Crash
    <3>2. rows' = rows \/ Delete \/ Expire
      BY <1>2 DEF Next, Poller, Http, Read, Call, Stamp, Lock, Insert, From, Cascades,
                  Ask, HttpFrom, HttpTo, Query, Tick, Crash
    <3>3. \A l \in Tables : rows'[l] \subseteq rows[l]
      BY <1>0, <3>2 DEF Delete, Expire
    <3> QED
      BY <1>0, <3>1, <3>3
  <2> QED
    BY <1>0, <2>1, RecordedKept
<1> QED
  BY <1>1, <1>2

\* What is known of every state: the base of the proofs that follow.
Base == IInv /\ InPast /\ OnTime /\ RecordedOnce /\ RowsAreRecorded

LEMMA BaseHolds == Spec => []Base
<1>1. Init => RecordedOnce /\ RowsAreRecorded
  BY DEF Init, RecordedOnce, RowsAreRecorded
<1>2. IInv /\ InPast /\ OnTime /\ RecordedOnce /\ RowsAreRecorded /\ [Next]_vars
         => RecordedOnce' /\ RowsAreRecorded'
  <2>1. ASSUME RecordedOnce, RowsAreRecorded, UNCHANGED vars PROVE RecordedOnce' /\ RowsAreRecorded'
    BY <2>1 DEF vars, buffer, RecordedOnce, RowsAreRecorded, Steady, InRecord
  <2> QED
    BY <2>1, RecordedStep
<1> QED
  BY <1>1, <1>2, AlwaysOnTime, PTL DEF Spec, Base

-----------------------------------------------------------------------------
(* Records that a fault has lost. *)

\* Record e is about to be replaced by another of its id and second.
BeingReplaced(l, e) == ppc = "insert" /\ val # NaN /\ l = lvl /\ e.id = id /\ e.at = t

\* Record e is not in its table, and the next statement will not mend that.
Hole(l, e) == RowOf(e) \notin rows[l] /\ ~BeingReplaced(l, e)

\* A step that loses a record: the process dies, or the DELETE is followed by an
\* INSERT that fails.
Losing == Crash \/ (Delete /\ val = NaN)

\* A failed read has been counted among the faults and has not yet lost a record.
Owed == IF val = NaN /\ ppc \in {"call", "stamp", "lock", "delete"} THEN 1 ELSE 0

LEMMA AverageIsNumber ==
    ASSUME NEW recs
    PROVE  Average(recs) # NaN
<1>1. Average(recs).is = "average" /\ NaN.is = "nan"
  BY DEF Average, NaN
<1> QED
  BY <1>1

LEMMA RowOfRecord ==
    ASSUME Base, Steady, NEW l \in Tables, NEW e \in ever[l]
    PROVE  RowOf(e).id = e.id /\ RowOf(e).stamp = e.at /\ e.at \in Int /\ e.at <= now
<1>1. e.at \in Int /\ e.at <= now
  BY DEF Base, RecordedOnce
<1> QED
  BY <1>1, LocalIsNow DEF RowOf, Base

\* The records of an id and second are one.
LEMMA OneOfSecond ==
    ASSUME Base
    PROVE  \E y : \A e \in ever[lvl] : e.id = id /\ e.at = t => e = y
<1>1. lvl \in Tables
  BY DEF Base, IInv, TypeOK
<1>2. CASE \E y \in ever[lvl] : y.id = id /\ y.at = t
  BY <1>1, <1>2 DEF Base, RecordedOnce
<1> QED
  BY <1>2

\* A record that is there stays there, unless the step loses it or it expires.
LEMMA HoleStep ==
    ASSUME Base, Next, Steady', NEW l \in Tables, NEW e \in ever'[l], Hole(l, e)'
    PROVE  /\ e \in ever[l]
           /\ \/ Hole(l, e)
              \/ Expire /\ l = lvl /\ e.id = id /\ e.at < t - Expiry[l]
              \/ Losing /\ l = lvl /\ e.id = id /\ e.at = t
<1>0. /\ Steady /\ DOMAIN rows = Tables /\ lvl \in Tables
      /\ RowOf(e) \notin rows'[l] /\ ~BeingReplaced(l, e)'
  BY WasSteady DEF Base, IInv, TypeOK, Hole
<1>1. CASE Insert /\ val # NaN
  <2>1. CASE l = lvl
    <3> DEFINE new == [id |-> id, at |-> t, val |-> val]
    <3>1. /\ [id |-> id, stamp |-> stamp, val |-> val] \in rows'[l]
          /\ \A f \in ever'[l] : f = new \/ (f \in ever[l] /\ ~(f.id = id /\ f.at = t))
      BY <1>1, <2>1, InsertAdds DEF Base
    <3>2. e # new
      <4>1. stamp = t /\ Local(t) = t
        BY <1>0, <1>1, LocalIsNow DEF Insert, Base, InPast, OnTime, PollerOnTime, IInv, TypeOK
      <4>2. RowOf(new) = [id |-> id, stamp |-> stamp, val |-> val]
        BY <4>1 DEF RowOf
      <4> QED
        BY <1>0, <3>1, <4>2
    <3>3. e \in ever[l] /\ ~(e.id = id /\ e.at = t) /\ rows[l] \subseteq rows'[l]
      BY <1>1, <2>1, <3>1, <3>2, InsertAdds DEF Base
    <3> QED
      BY <1>0, <3>3 DEF Hole, BeingReplaced
  <2>2. CASE l # lvl
    BY <1>0, <1>1, <2>2, InsertAdds DEF Hole, BeingReplaced, Base
  <2> QED
    BY <2>1, <2>2
<1>2. CASE Insert /\ val = NaN
  BY <1>0, <1>2 DEF Insert, Hole, BeingReplaced
<1>3. CASE Delete
  <2>1. e \in ever[l] /\ RowOf(e).id = e.id /\ RowOf(e).stamp = e.at /\ stamp = t
    BY <1>0, <1>3, RowOfRecord DEF Delete, Base, OnTime, PollerOnTime
  <2>2. CASE RowOf(e) \notin rows[l]
    BY <1>3, <2>1, <2>2 DEF Delete, Hole, BeingReplaced
  <2>3. CASE RowOf(e) \in rows[l]
    <3>1. l = lvl /\ e.id = id /\ e.at = t
      BY <1>0, <1>3, <2>1, <2>3 DEF Delete
    <3>2. val = NaN
      BY <1>0, <1>3, <3>1 DEF Delete, BeingReplaced
    <3> QED
      BY <1>3, <2>1, <3>1, <3>2 DEF Losing
  <2> QED
    BY <2>2, <2>3
<1>4. CASE Expire
  <2>1. /\ e \in ever[l] /\ RowOf(e).id = e.id /\ RowOf(e).stamp = e.at
        /\ PollerFormats = {t - Expiry[lvl]}
    BY <1>0, <1>4, RowOfRecord, FormatsTheTime DEF Expire, Base
  <2>2. CASE RowOf(e) \notin rows[l]
    BY <1>4, <2>1, <2>2 DEF Expire, Hole, BeingReplaced
  <2>3. CASE RowOf(e) \in rows[l]
    <3>1. rows' = [rows EXCEPT ![lvl] =
                     {r \in rows[lvl] : ~(r.id = id /\ r.stamp < t - Expiry[lvl])}]
      BY <1>4, <2>1 DEF Expire
    <3>2. l = lvl /\ e.id = id /\ e.at < t - Expiry[l]
      BY <1>0, <2>1, <2>3, <3>1
    <3> QED
      BY <1>4, <2>1, <3>2
  <2> QED
    BY <2>2, <2>3
<1>5. CASE Crash
  <2>1. e \in ever[l] /\ RowOf(e) \notin rows[l]
    BY <1>0, <1>5 DEF Crash
  <2> QED
    BY <1>5, <2>1 DEF Hole, BeingReplaced, Losing
<1>6. CASE ~(Insert \/ Delete \/ Expire \/ Crash)
  <2>1. ever' = ever /\ rows' = rows
    BY <1>6 DEF Next, Poller, Http, Read, Call, Stamp, Lock, From, Cascades,
                Ask, HttpFrom, HttpTo, Query, Tick
  <2>2. ppc = "insert" => UNCHANGED <<ppc, val, lvl, id, t>>
    BY <1>6 DEF Next, Poller, Http, Read, Call, Stamp, Lock, From, Cascades,
                Ask, HttpFrom, HttpTo, Query, Tick, pollVars
  <2> QED
    BY <1>0, <2>1, <2>2 DEF Hole, BeingReplaced
<1> QED
  BY <1>1, <1>2, <1>3, <1>4, <1>5, <1>6

-----------------------------------------------------------------------------
(* Counting what faults have spoilt. *)

\* Sums of what is owed and what was paid, before a step and after it.
LEMMA NothingNew ==
    ASSUME NEW f \in Nat, NEW o \in {0, 1}, NEW p \in {0, 1}, p <= o
    PROVE  f + p <= f + o
OBVIOUS

LEMMA StillPaid ==
    ASSUME NEW a \in Nat, NEW b \in Nat, NEW f \in Nat, NEW g \in Nat,
           NEW o \in {0, 1}, NEW p \in {0, 1}, a + o <= f
    PROVE  /\ f + 1 + p <= g + o /\ b <= a + 1 => b + p <= g
           /\ f + p <= g + o /\ b <= a => b + p <= g
OBVIOUS

\* A step that loses a record has been paid for, or is.
LEMMA DebtStep ==
    ASSUME IInv, Next
    PROVE  /\ faults \in Nat /\ faults' \in Nat /\ Owed \in {0, 1} /\ Owed' \in {0, 1}
           /\ Losing => faults + 1 + Owed' <= faults' + Owed
           /\ ~Losing => faults + Owed' <= faults' + Owed
<1>0. faults \in Nat /\ Owed \in {0, 1} /\ Owed' \in {0, 1}
  BY HistoryAssumption DEF IInv, TypeOK, Owed
<1>1. CASE Crash
  <2>1. faults' = faults + 1 /\ Owed' = 0
    BY <1>1 DEF Crash, Owed
  <2> QED
    BY <1>0, <1>1, <2>1 DEF Losing
<1>2. CASE Delete /\ val = NaN
  <2>1. faults' = faults /\ Owed = 1 /\ Owed' = 0
    BY <1>2 DEF Delete, Owed
  <2> QED
    BY <1>0, <2>1
<1>3. CASE Read
  <2>1. (faults' = faults /\ Owed' = 0) \/ faults' = faults + 1
    BY <1>3, HistoryAssumption DEF Read, Owed
  <2>2. ~Losing
    BY <1>3 DEF Read, Losing, Crash, Delete
  <2> QED
    BY <1>0, <2>1, <2>2
<1>4. CASE ~(Read \/ Losing)
  <2>1. faults' = faults
    BY <1>4 DEF Next, Poller, Http, Call, Stamp, Lock, Delete, Insert, Expire, From, Cascades,
                Ask, HttpFrom, HttpTo, Query, Tick, Losing
  <2>2. CASE Cascades
    <3>1. Owed' = 0
      BY <2>2, AverageIsNumber DEF Cascades, Return, Owed
    <3> QED
      BY <1>0, <1>4, <2>1, <3>1
  <2>3. CASE Expire
    <3>1. Owed' = 0
      BY <2>3 DEF Expire, Return, Owed
    <3> QED
      BY <1>0, <1>4, <2>1, <3>1
  <2>4. CASE ~(Cascades \/ Expire)
    <3>1. val' = val /\ (ppc' \in {"call", "stamp", "lock", "delete"}
                            => ppc \in {"call", "stamp", "lock", "delete"})
      BY <1>4, <2>4 DEF Next, Poller, Http, Call, Stamp, Lock, Delete, Insert, From,
                        Ask, HttpFrom, HttpTo, Query, Tick, Losing, pollVars
    <3>2. Owed' <= Owed
      BY <1>0, <3>1 DEF Owed
    <3>3. ~Losing
      BY <1>4
    <3>4. faults + Owed' <= faults + Owed
      BY <1>0, <3>2, NothingNew
    <3>5. faults' \in Nat /\ faults + Owed' <= faults' + Owed
      BY <1>0, <2>1, <3>4, Zenon
    <3> QED
      BY <1>0, <3>3, <3>5
  <2> QED
    BY <2>2, <2>3, <2>4
<1> QED
  BY <1>1, <1>2, <1>3, <1>4 DEF Losing

\* So a set that grows by one at most in such a step, and in no other, is never
\* larger than the number of faults.
Paid(S) == IsFiniteSet(S) /\ Cardinality(S) + Owed <= faults

LEMMA OneElementMore ==
    ASSUME NEW A, NEW B, NEW x, IsFiniteSet(A), B \subseteq A \union {x}
    PROVE  /\ IsFiniteSet(B) /\ Cardinality(A) \in Nat /\ Cardinality(B) \in Nat
           /\ Cardinality(B) <= Cardinality(A) + 1
           /\ B \subseteq A => Cardinality(B) <= Cardinality(A)
<1> DEFINE a == Cardinality(A)
           b == Cardinality(B)
           c == Cardinality(A \union {x})
<1>1. a \in Nat
  BY FS_CardinalityType
<1>2. IsFiniteSet(A \union {x}) /\ c = IF x \in A THEN a ELSE a + 1
  BY FS_AddElement, Zenon
<1>3. IsFiniteSet(B) /\ b <= c
  BY <1>2, FS_Subset
<1>4. b \in Nat /\ c \in Nat
  BY <1>2, <1>3, FS_CardinalityType
<1>5. B \subseteq A => b <= a
  BY FS_Subset
<1> HIDE DEF a, b, c
<1>6. b <= a + 1
  BY <1>1, <1>2, <1>3, <1>4
<1> QED
  BY <1>1, <1>3, <1>4, <1>5, <1>6 DEF a, b

LEMMA PaidStep ==
    ASSUME IInv, Next, NEW A, NEW B, NEW x, Paid(A), B \subseteq A \union {x},
           ~Losing => B \subseteq A
    PROVE  IsFiniteSet(B) /\ Cardinality(B) + Owed' <= faults'
<1> DEFINE a == Cardinality(A)
           b == Cardinality(B)
<1>1. a + Owed <= faults
  BY DEF Paid
<1>2. /\ IsFiniteSet(B) /\ a \in Nat /\ b \in Nat /\ b <= a + 1
      /\ B \subseteq A => b <= a
  BY OneElementMore DEF Paid
<1>3. /\ faults \in Nat /\ faults' \in Nat /\ Owed \in {0, 1} /\ Owed' \in {0, 1}
      /\ Losing => faults + 1 + Owed' <= faults' + Owed
      /\ ~Losing => faults + Owed' <= faults' + Owed
  BY DebtStep
<1> HIDE DEF a, b
<1>4. b + Owed' <= faults'
  <2>1. CASE Losing
    <3>1. faults + 1 + Owed' <= faults' + Owed /\ b <= a + 1
      BY <1>2, <1>3, <2>1
    <3> QED
      BY <1>1, <1>2, <1>3, <3>1, StillPaid
  <2>2. CASE ~Losing
    <3>1. faults + Owed' <= faults' + Owed /\ b <= a
      BY <1>2, <1>3, <2>2
    <3> QED
      BY <1>1, <1>2, <1>3, <3>1, StillPaid
  <2> QED
    BY <2>1, <2>2
<1> QED
  BY <1>2, <1>4 DEF b

-----------------------------------------------------------------------------
(* Retained. *)

\* Records that are missing, and will be when the statement under way is done.
Lost ==
    UNION {{<<l, e>> : e \in {x \in ever[l] : x.at >= now - Expiry[l] /\ Hole(l, x)}} : l \in Tables}

RetainedInv == Steady => Paid(Lost)

LEMMA RetainedStep ==
    ASSUME Base, Next, RetainedInv
    PROVE  RetainedInv'
<1> SUFFICES ASSUME Steady' PROVE Paid(Lost)'
  BY DEF RetainedInv
<1>0. /\ Steady /\ Paid(Lost) /\ IInv /\ now \in Int /\ now' \in Int /\ now <= now'
      /\ t \in Int /\ t <= now
  <2>1. now' = now \/ now' = now + 1
    BY DEF Next, Poller, Http, Read, Call, Stamp, Lock, Delete, Insert, Expire, From, Cascades,
           Ask, HttpFrom, HttpTo, Query, Tick, Crash
  <2> QED
    BY <2>1, WasSteady DEF RetainedInv, Base, IInv, TypeOK, InPast
<1>1. PICK y : \A e \in ever[lvl] : e.id = id /\ e.at = t => e = y
  BY OneOfSecond
<1>2. ASSUME NEW l \in Tables, NEW e \in ever'[l], e.at >= now' - Expiry[l], Hole(l, e)'
      PROVE  <<l, e>> \in Lost \/ (Losing /\ <<l, e>> = <<lvl, y>>)
  <2>1. /\ e \in ever[l]
        /\ \/ Hole(l, e)
           \/ Expire /\ l = lvl /\ e.id = id /\ e.at < t - Expiry[l]
           \/ Losing /\ l = lvl /\ e.id = id /\ e.at = t
    BY <1>2, HoleStep
  <2>2. Expiry[l] \in Nat /\ e.at \in Int
    BY <2>1, HistoryAssumption DEF Base, RecordedOnce
  <2>3. e.at >= now - Expiry[l] /\ ~(e.at < t - Expiry[l])
    BY <1>0, <1>2, <2>2
  <2> QED
    BY <1>1, <2>1, <2>3 DEF Lost
<1>3. \A p \in Lost' : p \in Lost \/ (Losing /\ p = <<lvl, y>>)
  BY <1>2 DEF Lost
<1>4. Lost' \subseteq Lost \union {<<lvl, y>>} /\ (~Losing => Lost' \subseteq Lost)
  BY <1>3
<1>5. IsFiniteSet(Lost') /\ Cardinality(Lost') + Owed' <= faults'
  BY <1>0, <1>4, PaidStep
<1> QED
  BY <1>5 DEF Paid

LEMMA AlwaysRetained == Spec => []RetainedInv
<1>1. Init => RetainedInv
  <2> SUFFICES ASSUME Init PROVE Paid(Lost)
    BY DEF RetainedInv
  <2>1. Lost = {}
    BY DEF Init, Lost
  <2>2. Owed = 0 /\ faults = 0
    BY DEF Init, Owed
  <2> QED
    BY <2>1, <2>2, FS_EmptySet DEF Paid
<1>2. Base /\ RetainedInv /\ [Next]_vars => RetainedInv'
  <2>1. ASSUME RetainedInv, UNCHANGED vars PROVE RetainedInv'
    BY <2>1 DEF vars, buffer, pollVars, RetainedInv, Steady, Paid, Lost, Hole, BeingReplaced, Owed
  <2> QED
    BY <2>1, RetainedStep
<1> QED
  BY <1>1, <1>2, BaseHolds, PTL DEF Spec

\* Faults cost one record each: addRecord() deletes before it inserts, and yet
\* no more of what is young is missing from all tables together than reads have
\* failed and processes died.
THEOREM FaultsCostOneRecord == Spec => []Retained
<1>1. Base /\ RetainedInv => Retained
  <2> SUFFICES ASSUME Base, RetainedInv, Free, Steady PROVE Cardinality(Missing) <= faults
    BY DEF Retained
  <2>1. ppc # "insert"
    BY DEF Free, Base, IInv, LockDepth, TypeOK, Tables
  <2>2. Missing = Lost
    BY <2>1 DEF Missing, Lost, Hole, BeingReplaced
  <2>3. IsFiniteSet(Missing) /\ Cardinality(Missing) + Owed <= faults
    BY <2>2 DEF RetainedInv, Paid
  <2>4. Cardinality(Missing) \in Nat /\ Owed \in {0, 1} /\ faults \in Nat
    BY <2>3, FS_CardinalityType, HistoryAssumption DEF Owed, Base, IInv, TypeOK
  <2> QED
    BY <2>3, <2>4
<1> QED
  BY <1>1, BaseHolds, AlwaysRetained, PTL

-----------------------------------------------------------------------------
(* ReportsAll. *)

\* Unless it has created the database, a process can step the statement of every
\* table.
Prepared == ~Fresh => \A l \in Tables : live[l]

LEMMA AlwaysPrepared == Spec => []Prepared
<1>1. Init => Prepared
  BY DEF Init, Prepared
<1>2. Prepared /\ [Next]_vars => Prepared'
  <2> SUFFICES ASSUME Prepared, [Next]_vars, ~Fresh, NEW l \in Tables PROVE live'[l]
    BY DEF Prepared
  <2>1. live' = live \/ live' = [k \in Tables |-> TRUE]
    BY DEF Next, Poller, Http, Read, Call, Stamp, Lock, Delete, Insert, Expire, From, Cascades,
           Ask, HttpFrom, HttpTo, Query, Tick, Crash, vars
  <2> QED
    BY <2>1 DEF Prepared
<1> QED
  BY <1>1, <1>2, PTL DEF Spec

\* While nothing has failed nothing is missing.
LEMMA NothingIsMissing ==
    ASSUME Base, RetainedInv, Free, Steady, faults = 0,
           NEW l \in Tables, NEW e \in ever[l], e.at >= now - Expiry[l]
    PROVE  RowOf(e) \in rows[l]
<1>1. IsFiniteSet(Lost) /\ Cardinality(Lost) + Owed <= 0
  BY DEF RetainedInv, Paid
<1>2. Cardinality(Lost) \in Nat /\ Owed \in {0, 1}
  BY <1>1, FS_CardinalityType DEF Owed
<1>3. Cardinality(Lost) = 0
  BY <1>1, <1>2
<1>4. Lost = {}
  BY <1>1, <1>3, FS_EmptySet
<1>5. ~Hole(l, e)
  <2> SUFFICES ASSUME Hole(l, e) PROVE <<l, e>> \in Lost
    BY <1>4
  <2>1. e \in {x \in ever[l] : x.at >= now - Expiry[l] /\ Hole(l, x)}
    OBVIOUS
  <2> QED
    BY <2>1 DEF Lost
<1>6. ppc # "insert"
  BY DEF Free, Base, IInv, LockDepth, TypeOK, Tables
<1> QED
  BY <1>5, <1>6 DEF Hole, BeingReplaced

\* A report is complete while nothing has failed: neither the statements of the
\* polling thread nor the clock of the request, read twice, leave a record out.
\* The process did not create the database: the statements of one that did are
\* not prepared.
THEOREM ReportsAreComplete == ASSUME ~Fresh PROVE Spec => ReportsAll
<1>1. Base /\ RetainedInv /\ Prepared
         => [Query /\ Steady /\ faults = 0 =>
               \A e \in ever[asked[1]] :
                   (/\ e.id = asked[2] /\ e.at >= hstart /\ e.at <= hto
                    /\ e.at >= now - Expiry[asked[1]])
                   => [id |-> e.id, stamp |-> e.at, val |-> e.val] \in Report]_vars
  <2> SUFFICES ASSUME Base, RetainedInv, Prepared, Query, Steady, faults = 0,
                      NEW e \in ever[asked[1]],
                      e.id = asked[2], e.at >= hstart, e.at <= hto,
                      e.at >= now - Expiry[asked[1]]
               PROVE  [id |-> e.id, stamp |-> e.at, val |-> e.val] \in Report
    OBVIOUS
  <2> DEFINE l == asked[1]
  <2>1. l \in Tables /\ live[l] /\ Free /\ hfrom = hstart
    BY DEF Base, IInv, TypeOK, Prepared, Query, OnTime, HttpOnTime
  <2>2. RowOf(e) \in rows[l]
    BY <2>1, NothingIsMissing
  <2>3. RowOf(e) = [id |-> e.id, stamp |-> e.at, val |-> e.val]
    BY <2>1, RowOfRecord, LocalIsNow DEF RowOf, Base
  <2> QED
    BY <2>1, <2>2, <2>3 DEF Report, Between
<1> QED
  BY <1>1, BaseHolds, AlwaysRetained, AlwaysPrepared, PTL DEF ReportsAll

-----------------------------------------------------------------------------
(* Windows that a fault has spoilt. *)

\* The polling thread is about to record something, or to average a window.
Entering  == ppc \in {"stamp", "lock", "delete", "insert"}
Averaging == ppc \in {"expire", "from", "average"}

\* The window of a record, and the window of table l the polling thread works on.
Of(l, e) == <<e.id, Start(e.at, l)>>
Here(l)  == <<id, Start(t, l)>>

\* The average of that window is being computed, or recorded; or will be.
Under(l)   == (Averaging /\ l = lvl) \/ (Entering /\ l = lvl - 1)
Pending(l) == ((Entering \/ Averaging) /\ l >= lvl) \/ Under(l)

\* The window of e has still to be averaged; or the average is missing.
Open(l, e) == Start(e.at, l) + Cascade[l] > now \/ (Of(l, e) = Here(l) /\ Pending(l))
Gap(l, e)  == [id |-> e.id, at |-> Start(e.at, l), val |-> WindowAverage(l, e)] \notin ever[l + 1]

\* A window is spoilt when it has no average and none is under way, or when it
\* has lost a record before it is averaged.
Spoilt(l, e) == \/ Gap(l, e) /\ ~(Of(l, e) = Here(l) /\ Under(l))
                \/ Hole(l, e) /\ Open(l, e)
Bad(l) == {Of(l, e) : e \in {x \in ever[l] : Spoilt(l, x)}}

Fewer == Steady => \A l \in 1..(N - 1) : Paid(Bad(l))

\* What is about to be recorded in a later table is the average of its window,
\* unless that has lost a record.
Good ==
    Steady /\ Entering /\ lvl > 1 =>
        \A e \in ever[lvl - 1] : Of(lvl - 1, e) = Here(lvl - 1) =>
            \/ val = WindowAverage(lvl - 1, e)
            \/ \E f \in ever[lvl - 1] : Of(lvl - 1, f) = Here(lvl - 1) /\ Hole(lvl - 1, f)

\* A later table is entered at the start of a window of the table before.
AtStart == 0 <= t /\ (lvl > 1 => Start(t, lvl - 1) = t)

LEMMA StartIsNatural ==
    ASSUME NEW x \in Nat, NEW l \in Tables
    PROVE  Start(x, l) \in Nat
<1> DEFINE c == Cascade[l]
           q == x \div c
<1>1. c \in Nat \ {0}
  BY HistoryAssumption
<1>2. q \in Int /\ x < q * c + c
  <2>1. x \in Int
    OBVIOUS
  <2> HIDE DEF c
  <2> QED
    BY <1>1, <2>1, Quotient, Zenon
<1>3. Start(x, l) = q * c
  BY DEF Start
<1> HIDE DEF c, q
<1>4. ~(q < 0)
  <2> SUFFICES ASSUME q < 0 PROVE FALSE
    OBVIOUS
  <2>1. PICK d \in Nat : q = -1 - d
    <3>1. -1 - q \in Nat /\ q = -1 - (-1 - q)
      BY <1>2
    <3> QED
      BY <3>1
  <2>2. q * c = -c - d * c /\ d * c \in Nat
    BY <1>1, <2>1
  <2> QED
    BY <1>1, <1>2, <2>2
<1>5. q * c \in Nat
  BY <1>1, <1>2, <1>4
<1> QED
  BY <1>3, <1>5

LEMMA AtStartStep ==
    ASSUME IInv, AtStart, Next
    PROVE  AtStart'
<1>0. t \in Nat /\ now \in Nat /\ lvl \in Tables /\ N \in Nat
  BY HistoryAssumption DEF IInv, TypeOK, AtStart
<1>1. CASE Call
  BY <1>0, <1>1 DEF Call, AtStart
<1>2. CASE lvl' = 1 /\ t' = 0
  BY <1>2 DEF AtStart
<1>3. CASE lvl' = lvl /\ t' = t
  BY <1>3 DEF AtStart
<1>4. CASE lvl' = lvl + 1 /\ t' = Start(t, lvl) /\ Cascades
  <2>1. lvl \in 1..(N - 1)
    BY <1>0, <1>4 DEF Cascades, IInv, LockDepth, Tables
  <2>2. Start(Start(t, lvl), lvl) = Start(t, lvl) /\ Start(t, lvl) \in Nat
    BY <1>0, <2>1, StartOfStart, StartIsNatural
  <2>3. lvl' - 1 = lvl
    BY <1>0, <1>4 DEF Tables
  <2>4. Start(t', lvl' - 1) = t' /\ 0 <= t'
    BY <1>4, <2>2, <2>3
  <2> QED
    BY <2>4 DEF AtStart
<1> QED
  BY <1>1, <1>2, <1>3, <1>4
     DEF Next, Poller, Http, Read, Stamp, Lock, Delete, Insert, Expire, From, Cascades, Return,
         Ask, HttpFrom, HttpTo, Query, Tick, Crash, pollVars

LEMMA AlwaysAtStart == Spec => []AtStart
<1>1. Init => AtStart
  BY DEF Init, AtStart
<1>2. IInv /\ AtStart /\ [Next]_vars => AtStart'
  <2>1. ASSUME AtStart, UNCHANGED vars PROVE AtStart'
    BY <2>1 DEF AtStart, vars, pollVars
  <2> QED
    BY <2>1, AtStartStep
<1> QED
  BY <1>1, <1>2, Invariance, PTL DEF Spec

\* A window that has been averaged stays so.
LEMMA OpenStep ==
    ASSUME Base, AtStart, Next, NEW l \in 1..(N - 1), NEW e, e.at \in Int, Open(l, e)'
    PROVE  Open(l, e)
<1> DEFINE s == Start(e.at, l)
<1>0. /\ l \in Tables /\ N \in Nat /\ Cascade[l] \in Nat \ {0} /\ s \in Int
      /\ now \in Int /\ t \in Int /\ lvl \in Tables
  <2>1. l \in Tables /\ N \in Nat
    BY HistoryAssumption DEF Tables
  <2>2. now \in Int /\ t \in Int /\ lvl \in Tables
    BY DEF Base, IInv, TypeOK
  <2>3. Cascade[l] \in Nat \ {0} /\ s \in Int
    BY <2>1, StartIsInteger, HistoryAssumption
  <2> QED
    BY <2>1, <2>2, <2>3
<1>1. (s + Cascade[l] > now)' => s + Cascade[l] > now
  <2>1. now' = now \/ now' = now + 1
    BY DEF Next, Poller, Http, Read, Call, Stamp, Lock, Delete, Insert, Expire, From, Cascades,
           Ask, HttpFrom, HttpTo, Query, Tick, Crash
  <2> HIDE DEF s
  <2> QED
    BY <1>0, <2>1
<1>2. ASSUME (Of(l, e) = Here(l))', Pending(l)'
      PROVE  Open(l, e)
  <2>1. CASE Call
    <3>1. t' = now /\ id' = id
      BY <2>1 DEF Call
    <3>2. s = Start(now, l)
      BY <1>2, <3>1 DEF Of, Here
    <3>3. now < s + Cascade[l]
      BY <1>0, <3>2, StartBounds
    <3> HIDE DEF s
    <3>4. s + Cascade[l] > now
      BY <1>0, <3>3
    <3> QED
      BY <3>4 DEF Open, s
  <2>2. CASE Cascades
    <3>1. /\ lvl' = lvl + 1 /\ t' = Start(t, lvl) /\ id' = id /\ ppc' = "stamp"
          /\ ppc = "average" /\ lvl < N
      BY <1>2, <2>2 DEF Cascades, Return, Pending, Under, Entering, Averaging, Base, IInv, LockDepth
    <3>2. l >= lvl
      BY <1>0, <1>2, <3>1 DEF Pending, Under, Entering, Averaging, Tables
    <3>3. lvl \in 1..(N - 1)
      BY <1>0, <3>1 DEF Tables
    <3>4. Start(t', l) = Start(t, l)
      BY <1>0, <3>1, <3>2, <3>3, StartOfStart
    <3>5. Here(l)' = Here(l)
      BY <3>1, <3>4 DEF Here
    <3>6. Pending(l) /\ Of(l, e)' = Of(l, e)
      BY <3>1, <3>2 DEF Pending, Averaging, Of
    <3> QED
      BY <1>2, <3>5, <3>6 DEF Open
  <2>3. CASE ~(Call \/ Cascades)
    <3>1. UNCHANGED <<t, id, lvl>> /\ (Entering' => Entering) /\ (Averaging' => Entering \/ Averaging)
          /\ (Averaging' /\ ~Averaging => Insert) /\ (Entering' => ~Averaging)
      BY <1>2, <2>3
         DEF Next, Poller, Http, Read, Stamp, Lock, Delete, Insert, Expire, Return, From,
             Ask, HttpFrom, HttpTo, Query, Tick, Crash, pollVars, Pending, Under, Entering, Averaging
    <3>2. Pending(l)' => Pending(l)
      BY <3>1 DEF Pending, Under
    <3> QED
      BY <1>2, <3>1, <3>2 DEF Open, Of, Here
  <2> QED
    BY <2>1, <2>2, <2>3
<1> QED
  BY <1>1, <1>2 DEF Open

\* What a step adds to the records lost from windows not yet averaged is of the
\* window the polling thread works on.
LEMMA OpenHoleStep ==
    ASSUME Base, AtStart, Next, Steady', NEW l \in 1..(N - 1), NEW e \in ever'[l],
           Hole(l, e)', Open(l, e)'
    PROVE  /\ e \in ever[l]
           /\ Spoilt(l, e) \/ (Losing /\ Of(l, e) = Here(l))
<1>0. l \in Tables /\ N \in Nat
  BY HistoryAssumption DEF Tables
<1>1. /\ e \in ever[l] /\ e.at \in Int
      /\ \/ Hole(l, e)
         \/ Expire /\ l = lvl /\ e.id = id /\ e.at < t - Expiry[l]
         \/ Losing /\ l = lvl /\ e.id = id /\ e.at = t
  BY <1>0, HoleStep DEF Base, RecordedOnce
<1>2. Open(l, e)
  BY <1>1, OpenStep
<1>3. ~(e.at < t - Expiry[l])
  <2> SUFFICES ASSUME e.at < t - Expiry[l] PROVE FALSE
    OBVIOUS
  <2>1. /\ Cascade[l] \in Nat /\ Expiry[l] \in Nat /\ Cascade[l] <= Expiry[l]
        /\ now \in Int /\ t \in Int /\ t <= now
    BY <1>0, HistoryAssumption DEF Base, IInv, TypeOK, InPast
  <2>2. Start(e.at, l) \in Int /\ Start(e.at, l) <= e.at
    BY <1>0, <1>1, StartBounds
  <2>3. Start(e.at, l) + Cascade[l] < t /\ ~(Start(e.at, l) + Cascade[l] > now)
    BY <1>1, <2>1, <2>2
  <2>4. t < Start(t, l) + Cascade[l] /\ Start(t, l) \in Int
    BY <1>0, <2>1, StartBounds
  <2>5. Start(e.at, l) # Start(t, l)
    BY <2>1, <2>2, <2>3, <2>4
  <2> QED
    BY <1>2, <2>3, <2>5 DEF Open, Of, Here
<1> QED
  BY <1>1, <1>2, <1>3 DEF Spoilt, Of, Here

\* The records of a window, and what it averages to.
LEMMA OfOneWindow ==
    ASSUME NEW l \in Tables, NEW e, NEW y, e.at \in Int, y.at \in Int
    PROVE  y.id = e.id /\ InWindow(y.at, l, Start(e.at, l)) <=> Of(l, y) = Of(l, e)
BY WindowIsStart DEF Of

LEMMA AverageOfWindow ==
    ASSUME RecordedOnce, NEW l \in Tables, NEW e \in ever[l]
    PROVE  WindowAverage(l, e) =
             [is |-> "average",
              of |-> {<<x.at, x.val>> : x \in {y \in ever[l] : Of(l, y) = Of(l, e)}}]
<1>1. {y \in ever[l] : y.id = e.id /\ InWindow(y.at, l, Start(e.at, l))}
        = {y \in ever[l] : Of(l, y) = Of(l, e)}
  BY OfOneWindow DEF RecordedOnce
<1> QED
  BY <1>1 DEF WindowAverage

\* Only an INSERT into the window changes what it averages to.
LEMMA AverageStep ==
    ASSUME Base, Next, NEW l \in Tables, NEW e \in ever'[l],
           ~(Insert /\ val # NaN /\ l = lvl /\ Of(l, e) = Here(l))
    PROVE  e \in ever[l] /\ WindowAverage(l, e)' = WindowAverage(l, e)
<1>1. CASE ever'[l] = ever[l]
  BY <1>1 DEF WindowAverage
<1>2. CASE ever'[l] # ever[l]
  <2>1. Insert /\ val # NaN
    BY <1>2 DEF Next, Poller, Http, Read, Call, Stamp, Lock, Delete, Insert, Expire, From, Cascades,
                Ask, HttpFrom, HttpTo, Query, Tick, Crash
  <2> DEFINE new == [id |-> id, at |-> t, val |-> val]
  <2>2. l = lvl /\ ever'[l] = {x \in ever[l] : ~(x.id = id /\ x.at = t)} \union {new}
    BY <1>2, <2>1, InsertAdds DEF Base
  <2>3. Of(l, e) # Here(l) /\ new.id = id /\ new.at = t /\ t \in Int
    BY <2>1, <2>2 DEF Base, IInv, TypeOK
  <2> HIDE DEF new
  <2>4. e # new
    BY <2>3 DEF Of, Here
  <2>5. e \in ever[l] /\ e.at \in Int
    BY <2>2, <2>4 DEF Base, RecordedOnce
  <2>6. \A y : y.id = e.id /\ InWindow(y.at, l, Start(e.at, l)) => ~(y.id = id /\ y.at = t)
    BY <2>3, <2>5, WindowIsStart DEF Of, Here
  <2>7. {y \in ever'[l] : y.id = e.id /\ InWindow(y.at, l, Start(e.at, l))}
          = {y \in ever[l] : y.id = e.id /\ InWindow(y.at, l, Start(e.at, l))}
    BY <2>2, <2>3, <2>6
  <2> QED
    BY <2>5, <2>7 DEF WindowAverage
<1> QED
  BY <1>1, <1>2

\* What the polling thread finds when it averages a window: the records that are
\* recorded in it, but those that are lost.  The end it has formatted is no
\* later than the window's and no earlier than its last record.
Found == IF live[lvl] THEN Between(lvl, id, from, Local(Start(t, lvl) + Cascade[lvl] - 1)) ELSE {}

LEMMA GatheredIsFound ==
    ASSUME Base, Steady, ppc = "average"
    PROVE  Gathered = {Found}
<1>1. PollerFormats = {Local(Start(t, lvl) + Cascade[lvl] - 1)}
  BY FormatsTheTime DEF Base
<1> QED
  BY <1>1 DEF Gathered, Found

LEMMA FoundIsRecorded ==
    ASSUME Base, Steady, ppc = "average", lvl \in 1..(N - 1), NEW r \in Found
    PROVE  \E x \in ever[lvl] : Of(lvl, x) = Here(lvl) /\ r.stamp = x.at /\ r.val = x.val
<1>0. /\ lvl \in Tables /\ t \in Int /\ Start(t, lvl) \in Int /\ Cascade[lvl] \in Nat
  BY HistoryAssumption, StartIsInteger DEF Base, IInv, TypeOK
<1>1. /\ r \in rows[lvl] /\ r.id = id /\ Start(t, lvl) <= r.stamp /\ r.stamp \in Int
      /\ r.stamp <= Local(Start(t, lvl) + Cascade[lvl] - 1)
  BY <1>0 DEF Found, Between, Base, OnTime, PollerOnTime, IInv, TypeOK
<1>2. r.stamp <= Start(t, lvl) + Cascade[lvl] - 1
  <2> DEFINE z == Start(t, lvl) + Cascade[lvl] - 1
  <2>1. z \in Int
    BY <1>0
  <2>2. Local(z) \in Int /\ Local(z) <= z /\ r.stamp <= Local(z)
    BY <1>1, <2>1, LocalIsInteger, LocalIsNotLater
  <2> HIDE DEF z
  <2>3. r.stamp <= z
    BY <1>1, <2>1, <2>2
  <2> QED
    BY <2>3 DEF z
<1>3. Start(r.stamp, lvl) = Start(t, lvl)
  BY <1>0, <1>1, <1>2, WindowIsStart DEF InWindow
<1> DEFINE x == [id |-> r.id, at |-> r.stamp, val |-> r.val]
<1>4. x \in ever[lvl] /\ x.id = id /\ x.at = r.stamp /\ x.val = r.val
  BY <1>0, <1>1 DEF Base, RowsAreRecorded, InRecord
<1> HIDE DEF x
<1> QED
  BY <1>3, <1>4 DEF Of, Here

LEMMA RecordedIsFound ==
    ASSUME Base, Prepared, ~Fresh, AtStart, Steady, ppc = "average", lvl \in 1..(N - 1),
           NEW e \in ever[lvl], Of(lvl, e) = Here(lvl)
    PROVE  RowOf(e) \in Found \/ Hole(lvl, e)
<1>0. /\ lvl \in Tables /\ t \in Nat /\ t <= now /\ now \in 0..MaxNow /\ now < DstAt
      /\ Start(t, lvl) \in Int /\ Cascade[lvl] \in Nat /\ live[lvl] /\ DstAt \in Int
      /\ MaxNow \in Nat
  BY HistoryAssumption, StartIsInteger DEF Base, IInv, TypeOK, InPast, AtStart, Prepared, Steady
<1>1. /\ RowOf(e).id = e.id /\ RowOf(e).stamp = e.at /\ e.at \in Int /\ e.at <= now
      /\ e.id = id /\ Start(e.at, lvl) = Start(t, lvl)
  BY <1>0, RowOfRecord DEF Of, Here
<1>2. Start(t, lvl) <= e.at /\ e.at <= Start(t, lvl) + Cascade[lvl] - 1
  BY <1>0, <1>1, WindowIsStart DEF InWindow
<1>3. e.at <= Local(Start(t, lvl) + Cascade[lvl] - 1)
  <2> DEFINE z == Start(t, lvl) + Cascade[lvl] - 1
  <2>1. z \in Int
    BY <1>0
  <2>2. t \in 0..MaxNow /\ t < DstAt
    BY <1>0
  <2>3. DstAt <= z => DstAt - 1 <= Local(z)
    BY <2>2, WindowAssumption
  <2>4. z < DstAt => Local(z) = z
    BY <1>0, <2>1 DEF Local
  <2>5. Local(z) \in Int
    BY <2>1, LocalIsInteger
  <2> HIDE DEF z
  <2>6. e.at <= z
    BY <1>2 DEF z
  <2>7. e.at <= Local(z)
    BY <1>0, <1>1, <2>1, <2>3, <2>4, <2>5, <2>6
  <2> QED
    BY <2>7 DEF z
<1>4. RowOf(e) \in rows[lvl] => RowOf(e) \in Found
  <2>1. from = Start(t, lvl)
    BY DEF Base, OnTime, PollerOnTime
  <2> QED
    BY <1>0, <1>1, <1>2, <1>3, <2>1 DEF Found, Between
<1> QED
  BY <1>4 DEF Hole, BeingReplaced

LEMMA AverageIsRight ==
    ASSUME Base, Prepared, ~Fresh, AtStart, Steady, ppc = "average", lvl \in 1..(N - 1),
           NEW e \in ever[lvl], Of(lvl, e) = Here(lvl),
           \A f \in ever[lvl] : Of(lvl, f) = Here(lvl) => ~Hole(lvl, f)
    PROVE  Average(Found) = WindowAverage(lvl, e)
<1>0. lvl \in Tables
  BY DEF Base, IInv, TypeOK
<1> DEFINE its == {y \in ever[lvl] : Of(lvl, y) = Of(lvl, e)}
<1>1. ASSUME NEW x \in its PROVE RowOf(x) \in Found /\ RowOf(x).stamp = x.at /\ RowOf(x).val = x.val
  <2>1. RowOf(x) \in Found
    BY <1>1, RecordedIsFound
  <2> QED
    BY <1>0, <1>1, <2>1, RowOfRecord DEF RowOf
<1>2. ASSUME NEW r \in Found PROVE \E x \in its : r.stamp = x.at /\ r.val = x.val
  BY FoundIsRecorded
<1> HIDE DEF its
<1>3. {<<r.stamp, r.val>> : r \in Found} = {<<x.at, x.val>> : x \in its}
  <2>1. ASSUME NEW x \in its PROVE <<x.at, x.val>> \in {<<r.stamp, r.val>> : r \in Found}
    BY <1>1
  <2>2. ASSUME NEW r \in Found PROVE <<r.stamp, r.val>> \in {<<x.at, x.val>> : x \in its}
    BY <1>2
  <2> QED
    BY <2>1, <2>2
<1>4. WindowAverage(lvl, e) = [is |-> "average", of |-> {<<x.at, x.val>> : x \in its}]
  BY <1>0, AverageOfWindow DEF Base, its
<1> QED
  BY <1>3, <1>4 DEF Average

\* Where the polling thread stands, it works on one table.
LEMMA OneUnder ==
    ASSUME IInv, NEW l \in 1..(N - 1), Under(l)
    PROVE  (Averaging /\ ~Entering /\ l = lvl) \/ (Entering /\ ~Averaging /\ l = lvl - 1)
BY DEF Under, Entering, Averaging

\* An INSERT leaves the window it is the average of with its average, unless
\* that window had lost a record.
LEMMA GapInsert ==
    ASSUME Base, AtStart, Good, Insert, Steady, NEW l \in 1..(N - 1), NEW e \in ever'[l],
           Gap(l, e)', ~(Of(l, e) = Here(l) /\ Under(l))'
    PROVE  e \in ever[l] /\ \E f \in ever[l] : Of(l, f) = Of(l, e) /\ Spoilt(l, f)
<1>0. /\ l \in Tables /\ l + 1 \in Tables /\ lvl \in Tables /\ l \in Int /\ lvl \in Int
      /\ l + 1 # l /\ Entering /\ ~Averaging /\ Next
  <2>1. l \in Tables /\ l + 1 \in Tables /\ l \in Int /\ l + 1 # l
    BY HistoryAssumption DEF Tables
  <2>2. lvl \in Tables /\ lvl \in Int
    BY HistoryAssumption DEF Base, IInv, TypeOK, Tables
  <2> QED
    BY <2>1, <2>2 DEF Insert, Entering, Averaging, Next, Poller
<1>1. (Under(l)' <=> l = lvl) /\ Here(l)' = Here(l) /\ Of(l, e)' = Of(l, e)
  BY DEF Insert, Under, Entering, Averaging, Here, Of
<1>2. e \in ever[l] /\ WindowAverage(l, e)' = WindowAverage(l, e)
  BY <1>0, <1>1, AverageStep
<1> DEFINE avg == [id |-> e.id, at |-> Start(e.at, l), val |-> WindowAverage(l, e)]
<1>3. avg \notin ever'[l + 1]
  BY <1>2 DEF Gap
<1>4. avg.id = e.id /\ avg.at = Start(e.at, l) /\ avg.val = WindowAverage(l, e)
  OBVIOUS
<1>5. Gap(l, e) <=> avg \notin ever[l + 1]
  BY DEF Gap
<1> HIDE DEF avg
<1>6. CASE l + 1 # lvl
  <2>1. ever'[l + 1] = ever[l + 1]
    BY <1>0, <1>6, InsertAdds DEF Insert, Base
  <2>2. ~Under(l)
    BY <1>0, <1>6 DEF Under
  <2> QED
    BY <1>2, <1>3, <1>5, <2>1, <2>2 DEF Spoilt
<1>7. CASE l + 1 = lvl /\ Of(l, e) # Here(l)
  <2>1. Start(t, l) = t
    BY <1>0, <1>7 DEF AtStart, Tables
  <2>2. ~(avg.id = id /\ avg.at = t)
    BY <1>4, <1>7, <2>1 DEF Of, Here
  <2>3. avg \notin ever[l + 1]
    <3>1. CASE val = NaN
      BY <1>3, <3>1 DEF Insert
    <3>2. CASE val # NaN
      BY <1>0, <1>3, <1>7, <2>2, <3>2, InsertAdds DEF Base
    <3> QED
      BY <3>1, <3>2
  <2> QED
    BY <1>2, <1>5, <1>7, <2>3 DEF Spoilt
<1>8. CASE l + 1 = lvl /\ Of(l, e) = Here(l)
  <2>1. l = lvl - 1 /\ lvl > 1 /\ Start(t, l) = t
    BY <1>0, <1>8 DEF AtStart, Tables
  <2>2. CASE val = WindowAverage(l, e)
    <3>1. val # NaN
      <4>1. val.is = "average" /\ NaN.is = "nan"
        BY <2>2 DEF WindowAverage, NaN
      <4> QED
        BY <4>1
    <3>2. [id |-> id, at |-> t, val |-> val] \in ever'[l + 1]
      BY <1>0, <1>8, <3>1, InsertAdds DEF Base
    <3>3. e.id = id /\ Start(e.at, l) = t
      BY <1>8, <2>1 DEF Of, Here
    <3> QED
      BY <1>3, <2>2, <3>2, <3>3 DEF avg
  <2>3. CASE \E f \in ever[l] : Of(l, f) = Here(l) /\ Hole(l, f)
    <3>1. Pending(l)
      BY <1>0, <2>1 DEF Pending, Under
    <3> QED
      BY <1>2, <1>8, <2>3, <3>1 DEF Spoilt, Open
  <2> QED
    BY <1>0, <1>2, <1>8, <2>1, <2>2, <2>3 DEF Good
<1> QED
  BY <1>6, <1>7, <1>8

\* A window that is not averaged any more has its average, or is spoilt.
LEMMA GapStep ==
    ASSUME Base, Prepared, ~Fresh, AtStart, Good, Next, Steady',
           NEW l \in 1..(N - 1), NEW e \in ever'[l],
           Gap(l, e)', ~(Of(l, e) = Here(l) /\ Under(l))'
    PROVE  /\ e \in ever[l]
           /\ \/ \E f \in ever[l] : Of(l, f) = Of(l, e) /\ Spoilt(l, f)
              \/ Losing /\ Of(l, e) = Here(l)
<1>0. l \in Tables /\ N \in Nat /\ lvl \in Tables /\ t \in Int /\ Steady /\ IInv
  BY SMTT(60), WasSteady, HistoryAssumption DEF Tables, Base, IInv, TypeOK
<1>1. CASE Insert
  BY <1>0, <1>1, GapInsert
<1>2. CASE ~Insert
  <2>1. ever' = ever
    BY <1>2 DEF Next, Poller, Http, Read, Call, Stamp, Lock, Delete, Expire, From, Cascades,
                Ask, HttpFrom, HttpTo, Query, Tick, Crash
  <2>2. e \in ever[l] /\ Gap(l, e)
    BY <2>1 DEF Gap, WindowAverage
  <2>3. CASE ~(Of(l, e) = Here(l) /\ Under(l))
    BY <2>2, <2>3 DEF Spoilt
  <2>4. CASE Of(l, e) = Here(l) /\ Under(l)
    <3>1. CASE Crash
      BY <2>2, <2>4, <3>1 DEF Losing
    <3>2. CASE Cascades
      <4>1. l = lvl /\ ppc = "average"
        BY <1>0, <2>4, <3>2, OneUnder DEF Cascades, Entering
      <4>2. CASE Found = {}
        <5>1. Hole(l, e)
          BY <1>0, <2>2, <2>4, <4>1, <4>2, RecordedIsFound
        <5> QED
          BY <2>2, <2>4, <5>1 DEF Spoilt, Open, Pending
      <4>3. CASE Found # {}
        <5>1. lvl' = lvl + 1 /\ t' = Start(t, lvl) /\ id' = id /\ ppc' = "stamp"
          BY <1>0, <3>2, <4>1, <4>3, GatheredIsFound DEF Cascades
        <5>2. Here(l)' = Here(l)
          BY <1>0, <4>1, <5>1, StartOfStart DEF Here
        <5>3. lvl' - 1 = l
          BY <1>0, <4>1, <5>1 DEF Tables
        <5>4. Under(l)' /\ Of(l, e)' = Of(l, e)
          BY <5>1, <5>3 DEF Under, Entering, Of
        <5> QED
          BY <2>4, <5>2, <5>4
      <4> QED
        BY <4>2, <4>3
    <3>3. CASE ~(Crash \/ Cascades)
      <4>1. (Entering /\ l = lvl - 1) \/ (Averaging /\ l = lvl /\ lvl # N)
        BY <1>0, <2>4 DEF Under, Tables
      <4>2. UNCHANGED <<lvl, id, t>> /\ (Entering => Entering') /\ (Averaging => Averaging')
        BY <1>2, <3>3, <4>1
           DEF Next, Poller, Http, Read, Call, Stamp, Lock, Delete, Expire, From, Return,
               Ask, HttpFrom, HttpTo, Query, Tick, pollVars, Entering, Averaging
      <4>3. (Of(l, e) = Here(l) /\ Under(l))'
        BY <2>4, <4>2 DEF Under, Here, Of
      <4> QED
        BY <4>3
    <3> QED
      BY <3>1, <3>2, <3>3
  <2> QED
    BY <2>3, <2>4
<1> QED
  BY <1>1, <1>2

LEMMA GoodStep ==
    ASSUME Base, Prepared, ~Fresh, AtStart, Good, Next
    PROVE  Good'
<1> SUFFICES ASSUME Steady', Entering', lvl' > 1, NEW e \in ever'[lvl' - 1],
                    (Of(lvl - 1, e) = Here(lvl - 1))'
             PROVE  (\/ val = WindowAverage(lvl - 1, e)
                     \/ \E f \in ever[lvl - 1] : Of(lvl - 1, f) = Here(lvl - 1) /\ Hole(lvl - 1, f))'
  BY DEF Good
<1>0. N \in Nat /\ lvl \in Tables /\ t \in Int /\ Steady /\ IInv /\ lvl \in Int
  BY WasSteady, HistoryAssumption DEF Tables, Base, IInv, TypeOK
<1>1. CASE Cascades
  <2>1. /\ lvl' = lvl + 1 /\ t' = Start(t, lvl) /\ id' = id /\ ppc' = "stamp" /\ ppc = "average"
        /\ val' = Average(Found) /\ UNCHANGED <<rows, ever>> /\ lvl < N
    <3>1. Gathered = {Found} /\ ppc = "average" /\ lvl < N
      BY <1>0, <1>1, GatheredIsFound DEF Cascades, IInv, LockDepth
    <3> QED
      BY <1>1, <3>1 DEF Cascades, Return, Entering
  <2>2. lvl' - 1 = lvl /\ lvl \in 1..(N - 1)
    BY <1>0, <2>1 DEF Tables
  <2>3. Start(t', lvl) = Start(t, lvl)
    BY <1>0, <2>1, <2>2, StartOfStart
  <2>4. e \in ever[lvl] /\ Of(lvl, e) = Here(lvl)
    BY <2>1, <2>2, <2>3 DEF Of, Here
  <2>5. CASE \A f \in ever[lvl] : Of(lvl, f) = Here(lvl) => ~Hole(lvl, f)
    <3>1. val' = WindowAverage(lvl, e)
      BY <1>0, <2>1, <2>2, <2>4, <2>5, AverageIsRight
    <3>2. (val = WindowAverage(lvl - 1, e))'
      BY <2>1, <2>2, <3>1 DEF WindowAverage
    <3> QED
      BY <3>2
  <2>6. CASE \E f \in ever[lvl] : Of(lvl, f) = Here(lvl) /\ Hole(lvl, f)
    <3>1. PICK f \in ever[lvl] : Of(lvl, f) = Here(lvl) /\ Hole(lvl, f)
      BY <2>6
    <3>2. f \in ever'[lvl' - 1] /\ (Of(lvl - 1, f) = Here(lvl - 1))'
      BY <2>1, <2>2, <2>3, <3>1 DEF Of, Here
    <3>3. Hole(lvl - 1, f)'
      BY <2>1, <2>2, <3>1 DEF Hole, BeingReplaced
    <3> QED
      BY <3>2, <3>3
  <2> QED
    BY <2>5, <2>6
<1>2. CASE ~Cascades
  <2> DEFINE k == lvl - 1
  <2>1. /\ UNCHANGED <<lvl, id, t, val, ever>> /\ Entering /\ (rows' = rows \/ Delete)
    BY <1>2 DEF Next, Poller, Http, Read, Call, Stamp, Lock, Delete, Insert, Expire, From, Return,
                Ask, HttpFrom, HttpTo, Query, Tick, Crash, pollVars, Entering
  <2>2. k # lvl /\ k \in Tables /\ lvl > 1 /\ k' = k
    BY <1>0, <2>1 DEF Tables
  <2>3. rows'[k] = rows[k]
    BY <1>0, <2>1, <2>2 DEF Delete, IInv, TypeOK
  <2>4. e \in ever[k] /\ Of(k, e) = Here(k)
    BY <2>1 DEF Of, Here
  <2> HIDE DEF k
  <2>5. CASE val = WindowAverage(k, e)
    <3>1. (val = WindowAverage(k, e))'
      BY <2>1, <2>2, <2>5 DEF WindowAverage
    <3> QED
      BY <3>1 DEF k
  <2>6. CASE \E f \in ever[k] : Of(k, f) = Here(k) /\ Hole(k, f)
    <3>1. PICK f \in ever[k] : Of(k, f) = Here(k) /\ Hole(k, f)
      BY <2>6
    <3>2. f \in ever'[k'] /\ (Of(k, f) = Here(k))'
      BY <2>1, <2>2, <3>1 DEF Of, Here
    <3>3. Hole(k, f)'
      BY <2>1, <2>2, <2>3, <3>1 DEF Hole, BeingReplaced
    <3> QED
      BY <3>2, <3>3 DEF k
  <2> QED
    BY <1>0, <2>1, <2>2, <2>4, <2>5, <2>6 DEF Good, k
<1> QED
  BY <1>1, <1>2

LEMMA FewerStep ==
    ASSUME Base, Prepared, ~Fresh, AtStart, Good, Fewer, Next
    PROVE  Fewer'
<1> SUFFICES ASSUME Steady', NEW l \in 1..(N - 1) PROVE Paid(Bad(l))'
  BY DEF Fewer
<1>0. IInv /\ Paid(Bad(l))
  BY WasSteady DEF Base, Fewer
<1>1. ASSUME NEW e \in ever'[l], Spoilt(l, e)'
      PROVE  Of(l, e) \in Bad(l) \/ (Losing /\ Of(l, e) = Here(l))
  <2>1. CASE Gap(l, e)' /\ ~(Of(l, e) = Here(l) /\ Under(l))'
    <3>1. \/ \E f \in ever[l] : Of(l, f) = Of(l, e) /\ Spoilt(l, f)
          \/ Losing /\ Of(l, e) = Here(l)
      BY <1>1, <2>1, GapStep
    <3> QED
      BY <3>1 DEF Bad
  <2>2. CASE Hole(l, e)' /\ Open(l, e)'
    <3>1. e \in ever[l] /\ (Spoilt(l, e) \/ (Losing /\ Of(l, e) = Here(l)))
      BY <1>1, <2>2, OpenHoleStep
    <3> QED
      BY <3>1 DEF Bad
  <2> QED
    BY <1>1, <2>1, <2>2 DEF Spoilt
<1>2. \A w \in Bad(l)' : w \in Bad(l) \/ (Losing /\ w = Here(l))
  BY <1>1 DEF Bad, Of
<1>3. Bad(l)' \subseteq Bad(l) \union {Here(l)} /\ (~Losing => Bad(l)' \subseteq Bad(l))
  BY <1>2
<1>4. IsFiniteSet(Bad(l)') /\ Cardinality(Bad(l)') + Owed' <= faults'
  BY <1>0, <1>3, PaidStep
<1> QED
  BY <1>4 DEF Paid

\* Faults cost one window each: the average of a window is recorded in the next
\* table and stays there, right to the last record, though addRecord() stops
\* half-way when the process dies and the records themselves expire; in no table
\* are more windows without their average than faults have happened.  The
\* process did not create the database: one that did never looks at a record.
THEOREM FaultsCostOneWindow == ASSUME ~Fresh PROVE Spec => []Cascaded
<1> DEFINE Inv == Good /\ Fewer
<1>1. Init => Inv
  <2> SUFFICES ASSUME Init PROVE Good /\ Fewer
    OBVIOUS
  <2>1. \A l \in 1..(N - 1) : Bad(l) = {}
    <3>1. \A l \in 1..(N - 1) : l \in Tables
      BY HistoryAssumption DEF Tables
    <3> QED
      BY <3>1 DEF Init, Bad
  <2>2. Owed = 0 /\ faults = 0 /\ lvl = 1
    BY DEF Init, Owed
  <2>3. Fewer
    BY <2>1, <2>2, FS_EmptySet DEF Fewer, Paid
  <2> QED
    BY <2>2, <2>3 DEF Good
<1>2. Base /\ Prepared /\ AtStart /\ Inv /\ [Next]_vars => Inv'
  <2>1. ASSUME Inv, UNCHANGED vars PROVE Inv'
    <3>1. /\ Steady' <=> Steady
          /\ Entering' <=> Entering
          /\ Averaging' <=> Averaging
          /\ UNCHANGED <<now, rows, ever, ppc, lvl, t, id, val, faults, Owed>>
      BY <2>1 DEF vars, buffer, pollVars, Steady, Entering, Averaging, Owed
    <3>2. Good'
      BY <2>1, <3>1 DEF Good, Hole, BeingReplaced, Here, Of, WindowAverage
    <3>3. \A l : Bad(l)' = Bad(l)
      <4>1. \A l, e : Spoilt(l, e)' <=> Spoilt(l, e)
        <5>1. \A l, e : Gap(l, e)' <=> Gap(l, e)
          BY <3>1 DEF Gap, WindowAverage
        <5>2. \A l, e : Hole(l, e)' <=> Hole(l, e)
          BY <3>1 DEF Hole, BeingReplaced
        <5>3. \A l, e : Open(l, e)' <=> Open(l, e)
          BY <3>1 DEF Open, Pending, Under, Here, Of
        <5>4. \A l, e : (Of(l, e) = Here(l) /\ Under(l))' <=> (Of(l, e) = Here(l) /\ Under(l))
          BY <3>1 DEF Under, Here, Of
        <5> QED
          BY <5>1, <5>2, <5>3, <5>4 DEF Spoilt
      <4> QED
        BY <3>1, <4>1 DEF Bad, Of
    <3>4. Fewer'
      BY <2>1, <3>1, <3>3 DEF Fewer, Paid
    <3> QED
      BY <3>2, <3>4
  <2> QED
    BY <2>1, GoodStep, FewerStep
<1>3. Base /\ Inv => Cascaded
  <2> SUFFICES ASSUME Base, Fewer, Free, Steady, NEW l \in 1..(N - 1)
               PROVE  Cardinality(Gaps(l)) <= faults
    BY DEF Cascaded
  <2>1. lvl = 1 /\ ~Averaging
    BY DEF Free, Base, IInv, LockDepth, TypeOK, Tables, Averaging
  <2>2. ~Under(l)
    BY <2>1 DEF Under
  <2>3. Gaps(l) \subseteq Bad(l)
    BY <2>2 DEF Gaps, Bad, Spoilt, Gap, Of
  <2>4. IsFiniteSet(Bad(l)) /\ Cardinality(Bad(l)) + Owed <= faults
    BY DEF Fewer, Paid
  <2>5. /\ IsFiniteSet(Gaps(l)) /\ Cardinality(Gaps(l)) <= Cardinality(Bad(l))
    BY <2>3, <2>4, FS_Subset
  <2>6. Cardinality(Gaps(l)) \in Nat /\ Cardinality(Bad(l)) \in Nat /\ Owed \in {0, 1} /\ faults \in Nat
    BY <2>4, <2>5, FS_CardinalityType, HistoryAssumption DEF Owed, Base, IInv, TypeOK
  <2> QED
    BY <2>4, <2>5, <2>6
<1> QED
  BY <1>1, <1>2, <1>3, BaseHolds, AlwaysPrepared, AlwaysAtStart, PTL DEF Spec
=============================================================================
