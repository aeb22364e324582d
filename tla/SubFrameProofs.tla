--------------------------- MODULE SubFrameProofs ---------------------------
(***************************************************************************)
(* Proofs about the requests of a page, for any limits of its graphs, any  *)
(* number of reloads and of handlers that throw.                           *)
(***************************************************************************)
EXTENDS SubFrame, TLAPS

\* Requests of different kinds only, so that none can overtake another.
Different(s) == \A i, j \in DOMAIN s : s[i].kind = s[j].kind => i = j
OnTime(s) == \A i \in DOMAIN s : ~s[i].late

Fits(s) == s \in Seq(Requests) /\ Len(s) >= 1 /\ Different(s) /\ OnTime(s)
Lacks(s, k) == \A i \in DOMAIN s : s[i].kind # k

\* Unless the user reloads, a timer runs only while nothing is waited for, and
\* what update() then sends are different requests.
OneRound == reloads = 0 => Different(out) /\ OnTime(out)

IInv == TypeOK /\ Counts /\ ChainsBounded /\ OneRound

-----------------------------------------------------------------------------
(* What update() sends. *)

\* Appending what is due keeps the requests well typed, different and in time.
LEMMA DueFits ==
    ASSUME NEW s, NEW c \in [Graphs -> Nat], NEW g \in Graphs, Fits(s), Lacks(s, g)
    PROVE  /\ Fits(s \o Due(c, g))
           /\ \A h : h # g /\ Lacks(s, h) => Lacks(s \o Due(c, g), h)
<1> USE DEF Fits, Lacks
<1>1. New(g) \in Requests /\ New(g).kind = g /\ New(g).late = FALSE
  BY DEF New, Requests, Kinds
<1>2. CASE c[g] = Limit[g]
  <2>1. s \o Due(c, g) = Append(s, New(g))
    BY <1>1, <1>2 DEF Due
  <2>2. /\ Append(s, New(g)) \in Seq(Requests) /\ Len(Append(s, New(g))) = Len(s) + 1
        /\ \A i \in DOMAIN Append(s, New(g)) :
              Append(s, New(g))[i] = IF i = Len(s) + 1 THEN New(g) ELSE s[i]
        /\ DOMAIN Append(s, New(g)) = 1 .. Len(s) + 1 /\ DOMAIN s = 1 .. Len(s)
    BY <1>1
  <2> DEFINE t == Append(s, New(g))
  <2>3. Different(t)
    <3> SUFFICES ASSUME NEW i \in DOMAIN t, NEW j \in DOMAIN t, t[i].kind = t[j].kind
                 PROVE  i = j
      BY DEF Different
    <3> QED
      BY <1>1, <2>2 DEF Different
  <2>4. OnTime(t)
    BY <1>1, <2>2 DEF OnTime
  <2>5. ASSUME NEW h, h # g, \A i \in DOMAIN s : s[i].kind # h, NEW i \in DOMAIN t
        PROVE  t[i].kind # h
    BY <1>1, <2>2, <2>5
  <2> QED
    BY <2>1, <2>2, <2>3, <2>4, <2>5
<1>3. CASE c[g] # Limit[g]
  <2>1. s \o Due(c, g) = s
    BY <1>3 DEF Due
  <2> QED
    BY <2>1
<1> QED
  BY <1>2, <1>3

LEMMA SentFits ==
    ASSUME NEW c \in [Graphs -> Nat]
    PROVE  Fits(Sent(c))
<1> DEFINE s0 == <<New("report")>>
           s1 == s0 \o Due(c, "Recent")
           s2 == s1 \o Due(c, "Minutes")
           s3 == s2 \o Due(c, "Hours")
           s4 == s3 \o Due(c, "Days")
<1>0. "Recent" \in Graphs /\ "Minutes" \in Graphs /\ "Hours" \in Graphs /\ "Days" \in Graphs
  BY DEF Graphs
<1>1. /\ Fits(s0)
      /\ Lacks(s0, "Recent") /\ Lacks(s0, "Minutes") /\ Lacks(s0, "Hours") /\ Lacks(s0, "Days")
  BY DEF New, Requests, Kinds, Graphs, Different, OnTime, Fits, Lacks
<1>2. Fits(s1) /\ Lacks(s1, "Minutes") /\ Lacks(s1, "Hours") /\ Lacks(s1, "Days")
  <2> HIDE DEF s0
  <2> QED
    BY <1>0, <1>1, DueFits
<1>3. Fits(s2) /\ Lacks(s2, "Hours") /\ Lacks(s2, "Days")
  <2> HIDE DEF s1
  <2> QED
    BY <1>0, <1>2, DueFits
<1>4. Fits(s3) /\ Lacks(s3, "Days")
  <2> HIDE DEF s2
  <2> QED
    BY <1>0, <1>3, DueFits
<1>5. Fits(s4)
  <2> HIDE DEF s3
  <2> QED
    BY <1>0, <1>4, DueFits
<1>6. Sent(c) = IF known THEN s4 ELSE s0
  BY DEF Sent
<1> QED
  BY <1>1, <1>5, <1>6

-----------------------------------------------------------------------------
(* What is out after an answer. *)

LEMMA WithoutFits ==
    ASSUME out \in Seq(Requests), NEW i \in DOMAIN out, NEW shown \in BOOLEAN
    PROVE  /\ Without(i, shown) \in Seq(Requests) /\ Len(Without(i, shown)) = Len(out) - 1
           /\ Different(out) /\ OnTime(out)
                 => Different(Without(i, shown)) /\ OnTime(Without(i, shown))
<1> DEFINE w == Without(i, shown)
           At(j) == IF j >= i THEN out[j + 1]
                    ELSE [out[j] EXCEPT !.late = @ \/ (shown /\ out[j].kind = out[i].kind)]
<1>1. Len(out) \in Nat /\ DOMAIN out = 1 .. Len(out) /\ \A j \in 1 .. Len(out) : out[j] \in Requests
  OBVIOUS
<1>2. ASSUME NEW j \in 1 .. Len(out) - 1
      PROVE  /\ At(j) \in Requests
             /\ At(j).kind = out[IF j >= i THEN j + 1 ELSE j].kind
             /\ Different(out) /\ OnTime(out) => ~At(j).late
  <2>1. CASE j >= i
    BY <1>1, <2>1 DEF OnTime
  <2>2. CASE j < i
    <3>1. out[j] \in Requests /\ out[i] \in Requests /\ j \in DOMAIN out /\ i \in DOMAIN out
      BY <1>1
    <3>2. At(j) = [out[j] EXCEPT !.late = out[j].late \/ (shown /\ out[j].kind = out[i].kind)]
      BY <1>1, <2>2
    <3>3. /\ At(j) \in Requests /\ At(j).kind = out[j].kind
          /\ At(j).late = (out[j].late \/ (shown /\ out[j].kind = out[i].kind))
      BY <3>1, <3>2 DEF Requests
    <3>4. Different(out) /\ OnTime(out) => ~out[j].late /\ out[j].kind # out[i].kind
      BY <1>1, <2>2, <3>1 DEF Different, OnTime
    <3> QED
      BY <1>1, <2>2, <3>3, <3>4
  <2> QED
    BY <1>1, <2>1, <2>2
<1>3. w = [j \in 1 .. Len(out) - 1 |-> At(j)]
  BY DEF Without
<1> HIDE DEF At, w
<1>4. /\ w \in Seq(Requests) /\ Len(w) = Len(out) - 1 /\ DOMAIN w = 1 .. Len(out) - 1
      /\ \A j \in DOMAIN w : w[j] = At(j)
  <2>1. Len(out) - 1 \in Nat
    BY <1>1
  <2> QED
    BY <1>2, <1>3, <2>1
<1>5. ASSUME Different(out), OnTime(out)
      PROVE  Different(w) /\ OnTime(w)
  <2>1. OnTime(w)
    BY <1>2, <1>4, <1>5 DEF OnTime
  <2>2. ASSUME NEW j \in DOMAIN w, NEW k \in DOMAIN w, w[j].kind = w[k].kind
        PROVE  j = k
    <3> DEFINE From(x) == IF x >= i THEN x + 1 ELSE x
    <3>1. From(j) \in DOMAIN out /\ From(k) \in DOMAIN out
      BY <1>1, <1>4
    <3>2. out[From(j)].kind = out[From(k)].kind
      BY <1>2, <1>4, <2>2
    <3>3. From(j) = From(k)
      BY <1>5, <3>1, <3>2 DEF Different
    <3> QED
      BY <1>1, <1>4, <3>3
  <2> QED
    BY <2>1, <2>2 DEF Different
<1> QED
  BY <1>4, <1>5 DEF w

-----------------------------------------------------------------------------
LEMMA InitHolds == Init => IInv
<1> SUFFICES ASSUME Init PROVE IInv
  OBVIOUS
<1> USE PageAssumption DEF Init
<1>1. TypeOK
  <2>1. out \in Seq(Requests)
    BY DEF New, Requests, Kinds
  <2>2. counter \in [Graphs -> Nat] /\ \A g \in Graphs : counter[g] <= Limit[g]
    BY DEF TypeOK
  <2>3. num_processes \in Nat /\ timers \in Nat /\ reloads \in 0..MaxReloads /\ broken \in 0..MaxBroken
    OBVIOUS
  <2>4. known \in BOOLEAN
    OBVIOUS
  <2> QED
    BY <2>1, <2>2, <2>3, <2>4 DEF TypeOK
<1>2. Counts /\ ChainsBounded
  BY DEF Counts, ChainsBounded
<1>3. OneRound
  BY DEF OneRound, Different, OnTime, New
<1> QED
  BY <1>1, <1>2, <1>3 DEF IInv

\* update() sends something, counts it, and keeps the counters within the limits.
LEMMA UpdateKeeps ==
    ASSUME TypeOK, NEW c \in [Graphs -> Nat], \A g \in Graphs : c[g] <= Limit[g], Update(c)
    PROVE  /\ out' \in Seq(Requests) /\ Len(out') > 0
           /\ num_processes' \in Nat /\ num_processes' > 0
           /\ num_processes' - Len(out') = num_processes - Len(out)
           /\ counter' \in [Graphs -> Nat] /\ \A g \in Graphs : counter'[g] <= Limit[g]
           /\ out = <<>> => Different(out') /\ OnTime(out')
<1> DEFINE s == Sent(c)
<1>1. s \in Seq(Requests) /\ Len(s) >= 1 /\ Different(s) /\ OnTime(s)
  BY SentFits DEF Fits
<1>2. out' = out \o s /\ num_processes' = num_processes + Len(s)
  BY DEF Update
<1>3. out \in Seq(Requests) /\ num_processes \in Nat
  BY DEF TypeOK
<1>4. counter' \in [Graphs -> Nat] /\ \A g \in Graphs : counter'[g] <= Limit[g]
  <2>1. Limit \in [Graphs -> Nat]
    BY PageAssumption
  <2>2. ASSUME NEW g \in Graphs
        PROVE  LET n == IF c[g] = Limit[g] THEN 0 ELSE c[g] + 1 IN n \in Nat /\ n <= Limit[g]
    BY <2>1
  <2> QED
    BY <2>2 DEF Update, Counted
<1> HIDE DEF s
<1>5. /\ out' \in Seq(Requests) /\ Len(out') = Len(out) + Len(s)
      /\ out = <<>> => out' = s
  BY <1>1, <1>2, <1>3
<1>6. out = <<>> => Different(out') /\ OnTime(out')
  BY <1>1, <1>5
<1>7. /\ Len(s) \in Nat /\ Len(out) \in Nat /\ Len(out') > 0
      /\ num_processes' \in Nat /\ num_processes' > 0
      /\ num_processes' - Len(out') = num_processes - Len(out)
  <2>1. Len(s) \in Nat /\ Len(out) \in Nat
    BY <1>1, <1>3
  <2> QED
    BY <1>1, <1>2, <1>3, <1>5, <2>1
<1> QED
  BY <1>4, <1>5, <1>6, <1>7

\* doneProcess() after one request of those counted is out no more.
LEMMA DoneKeeps ==
    ASSUME TypeOK, Counts, ChainsBounded, Len(out) > 0, doneProcess
    PROVE  /\ num_processes' \in Nat /\ timers' \in Nat
           /\ num_processes' = num_processes - 1
           /\ timers' + (IF num_processes' > 0 THEN 1 ELSE 0) <= 1 + reloads
  BY PageAssumption DEF TypeOK, Counts, ChainsBounded, doneProcess

LEMMA InductiveStep ==
    ASSUME IInv, [Next]_vars
    PROVE  IInv'
<1> USE DEF IInv
<1>0. Limit \in [Graphs -> Nat] /\ MaxReloads \in Nat /\ MaxBroken \in Nat
  BY PageAssumption
<1>1. /\ out \in Seq(Requests) /\ num_processes \in Nat /\ timers \in Nat
      /\ counter \in [Graphs -> Nat] /\ \A g \in Graphs : counter[g] <= Limit[g]
      /\ reloads \in 0..MaxReloads /\ broken \in 0..MaxBroken
  BY DEF TypeOK
<1>2. known \in BOOLEAN /\ Len(out) \in Nat
  BY DEF TypeOK
<1>3. CASE Timer
  <2>1. /\ timers > 0 /\ timers' = timers - 1 /\ Update(counter)
        /\ UNCHANGED <<reloads, broken>>
    BY <1>3 DEF Timer
  <2>2. known' \in BOOLEAN
    BY <1>2, <1>3 DEF Timer
  <2>3. reloads = 0 => out = <<>>
    <3>1. reloads = 0 => num_processes = 0
      BY <1>0, <1>1, <2>1 DEF ChainsBounded
    <3> QED
      BY <1>0, <1>1, <3>1 DEF Counts
  <2>4. /\ out' \in Seq(Requests) /\ Len(out') > 0
        /\ num_processes' \in Nat /\ num_processes' > 0
        /\ num_processes' - Len(out') = num_processes - Len(out)
        /\ counter' \in [Graphs -> Nat] /\ \A g \in Graphs : counter'[g] <= Limit[g]
        /\ out = <<>> => Different(out') /\ OnTime(out')
    BY <1>1, <2>1, UpdateKeeps
  <2>5. TypeOK'
    BY <1>1, <2>1, <2>2, <2>4 DEF TypeOK
  <2>6. Counts' /\ ChainsBounded'
    <3>1. Len(out') \in Nat
      BY <2>4
    <3>2. Counts'
      BY <1>0, <1>1, <1>2, <2>1, <2>4, <3>1 DEF Counts
    <3>3. ChainsBounded'
      BY <1>1, <2>1, <2>4 DEF ChainsBounded
    <3> QED
      BY <3>2, <3>3
  <2>7. OneRound'
    BY <2>1, <2>3, <2>4 DEF OneRound, Different, OnTime
  <2> QED
    BY <2>5, <2>6, <2>7
<1>4. CASE Reload
  <2>1. /\ reloads < MaxReloads /\ reloads' = reloads + 1 /\ Update(Limit)
        /\ UNCHANGED <<timers, broken>>
    BY <1>4 DEF Reload
  <2>2. known' \in BOOLEAN
    BY <1>2, <1>4 DEF Reload
  <2>3. \A g \in Graphs : Limit[g] <= Limit[g]
    BY <1>0
  <2>4. /\ out' \in Seq(Requests) /\ Len(out') > 0
        /\ num_processes' \in Nat /\ num_processes' > 0
        /\ num_processes' - Len(out') = num_processes - Len(out)
        /\ counter' \in [Graphs -> Nat] /\ \A g \in Graphs : counter'[g] <= Limit[g]
    BY <1>0, <2>1, <2>3, UpdateKeeps
  <2>5. TypeOK'
    BY <1>0, <1>1, <2>1, <2>2, <2>4 DEF TypeOK
  <2>6. Counts' /\ ChainsBounded' /\ OneRound'
    <3>1. Len(out') \in Nat
      BY <2>4
    <3>2. Counts'
      BY <1>0, <1>1, <1>2, <2>1, <2>4, <3>1 DEF Counts
    <3>3. ChainsBounded'
      BY <1>1, <2>1, <2>4 DEF ChainsBounded
    <3>4. OneRound'
      BY <1>1, <2>1 DEF OneRound
    <3> QED
      BY <3>2, <3>3, <3>4
  <2> QED
    BY <2>5, <2>6
<1>5. CASE Answer
  <2> PICK i \in DOMAIN out : Load(i) \/ Fail(i) \/ Break(i)
    BY <1>5 DEF Answer
  <2>1. Len(out) > 0 /\ Len(out) \in Nat
    BY <1>1
  <2>2. known' \in BOOLEAN
    BY <1>2 DEF Load, Fail, Break
  <2>3. PICK shown \in BOOLEAN : out' = Without(i, shown)
    BY DEF Load, Fail, Break
  <2>4. /\ out' \in Seq(Requests) /\ Len(out') = Len(out) - 1
        /\ Different(out) /\ OnTime(out) => Different(out') /\ OnTime(out')
    BY <1>1, <2>3, WithoutFits
  <2>5. counter' = counter /\ reloads' = reloads
    BY DEF Load, Fail, Break
  <2>6. OneRound'
    BY <2>4, <2>5 DEF OneRound, Different, OnTime
  <2>7. CASE Break(i)
    <3>1. broken' = broken + 1 /\ broken < MaxBroken /\ UNCHANGED <<num_processes, timers>>
      BY <2>7 DEF Break
    <3>2. TypeOK'
      BY <1>0, <1>1, <2>2, <2>4, <2>5, <3>1 DEF TypeOK
    <3>3. Counts' /\ ChainsBounded'
      BY <1>0, <1>1, <2>1, <2>4, <2>5, <3>1 DEF Counts, ChainsBounded
    <3> QED
      BY <2>6, <3>2, <3>3
  <2>8. CASE Load(i) \/ Fail(i)
    <3>1. broken' = broken /\ doneProcess
      BY <2>8 DEF Load, Fail
    <3>2. /\ num_processes' \in Nat /\ timers' \in Nat
          /\ num_processes' = num_processes - 1
          /\ timers' + (IF num_processes' > 0 THEN 1 ELSE 0) <= 1 + reloads
      BY <2>1, <3>1, DoneKeeps
    <3>3. TypeOK'
      BY <1>1, <2>2, <2>4, <2>5, <3>1, <3>2 DEF TypeOK
    <3>4. Counts' /\ ChainsBounded'
      <4>1. Counts'
        BY <1>1, <2>1, <2>4, <3>1, <3>2 DEF Counts
      <4>2. ChainsBounded'
        BY <2>5, <3>2 DEF ChainsBounded
      <4> QED
        BY <4>1, <4>2
    <3> QED
      BY <2>6, <3>3, <3>4
  <2> QED
    BY <2>7, <2>8
<1>6. CASE UNCHANGED vars
  <2>1. (known' <=> known) /\ known' \in BOOLEAN
    BY <1>2, <1>6 DEF vars
  <2>2. TypeOK'
    BY <1>1, <1>6, <2>1 DEF TypeOK, vars
  <2> QED
    BY <1>6, <2>2 DEF vars, Counts, ChainsBounded, OneRound, Different, OnTime
<1> QED
  BY <1>3, <1>4, <1>5, <1>6 DEF Next, Stopped

-----------------------------------------------------------------------------
THEOREM Invariance == Spec => []IInv
<1>1. Init => IInv
  BY InitHolds
<1>2. IInv /\ [Next]_vars => IInv'
  BY InductiveStep
<1> QED
  BY <1>1, <1>2, PTL DEF Spec

\* The types of the page, its counters within their limits.
THEOREM TypeCorrect == Spec => []TypeOK
BY Invariance, PTL DEF IInv

\* The number of processes is what is waited for and what will never be counted
\* down, in whatever order answers and reloads come.
THEOREM ProcessesAreCounted == Spec => []Counts
BY Invariance, PTL DEF IInv

\* There is never more than one chain of updates for the page and for each reload.
THEOREM ChainsAreBounded == Spec => []ChainsBounded
BY Invariance, PTL DEF IInv

\* Without reloads no answer is shown after that of a later request.
THEOREM AnswersInOrder == Spec => []NeverBack
<1>1. IInv => NeverBack
  BY DEF IInv, OneRound, OnTime, NeverBack
<1> QED
  BY <1>1, Invariance, PTL
=============================================================================
