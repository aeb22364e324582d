--------------------------- MODULE SupervisorProofs ---------------------------
(***************************************************************************)
(* Proofs about Task::main() and the service it forks, for any command     *)
(* line and any number of deaths: what the parent takes for a wish to      *)
(* finish was one, or a missing adapter; and, for any options in any       *)
(* number, that a complete line is understood as it was meant.             *)
(***************************************************************************)
EXTENDS Supervisor, SequenceTheorems, WellFoundedInduction, TLAPS

\* An exit status of 0 has one of two causes.
ZeroHasCause == child = "ended" /\ status = "zero" => quit \/ missing

IInv == TypeOK /\ ZeroHasCause

Children == {"none", "boot", "open", "bind", "listen", "deaf", "ended"}

-----------------------------------------------------------------------------
LEMMA InitHolds == Init => IInv
<1> SUFFICES ASSUME Init PROVE IInv
  OBVIOUS
<1>1. quit \in BOOLEAN /\ stopped \in BOOLEAN /\ device \in BOOLEAN /\ missing \in BOOLEAN
  BY DEF Init
<1>2. deaths \in 0..MaxDeaths
  BY SupervisorAssumption DEF Init
<1>3. TypeOK
  BY <1>1, <1>2 DEF Init, TypeOK
<1>4. ZeroHasCause
  BY DEF Init, ZeroHasCause
<1> QED
  BY <1>3, <1>4 DEF IInv

\* What a step owes.
Typed_process ==
    /\ asked' \in Asks
    /\ parent' \in {"start", "fork", "wait", "sleep", "gone"}
    /\ child' \in Children
    /\ status' \in {"zero", "error", "signal"}
    /\ deaths' \in 0..MaxDeaths
Typed_flags == quit' \in BOOLEAN /\ stopped' \in BOOLEAN
Typed_device == device' \in BOOLEAN /\ tty' \in {"none", "live", "hung"} /\ missing' \in BOOLEAN
Typed_port == port' \in {"free", "ours", "taken"}

LEMMA Owed ==
    ASSUME Typed_process, Typed_flags, Typed_device, Typed_port, ZeroHasCause'
    PROVE  IInv'
  BY DEF Typed_process, Typed_flags, Typed_device, Typed_port, IInv, TypeOK, Children

LEMMA Had ==
    ASSUME IInv
    PROVE  /\ asked \in Asks
           /\ parent \in {"start", "fork", "wait", "sleep", "gone"}
           /\ child \in Children
           /\ status \in {"zero", "error", "signal"}
           /\ quit \in BOOLEAN /\ stopped \in BOOLEAN
           /\ port \in {"free", "ours", "taken"}
           /\ deaths \in 0..MaxDeaths /\ MaxDeaths \in Nat
           /\ device \in BOOLEAN /\ tty \in {"none", "live", "hung"} /\ missing \in BOOLEAN
           /\ ZeroHasCause
  BY SupervisorAssumption DEF IInv, TypeOK, Children

LEMMA StartStep == ASSUME IInv, Start PROVE IInv'
<1>1. Typed_process /\ Typed_flags /\ Typed_device /\ Typed_port
  BY Had DEF Start, device_vars, Typed_process, Typed_flags, Typed_device, Typed_port, Children
<1>2. ZeroHasCause'
  BY Had DEF Start, device_vars, ZeroHasCause
<1> QED
  BY <1>1, <1>2, Owed

LEMMA ForkStep == ASSUME IInv, Fork PROVE IInv'
<1>1. Typed_process /\ Typed_port
  BY Had DEF Fork, Typed_process, Typed_port, Children
<1>2. Typed_flags /\ Typed_device
  BY Had DEF Fork, Typed_flags, Typed_device
<1>3. ZeroHasCause'
  BY Had DEF Fork, ZeroHasCause
<1> QED
  BY <1>1, <1>2, <1>3, Owed

LEMMA WaitStep == ASSUME IInv, Wait PROVE IInv'
<1>1. Typed_process /\ Typed_flags /\ Typed_device /\ Typed_port
  BY Had DEF Wait, device_vars, Typed_process, Typed_flags, Typed_device, Typed_port, Children
<1>2. ZeroHasCause'
  BY Had DEF Wait, device_vars, ZeroHasCause
<1> QED
  BY <1>1, <1>2, Owed

LEMMA WakeStep == ASSUME IInv, Wake PROVE IInv'
<1>1. Typed_process /\ Typed_flags /\ Typed_device /\ Typed_port
  BY Had DEF Wake, device_vars, Typed_process, Typed_flags, Typed_device, Typed_port
<1>2. ZeroHasCause'
  BY Had DEF Wake, device_vars, ZeroHasCause
<1> QED
  BY <1>1, <1>2, Owed

LEMMA BootStep == ASSUME IInv, Boot PROVE IInv'
<1>1. Typed_process /\ Typed_flags /\ Typed_device /\ Typed_port
  BY Had DEF Boot, device_vars, Typed_process, Typed_flags, Typed_device, Typed_port, Children
<1>2. ZeroHasCause'
  BY Had DEF Boot, device_vars, ZeroHasCause
<1> QED
  BY <1>1, <1>2, Owed

\* The only exits with 0: no adapter at the start, or should_quit seen.
LEMMA OpenStep == ASSUME IInv, Open PROVE IInv'
<1>1. Typed_process /\ Typed_port
  BY Had DEF Open, Ends, Typed_process, Typed_port, Children
<1>2. Typed_flags /\ Typed_device
  BY Had DEF Open, Ends, Typed_flags, Typed_device
<1>3. ZeroHasCause'
  BY Had DEF Open, Ends, ZeroHasCause
<1> QED
  BY <1>1, <1>2, <1>3, Owed

LEMMA ListenStep == ASSUME IInv, Listen PROVE IInv'
<1>1. Typed_process /\ Typed_port
  BY Had DEF Listen, Ends, Typed_process, Typed_port, Children
<1>2. Typed_flags /\ Typed_device
  BY Had DEF Listen, Ends, Typed_flags, Typed_device
<1>3. ZeroHasCause'
  BY Had DEF Listen, Ends, ZeroHasCause
<1> QED
  BY <1>1, <1>2, <1>3, Owed

LEMMA LeaveStep == ASSUME IInv, Leave PROVE IInv'
<1>1. Typed_process /\ Typed_port
  BY Had DEF Leave, Ends, Typed_process, Typed_port, Children
<1>2. Typed_flags /\ Typed_device
  BY Had DEF Leave, Ends, Typed_flags, Typed_device
<1>3. ZeroHasCause'
  BY Had DEF Leave, Ends, ZeroHasCause
<1> QED
  BY <1>1, <1>2, <1>3, Owed

LEMMA DieStep == ASSUME IInv, Die PROVE IInv'
<1>1. Typed_process /\ Typed_port
  BY Had DEF Die, Ends, Typed_process, Typed_port, Children
<1>2. Typed_flags /\ Typed_device
  BY Had DEF Die, Ends, Typed_flags, Typed_device
<1>3. ZeroHasCause'
  BY Had DEF Die, Ends, ZeroHasCause
<1> QED
  BY <1>1, <1>2, <1>3, Owed

\* SIGINT sets should_quit and never takes it back; a service it kills has no
\* exit status.
LEMMA Sees ==
    ASSUME IInv, ChildSees, missing' = missing
    PROVE  /\ child' \in Children /\ status' \in {"zero", "error", "signal"}
           /\ quit' \in BOOLEAN /\ tty' \in {"none", "live", "hung"}
           /\ Typed_port /\ ZeroHasCause'
<1>1. CASE child = "boot" /\ Ends("signal") /\ UNCHANGED quit
  BY <1>1, Had DEF Ends, Typed_port, ZeroHasCause, Children
<1>2. CASE child \in {"open", "bind", "listen", "deaf"} /\ quit' = TRUE
           /\ UNCHANGED <<child, status, port, tty>>
  BY <1>2, Had DEF Typed_port, ZeroHasCause
<1>3. CASE UNCHANGED <<child, status, quit, port, tty>>
  BY <1>3, Had DEF Typed_port, ZeroHasCause
<1> QED
  BY <1>1, <1>2, <1>3 DEF ChildSees

LEMMA InterruptStep == ASSUME IInv, Interrupt PROVE IInv'
<1>1. asked' = asked /\ deaths' = deaths /\ device' = device /\ missing' = missing
  BY DEF Interrupt
<1>2. parent' \in {"start", "fork", "wait", "sleep", "gone"} /\ stopped' \in BOOLEAN
  BY Had DEF Interrupt
<1>3. CASE ChildSees
  BY <1>1, <1>2, <1>3, Sees, Had, Owed DEF Typed_process, Typed_flags, Typed_device
<1>4. CASE UNCHANGED <<child, status, quit, port, tty>>
  <2>1. Typed_process /\ Typed_flags /\ Typed_device /\ Typed_port
    BY <1>1, <1>2, <1>4, Had DEF Typed_process, Typed_flags, Typed_device, Typed_port
  <2>2. ZeroHasCause'
    BY <1>1, <1>4, Had DEF ZeroHasCause
  <2> QED
    BY <2>1, <2>2, Owed
<1> QED
  BY <1>3, <1>4 DEF Interrupt

LEMMA WorldStep ==
    ASSUME IInv, OthersPort \/ Plug \/ Unplug \/ UNCHANGED vars
    PROVE  IInv'
<1>1. UNCHANGED process_vars /\ missing' = missing
  BY DEF OthersPort, Plug, Unplug, vars, device_vars
<1>2. Typed_process /\ Typed_flags
  BY <1>1, Had DEF process_vars, Typed_process, Typed_flags
<1>3. Typed_device
  BY Had DEF OthersPort, Plug, Unplug, vars, device_vars, Typed_device
<1>4. Typed_port
  BY Had DEF OthersPort, Plug, Unplug, vars, Typed_port
<1>5. ZeroHasCause'
  BY <1>1, Had DEF process_vars, ZeroHasCause
<1> QED
  BY <1>2, <1>3, <1>4, <1>5, Owed

LEMMA InductiveStep == ASSUME IInv, [Next]_vars PROVE IInv'
<1>1. CASE Parent
  BY <1>1, StartStep, ForkStep, WaitStep, WakeStep DEF Parent
<1>2. CASE Service
  BY <1>2, BootStep, OpenStep, ListenStep, LeaveStep DEF Service
<1>3. CASE Die
  BY <1>3, DieStep
<1>4. CASE Interrupt
  BY <1>4, InterruptStep
<1>5. CASE OthersPort \/ Plug \/ Unplug \/ UNCHANGED vars
  BY <1>5, WorldStep
<1> QED
  BY <1>1, <1>2, <1>3, <1>4, <1>5 DEF Next, World, Rest

-----------------------------------------------------------------------------
THEOREM Invariance == Spec => []IInv
<1>1. Init => IInv
  BY InitHolds
<1>2. IInv /\ [Next]_vars => IInv'
  BY InductiveStep
<1> QED
  BY <1>1, <1>2, PTL DEF Spec

\* The types of the supervisor and its service.
THEOREM TypeCorrect == Spec => []TypeOK
BY Invariance, PTL DEF IInv

\* However often the service dies and of what: wait() makes the parent return
\* only when the service had been told to quit, or had missed its adapter.
THEOREM NoFailureFinishes == Spec => ReturnsOnlyAfterQuit
<1>1. ASSUME IInv, Wait, parent' = "gone" PROVE quit \/ missing
  <2>1. child = "ended" /\ status \in {"zero", "error", "signal"} /\ ZeroHasCause
    BY <1>1, Had DEF Wait
  <2>2. status = "zero"
    BY <1>1, <2>1 DEF Wait
  <2> QED
    BY <2>1, <2>2 DEF ZeroHasCause
<1>2. IInv => [(Wait /\ parent' = "gone") => (quit \/ missing)]_vars
  BY <1>1
<1> QED
  BY <1>2, Invariance, PTL DEF ReturnsOnlyAfterQuit

-----------------------------------------------------------------------------
(* Sequences. *)

\* Induction over the natural numbers, for a set.
LEMMA SetInduction ==
    ASSUME NEW S, 0 \in S, \A n \in Nat : n \in S => n + 1 \in S
    PROVE  \A n \in Nat : n \in S
<1> DEFINE T == Nat \ S
           R == OpToRel(<, Nat)
<1> SUFFICES ASSUME T # {} PROVE FALSE
  OBVIOUS
<1>1. IsWellFoundedOn(R, Nat) /\ T \subseteq Nat
  BY NatLessThanWellFounded
<1> HIDE DEF R, T
<1>2. PICK x \in T : \A y \in T : ~ (<<y, x>> \in R)
  BY <1>1, WFMin
<1>3. x \in Nat /\ x \notin S
  BY <1>2 DEF T
<1>4. x # 0 /\ x - 1 \in Nat /\ x = (x - 1) + 1
  BY <1>3
<1>5. x - 1 \notin S
  BY <1>3, <1>4
<1>6. x - 1 \in T /\ <<x - 1, x>> \in R
  BY <1>3, <1>4, <1>5 DEF T, R, OpToRel
<1> QED
  BY <1>2, <1>6

-----------------------------------------------------------------------------
(* parseArgs() as what it does with one word. *)

\* A word needs what the next two amount to, and nothing else.
LEMMA TurnNeeds ==
  ASSUME NEW line, Len(line) \in Nat, NEW options, NEW i \in 1..(Len(line) + 2), NEW f, NEW g,
         i <= Len(line) => f[i + 1] = g[i + 1] /\ f[i + 2] = g[i + 2]
  PROVE  FromWord(f, line, options, i) = FromWord(g, line, options, i)
<1>1. CASE i <= Len(line)
  <2>1. \A b \in BOOLEAN : f[IF b THEN i + 1 ELSE i + 2] = g[IF b THEN i + 1 ELSE i + 2]
    BY <1>1
  <2>2. Alone(line, i, options) \in BOOLEAN
    BY DEF Alone
  <2>3. f[IF Alone(line, i, options) THEN i + 1 ELSE i + 2]
          = g[IF Alone(line, i, options) THEN i + 1 ELSE i + 2]
    BY <2>1, <2>2
  <2> QED
    BY <2>3 DEF FromWord
<1>2. CASE i = Len(line) + 1
  BY <1>2 DEF FromWord
<1>3. CASE i = Len(line) + 2
  BY <1>3 DEF FromWord
<1> QED
  BY <1>1, <1>2, <1>3

LEMMA Turns ==
  ASSUME NEW line, Len(line) \in Nat, NEW options
  PROVE  \E f : /\ parseArgs(line, options) = f[1]
                /\ \A i \in 1..(Len(line) + 2) : f[i] = FromWord(f, line, options, i)
<1> DEFINE m == Len(line) + 2
           Eq(f) == f = [i \in 1..m |-> FromWord(f, line, options, i)]
           From(k) == (m - k)..m
           T == {k \in Nat : k < m => \E f : f = [i \in From(k) |-> FromWord(f, line, options, i)]}
<1>1. 0 \in T
  <2> DEFINE g == [i \in m..m |-> Dies]
  <2>1. g = [i \in m..m |-> FromWord(g, line, options, i)]
    BY DEF FromWord
  <2> QED
    BY <2>1
<1>2. ASSUME NEW k \in Nat, k \in T PROVE k + 1 \in T
  <2> SUFFICES ASSUME k + 1 < m
               PROVE  \E g : g = [i \in From(k + 1) |-> FromWord(g, line, options, i)]
    OBVIOUS
  <2>1. PICK f : f = [i \in From(k) |-> FromWord(f, line, options, i)]
    BY <1>2
  <2> DEFINE j == m - (k + 1)
             v == FromWord(f, line, options, j)
             g == [i \in From(k + 1) |-> IF i = j THEN v ELSE f[i]]
  <2>2. /\ j \in 1..m /\ j \in From(k + 1) /\ j \notin From(k)
        /\ \A i \in From(k + 1) : i = j \/ i \in From(k)
        /\ From(k) \subseteq From(k + 1) /\ From(k + 1) \subseteq 1..m
    OBVIOUS
  <2>3. \A i \in From(k) : g[i] = f[i]
    BY <2>2
  <2>4. \A i \in From(k + 1) : i <= Len(line) => i + 1 \in From(k) /\ i + 2 \in From(k)
    OBVIOUS
  <2>5. \A i \in From(k + 1) : g[i] = FromWord(f, line, options, i)
    BY <2>1, <2>2
  <2> HIDE DEF g
  <2>6. ASSUME NEW i \in From(k + 1) PROVE g[i] = FromWord(g, line, options, i)
    <3>1. i <= Len(line) => f[i + 1] = g[i + 1] /\ f[i + 2] = g[i + 2]
      BY <2>3, <2>4
    <3>2. FromWord(f, line, options, i) = FromWord(g, line, options, i)
      BY <2>2, <3>1, TurnNeeds
    <3> QED
      BY <2>5, <3>2
  <2>7. g = [i \in From(k + 1) |-> FromWord(g, line, options, i)]
    <3>1. g = [i \in From(k + 1) |-> g[i]]
      BY DEF g
    <3> QED
      BY <2>6, <3>1
  <2> QED
    BY <2>7
<1>3. \E f : Eq(f)
  <2> HIDE DEF T
  <2>1. m - 1 \in T
    BY <1>1, <1>2, SetInduction
  <2>2. m - 1 \in Nat /\ m - 1 < m /\ From(m - 1) = 1..m
    OBVIOUS
  <2> QED
    BY <2>1, <2>2 DEF T
<1> DEFINE h == CHOOSE f : Eq(f)
<1>4. Eq(h)
  BY <1>3
<1>5. parseArgs(line, options) = h[1]
  BY DEF parseArgs
<1> HIDE DEF h
<1> QED
  BY <1>4, <1>5

\* What the words of a list amount to, and those of an option with others behind it.
Lists(list) == [rc |-> "run", given |-> <<>>, list |-> list]
More(r, name, value) == [r EXCEPT !.given = <<<<name, value>>>> \o @]

\* What parseArgs() makes of a word, case by case.
Reads(f, line, options) ==
    /\ f[Len(line) + 1] = Lists(<<>>)
    /\ \A i \in 1..Len(line) :
          ~IsOption(line[i]) => f[i] = Lists(SubSeq(line, i, Len(line)))
    /\ \A i \in 1..Len(line) :
          /\ IsOption(line[i]) /\ Known(line[i], options)
          /\ options[line[i][2]] = Flag /\ f[i + 1].rc = "run"
          => f[i] = More(f[i + 1], line[i][2], <<"1">>)
    /\ \A i \in 1..Len(line) :
          /\ IsOption(line[i]) /\ Known(line[i], options)
          /\ options[line[i][2]] # Flag /\ f[i + 2].rc = "run"
          => f[i] = More(f[i + 2], line[i][2], line[i + 1])

LEMMA ParseReads ==
  ASSUME NEW line, Len(line) \in Nat, NEW options
  PROVE  \E f : parseArgs(line, options) = f[1] /\ Reads(f, line, options)
<1>1. PICK f : /\ parseArgs(line, options) = f[1]
               /\ \A i \in 1..(Len(line) + 2) : f[i] = FromWord(f, line, options, i)
  BY Turns
<1> DEFINE n == Len(line)
<1>2. n \in Nat /\ n + 1 \in 1..(n + 2) /\ n + 1 # n + 2
  OBVIOUS
<1>3. \A i \in 1..n : i \in 1..(n + 2) /\ i # n + 1 /\ i # n + 2 /\ i <= n
  OBVIOUS
<1>4. f[n + 1] = Lists(<<>>)
  <2>1. f[n + 1] = FromWord(f, line, options, n + 1)
    BY <1>1, <1>2
  <2> QED
    BY <1>2, <2>1 DEF FromWord, Lists
<1>5. ASSUME NEW i \in 1..n, ~IsOption(line[i])
      PROVE  f[i] = Lists(SubSeq(line, i, n))
  BY <1>1, <1>3, <1>5 DEF FromWord, Lists
<1>6. ASSUME NEW i \in 1..n, IsOption(line[i]), Known(line[i], options),
             options[line[i][2]] = Flag, f[i + 1].rc = "run"
      PROVE  f[i] = More(f[i + 1], line[i][2], <<"1">>)
  BY <1>1, <1>3, <1>6 DEF FromWord, Alone, More
<1>7. ASSUME NEW i \in 1..n, IsOption(line[i]), Known(line[i], options),
             options[line[i][2]] # Flag, f[i + 2].rc = "run"
      PROVE  f[i] = More(f[i + 2], line[i][2], line[i + 1])
  BY <1>1, <1>3, <1>7 DEF FromWord, Alone, More
<1>8. Reads(f, line, options)
  BY <1>4, <1>5, <1>6, <1>7 DEF Reads
<1> QED
  BY <1>1, <1>8

\* FlattenSeq() puts one sequence after the other.
Joined(F, seqs, V, n) ==
    /\ F \in [0..n -> Seq(V)]
    /\ F[0] = <<>>
    /\ \A k \in 1..n : F[k] = F[k - 1] \o seqs[k]

CanJoin(seqs, V, n) == \E F : Joined(F, seqs, V, n)

LEMMA Joining ==
  ASSUME NEW V, NEW n \in Nat, NEW seqs, \A i \in 1..n : seqs[i] \in Seq(V)
  PROVE  CanJoin(seqs, V, n)
<1> DEFINE T == {k \in Nat : k <= n => CanJoin(seqs, V, k)}
<1>1. 0 \in T
  <2> DEFINE F == [i \in 0..0 |-> <<>>]
  <2>1. <<>> \in Seq(V)
    BY EmptySeq
  <2>2. F \in [0..0 -> Seq(V)] /\ F[0] = <<>>
    BY <2>1
  <2> HIDE DEF F
  <2>3. Joined(F, seqs, V, 0)
    BY <2>2 DEF Joined
  <2>4. CanJoin(seqs, V, 0)
    BY <2>3 DEF CanJoin
  <2> QED
    BY <2>4
<1>2. ASSUME NEW k \in Nat, k \in T PROVE k + 1 \in T
  <2>0. ASSUME k + 1 <= n PROVE CanJoin(seqs, V, k + 1)
    <3>1. CanJoin(seqs, V, k)
      BY <1>2, <2>0
    <3>2. PICK F : Joined(F, seqs, V, k)
      BY <3>1 DEF CanJoin
    <3>3. PICK v : v = F[k] \o seqs[k + 1]
      OBVIOUS
    <3> DEFINE G == [i \in 0..(k + 1) |-> IF i = k + 1 THEN v ELSE F[i]]
    <3>4. v \in Seq(V)
      <4>1. F[k] \in Seq(V) /\ seqs[k + 1] \in Seq(V)
        BY <2>0, <3>2 DEF Joined
      <4> QED
        BY <3>3, <4>1, ConcatProperties
    <3>5. G[k + 1] = v /\ \A i \in 0..k : G[i] = F[i]
      OBVIOUS
    <3>6. G \in [0..(k + 1) -> Seq(V)]
      BY <3>2, <3>4 DEF Joined
    <3> HIDE DEF G
    <3>7. ASSUME NEW i \in 1..(k + 1) PROVE G[i] = G[i - 1] \o seqs[i]
      <4>1. CASE i = k + 1
        <5>1. i - 1 = k /\ k \in 0..k
          BY <4>1
        <5> QED
          BY <3>3, <3>5, <4>1, <5>1
      <4>2. CASE i # k + 1
        <5>1. i \in 1..k /\ i \in 0..k /\ i - 1 \in 0..k
          BY <4>2
        <5> QED
          BY <3>2, <3>5, <5>1 DEF Joined
      <4> QED
        BY <4>1, <4>2
    <3>8. G[0] = <<>>
      BY <3>2, <3>5 DEF Joined
    <3>9. Joined(G, seqs, V, k + 1)
      BY <3>6, <3>7, <3>8 DEF Joined
    <3> QED
      BY <3>9 DEF CanJoin
  <2> QED
    BY <2>0
<1> HIDE DEF T
<1>3. n \in T
  BY <1>1, <1>2, SetInduction
<1> QED
  BY <1>3 DEF T

LEMMA Flattened ==
  ASSUME NEW V, NEW seqs \in Seq(Seq(V)), NEW n, n = Len(seqs)
  PROVE  \E F : Joined(F, seqs, V, n) /\ FlattenSeq(seqs) = F[n]
<1>0. n \in Nat /\ \A i \in 1..n : seqs[i] \in Seq(V)
  BY LenProperties, ElementOfSeq
<1>3. PICK G : Joined(G, seqs, V, n)
  BY <1>0, Joining DEF CanJoin
<1>j. /\ G[0] = <<>> /\ (n # 0 => G[1] = G[0] \o seqs[1])
      /\ \A k \in 1..n : G[k] = G[k - 1] \o seqs[k]
  <2>1. n # 0 => 1 \in 1..n /\ 1 - 1 = 0
    BY <1>0
  <2> QED
    BY <1>3, <2>1 DEF Joined
<1>4. CASE n = 0
  <2>1. FlattenSeq(seqs) = seqs /\ seqs = <<>>
    BY <1>4, EmptySeq DEF FlattenSeq
  <2> QED
    BY <1>3, <1>4, <2>1 DEF Joined
<1>5. CASE n # 0
  <2> DEFINE Eq(f) == f = [i \in 1..n |-> IF i = 1 THEN seqs[i] ELSE f[i-1] \o seqs[i]]
             g == [i \in 1..n |-> G[i]]
             h == CHOOSE f : Eq(f)
  <2>1. Eq(g)
    <3>1. ASSUME NEW i \in 1..n PROVE G[i] = IF i = 1 THEN seqs[i] ELSE g[i - 1] \o seqs[i]
      <4>1. CASE i = 1
        <5>1. G[1] = <<>> \o seqs[1] /\ seqs[1] \in Seq(V)
          BY <1>0, <1>j, <4>1
        <5> QED
          BY <4>1, <5>1, ConcatEmptySeq
      <4>2. CASE i # 1
        <5>1. i - 1 \in 1..n
          BY <1>0, <4>2
        <5> QED
          BY <1>j, <4>2, <5>1
      <4> QED
        BY <4>1, <4>2
    <3> QED
      BY <3>1
  <2>2. Eq(h)
    BY <2>1
  <2>3. FlattenSeq(seqs) = h[n]
    BY <1>5 DEF FlattenSeq
  <2> HIDE DEF h
  <2>4. \A i \in 1..n : h[i] = IF i = 1 THEN seqs[i] ELSE h[i - 1] \o seqs[i]
    BY <2>2
  <2> DEFINE E == {k \in Nat : k + 1 <= n => h[k + 1] = G[k + 1]}
  <2>5. 0 \in E
    <3>1. G[1] = <<>> \o seqs[1] /\ seqs[1] \in Seq(V) /\ h[1] = seqs[1]
      BY <1>0, <1>j, <1>5, <2>4
    <3> QED
      BY <3>1, ConcatEmptySeq
  <2>6. ASSUME NEW k \in Nat, k \in E PROVE k + 1 \in E
    <3> SUFFICES ASSUME (k + 1) + 1 <= n PROVE h[(k + 1) + 1] = G[(k + 1) + 1]
      OBVIOUS
    <3>1. /\ (k + 1) + 1 \in 1..n /\ (k + 1) + 1 # 1 /\ ((k + 1) + 1) - 1 = k + 1
          /\ k + 1 <= n
      BY <1>0
    <3>2. h[(k + 1) + 1] = h[k + 1] \o seqs[(k + 1) + 1]
      BY <2>4, <3>1
    <3>3. G[(k + 1) + 1] = G[k + 1] \o seqs[(k + 1) + 1]
      BY <1>j, <3>1
    <3> QED
      BY <2>6, <3>1, <3>2, <3>3
  <2> HIDE DEF E
  <2>7. n - 1 \in E
    <3>1. n - 1 \in Nat
      BY <1>0, <1>5
    <3>2. \A k \in Nat : k \in E
      BY <2>5, <2>6, SetInduction
    <3> QED
      BY <3>1, <3>2
  <2>8. h[n] = G[n]
    BY <1>0, <1>5, <2>7 DEF E
  <2> QED
    BY <1>3, <2>3, <2>8 DEF Joined
<1> QED
  BY <1>4, <1>5

\* The largest of some numbers up to n is one of them.
LEMMA MaxIsIn ==
  ASSUME NEW n \in Nat, NEW I, I \subseteq 1..n, I # {}
  PROVE  Max(I) \in I
<1> DEFINE Greatest(J) == \E x \in J : \A y \in J : x >= y
           T == {m \in Nat : \A J \in SUBSET (1..m) : J # {} => Greatest(J)}
<1>1. 0 \in T
  <2>1. 1..0 = {}
    OBVIOUS
  <2> QED
    BY <2>1
<1>2. ASSUME NEW m \in Nat, m \in T PROVE m + 1 \in T
  <2> SUFFICES ASSUME NEW J \in SUBSET (1..(m + 1)), J # {} PROVE Greatest(J)
    OBVIOUS
  <2>1. CASE m + 1 \in J
    <3>1. \A y \in J : m + 1 >= y
      OBVIOUS
    <3> QED
      BY <2>1, <3>1
  <2>2. CASE m + 1 \notin J
    <3>1. J \in SUBSET (1..m)
      BY <2>2
    <3> QED
      BY <1>2, <3>1
  <2> QED
    BY <2>1, <2>2
<1> HIDE DEF T
<1>3. n \in T
  BY <1>1, <1>2, SetInduction
<1>4. Greatest(I)
  BY <1>3 DEF T
<1> QED
  BY <1>4 DEF Max

-----------------------------------------------------------------------------
(* What parseArgs() makes of the words of some options. *)

\* A word, of strings: the provers cannot tell that "-" is one.
Pieces == STRING \cup {"-"}
Words == Seq(Pieces)

LEMMA WordsOfStrings == Seq(STRING) \subseteq Words /\ Seq(Seq(STRING)) \subseteq Seq(Words)
<1>1. ASSUME NEW S, NEW T, S \subseteq T PROVE Seq(S) \subseteq Seq(T)
  BY <1>1
<1>2. Seq(STRING) \subseteq Words
  BY <1>1 DEF Words, Pieces
<1> QED
  BY <1>1, <1>2

\* A word and the words after it.
LEMMA WordAt ==
  ASSUME NEW before \in Seq(Words), NEW w \in Seq(Words), NEW tail \in Seq(Words),
         NEW line, line = before \o (w \o tail), NEW l, l = Len(w), l # 0
  PROVE  /\ line \in Seq(Words) /\ Len(line) = Len(before) + l + Len(tail)
         /\ Len(before) \in Nat /\ Len(tail) \in Nat /\ l \in Nat
         /\ \A j \in 1..l : line[Len(before) + j] = w[j]
<1>1. /\ Len(before) \in Nat /\ Len(tail) \in Nat /\ l \in Nat
  BY LenProperties
<1>2. /\ w \o tail \in Seq(Words) /\ Len(w \o tail) = l + Len(tail)
      /\ \A j \in 1..l : (w \o tail)[j] = w[j]
  <2>1. \A j \in 1..l : j \in 1..(l + Len(tail)) /\ j <= l
    BY <1>1
  <2> QED
    BY <1>1, <2>1, ConcatProperties
<1>3. line \in Seq(Words) /\ Len(line) = Len(before) + (l + Len(tail))
  BY <1>2, ConcatProperties
<1>4. ASSUME NEW j \in 1..l PROVE line[Len(before) + j] = w[j]
  <2>1. /\ Len(before) + j \in 1..(Len(before) + (l + Len(tail)))
        /\ ~(Len(before) + j <= Len(before)) /\ (Len(before) + j) - Len(before) = j
    BY <1>1
  <2>2. line[Len(before) + j] = (w \o tail)[(Len(before) + j) - Len(before)]
    BY <1>2, <2>1, ConcatProperties
  <2> QED
    BY <1>2, <2>1, <2>2
<1> QED
  BY <1>1, <1>3, <1>4

LEMMA Pair ==
  ASSUME NEW S, NEW a \in S, NEW b \in S
  PROVE  /\ <<a, b>> \in Seq(S) /\ <<a, b>> # <<>>
         /\ Head(<<a, b>>) = a /\ Tail(<<a, b>>) = <<b>> /\ <<a, b>>[2] = b
<1>1. <<a, b>> \in Seq(S) /\ <<a, b>> # <<>> /\ Head(<<a, b>>) = a /\ <<a, b>>[2] = b
  OBVIOUS
<1>2. Tail(<<a, b>>) = <<b>>
  <2>1. /\ Len(<<a, b>>) = 2 /\ Tail(<<a, b>>) \in Seq(S)
        /\ Len(Tail(<<a, b>>)) = 1
        /\ Tail(<<a, b>>)[1] = b
    BY <1>1
  <2> QED
    BY <2>1
<1> QED
  BY <1>1, <1>2

LEMMA OptionWord ==
  ASSUME NEW name \in Pieces, NEW options, name \in DOMAIN options
  PROVE  LET word == <<"-", name>>
         IN  word \in Words /\ IsOption(word) /\ Known(word, options) /\ word[2] = name
<1> DEFINE dash == "-"
           word == <<dash, name>>
<1>0. dash \in Pieces
  BY DEF Pieces
<1> HIDE DEF dash
<1>1. /\ word \in Words /\ word # <<>> /\ Head(word) = dash /\ Tail(word) = <<name>>
      /\ word[2] = name
  BY <1>0, Pair DEF Words
<1>2. IsOption(word)
  BY <1>1 DEF IsOption, dash
<1>3. Known(word, options)
  BY <1>1 DEF Known
<1> QED
  BY <1>1, <1>2, <1>3 DEF dash

\* The list begins where no option is left.
LEMMA ReadsList ==
  ASSUME NEW options, NEW before \in Seq(Words), NEW list \in Seq(Words),
         list = <<>> \/ ~IsOption(Head(list)),
         NEW line, line = before \o list, NEW f, Reads(f, line, options)
  PROVE  f[Len(before) + 1] = Lists(list)
<1>1. /\ Len(before) \in Nat /\ Len(list) \in Nat /\ line \in Seq(Words)
      /\ Len(line) = Len(before) + Len(list)
  BY LenProperties, ConcatProperties
<1>2. CASE list = <<>>
  <2>1. Len(line) = Len(before)
    BY <1>1, <1>2
  <2> QED
    BY <1>2, <2>1 DEF Reads
<1>3. CASE list # <<>>
  <2> DEFINE i == Len(before) + 1
  <2>1. Len(list) # 0 /\ Head(list) = list[1]
    BY <1>3
  <2>2. i \in 1..Len(line) /\ 1 \in 1..Len(list)
    BY <1>1, <2>1
  <2>3. ASSUME NEW j \in 1..Len(list) PROVE line[Len(before) + j] = list[j]
    <3>1. /\ Len(before) + j \in 1..(Len(before) + Len(list))
          /\ ~(Len(before) + j <= Len(before)) /\ (Len(before) + j) - Len(before) = j
      BY <1>1
    <3>2. line[Len(before) + j] = list[(Len(before) + j) - Len(before)]
      BY <3>1, ConcatProperties
    <3> QED
      BY <3>1, <3>2
  <2>4. line[i] = Head(list)
    BY <2>1, <2>2, <2>3
  <2>5. SubSeq(line, i, Len(line)) = list
    <3>1. SubSeq(line, i, Len(line)) = [j \in 1..(Len(line) - i + 1) |-> line[i + j - 1]]
      OBVIOUS
    <3>2. Len(line) - i + 1 = Len(list) /\ \A j \in 1..Len(list) : i + j - 1 = Len(before) + j
      BY <1>1
    <3>3. list = [j \in 1..Len(list) |-> list[j]]
      OBVIOUS
    <3> QED
      BY <2>3, <3>1, <3>2, <3>3
  <2> HIDE DEF i
  <2>6. f[i] = Lists(SubSeq(line, i, Len(line)))
    BY <1>3, <2>2, <2>4 DEF Reads
  <2> QED
    BY <2>5, <2>6 DEF i
<1> QED
  BY <1>2, <1>3

\* The words of an option that is given, and what it means.
WordsOf(options, name, value) ==
    IF name \in DOMAIN options /\ options[name] # Flag
    THEN <<<<"-", name>>, value>> ELSE <<<<"-", name>>>>

Means(options, name, value) == IF options[name] = Flag THEN <<"1">> ELSE value

LEMMA WordsAre ==
  ASSUME NEW options, NEW name \in Pieces, NEW value \in Words, name \in DOMAIN options,
         NEW w, w = WordsOf(options, name, value)
  PROVE  /\ w \in Seq(Words)
         /\ Len(w) = IF options[name] = Flag THEN 1 ELSE 2
         /\ w[1] = <<"-", name>>
         /\ options[name] # Flag => w[2] = value
<1> DEFINE word == <<"-", name>>
<1>1. w = IF options[name] # Flag THEN <<word, value>> ELSE <<word>>
  BY DEF WordsOf
<1>2. word \in Words
  BY OptionWord
<1> HIDE DEF word
<1>3. CASE options[name] = Flag
  <2>1. w = <<word>>
    BY <1>1, <1>3
  <2>2. w \in Seq(Words) /\ Len(w) = 1 /\ w[1] = word
    BY ONLY <1>2, <2>1
  <2> QED
    BY <1>3, <2>2 DEF word
<1>4. CASE options[name] # Flag
  <2>1. w = <<word, value>>
    BY <1>1, <1>4
  <2>2. w \in Seq(Words) /\ Len(w) = 2 /\ w[1] = word /\ w[2] = value
    BY ONLY <1>2, <2>1, value \in Words
  <2> QED
    BY <1>4, <2>2 DEF word
<1> QED
  BY <1>3, <1>4

\* The words of an option stand between others.
Stands(options, name, value, before, w, tail, line) ==
    /\ name \in Pieces /\ value \in Words /\ name \in DOMAIN options
    /\ before \in Seq(Words) /\ tail \in Seq(Words)
    /\ w = WordsOf(options, name, value) /\ line = before \o (w \o tail)

\* One more option before those that have been read.
LEMMA ReadsOne ==
  ASSUME NEW options, NEW name, NEW value, NEW before, NEW w, NEW tail, NEW line,
         Stands(options, name, value, before, w, tail, line),
         NEW f, Reads(f, line, options),
         NEW r, r = f[Len(before \o w) + 1], r.rc = "run"
  PROVE  f[Len(before) + 1] = More(r, name, Means(options, name, value))
<1>0. /\ name \in Pieces /\ value \in Words /\ name \in DOMAIN options
      /\ before \in Seq(Words) /\ tail \in Seq(Words)
      /\ w = WordsOf(options, name, value) /\ line = before \o (w \o tail)
  BY DEF Stands
<1> DEFINE i == Len(before) + 1
           word == <<"-", name>>
<1>1. word \in Words /\ IsOption(word) /\ Known(word, options) /\ word[2] = name
  BY <1>0, OptionWord
<1>2. /\ w \in Seq(Words)
      /\ Len(w) = IF options[name] = Flag THEN 1 ELSE 2
      /\ w[1] = word
      /\ options[name] # Flag => w[2] = value
  BY <1>0, WordsAre
<1>3. /\ Len(line) = Len(before) + Len(w) + Len(tail)
      /\ Len(before) \in Nat /\ Len(tail) \in Nat
      /\ \A j \in 1..Len(w) : line[Len(before) + j] = w[j]
  <2>1. w \in Seq(Words) /\ Len(w) # 0
    BY ONLY <1>2
  <2> QED
    BY <1>0, <2>1, WordAt
<1>4. Len(before \o w) = Len(before) + Len(w)
  BY <1>0, <1>2, ConcatProperties
<1> HIDE DEF word
<1>5. i \in 1..Len(line) /\ line[i] = word
  <2>1. w[1] = word /\ 1 \in 1..Len(w)
    BY <1>2
  <2>2. line[i] = word
    BY ONLY <1>3, <2>1
  <2> QED
    BY ONLY <1>2, <1>3, <2>2
<1>6. CASE options[name] = Flag
  <2>1. Len(before \o w) + 1 = i + 1
    BY ONLY <1>2, <1>3, <1>4, <1>6
  <2>2. f[i + 1] = r
    BY <2>1
  <2> HIDE DEF i
  <2>3. f[i] = More(f[i + 1], line[i][2], <<"1">>)
    BY <1>1, <1>5, <1>6, <2>2 DEF Reads
  <2>4. f[i] = More(r, name, <<"1">>)
    BY <1>1, <1>5, <2>2, <2>3
  <2> QED
    BY <1>6, <2>4 DEF Means, i
<1>7. CASE options[name] # Flag
  <2>1. Len(before \o w) + 1 = i + 2
    BY ONLY <1>2, <1>3, <1>4, <1>7
  <2>2. f[i + 2] = r
    BY <2>1
  <2>3. line[i + 1] = value
    <3>1. w[2] = value /\ 2 \in 1..Len(w) /\ i + 1 = Len(before) + 2
      BY <1>2, <1>3, <1>7
    <3> QED
      BY ONLY <1>3, <3>1
  <2> HIDE DEF i
  <2>4. f[i] = More(f[i + 2], line[i][2], line[i + 1])
    BY <1>1, <1>5, <1>7, <2>2 DEF Reads
  <2>5. f[i] = More(r, name, value)
    BY <1>1, <1>5, <2>2, <2>3, <2>4
  <2> QED
    BY <1>7, <2>5 DEF Means, i
<1> QED
  BY <1>6, <1>7

\* What the options after the k-th amount to.
Behind(meant, list, k) ==
    [rc |-> "run", given |-> SubSeq(meant, k + 1, Len(meant)), list |-> list]

LEMMA MoreRest ==
  ASSUME NEW S, NEW meant \in Seq(S), NEW list, NEW k \in 0..Len(meant), k < Len(meant),
         NEW name, NEW value, meant[k + 1] = <<name, value>>
  PROVE  Behind(meant, list, k) = More(Behind(meant, list, k + 1), name, value)
<1> DEFINE later == SubSeq(meant, (k + 1) + 1, Len(meant))
           all   == SubSeq(meant, k + 1, Len(meant))
<1>1. k + 1 \in 1..Len(meant) /\ Len(meant) \in (k + 1)..Len(meant)
  OBVIOUS
<1>2. all = <<<<name, value>>>> \o later
  BY <1>1, SubSeqRecursiveFirst
<1>3. /\ Behind(meant, list, k) = [rc |-> "run", given |-> all, list |-> list]
      /\ Behind(meant, list, k + 1) = [rc |-> "run", given |-> later, list |-> list]
  BY DEF Behind
<1> HIDE DEF later, all
<1>4. More([rc |-> "run", given |-> later, list |-> list], name, value)
        = [rc |-> "run", given |-> <<<<name, value>>>> \o later, list |-> list]
  <2> DEFINE r == [rc |-> "run", given |-> later, list |-> list]
             ms == <<<<name, value>>>>
  <2>1. r.given = later
    OBVIOUS
  <2>2. More(r, name, value) = [r EXCEPT !.given = ms \o later]
    BY <2>1 DEF More
  <2> HIDE DEF ms
  <2>3. \A x : [r EXCEPT !.given = x] = [rc |-> "run", given |-> x, list |-> list]
    OBVIOUS
  <2> QED
    BY <2>2, <2>3 DEF ms
<1> QED
  BY <1>2, <1>3, <1>4

\* What is left of the line after the first k options has been read.
ReadFrom(f, F, line, meant, list, k) ==
    \E tail \in Seq(Words) :
        line = F[k] \o tail /\ f[Len(F[k]) + 1] = Behind(meant, list, k)

LEMMA Regroup ==
  ASSUME NEW before \in Seq(Words), NEW w \in Seq(Words), NEW tail \in Seq(Words)
  PROVE  w \o tail \in Seq(Words) /\ (before \o w) \o tail = before \o (w \o tail)
<1>1. w \o tail \in Seq(Words)
  BY ConcatProperties
<1>2. (before \o w) \o tail = before \o (w \o tail)
  BY ConcatAssociative
<1> QED
  BY <1>1, <1>2

LEMMA ReadsNext ==
  ASSUME NEW options, NEW n \in Nat, NEW k \in 0..n, k < n,
         NEW name \in Pieces, NEW value \in Words, name \in DOMAIN options,
         NEW S, NEW meant \in Seq(S), Len(meant) = n,
         meant[k + 1] = <<name, Means(options, name, value)>>,
         NEW seqs, seqs[k + 1] = WordsOf(options, name, value),
         NEW F, Joined(F, seqs, Words, n), NEW list,
         NEW line, NEW f, Reads(f, line, options),
         ReadFrom(f, F, line, meant, list, k + 1)
  PROVE  ReadFrom(f, F, line, meant, list, k)
<1>1. PICK tail \in Seq(Words) :
          line = F[k + 1] \o tail /\ f[Len(F[k + 1]) + 1] = Behind(meant, list, k + 1)
  BY DEF ReadFrom
<1>2. PICK before, w, r : before = F[k] /\ w = seqs[k + 1] /\ r = Behind(meant, list, k + 1)
  OBVIOUS
<1>3. before \in Seq(Words) /\ F[k + 1] = before \o w
  <2>1. k + 1 \in 1..n /\ (k + 1) - 1 = k /\ k \in 0..n
    OBVIOUS
  <2> QED
    BY <1>2, <2>1 DEF Joined
<1>4. w = WordsOf(options, name, value) /\ w \in Seq(Words)
  BY <1>2, WordsAre
<1>5. w \o tail \in Seq(Words) /\ (before \o w) \o tail = before \o (w \o tail)
  BY ONLY <1>3, <1>4, tail \in Seq(Words), Regroup
<1>6. line = before \o (w \o tail)
  BY <1>1, <1>3, <1>5
<1>7. r.rc = "run"
  BY <1>2 DEF Behind
<1>8. r = f[Len(before \o w) + 1]
  BY <1>1, <1>2, <1>3
<1>9. f[Len(before) + 1] = More(r, name, Means(options, name, value))
  <2>1. Stands(options, name, value, before, w, tail, line)
    BY <1>3, <1>4, <1>6 DEF Stands
  <2> QED
    BY <1>7, <1>8, <2>1, ReadsOne
<1>10. Behind(meant, list, k) = More(r, name, Means(options, name, value))
  <2> DEFINE means == Means(options, name, value)
  <2>1. meant[k + 1] = <<name, means>> /\ k \in 0..Len(meant) /\ k < Len(meant)
    OBVIOUS
  <2> HIDE DEF means
  <2>2. Behind(meant, list, k) = More(Behind(meant, list, k + 1), name, means)
    BY <2>1, MoreRest
  <2> QED
    BY <1>2, <2>2 DEF means
<1> QED
  BY <1>2, <1>5, <1>6, <1>9, <1>10 DEF ReadFrom

\* A line of known options and a list.
Complete(options, given, list, seqs, line, meant) ==
    /\ given \in Seq(STRING \X Seq(STRING)) /\ list \in Seq(Words)
    /\ \A i \in DOMAIN given : given[i][1] \in DOMAIN options
    /\ list = <<>> \/ ~IsOption(Head(list))
    /\ seqs = [i \in DOMAIN given |-> WordsOf(options, given[i][1], given[i][2])]
    /\ line = FlattenSeq(seqs) \o list
    /\ meant = [i \in DOMAIN given |->
                   <<given[i][1], Means(options, given[i][1], given[i][2])>>]

\* parseArgs() reads the options as they are given, and then the list.
LEMMA Parsed ==
  ASSUME NEW options, NEW given, NEW list, NEW seqs, NEW line, NEW meant,
         Complete(options, given, list, seqs, line, meant)
  PROVE  parseArgs(line, options) = [rc |-> "run", given |-> meant, list |-> list]
<1> SUFFICES ASSUME
        given \in Seq(STRING \X Seq(STRING)), list \in Seq(Words),
        \A i \in DOMAIN given : given[i][1] \in DOMAIN options,
        list = <<>> \/ ~IsOption(Head(list)),
        seqs = [i \in DOMAIN given |-> WordsOf(options, given[i][1], given[i][2])],
        line = FlattenSeq(seqs) \o list,
        meant = [i \in DOMAIN given |->
                   <<given[i][1], Means(options, given[i][1], given[i][2])>>]
    PROVE parseArgs(line, options) = [rc |-> "run", given |-> meant, list |-> list]
  BY DEF Complete
<1> DEFINE n == Len(given)
           S == Pieces \X (Words \cup {<<"1">>})
<1>1. n \in Nat /\ DOMAIN given = 1..n
  BY LenProperties
<1> HIDE DEF n
<1>2. ASSUME NEW i \in 1..n
      PROVE  given[i][1] \in Pieces /\ given[i][2] \in Words /\ given[i][1] \in DOMAIN options
  <2>1. given[i] \in STRING \X Seq(STRING)
    BY <1>1, ElementOfSeq DEF n
  <2>2. given[i][1] \in STRING /\ given[i][2] \in Seq(STRING)
    BY <2>1
  <2>3. given[i][1] \in Pieces /\ given[i][2] \in Words
    BY <2>2, WordsOfStrings DEF Pieces
  <2> QED
    BY <1>1, <2>3
<1>3. /\ \A i \in 1..n : seqs[i] = WordsOf(options, given[i][1], given[i][2])
      /\ \A i \in 1..n : meant[i] = <<given[i][1], Means(options, given[i][1], given[i][2])>>
  BY <1>1
<1>4. seqs \in Seq(Seq(Words)) /\ Len(seqs) = n
  <2>1. \A i \in 1..n : WordsOf(options, given[i][1], given[i][2]) \in Seq(Words)
    BY <1>2, WordsAre
  <2>2. seqs = [i \in 1..n |-> WordsOf(options, given[i][1], given[i][2])]
    BY <1>1
  <2> QED
    BY <1>1, <2>1, <2>2
<1>5. meant \in Seq(S) /\ Len(meant) = n
  <2>1. \A i \in 1..n : <<given[i][1], Means(options, given[i][1], given[i][2])>> \in S
    BY <1>2 DEF Means
  <2>2. meant = [i \in 1..n |-> <<given[i][1], Means(options, given[i][1], given[i][2])>>]
    BY <1>1
  <2> HIDE DEF S
  <2> QED
    BY <1>1, <2>1, <2>2
<1>6. PICK F : Joined(F, seqs, Words, n) /\ FlattenSeq(seqs) = F[n]
  BY <1>4, Flattened
<1>7. Len(line) \in Nat /\ F[n] \in Seq(Words) /\ line = F[n] \o list
  <2>0. line = F[n] \o list
    BY <1>6, Zenon
  <2>1. F[n] \in Seq(Words) /\ line = F[n] \o list
    BY ONLY <1>1, <1>6, <2>0 DEF Joined
  <2>2. line \in Seq(Words)
    BY ONLY <2>1, list \in Seq(Words), ConcatProperties
  <2>3. Len(line) \in Nat
    BY ONLY <2>2
  <2> QED
    BY ONLY <2>1, <2>3
<1>8. PICK f : parseArgs(line, options) = f[1] /\ Reads(f, line, options)
  BY <1>7, ParseReads
<1> HIDE DEF S
<1> DEFINE T == {m \in Nat : m <= n => ReadFrom(f, F, line, meant, list, n - m)}
<1>9. 0 \in T
  <2>0. PICK before : before = F[n]
    OBVIOUS
  <2>1. f[Len(F[n]) + 1] = Lists(list)
    <3>1. before \in Seq(Words) /\ line = before \o list
      BY <1>7, <2>0
    <3>2. list = <<>> \/ ~IsOption(Head(list))
      OBVIOUS
    <3>3. Reads(f, line, options)
      BY <1>8
    <3>4. f[Len(before) + 1] = Lists(list)
      BY ZenonT(60), <3>1, <3>2, <3>3, list \in Seq(Words), ReadsList
    <3> QED
      BY <2>0, <3>4
  <2>2. Behind(meant, list, n) = Lists(list)
    <3>1. SubSeq(meant, n + 1, n) = <<>>
      BY <1>1, SubSeqEmpty
    <3> QED
      BY <1>5, <3>1 DEF Behind, Lists
  <2>3. ReadFrom(f, F, line, meant, list, n)
    BY <1>7, <2>1, <2>2 DEF ReadFrom
  <2>4. n - 0 = n
    BY <1>1
  <2> QED
    BY <2>3, <2>4
<1>10. ASSUME NEW m \in Nat, m \in T PROVE m + 1 \in T
  <2>0. ASSUME m + 1 <= n PROVE ReadFrom(f, F, line, meant, list, n - (m + 1))
    <3> DEFINE k == n - (m + 1)
    <3>1. k \in 0..n /\ k < n /\ k + 1 = n - m /\ k + 1 \in 1..n /\ m <= n
      BY <1>1, <2>0
    <3>2. ReadFrom(f, F, line, meant, list, k + 1)
      BY <1>10, <3>1
    <3> HIDE DEF k
    <3> DEFINE name == given[k + 1][1]
               value == given[k + 1][2]
    <3>3. /\ name \in Pieces /\ value \in Words /\ name \in DOMAIN options
          /\ meant[k + 1] = <<name, Means(options, name, value)>>
          /\ seqs[k + 1] = WordsOf(options, name, value)
      BY <1>2, <1>3, <3>1
    <3> HIDE DEF name, value
    <3>4. ReadFrom(f, F, line, meant, list, k)
      BY <1>1, <1>5, <1>6, <1>8, <3>1, <3>2, <3>3, ReadsNext
    <3> QED
      BY <3>4 DEF k
  <2> QED
    BY <2>0
<1> HIDE DEF T
<1>11. ReadFrom(f, F, line, meant, list, 0)
  <2>1. n \in T
    BY <1>1, <1>9, <1>10, SetInduction
  <2>2. n - n = 0
    BY <1>1
  <2> QED
    BY <1>1, <2>1, <2>2 DEF T
<1>12. f[1] = Behind(meant, list, 0)
  <2>1. F[0] = <<>> /\ Len(F[0]) + 1 = 1
    BY <1>6 DEF Joined
  <2> QED
    BY <1>11, <2>1 DEF ReadFrom
<1>13. SubSeq(meant, 0 + 1, Len(meant)) = meant
  BY <1>5, SubSeqFull
<1> QED
  BY <1>8, <1>12, <1>13 DEF Behind

\* The option that counts is one of those given, and the same one when read.
Latest(given, name) == SelectLastInSeq(given, LAMBDA g : g[1] = name)

LEMMA LatestIs ==
  ASSUME NEW given, Len(given) \in Nat, NEW name,
         NEW i, i = Latest(given, name), i # 0
  PROVE  i \in 1..Len(given) /\ given[i][1] = name
<1> DEFINE I == {j \in 1..Len(given) : given[j][1] = name}
<1>1. i = IF I # {} THEN Max(I) ELSE 0
  BY DEF Latest, SelectLastInSeq
<1>2. I \subseteq 1..Len(given) /\ \A j \in I : j \in 1..Len(given) /\ given[j][1] = name
  OBVIOUS
<1> HIDE DEF I
<1>3. I # {} /\ i = Max(I)
  BY <1>1
<1>4. i \in I
  BY <1>2, <1>3, MaxIsIn
<1> QED
  BY <1>2, <1>4

LEMMA LatestSame ==
  ASSUME NEW given, NEW meant, Len(meant) = Len(given),
         \A i \in 1..Len(given) : meant[i][1] = given[i][1], NEW name
  PROVE  Latest(meant, name) = Latest(given, name)
<1>1. {i \in 1..Len(meant) : meant[i][1] = name} = {i \in 1..Len(given) : given[i][1] = name}
  OBVIOUS
<1> QED
  BY <1>1 DEF Latest, SelectLastInSeq

LEMMA TypedIs ==
  ASSUME asked.whole
  PROVE  Typed(asked)
           = FlattenSeq([i \in DOMAIN asked.given |->
                            WordsOf(Own, asked.given[i][1], asked.given[i][2])]) \o asked.list
  BY DEF Typed, WordsOf, Own

\* What was asked for is what Task::main() makes of the line.
LEMMA UnderstoodIfTyped == ASSUME TypeOK PROVE Understood
<1> DEFINE given == asked.given
           list == asked.list
           names == DOMAIN Own
           Meant(name) ==
               CASE Own[name] = Flag -> IF Latest(given, name) = 0 THEN <<"0">> ELSE <<"1">>
                 [] Own[name] # Flag ->
                       IF Latest(given, name) = 0 THEN <<Own[name]>>
                       ELSE given[Latest(given, name)][2]
<1> SUFFICES ASSUME asked.whole, ~AsksHelp(Typed(asked)),
                    \A i \in DOMAIN given : given[i][1] \in names,
                    list = <<>> \/ ~IsOption(Head(list))
             PROVE  /\ Settings.rc = "run" /\ Settings.list = list
                    /\ \A name \in names : Value(Settings, name, Own) = Meant(name)
  BY DEF Understood, Latest
<1>1. given \in Seq(STRING \X Seq(STRING)) /\ list \in Seq(Words)
  <2>1. asked \in AskKinds
    BY SupervisorAssumption DEF TypeOK
  <2>2. asked.given \in Seq(STRING \X Seq(STRING)) /\ asked.list \in Seq(Seq(STRING))
    BY <2>1 DEF AskKinds
  <2> QED
    BY <2>2, WordsOfStrings
<1> DEFINE seqs == [i \in DOMAIN given |-> WordsOf(Own, given[i][1], given[i][2])]
           meant == [i \in DOMAIN given |-> <<given[i][1], Means(Own, given[i][1], given[i][2])>>]
<1>2. Typed(asked) = FlattenSeq(seqs) \o list
  BY TypedIs
<1>3. Settings = parseArgs(Typed(asked), Own)
  BY DEF Settings, process
<1>4. Len(given) \in Nat /\ DOMAIN given = 1..Len(given)
  BY <1>1, LenProperties
<1>5. /\ Len(meant) = Len(given)
      /\ \A i \in 1..Len(given) :
            meant[i][1] = given[i][1] /\ meant[i][2] = Means(Own, given[i][1], given[i][2])
  BY <1>4
<1>6. Settings = [rc |-> "run", given |-> meant, list |-> list]
  <2> HIDE DEF seqs, meant, given, list
  <2> SUFFICES parseArgs(Typed(asked), Own) = [rc |-> "run", given |-> meant, list |-> list]
    BY <1>3
  <2>1. PICK s, m, line : s = seqs /\ m = meant /\ line = Typed(asked)
    OBVIOUS
  <2>2. line = FlattenSeq(s) \o list
    BY <1>2, <2>1
  <2>3. /\ s = [i \in DOMAIN given |-> WordsOf(Own, given[i][1], given[i][2])]
        /\ m = [i \in DOMAIN given |-> <<given[i][1], Means(Own, given[i][1], given[i][2])>>]
    BY <2>1 DEF seqs, meant
  <2>4. Complete(Own, given, list, s, line, m)
    BY <1>1, <2>2, <2>3 DEF Complete
  <2> QED
    BY <2>1, <2>4, Parsed
<1> HIDE DEF meant, given, list
<1>7. Settings.rc = "run" /\ Settings.list = list /\ Settings.given = meant
  BY <1>6
<1>8. ASSUME NEW name \in names PROVE Value(Settings, name, Own) = Meant(name)
  <2>1. PICK last : last = Latest(given, name)
    OBVIOUS
  <2>2. last = Latest(meant, name)
    BY <1>5, <2>1, LatestSame
  <2>3. Value(Settings, name, Own)
          = IF last = 0 THEN IF Own[name] = Flag THEN <<"0">> ELSE <<Own[name]>>
                        ELSE meant[last][2]
    BY <1>7, <2>2 DEF Value, Latest
  <2>4. last # 0 => meant[last][2] = Means(Own, name, given[last][2])
    BY <1>4, <1>5, <2>1, LatestIs
  <2> QED
    BY <2>1, <2>3, <2>4 DEF Means
<1> QED
  BY <1>7, <1>8 DEF given, list

\* Whatever options of a program are given, in whatever order, number and with
\* whatever values: when the line is complete, every option has the value last
\* given or its default, and the list is the list.
THEOREM LinesAreUnderstood == Spec => []Understood
<1>1. TypeOK => Understood
  BY UnderstoodIfTyped
<1> QED
  BY <1>1, TypeCorrect, PTL
===============================================================================
