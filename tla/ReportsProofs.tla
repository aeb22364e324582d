------------------------------ MODULE ReportsProofs ------------------------------
(***************************************************************************)
(* Proofs about the two services and the documents they answer with.       *)
(*   - controller_read, its report and its clock: ReportInv, ClockInv;     *)
(*   - history, its two threads: ServiceInv;                               *)
(*   - both of them with the converter: IInv, and what a document is made  *)
(*     of, part by part, up to the answers being JSON.                     *)
(***************************************************************************)
EXTENDS Reports, RtcSync, JsonProofs

-----------------------------------------------------------------------------
(* Bytes and frames. *)

LEMMA Joining ==
    ASSUME NEW high \in Byte, NEW low \in Byte
    PROVE  256 * high + low \in Word
BY DEF Word

LEMMA Small ==
    /\ 0 \in Byte /\ 2 \in Byte /\ 3 \in Byte /\ 4 \in Byte /\ 6 \in Byte /\ 16 \in Byte
    /\ 0 \in Word /\ 1 \in Word /\ 2 \in Word /\ 3 \in Word /\ Word \subseteq Nat
    /\ RtcMinuteSecond \in Word
<1>1. /\ \A n \in 0..19 : n \in Byte
      /\ 144 \in Byte
  BY DEF Byte
<1>2. ASSUME NEW n \in 0..3 PROVE n \in Word
  <2>1. n \in Byte /\ 0 \in Byte /\ n = 256 * 0 + n
    BY <1>1
  <2> QED
    BY <2>1, Joining
<1>3. RtcMinuteSecond \in Word
  BY <1>1, Joining DEF RtcMinuteSecond
<1>4. ASSUME NEW w \in Word PROVE w \in Nat
  <2>1. PICK high \in Byte, low \in Byte : w = 256 * high + low
    BY DEF Word
  <2>2. high \in Nat /\ low \in Nat
    BY DEF Byte
  <2> QED
    BY <2>1, <2>2
<1> QED
  BY <1>1, <1>2, <1>3, <1>4

LEMMA WordParts ==
    ASSUME NEW w \in Word
    PROVE  /\ Hi(w) \in Byte /\ Lo(w) \in Byte
           /\ 256 * Hi(w) + Lo(w) = w
<1>1. PICK high \in Byte, low \in Byte : w = 256 * high + low
  BY DEF Word
<1>2. high \in 0..255 /\ low \in 0..255
  BY DEF Byte
<1>3. w \div 256 = high /\ w % 256 = low /\ high % 256 = high
  BY <1>1, <1>2
<1>4. Hi(w) = high /\ Lo(w) = low
  BY <1>3 DEF Hi, Lo
<1> QED
  BY <1>1, <1>4

LEMMA CrcBytes ==
    ASSUME NEW buffer
    PROVE  calc_crc(buffer) \in Seq(Byte) /\ Len(calc_crc(buffer)) = 2
<1>1. ASSUME NEW bits PROVE Number(bits) \in Byte
  BY DEF Number, Byte
<1> HIDE DEF Byte
<1> QED
  BY <1>1 DEF calc_crc, LowFirst

\* A message with its sum behind it, however the sum is computed.
LEMMA SealedFits ==
    ASSUME NEW s \in Seq(Byte)
    PROVE  /\ Sealed(s) \in Seq(Byte) /\ Len(Sealed(s)) = Len(s) + 2
           /\ \A i \in 1 .. Len(s) : Sealed(s)[i] = s[i]
<1> DEFINE c == LowFirst(Remainder(s))
<1>1. c \in Seq(Byte) /\ Len(c) = 2
  <2>1. ASSUME NEW bits PROVE Number(bits) \in Byte
    BY DEF Number, Byte
  <2> HIDE DEF Byte
  <2> QED
    BY <2>1 DEF LowFirst
<1>2. Sealed(s) = s \o c
  BY DEF Sealed
<1> HIDE DEF c, Byte
<1>3. s \o c \in Seq(Byte) /\ \A i \in 1 .. Len(s) : (s \o c)[i] = s[i]
  BY <1>1
<1>4. Len(s \o c) = Len(s) + Len(c)
  BY <1>1, ConcatProperties
<1> QED
  BY <1>1, <1>2, <1>3, <1>4

LEMMA SummedFits ==
    ASSUME NEW s \in Seq(Byte)
    PROVE  /\ Summed(s) \in Seq(Byte) /\ Len(Summed(s)) = Len(s) + 2
           /\ \A i \in 1 .. Len(s) : Summed(s)[i] = s[i]
<1> DEFINE c == calc_crc(s)
<1>1. c \in Seq(Byte) /\ Len(c) = 2
  BY CrcBytes
<1>2. Summed(s) = s \o c
  BY DEF Summed
<1> HIDE DEF c, Byte
<1>3. s \o c \in Seq(Byte) /\ \A i \in 1 .. Len(s) : (s \o c)[i] = s[i]
  BY <1>1
<1>4. Len(s \o c) = Len(s) + Len(c)
  BY <1>1, ConcatProperties
<1> QED
  BY <1>1, <1>2, <1>3, <1>4

-----------------------------------------------------------------------------
(* The check sum. *)

\* There is a function that begins with a and goes on with step.
CanIterate(S, a, step, n) ==
    \E f \in [0..n -> S] : f[0] = a /\ \A i \in 1..n : f[i] = step[<<i, f[i - 1]>>]

LEMMA Iteration ==
    ASSUME NEW S, NEW a \in S, NEW step \in [Nat \X S -> S], NEW n \in Nat
    PROVE  CanIterate(S, a, step, n)
<1> DEFINE Runs(m, f) == f[0] = a /\ \A i \in 1..m : f[i] = step[<<i, f[i - 1]>>]
           T == {m \in Nat : \E f \in [0..m -> S] : Runs(m, f)}
<1>1. 0 \in T
  <2> DEFINE g == [i \in 0..0 |-> a]
  <2>1. g \in [0..0 -> S] /\ Runs(0, g)
    OBVIOUS
  <2> QED
    BY <2>1
<1>2. ASSUME NEW m \in Nat, m \in T PROVE m + 1 \in T
  <2>1. PICK f \in [0..m -> S] : Runs(m, f)
    BY <1>2
  <2> DEFINE v == step[<<m + 1, f[m]>>]
             g == [i \in 0..(m + 1) |-> IF i \in 0..m THEN f[i] ELSE v]
  <2>2. v \in S
    OBVIOUS
  <2>3. g \in [0..(m + 1) -> S]
    BY <2>2
  <2>4. \A i \in 0..m : g[i] = f[i]
    OBVIOUS
  <2>5. g[m + 1] = v
    OBVIOUS
  <2> HIDE DEF g, v
  <2>6. ASSUME NEW i \in 1..(m + 1) PROVE g[i] = step[<<i, g[i - 1]>>]
    <3>1. CASE i \in 1..m
      <4>1. i \in 0..m /\ i - 1 \in 0..m
        BY <3>1
      <4> QED
        BY <2>1, <2>4, <3>1, <4>1
    <3>2. CASE i = m + 1
      <4>1. i - 1 = m /\ g[m] = f[m]
        BY <2>4, <3>2
      <4> QED
        BY <2>5, <3>2, <4>1 DEF v
    <3> QED
      BY <3>1, <3>2
  <2>7. Runs(m + 1, g)
    BY <2>1, <2>4, <2>6
  <2> QED
    BY <2>3, <2>7
<1> HIDE DEF T
<1>3. n \in T
  BY <1>1, <1>2, SetInduction
<1> QED
  BY <1>3 DEF T, CanIterate

-----------------------------------------------------------------------------
Register == SUBSET (0..15)

LEMMA ShiftedType == ASSUME NEW rc \in Register PROVE Shifted(rc) \in Register
  BY DEF Register, Shifted, SymDiff

\* The eight turns of a byte, one after the other.
LEMMA TurnsSteps ==
    ASSUME NEW rc \in Register
    PROVE  \E f \in [0..8 -> Register] :
              /\ f[0] = rc /\ f[8] = Turns(rc)
              /\ \A j \in 1..8 : f[j] = Shifted(f[j - 1])
<1> DEFINE step == [x \in Nat \X Register |-> Shifted(x[2])]
           Eq(f) == f = [j \in 0..8 |-> IF j = 0 THEN rc ELSE Shifted(f[j - 1])]
<1>1. step \in [Nat \X Register -> Register]
  BY ShiftedType
<1>2. PICK g \in [0..8 -> Register] :
         g[0] = rc /\ \A j \in 1..8 : g[j] = step[<<j, g[j - 1]>>]
  <2> DEFINE n == 8
  <2>1. n \in Nat
    OBVIOUS
  <2> HIDE DEF step, n
  <2>2. CanIterate(Register, rc, step, n)
    BY <1>1, <2>1, Iteration
  <2> QED
    BY <2>2 DEF n, CanIterate
<1>3. \A j \in 1..8 : g[j] = Shifted(g[j - 1])
  <2> TAKE j \in 1..8
  <2>1. <<j, g[j - 1]>> \in Nat \X Register
    OBVIOUS
  <2> QED
    BY <1>2, <2>1
<1>4. Eq(g)
  BY <1>2, <1>3
<1> DEFINE h == CHOOSE f : Eq(f)
<1>5. Eq(h)
  BY <1>4
<1>6. Turns(rc) = h[8]
  BY DEF Turns
<1> HIDE DEF h
<1>7. DOMAIN h = 0..8 /\ h[0] = rc /\ \A j \in 1..8 : h[j] = Shifted(h[j - 1])
  BY <1>5
<1>8. ASSUME NEW j \in 0..8 PROVE h[j] \in Register
  <2> DEFINE T == {m \in Nat : m \in 0..8 => h[m] \in Register}
  <2>1. 0 \in T
    BY <1>7
  <2>2. ASSUME NEW m \in Nat, m \in T PROVE m + 1 \in T
    <3>1. m + 1 \in 0..8 => m \in 0..8 /\ m + 1 \in 1..8 /\ (m + 1) - 1 = m
      OBVIOUS
    <3> QED
      BY <2>2, <3>1, <1>7, ShiftedType
  <2> HIDE DEF T
  <2>3. j \in T
    BY <2>1, <2>2, SetInduction
  <2> QED
    BY <2>3 DEF T
<1> QED
  BY <1>5, <1>6, <1>7, <1>8

LEMMA AddByteType ==
    ASSUME NEW rc \in Register, NEW b
    PROVE  /\ SymDiff(rc, Bits(b)) \in Register
           /\ AddByte(rc, b) = Turns(SymDiff(rc, Bits(b)))
           /\ AddByte(rc, b) \in Register
<1>1. SymDiff(rc, Bits(b)) \in Register
  <2>1. Bits(b) \subseteq 0..15
    BY DEF Bits
  <2> QED
    BY <2>1 DEF SymDiff, Register
<1>2. AddByte(rc, b) = Turns(SymDiff(rc, Bits(b)))
  BY DEF AddByte
<1>3. Turns(SymDiff(rc, Bits(b))) \in Register
  <2> HIDE DEF Register
  <2>1. PICK f \in [0..8 -> Register] : f[8] = Turns(SymDiff(rc, Bits(b)))
    BY <1>1, TurnsSteps
  <2>2. 8 \in 0..8
    OBVIOUS
  <2> QED
    BY <2>1, <2>2
<1> QED
  BY <1>1, <1>2, <1>3

\* calc_crc(), byte after byte.
LEMMA SumSteps ==
    ASSUME NEW buffer \in Seq(Byte)
    PROVE  \E f \in [0..Len(buffer) -> Register] :
              /\ f[0] = 0..15 /\ f[Len(buffer)] = CrcSum(buffer)
              /\ \A n \in 1..Len(buffer) : f[n] = AddByte(f[n - 1], buffer[n])
<1> DEFINE size == Len(buffer)
           first == 0..15
           step == [x \in Nat \X Register |-> AddByte(x[2], buffer[x[1]])]
           Eq(f) == f = [n \in 0..size |-> IF n = 0 THEN first ELSE AddByte(f[n - 1], buffer[n])]
<1>1. step \in [Nat \X Register -> Register]
  BY AddByteType
<1>0. size \in Nat /\ first \in Register
  BY DEF Register
<1> HIDE DEF first
<1>2. PICK g \in [0..size -> Register] :
         g[0] = first /\ \A n \in 1..size : g[n] = step[<<n, g[n - 1]>>]
  <2> HIDE DEF step, size
  <2>1. CanIterate(Register, first, step, size)
    BY <1>0, <1>1, Iteration
  <2> QED
    BY <2>1 DEF CanIterate
<1>3. \A n \in 1..size : g[n] = AddByte(g[n - 1], buffer[n])
  <2> TAKE n \in 1..size
  <2>1. <<n, g[n - 1]>> \in Nat \X Register
    BY <1>0
  <2> QED
    BY <1>2, <2>1
<1>4. Eq(g)
  BY <1>2, <1>3
<1> DEFINE h == CHOOSE f : Eq(f)
<1>5. Eq(h)
  BY <1>4
<1>6. CrcSum(buffer) = h[size]
  BY DEF CrcSum, first
<1> HIDE DEF h, size
<1>7. /\ DOMAIN h = 0..size /\ h[0] = first
      /\ \A n \in 1..size : h[n] = AddByte(h[n - 1], buffer[n])
  BY <1>0, <1>5
<1>8. ASSUME NEW n \in 0..size PROVE h[n] \in Register
  <2> DEFINE T == {m \in Nat : m \in 0..size => h[m] \in Register}
  <2>1. 0 \in T
    BY <1>0, <1>7
  <2>2. ASSUME NEW m \in Nat, m \in T PROVE m + 1 \in T
    <3>1. m + 1 \in 0..size => m \in 0..size /\ m + 1 \in 1..size /\ (m + 1) - 1 = m
      BY <1>0
    <3> QED
      BY <2>2, <3>1, <1>7, AddByteType
  <2> HIDE DEF T
  <2>3. n \in T
    BY <1>0, <2>1, <2>2, SetInduction
  <2> QED
    BY <2>3 DEF T
<1> QED
  BY <1>5, <1>6, <1>7, <1>8 DEF size, first

\* The division, bit after bit.
LEMMA DivisionSteps ==
    ASSUME NEW message \in Seq(Byte)
    PROVE  LET bits == 8 * Len(message)
           IN  \E f \in [0..bits -> SUBSET Nat] :
                  /\ f[0] = SymDiff(Sent(message), 1..16)
                  /\ Remainder(message) = {i - bits - 1 : i \in f[bits]}
                  /\ \A i \in 1..bits : f[i] = Divide(f[i - 1], i)
<1> DEFINE bits == 8 * Len(message)
           first == SymDiff(Sent(message), 1..16)
           step == [x \in Nat \X SUBSET Nat |-> Divide(x[2], x[1])]
           Eq(f) == f = [i \in 0..bits |-> IF i = 0 THEN first ELSE Divide(f[i - 1], i)]
<1>0. bits \in Nat /\ first \in SUBSET Nat
  BY SMTT(30) DEF SymDiff, Sent
<1>d. ASSUME NEW i \in Nat, NEW S \in SUBSET Nat PROVE Divide(S, i) \in SUBSET Nat
  BY DEF Divide, SymDiff
<1>1. step \in [Nat \X SUBSET Nat -> SUBSET Nat]
  BY <1>d
<1> HIDE DEF first
<1>2. PICK g \in [0..bits -> SUBSET Nat] :
         g[0] = first /\ \A i \in 1..bits : g[i] = step[<<i, g[i - 1]>>]
  <2> DEFINE P == SUBSET Nat
  <2>1. first \in P /\ step \in [Nat \X P -> P]
    BY <1>0, <1>1
  <2> HIDE DEF step, bits, P
  <2>2. CanIterate(P, first, step, bits)
    BY <1>0, <2>1, Iteration
  <2> QED
    BY <2>2 DEF CanIterate, P
<1>3. \A i \in 1..bits : g[i] = Divide(g[i - 1], i)
  <2> TAKE i \in 1..bits
  <2>1. i \in Nat /\ i - 1 \in 0..bits
    BY <1>0
  <2>2. <<i, g[i - 1]>> \in Nat \X SUBSET Nat
    BY <2>1
  <2> QED
    BY <1>2, <2>2
<1>4. Eq(g)
  BY <1>2, <1>3
<1> DEFINE h == CHOOSE f : Eq(f)
<1>5. Eq(h)
  BY <1>4
<1>6. Remainder(message) = {i - bits - 1 : i \in h[bits]}
  BY DEF Remainder, first
<1> HIDE DEF h, bits
<1>7. /\ DOMAIN h = 0..bits /\ h[0] = first
      /\ \A i \in 1..bits : h[i] = Divide(h[i - 1], i)
  BY <1>0, <1>5
<1>8. ASSUME NEW i \in 0..bits PROVE h[i] \in SUBSET Nat
  <2> DEFINE T == {m \in Nat : m \in 0..bits => h[m] \in SUBSET Nat}
  <2>1. 0 \in T
    BY <1>0, <1>7
  <2>2. ASSUME NEW m \in Nat, m \in T PROVE m + 1 \in T
    <3>1. m + 1 \in 0..bits => m \in 0..bits /\ m + 1 \in 1..bits /\ (m + 1) - 1 = m
      BY <1>0
    <3> QED
      BY <2>2, <3>1, <1>7, <1>d
  <2> HIDE DEF T
  <2>3. i \in T
    BY <1>0, <2>1, <2>2, SetInduction
  <2> QED
    BY <2>3 DEF T
<1> QED
  BY <1>5, <1>6, <1>7, <1>8 DEF bits, first

-----------------------------------------------------------------------------
(* The register and the division, side by side. *)

\* The bits that come after the first b bytes.
Later(message, b) == {x \in Sent(message) : x > 8 * b}

\* After p bits the rest of the division is the register, from bit p + 1 on, and
\* those bits of the message that the register has not been given yet.
InStep(rc, rest, p, later) ==
    \A x \in Nat : x \in rest <=> ~(x - p - 1 \in rc <=> x \in later)

\* A turn of the register is a step of the division.
LEMMA TurnKeeps ==
    ASSUME NEW rc \in Register, NEW rest \in SUBSET Nat, NEW p \in Nat, NEW later,
           \A x \in later : x > p + 1, InStep(rc, rest, p, later)
    PROVE  InStep(Shifted(rc), Divide(rest, p + 1), p + 1, later)
<1> DEFINE i == p + 1
           taps == {i, i + 1, i + 14, i + 16}
<1>1. i \in Nat /\ i \notin later /\ i - p - 1 = 0
  OBVIOUS
<1>2. i \in rest <=> 0 \in rc
  BY <1>1 DEF InStep
<1>3. ASSUME NEW x \in Nat
      PROVE  x \in Divide(rest, i) <=> ~(x - i - 1 \in Shifted(rc) <=> x \in later)
  <2> DEFINE y == x - i - 1
  <2>1. y \in Int /\ y + 1 = x - p - 1 /\ (y = -1 <=> x = i)
    OBVIOUS
  <2>2. x \in rest <=> ~(y + 1 \in rc <=> x \in later)
    BY <2>1 DEF InStep
  <2>3. y \in {k - 1 : k \in rc \ {0}} <=> y + 1 \in rc /\ y # -1
    BY <2>1 DEF Register
  <2>4. y \in {0, 13, 15} <=> x \in taps /\ x # i
    OBVIOUS
  <2>5. CASE 0 \in rc
    <3>1. x \in Divide(rest, i) <=> ~(x \in rest <=> x \in taps)
      BY <1>2, <2>5 DEF Divide, SymDiff
    <3>2. y \in Shifted(rc) <=> ~(y \in {k - 1 : k \in rc \ {0}} <=> y \in {0, 13, 15})
      BY <2>5 DEF Shifted, SymDiff
    <3>3. x = i => y + 1 \in rc /\ x \notin later /\ x \in taps
      BY <1>1, <2>1, <2>5
    <3> HIDE DEF y, taps, i
    <3> QED
      BY <2>1, <2>2, <2>3, <2>4, <3>1, <3>2, <3>3 DEF y
  <2>6. CASE 0 \notin rc
    <3>1. Divide(rest, i) = rest
      BY <1>2, <2>6 DEF Divide
    <3>2. y \in Shifted(rc) <=> y \in {k - 1 : k \in rc \ {0}}
      BY <2>6 DEF Shifted
    <3>3. x = i => y + 1 \notin rc
      BY <2>1, <2>6
    <3> HIDE DEF y, i
    <3> QED
      BY <2>1, <2>2, <2>3, <3>1, <3>2, <3>3 DEF y
  <2> QED
    BY <2>5, <2>6
<1> QED
  BY <1>3 DEF InStep

\* Bit k of byte b + 1 is sent as bit 8 * b + 1 + k.
LEMMA BitsOfByte ==
    ASSUME NEW message \in Seq(Byte), NEW b \in Nat, b < Len(message), NEW x \in Nat
    PROVE  x \in Later(message, b) <=>
              ~(x - 8 * b - 1 \in Bits(message[b + 1]) <=> x \in Later(message, b + 1))
<1>0. Len(message) \in Nat
  OBVIOUS
<1> DEFINE k == x - 8 * b - 1
           n == Len(message)
<1>1. Bits(message[b + 1]) \subseteq 0..7
  BY DEF Bits
<1> HIDE DEF n
<1>2. CASE k \in 0..7
  <2>1. (x - 1) % 8 = k /\ (x + 7) \div 8 = b + 1 /\ x \in 1..8 * n
    BY <1>0, <1>2 DEF n
  <2>2. x \in Sent(message) <=> k \in Bits(message[b + 1])
    <3> HIDE DEF k
    <3> QED
      BY <2>1 DEF Sent, n
  <2>3. x > 8 * b /\ ~(x > 8 * (b + 1))
    BY <1>2
  <2> HIDE DEF k
  <2> QED
    BY <2>2, <2>3 DEF Later, k
<1>3. CASE k \notin 0..7
  <2>1. k \notin Bits(message[b + 1])
    BY <1>1, <1>3
  <2>2. x > 8 * b <=> x > 8 * (b + 1)
    BY <1>3
  <2> HIDE DEF k
  <2> QED
    BY <2>1, <2>2 DEF Later, k
<1> QED
  BY <1>2, <1>3

\* Giving the register a byte is what the division does in eight steps.
LEMMA ByteKeeps ==
    ASSUME NEW message \in Seq(Byte), NEW b \in Nat, b < Len(message),
           NEW rest \in [0..8 * Len(message) -> SUBSET Nat],
           \A i \in 1..8 * Len(message) : rest[i] = Divide(rest[i - 1], i),
           NEW rc \in Register, InStep(rc, rest[8 * b], 8 * b, Later(message, b))
    PROVE  InStep(AddByte(rc, message[b + 1]), rest[8 * (b + 1)], 8 * (b + 1),
                  Later(message, b + 1))
<1> DEFINE given == SymDiff(rc, Bits(message[b + 1]))
           later == Later(message, b + 1)
           n == Len(message)
<1>0. n \in Nat /\ 8 * b + 8 = 8 * (b + 1) /\ 8 * b + 8 <= 8 * n
  OBVIOUS
<1>1. given \in Register /\ AddByte(rc, message[b + 1]) = Turns(given)
  BY AddByteType
<1>2. InStep(given, rest[8 * b], 8 * b, later)
  <2> SUFFICES ASSUME NEW x \in Nat
               PROVE  x \in rest[8 * b] <=> ~(x - 8 * b - 1 \in given <=> x \in later)
    BY DEF InStep
  <2>1. x \in rest[8 * b] <=> ~(x - 8 * b - 1 \in rc <=> x \in Later(message, b))
    BY DEF InStep
  <2>2. x \in Later(message, b) <=>
           ~(x - 8 * b - 1 \in Bits(message[b + 1]) <=> x \in later)
    BY BitsOfByte
  <2>3. x - 8 * b - 1 \in given <=>
           ~(x - 8 * b - 1 \in rc <=> x - 8 * b - 1 \in Bits(message[b + 1]))
    BY DEF SymDiff
  <2> HIDE DEF given, later
  <2> QED
    BY <2>1, <2>2, <2>3
<1>3. PICK f \in [0..8 -> Register] :
         /\ f[0] = given /\ f[8] = Turns(given)
         /\ \A j \in 1..8 : f[j] = Shifted(f[j - 1])
  BY <1>1, TurnsSteps
<1>4. \A x \in later : x > 8 * b + 8
  BY <1>0 DEF Later
<1> HIDE DEF given, later, n
<1> DEFINE InStepAt(j) == InStep(f[j], rest[8 * b + j], 8 * b + j, later)
<1>5. ASSUME NEW j \in 0..7, InStepAt(j) PROVE InStepAt(j + 1)
  <2> DEFINE p == 8 * b + j
  <2>1. p \in Nat /\ p + 1 = 8 * b + (j + 1) /\ p + 1 \in 1..8 * n /\ p \in 0..8 * n
    BY <1>0
  <2>2. f[j] \in Register /\ f[j + 1] = Shifted(f[j])
    <3>1. j \in 0..8 /\ j + 1 \in 1..8 /\ (j + 1) - 1 = j
      OBVIOUS
    <3> QED
      BY <1>3, <3>1
  <2>3. rest[p] \in SUBSET Nat /\ rest[p + 1] = Divide(rest[p], p + 1)
    <3>1. (p + 1) - 1 = p
      BY <2>1
    <3> HIDE DEF p
    <3> QED
      BY <2>1, <3>1 DEF n
  <2>4. \A x \in later : x > p + 1
    BY <1>4, <2>1 DEF later, Later, Sent
  <2>5. InStep(f[j], rest[p], p, later)
    BY <1>5
  <2> HIDE DEF p
  <2>6. InStep(f[j + 1], rest[p + 1], p + 1, later)
    BY <2>1, <2>2, <2>3, <2>4, <2>5, TurnKeeps
  <2> QED
    BY <2>1, <2>6
<1>6. InStepAt(0)
  BY <1>2, <1>3
<1> DEFINE T == {j \in Nat : j \in 0..8 => InStepAt(j)}
<1>7. 0 \in T
  BY <1>6
<1>8. ASSUME NEW j \in Nat, j \in T PROVE j + 1 \in T
  <2>1. j + 1 \in 0..8 => j \in 0..7 /\ j \in 0..8
    OBVIOUS
  <2> HIDE DEF InStepAt
  <2> QED
    BY <1>5, <1>8, <2>1
<1> HIDE DEF T, InStepAt
<1>9. 8 \in T
  BY <1>7, <1>8, SetInduction
<1>10. InStepAt(8)
  BY <1>9 DEF T
<1> QED
  BY <1>0, <1>1, <1>3, <1>10 DEF InStepAt, later

\* The check sum calc_crc() computes of a message is the remainder the standard
\* defines.
LEMMA SumIsRemainder ==
    ASSUME NEW message \in Seq(Byte)
    PROVE  CrcSum(message) = Remainder(message)
<1> DEFINE n == Len(message)
           bits == 8 * n
<1>0. n \in Nat /\ bits \in Nat
  OBVIOUS
<1>1. PICK rc \in [0..n -> Register] :
         /\ rc[0] = 0..15 /\ rc[n] = CrcSum(message)
         /\ \A b \in 1..n : rc[b] = AddByte(rc[b - 1], message[b])
  BY SumSteps
<1>2. PICK rest \in [0..bits -> SUBSET Nat] :
         /\ rest[0] = SymDiff(Sent(message), 1..16)
         /\ Remainder(message) = {i - bits - 1 : i \in rest[bits]}
         /\ \A i \in 1..bits : rest[i] = Divide(rest[i - 1], i)
  BY DivisionSteps
<1> DEFINE InStepAt(b) == InStep(rc[b], rest[8 * b], 8 * b, Later(message, b))
<1>3. InStepAt(0)
  <2> SUFFICES ASSUME NEW x \in Nat
               PROVE  x \in rest[0] <=> ~(x - 1 \in 0..15 <=> x \in Later(message, 0))
    BY <1>1 DEF InStep
  <2>1. x - 1 \in 0..15 <=> x \in 1..16
    OBVIOUS
  <2>2. x \in Later(message, 0) <=> x \in Sent(message)
    BY DEF Later, Sent
  <2> QED
    BY <1>2, <2>1, <2>2 DEF SymDiff
<1>4. ASSUME NEW b \in Nat, b < n, InStepAt(b) PROVE InStepAt(b + 1)
  <2>1. rc[b] \in Register /\ rc[b + 1] = AddByte(rc[b], message[b + 1])
    <3>1. b \in 0..n /\ b + 1 \in 1..n /\ (b + 1) - 1 = b
      BY <1>0, <1>4
    <3> QED
      BY <1>1, <3>1
  <2> QED
    BY <1>2, <1>4, <2>1, ByteKeeps
<1> DEFINE T == {b \in Nat : b <= n => InStepAt(b)}
<1>5. 0 \in T
  BY <1>3
<1>6. ASSUME NEW b \in Nat, b \in T PROVE b + 1 \in T
  <2> HIDE DEF InStepAt
  <2>1. b + 1 <= n => b < n /\ b <= n
    BY <1>0
  <2> QED
    BY <1>4, <1>6, <2>1
<1> HIDE DEF T, InStepAt
<1>7. n \in T
  BY <1>0, <1>5, <1>6, SetInduction
<1>8. InStep(rc[n], rest[bits], bits, Later(message, n))
  BY <1>0, <1>7 DEF T, InStepAt
<1>9. Later(message, n) = {}
  BY <1>0 DEF Later, Sent
<1> HIDE DEF bits, n
<1>10. rc[n] \in SUBSET (0..15) /\ rest[bits] \in SUBSET Nat
  BY <1>0, <1>1, <1>2 DEF Register
<1>11. \A x \in Nat : x \in rest[bits] <=> x - bits - 1 \in rc[n]
  BY <1>8, <1>9 DEF InStep
<1>12. rc[n] = {i - bits - 1 : i \in rest[bits]}
  <2>1. ASSUME NEW k \in rc[n] PROVE \E i \in rest[bits] : k = i - bits - 1
    <3>0. k \in 0..15
      BY <1>10
    <3>1. k + bits + 1 \in Nat /\ (k + bits + 1) - bits - 1 = k
      BY <1>0, <3>0
    <3>2. k + bits + 1 \in rest[bits]
      BY <1>11, <3>1
    <3> QED
      BY <3>1, <3>2
  <2>2. ASSUME NEW i \in rest[bits] PROVE i - bits - 1 \in rc[n]
    BY <1>10, <1>11
  <2> QED
    BY <2>1, <2>2
<1> QED
  BY <1>1, <1>2, <1>12

\* The charge controller accepts every message of three bytes or more that has
\* been given its check sum by calc_crc().
THEOREM ChecksumIsAccepted ==
    ASSUME NEW s \in Seq(Byte), Len(s) >= 3
    PROVE  Accepted(Summed(s))
<1> DEFINE frame == Summed(s)
           c == calc_crc(s)
           n == Len(s)
<1>1. n \in Nat /\ n > 2 /\ Len(frame) - 2 = n
  BY SummedFits
<1>2. c \in Seq(Byte) /\ Len(c) = 2
  BY CrcBytes
<1>3. frame \in Seq(Byte) /\ Len(frame) = n + 2 /\ \A i \in 1..n : frame[i] = s[i]
  BY SummedFits
<1>4. \A i \in 1..2 : frame[n + i] = c[i]
  <2>1. frame = s \o c
    BY DEF Summed
  <2> HIDE DEF frame, c, n
  <2> QED
    BY <1>1, <1>2, <2>1, ConcatProperties DEF n
<1> HIDE DEF frame
<1>5. SubSeq(frame, 1, n) = s
  BY <1>1, <1>3
<1>6. SubSeq(frame, n + 1, n + 2) = c
  BY <1>1, <1>2, <1>3, <1>4
<1>7. LowFirst(Remainder(s)) = c
  BY SumIsRemainder DEF calc_crc
<1> QED
  BY <1>1, <1>5, <1>6, <1>7 DEF Accepted, frame

-----------------------------------------------------------------------------
(* Requests and replies. *)

LEMMA ReadRequestFits ==
    ASSUME NEW id \in Byte, NEW f \in Byte, NEW a \in Word, NEW n \in Word
    PROVE  /\ ReadRequest(id, f, a, n) \in Seq(Byte)
           /\ ReadRequest(id, f, a, n)[1] = id /\ ReadRequest(id, f, a, n)[2] = f
           /\ Argument(ReadRequest(id, f, a, n), 3) = a
           /\ Argument(ReadRequest(id, f, a, n), 5) = n
           /\ Accepted(ReadRequest(id, f, a, n))
<1> DEFINE s == <<id, f, Hi(a), Lo(a), Hi(n), Lo(n)>>
           r == ReadRequest(id, f, a, n)
<1>1. /\ Hi(a) \in Byte /\ Lo(a) \in Byte /\ 256 * Hi(a) + Lo(a) = a
      /\ Hi(n) \in Byte /\ Lo(n) \in Byte /\ 256 * Hi(n) + Lo(n) = n
  BY WordParts
<1>2. s \in Seq(Byte) /\ Len(s) = 6
  <2> HIDE DEF Byte
  <2> QED
    BY <1>1
<1>3. r \in Seq(Byte) /\ \A i \in 1..6 : r[i] = s[i]
  BY <1>2, SummedFits DEF ReadRequest
<1>6. Accepted(r)
  <2>1. r = Summed(s) /\ Len(s) >= 3
    BY <1>2 DEF ReadRequest
  <2> HIDE DEF r, s
  <2> QED
    BY <1>2, <2>1, ChecksumIsAccepted
<1>4. /\ r[1] = id /\ r[2] = f /\ r[3] = Hi(a) /\ r[4] = Lo(a)
      /\ r[5] = Hi(n) /\ r[6] = Lo(n)
  BY <1>3
<1> HIDE DEF r, s
<1>5. Argument(r, 3) = a /\ Argument(r, 5) = n
  BY <1>1, <1>4 DEF Argument
<1> QED
  BY <1>3, <1>4, <1>5, <1>6 DEF r

LEMMA WriteRequestFits ==
    ASSUME NEW id \in Byte, NEW a \in Word, NEW words \in [1..3 -> Word]
    PROVE  LET r == WriteRequest(id, a, words)
           IN  /\ r \in Seq(Byte) /\ Len(r) >= 6 /\ Accepted(r)
               /\ r[1] = id /\ r[2] = 16 /\ Argument(r, 3) = a /\ Argument(r, 5) = 3
               /\ \A k \in 1..3 : Argument(r, 2 * k + 6) = words[k]
<1> DEFINE half(k) == IF k % 2 = 1 THEN Hi(words[(k + 1) \div 2]) ELSE Lo(words[k \div 2])
           head == <<id, 16, Hi(a), Lo(a), Hi(3), Lo(3), 2 * 3>>
           body == [k \in 1 .. 2 * 3 |-> half(k)]
<1>1. Len(words) = 3
  OBVIOUS
<1>2. 16 \in Byte /\ 6 \in Byte /\ 3 \in Word
  BY Small
<1>0. /\ Hi(a) \in Byte /\ Lo(a) \in Byte /\ Hi(3) \in Byte /\ Lo(3) \in Byte
      /\ 256 * Hi(a) + Lo(a) = a /\ 256 * Hi(3) + Lo(3) = 3
  BY <1>2, WordParts
<1>3. head \in Seq(Byte) /\ Len(head) = 7
  <2>2. 2 * 3 \in Byte
    BY <1>2
  <2> HIDE DEF Byte
  <2> QED
    BY <1>2, <1>0, <2>2
<1>4. ASSUME NEW k \in 1 .. 2 * 3 PROVE half(k) \in Byte
  <2>1. CASE k % 2 = 1
    <3>1. (k + 1) \div 2 \in 1..3
      OBVIOUS
    <3> QED
      BY <2>1, <3>1, WordParts
  <2>2. CASE k % 2 # 1
    <3>1. k \div 2 \in 1..3
      BY <2>2
    <3> QED
      BY <2>2, <3>1, WordParts
  <2> QED
    BY <2>1, <2>2
<1>5. body \in Seq(Byte) /\ Len(body) = 6 /\ \A k \in 1..6 : body[k] = half(k)
  <2> HIDE DEF half, Byte
  <2> QED
    BY <1>4
<1>6. WriteRequest(id, a, words) = Summed(head \o body)
  BY <1>1 DEF WriteRequest
<1>11. /\ head[1] = id /\ head[2] = 16 /\ head[3] = Hi(a) /\ head[4] = Lo(a)
       /\ head[5] = Hi(3) /\ head[6] = Lo(3)
  OBVIOUS
<1>12. ASSUME NEW k \in 1..3
       PROVE  half(2 * k - 1) = Hi(words[k]) /\ half(2 * k) = Lo(words[k])
  <2>1. (2 * k - 1) % 2 = 1 /\ (2 * k) % 2 = 0 /\ ((2 * k - 1) + 1) \div 2 = k /\ (2 * k) \div 2 = k
    OBVIOUS
  <2> QED
    BY <2>1
<1> HIDE DEF head, body, Byte, half
<1> DEFINE s == head \o body
<1>8. /\ s \in Seq(Byte) /\ Len(s) = 13
      /\ \A i \in 1..7 : s[i] = head[i]
      /\ \A k \in 1..6 : s[k + 7] = body[k]
  <2>1. \A i \in 1 .. Len(head) + Len(body) :
           s[i] = IF i <= Len(head) THEN head[i] ELSE body[i - Len(head)]
    BY <1>3, <1>5, ConcatProperties
  <2>2. s \in Seq(Byte) /\ Len(s) = Len(head) + Len(body)
    BY <1>3, <1>5, ConcatProperties
  <2> HIDE DEF s
  <2>3. \A i \in 1..7 : s[i] = head[i]
    BY <1>3, <1>5, <2>1
  <2>4. ASSUME NEW k \in 1..6 PROVE s[k + 7] = body[k]
    <3>1. k + 7 \in 1 .. Len(head) + Len(body) /\ ~(k + 7 <= Len(head)) /\ (k + 7) - Len(head) = k
      BY <1>3, <1>5
    <3> QED
      BY <2>1, <3>1
  <2> QED
    BY <1>3, <1>5, <2>2, <2>3, <2>4
<1> HIDE DEF s
<1> DEFINE r == Summed(s)
<1>9. r \in Seq(Byte) /\ Accepted(r) /\ Len(r) = 15 /\ \A i \in 1..13 : r[i] = s[i]
  <2>1. s \in Seq(Byte) /\ Len(s) = 13 /\ Len(s) >= 3
    BY <1>8
  <2>2. Accepted(Summed(s))
    BY <2>1, ChecksumIsAccepted
  <2>3. /\ Summed(s) \in Seq(Byte) /\ Len(Summed(s)) = Len(s) + 2
        /\ \A i \in 1 .. Len(s) : Summed(s)[i] = s[i]
    BY <2>1, SummedFits
  <2> QED
    BY <2>1, <2>2, <2>3
<1> HIDE DEF r
<1>10. /\ r[1] = id /\ r[2] = 16 /\ r[3] = Hi(a) /\ r[4] = Lo(a) /\ r[5] = Hi(3) /\ r[6] = Lo(3)
  BY <1>8, <1>9, <1>11
<1>13. Argument(r, 3) = a /\ Argument(r, 5) = 3
  BY <1>0, <1>10 DEF Argument
<1>14. ASSUME NEW k \in 1..3 PROVE Argument(r, 2 * k + 6) = words[k]
  <2>1. /\ (2 * k - 1) \in 1..6 /\ 2 * k \in 1..6
        /\ (2 * k - 1) + 7 = 2 * k + 6 /\ 2 * k + 7 = (2 * k + 6) + 1
        /\ 2 * k + 6 \in 1..13 /\ 2 * k + 7 \in 1..13
    OBVIOUS
  <2>2. s[(2 * k - 1) + 7] = half(2 * k - 1) /\ s[2 * k + 7] = half(2 * k)
    BY <1>5, <1>8, <2>1
  <2>3. r[2 * k + 6] = Hi(words[k]) /\ r[(2 * k + 6) + 1] = Lo(words[k])
    BY <1>9, <1>12, <2>1, <2>2
  <2>4. 256 * Hi(words[k]) + Lo(words[k]) = words[k]
    BY WordParts
  <2> QED
    BY <2>3, <2>4 DEF Argument
<1> QED
  BY <1>6, <1>9, <1>10, <1>13, <1>14 DEF r, s

\* Whatever is asked for comes back: Values() takes the registers out of the
\* places of the reply where the charge controller put them.
LEMMA ReplyFits ==
    ASSUME NEW frame \in Seq(Byte), NEW regs, frame[1] \in Byte, frame[2] \in Byte,
           Argument(frame, 3) \in Word, Argument(frame, 5) \in {1, 2, 3},
           \A r \in Argument(frame, 3) .. Argument(frame, 3) + Argument(frame, 5) - 1 :
              regs[r] \in Word
    PROVE  /\ ReadReply(frame, regs) \in Seq(Byte)
           /\ Len(Values(ReadReply(frame, regs), Argument(frame, 5))) = Argument(frame, 5)
           /\ \A k \in 1 .. Argument(frame, 5) :
                 Values(ReadReply(frame, regs), Argument(frame, 5))[k]
                    = regs[Argument(frame, 3) + k - 1]
<1> DEFINE a == Argument(frame, 3)
           n == Argument(frame, 5)
<1>0. a \in Word /\ n \in {1, 2, 3} /\ \A r \in a .. a + n - 1 : regs[r] \in Word
  OBVIOUS
<1>10. ReadReply(frame, regs)
         = LET half(k) == LET r == regs[a + (k - 1) \div 2] IN IF k % 2 = 1 THEN Hi(r) ELSE Lo(r)
           IN  Sealed(<<frame[1], frame[2], 2 * n>> \o [k \in 1 .. 2 * n |-> half(k)])
  BY DEF ReadReply
<1> HIDE DEF a, n
<1> DEFINE half(k) == LET r == regs[a + (k - 1) \div 2] IN IF k % 2 = 1 THEN Hi(r) ELSE Lo(r)
           head == <<frame[1], frame[2], 2 * n>>
           body == [k \in 1 .. 2 * n |-> half(k)]
           reply == ReadReply(frame, regs)
<1>1. reply = Sealed(head \o body)
  BY <1>10
<1>2. 2 * n \in Byte /\ n \in Nat /\ a \in Nat
  <2>1. 2 * n \in {2, 4, 6}
    BY <1>0
  <2> QED
    BY <1>0, <2>1, Small
<1>3. ASSUME NEW k \in 1 .. 2 * n
      PROVE  regs[a + (k - 1) \div 2] \in Word /\ half(k) \in Byte
  <2>1. (k - 1) \div 2 \in 0 .. n - 1
    BY <1>0
  <2>2. a + (k - 1) \div 2 \in a .. a + n - 1
    BY <1>2, <2>1
  <2>3. regs[a + (k - 1) \div 2] \in Word
    BY <1>0, <2>2
  <2> QED
    BY <2>3, WordParts
<1>4. head \in Seq(Byte) /\ Len(head) = 3
  <2> HIDE DEF Byte
  <2> QED
    BY <1>2
<1>5. body \in Seq(Byte) /\ Len(body) = 2 * n /\ \A k \in 1 .. 2 * n : body[k] = half(k)
  <2> HIDE DEF half, Byte
  <2> QED
    BY <1>2, <1>3
<1>6. /\ reply \in Seq(Byte)
      /\ \A k \in 1 .. 2 * n : reply[k + 3] = half(k)
  <2> HIDE DEF head, body, half, Byte, reply
  <2>2. head \o body \in Seq(Byte) /\ Len(head \o body) = 3 + 2 * n
    <3>1. head \o body \in Seq(Byte)
      BY <1>4, <1>5
    <3>2. Len(head \o body) = Len(head) + Len(body)
      BY <1>4, <1>5, ConcatProperties
    <3> QED
      BY <1>4, <1>5, <3>1, <3>2
  <2>3. \A k \in 1 .. 2 * n : (head \o body)[k + 3] = half(k)
    <3>1. \A i \in 1 .. Len(head) + Len(body) :
             (head \o body)[i] = IF i <= Len(head) THEN head[i] ELSE body[i - Len(head)]
      BY <1>4, <1>5, ConcatProperties
    <3>2. ASSUME NEW k \in 1 .. 2 * n PROVE (head \o body)[k + 3] = half(k)
      <4>1. k + 3 \in 1 .. Len(head) + Len(body) /\ ~(k + 3 <= Len(head))
        BY <1>2, <1>4, <1>5
      <4>2. (k + 3) - Len(head) = k
        BY <1>2, <1>4
      <4>3. (head \o body)[k + 3] = body[k]
        BY <3>1, <4>1, <4>2
      <4> QED
        BY <1>5, <4>3
    <3> QED
      BY <3>2
  <2> DEFINE t == head \o body
  <2> HIDE DEF t
  <2>4. t \in Seq(Byte) /\ Len(t) = 3 + 2 * n /\ reply = Sealed(t)
    BY <1>1, <2>2 DEF t
  <2>5. reply \in Seq(Byte) /\ \A k \in 1 .. 3 + 2 * n : reply[k] = t[k]
    BY <2>4, SealedFits
  <2>6. ASSUME NEW k \in 1 .. 2 * n PROVE reply[k + 3] = half(k)
    <3>1. k + 3 \in 1 .. 3 + 2 * n
      BY <1>2
    <3>2. reply[k + 3] = t[k + 3]
      BY <2>5, <3>1
    <3> QED
      BY <2>3, <3>2 DEF t
  <2> QED
    BY <2>5, <2>6
<1>7. ASSUME NEW k \in 1..n
      PROVE  256 * reply[2 * k + 2] + reply[2 * k + 3] = regs[a + k - 1]
  <2>1. 2 * k - 1 \in 1 .. 2 * n /\ 2 * k \in 1 .. 2 * n
    BY <1>2
  <2>2. reply[2 * k + 2] = half(2 * k - 1) /\ reply[2 * k + 3] = half(2 * k)
    <3> HIDE DEF half, reply
    <3>1. reply[(2 * k - 1) + 3] = half(2 * k - 1) /\ reply[2 * k + 3] = half(2 * k)
      BY <1>6, <2>1
    <3>2. (2 * k - 1) + 3 = 2 * k + 2
      BY <1>2
    <3> QED
      BY <3>1, <3>2
  <2>3. half(2 * k - 1) = Hi(regs[a + k - 1]) /\ half(2 * k) = Lo(regs[a + k - 1])
    <3>1. (2 * k - 1) % 2 = 1 /\ (2 * k) % 2 = 0
      BY <1>2
    <3>2. ((2 * k - 1) - 1) \div 2 = k - 1 /\ (2 * k - 1) \div 2 = k - 1
      BY <1>2
    <3>3. a + (k - 1) = a + k - 1
      BY <1>2
    <3> QED
      BY <3>1, <3>2, <3>3
  <2>4. regs[a + k - 1] \in Word
    <3>1. a + k - 1 \in a .. a + n - 1
      BY <1>2
    <3> QED
      BY <1>0, <3>1
  <2> QED
    BY <2>2, <2>3, <2>4, WordParts
<1> HIDE DEF reply
<1>8. Len(Values(reply, n)) = n
  BY <1>2 DEF Values
<1>9. \A k \in 1..n : Values(reply, n)[k] = regs[a + k - 1]
  BY <1>7 DEF Values
<1> QED
  BY <1>6, <1>8, <1>9 DEF reply, a, n

\* All numbers of the report have a place among the registers.
LEMMA FieldsFit ==
    /\ Len(Fields) = 13
    /\ \A k \in 1..13 : /\ Fields[k].address \in Word /\ Fields[k].words \in {1, 2}
                        /\ Fields[k].address .. Fields[k].address + Fields[k].words - 1
                              \subseteq Registers
<1>1. Len(Fields) = 13 /\ DOMAIN Fields = 1..13
  BY DEF Fields
<1>2. \A k \in 1..13 : Fields[k].address \in Word /\ Fields[k].words \in {1, 2}
  <2>1. \A k \in 1..13 : Fields[k].words \in {1, 2}
    BY DEF Fields, Number1, Number2
  <2>2. \A k \in 1..13 : \E high \in 48..51, low \in 0..27 : Fields[k].address = 256 * high + low
    <3> DEFINE Listed(a) == \E high \in 48..51, low \in 0..27 : a = 256 * high + low
    <3>1. /\ Listed(256 * 48 + 0) /\ Listed(256 * 48 + 1) /\ Listed(256 * 48 + 2)
          /\ Listed(256 * 49 + 0) /\ Listed(256 * 49 + 1) /\ Listed(256 * 49 + 2)
          /\ Listed(256 * 49 + 4) /\ Listed(256 * 49 + 5) /\ Listed(256 * 49 + 26)
      OBVIOUS
    <3>2. /\ Listed(256 * 51 + 27) /\ Listed(256 * 51 + 12)
          /\ Listed(256 * 51 + 14) /\ Listed(256 * 51 + 16)
      OBVIOUS
    <3> HIDE DEF Listed
    <3>3. \A k \in 1..13 : Listed(Fields[k].address)
      BY <3>1, <3>2 DEF Fields, Number1, Number2
    <3> QED
      BY <3>3 DEF Listed
  <2>3. \A high \in 48..51, low \in 0..27 : 256 * high + low \in Word
    <3>1. \A high \in 48..51, low \in 0..27 : high \in Byte /\ low \in Byte
      BY DEF Byte
    <3> QED
      BY <3>1, Joining
  <2>4. ASSUME NEW k \in 1..13 PROVE Fields[k].address \in Word
    <3>1. PICK high \in 48..51, low \in 0..27 : Fields[k].address = 256 * high + low
      BY <2>2
    <3>2. 256 * high + low \in Word
      BY <2>3
    <3> QED
      BY <3>1, <3>2
  <2> QED
    BY <2>1, <2>4
<1>3. \A k \in 1..13 : Fields[k].address .. Fields[k].address + Fields[k].words - 1
                              \subseteq Registers
  <2> SUFFICES ASSUME NEW k \in 1..13
               PROVE  Fields[k].address .. Fields[k].address + Fields[k].words - 1 \subseteq Registers
    OBVIOUS
  <2>1. Fields[k] \in Range(Fields)
    BY <1>1 DEF Range
  <2> QED
    BY <2>1 DEF Registers
<1> QED
  BY <1>1, <1>2, <1>3

\* A reply to the request for a number is made of bytes, and taken from it is
\* what the registers of the number held.
LEMMA ReplyIsHeld ==
    ASSUME NEW k \in 1..13, NEW regs \in [Registers -> Word], Id \in Byte
    PROVE  LET f == Fields[k]
               reply == ReadReply(ReadRequest(Id, 4, f.address, f.words), regs)
           IN  /\ ReadRequest(Id, 4, f.address, f.words) \in Seq(Byte)
               /\ reply \in Seq(Byte)
               /\ Joined(Values(reply, f.words)) = Held(f, regs)
               /\ Held(f, regs) \in Word \X Word
<1> DEFINE f == Fields[k]
           a == f.address
           n == f.words
           frame == ReadRequest(Id, 4, a, n)
           reply == ReadReply(frame, regs)
<1>1. a \in Word /\ n \in {1, 2} /\ a .. a + n - 1 \subseteq Registers
  BY FieldsFit
<1> HIDE DEF f, a, n, frame, reply
<1>2. n \in Word /\ 4 \in Byte /\ a \in Nat
  <2>1. n = 1 \/ n = 2
    BY <1>1
  <2> QED
    BY <1>1, <2>1, Small
<1>3. /\ frame \in Seq(Byte) /\ frame[1] = Id /\ frame[2] = 4
      /\ Argument(frame, 3) = a /\ Argument(frame, 5) = n
  BY <1>1, <1>2, ReadRequestFits DEF frame
<1>4. /\ reply \in Seq(Byte) /\ Len(Values(reply, n)) = n
      /\ \A j \in 1..n : Values(reply, n)[j] = regs[a + j - 1]
  <2>1. frame[1] \in Byte /\ frame[2] \in Byte
    BY <1>2, <1>3
  <2>2. /\ ReadReply(frame, regs) \in Seq(Byte)
        /\ Len(Values(ReadReply(frame, regs), n)) = n
        /\ \A j \in 1..n : Values(ReadReply(frame, regs), n)[j] = regs[a + j - 1]
    <3>1. n \in {1, 2, 3} /\ \A r \in a .. a + n - 1 : regs[r] \in Word
      BY <1>1
    <3> QED
      BY <1>1, <1>2, <1>3, <2>1, <3>1, ReplyFits
  <2> QED
    BY <2>2 DEF reply
<1>5. a \in Registers /\ (n = 2 => a + 1 \in Registers)
  BY <1>1, <1>2
<1>6. 0 \in Word
  BY Small
<1>7. Joined(Values(reply, n)) = Held(f, regs) /\ Held(f, regs) \in Word \X Word
  <2>1. CASE n = 1
    <3>1. Len(Values(reply, n)) = 1 /\ Values(reply, n)[1] = regs[a]
      BY <1>2, <1>4, <2>1
    <3> QED
      BY <1>5, <1>6, <2>1, <3>1 DEF Joined, Held, a, n
  <2>2. CASE n = 2
    <3>1. /\ Len(Values(reply, n)) = 2
          /\ Values(reply, n)[1] = regs[a] /\ Values(reply, n)[2] = regs[a + 1]
      BY <1>2, <1>4, <2>2
    <3> QED
      BY <1>5, <2>2, <3>1 DEF Joined, Held, a, n
  <2> QED
    BY <1>1, <2>1, <2>2
<1> QED
  BY <1>3, <1>4, <1>7 DEF reply, frame, a, n, f

-----------------------------------------------------------------------------
(* What the service asks for, and what may come back. *)

Asked ==
    {ToRead(3, RtcMinuteSecond, 3)}
    \union {ToRead(4, Fields[k].address, Fields[k].words) : k \in 1..13}
    \union {ToWrite(RtcMinuteSecond, words) : words \in Clocks}

LEMMA ToReadFits ==
    ASSUME NEW f \in {3, 4}, NEW a \in Word, NEW n \in Word, Id \in Byte
    PROVE  LET q == ToRead(f, a, n)
           IN  /\ q \in [frame : Seq(Byte), meant : Meaning]
               /\ Accepted(q.frame) /\ Heard(q.frame) = q.meant
               /\ q.frame[1] = Id /\ q.frame[2] = f
               /\ Argument(q.frame, 3) = a /\ Argument(q.frame, 5) = n
<1> DEFINE q == ToRead(f, a, n)
           r == ReadRequest(Id, f, a, n)
           m == [unit |-> Id, function |-> f, address |-> a, count |-> n, values |-> <<>>]
<1>1. f \in Byte /\ f # 16
  BY Small
<1>2. q = [frame |-> r, meant |-> m]
  BY DEF ToRead
<1>3. /\ r \in Seq(Byte) /\ r[1] = Id /\ r[2] = f
      /\ Argument(r, 3) = a /\ Argument(r, 5) = n /\ Accepted(r)
  BY <1>1, ReadRequestFits
<1>4. m \in Meaning
  <2>1. <<>> \in Seq(Word)
    OBVIOUS
  <2> HIDE DEF Byte, Word
  <2> QED
    BY <2>1 DEF Meaning
<1> HIDE DEF r
<1>5. Heard(r) = m
  BY <1>1, <1>3 DEF Heard
<1> HIDE DEF m
<1> QED
  BY <1>2, <1>3, <1>4, <1>5

LEMMA ToWriteFits ==
    ASSUME NEW a \in Word, NEW words \in [1..3 -> Word], Id \in Byte
    PROVE  LET q == ToWrite(a, words)
           IN  /\ q \in [frame : Seq(Byte), meant : Meaning]
               /\ Accepted(q.frame) /\ Heard(q.frame) = q.meant
               /\ q.frame[1] = Id /\ q.frame[2] = 16 /\ Len(q.frame) >= 6
<1> DEFINE q == ToWrite(a, words)
           r == WriteRequest(Id, a, words)
           m == [unit |-> Id, function |-> 16, address |-> a, count |-> 3, values |-> words]
<1>1. 16 \in Byte /\ 3 \in Word
  BY Small
<1>2. words \in Seq(Word) /\ Len(words) = 3
  <2> DEFINE W == Word
  <2>1. words \in [1..3 -> W]
    OBVIOUS
  <2> HIDE DEF W
  <2>2. words = [k \in 1..3 |-> words[k]] /\ \A k \in 1..3 : words[k] \in W
    BY <2>1
  <2>3. [k \in 1..3 |-> words[k]] \in Seq(W) /\ Len([k \in 1..3 |-> words[k]]) = 3
    BY <2>2
  <2> QED
    BY <2>2, <2>3 DEF W
<1>3. q = [frame |-> r, meant |-> m]
  BY <1>2 DEF ToWrite
<1>4. /\ r \in Seq(Byte) /\ Len(r) >= 6 /\ Accepted(r)
      /\ r[1] = Id /\ r[2] = 16 /\ Argument(r, 3) = a /\ Argument(r, 5) = 3
      /\ \A k \in 1..3 : Argument(r, 2 * k + 6) = words[k]
  BY WriteRequestFits
<1>5. m \in Meaning
  <2> HIDE DEF Byte, Word
  <2> QED
    BY <1>1, <1>2 DEF Meaning
<1> HIDE DEF r
<1>6. Heard(r) = m
  <2>1. [k \in 1..3 |-> Argument(r, 2 * k + 6)] = words
    BY <1>4
  <2> QED
    BY <1>4, <2>1 DEF Heard
<1> HIDE DEF m
<1> QED
  BY <1>3, <1>4, <1>5, <1>6

LEMMA AskedFits ==
    ASSUME NEW q \in Asked
    PROVE  /\ q \in [frame : Seq(Byte), meant : Meaning]
           /\ Accepted(q.frame) /\ Heard(q.frame) = q.meant
           /\ q.frame[1] \in Byte /\ q.frame[2] \in {3, 4, 16}
<1>1. Id \in Byte /\ Clocks \subseteq [1..3 -> Word]
  BY ReportAssumption
<1>2. 3 \in Word /\ RtcMinuteSecond \in Word
  BY Small
<1>3. CASE q = ToRead(3, RtcMinuteSecond, 3)
  BY <1>1, <1>2, <1>3, ToReadFits
<1>4. ASSUME NEW k \in 1..13, q = ToRead(4, Fields[k].address, Fields[k].words)
      PROVE  /\ q \in [frame : Seq(Byte), meant : Meaning]
             /\ Accepted(q.frame) /\ Heard(q.frame) = q.meant
             /\ q.frame[1] \in Byte /\ q.frame[2] \in {3, 4, 16}
  <2>1. Fields[k].address \in Word /\ Fields[k].words \in Word
    BY FieldsFit, Small
  <2> QED
    BY <1>1, <1>4, <2>1, ToReadFits
<1>5. ASSUME NEW words \in Clocks, q = ToWrite(RtcMinuteSecond, words)
      PROVE  /\ q \in [frame : Seq(Byte), meant : Meaning]
             /\ Accepted(q.frame) /\ Heard(q.frame) = q.meant
             /\ q.frame[1] \in Byte /\ q.frame[2] \in {3, 4, 16}
  BY <1>1, <1>2, <1>5, ToWriteFits
<1> QED
  BY <1>3, <1>4, <1>5 DEF Asked

\* Whatever is asked for, the reply is made of bytes.
LEMMA ReplyIsBytes ==
    ASSUME NEW q \in Asked, NEW clock \in Clocks, registers \in [Registers -> Word]
    PROVE  ReplyTo(q.frame, clock) \in Seq(Byte)
<1>1. Id \in Byte /\ Clocks \subseteq [1..3 -> Word]
  BY ReportAssumption
<1>2. /\ 3 \in Word /\ 3 \in Byte /\ 4 \in Byte /\ 16 \in Byte
      /\ RtcMinuteSecond \in Word /\ RtcMinuteSecond \in Nat
  BY Small
<1>3. CASE q = ToRead(3, RtcMinuteSecond, 3)
  <2> DEFINE S == RtcMinuteSecond .. RtcMinuteSecond + 2
             regs == [a \in S |-> clock[a - RtcMinuteSecond + 1]]
  <2>1. \A a \in S : regs[a] \in Word
    <3>1. ASSUME NEW a \in S PROVE clock[a - RtcMinuteSecond + 1] \in Word
      <4>1. a - RtcMinuteSecond + 1 \in 1..3
        BY <1>2
      <4> QED
        BY <1>1, <4>1
    <3> QED
      BY <3>1
  <2>2. /\ q.frame \in Seq(Byte) /\ q.frame[1] = Id /\ q.frame[2] = 3
        /\ Argument(q.frame, 3) = RtcMinuteSecond /\ Argument(q.frame, 5) = 3
    BY <1>1, <1>2, <1>3, ToReadFits
  <2>3. S = RtcMinuteSecond .. RtcMinuteSecond + 3 - 1 /\ 3 \in {1, 2, 3}
    BY <1>2
  <2> HIDE DEF S, regs
  <2>4. ReadReply(q.frame, regs) \in Seq(Byte)
    BY <1>1, <1>2, <2>1, <2>2, <2>3, ReplyFits
  <2>5. ReplyTo(q.frame, clock) = ReadReply(q.frame, regs)
    BY <2>2 DEF ReplyTo, regs, S
  <2> QED
    BY <2>4, <2>5
<1>4. ASSUME NEW k \in 1..13, q = ToRead(4, Fields[k].address, Fields[k].words)
      PROVE  ReplyTo(q.frame, clock) \in Seq(Byte)
  <2>1. q.frame = ReadRequest(Id, 4, Fields[k].address, Fields[k].words) /\ q.frame[2] = 4
    <3>1. Fields[k].address \in Word /\ Fields[k].words \in Word
      BY FieldsFit, Small
    <3> QED
      BY <1>1, <1>4, <3>1, ToReadFits DEF ToRead
  <2>2. ReadReply(q.frame, registers) \in Seq(Byte)
    BY <1>1, <2>1, ReplyIsHeld
  <2> QED
    BY <2>1, <2>2 DEF ReplyTo
<1>5. ASSUME NEW words \in Clocks, q = ToWrite(RtcMinuteSecond, words)
      PROVE  ReplyTo(q.frame, clock) \in Seq(Byte)
  <2>1. q.frame \in Seq(Byte) /\ q.frame[2] = 16 /\ Len(q.frame) >= 6
    BY <1>1, <1>2, <1>5, ToWriteFits
  <2>2. SubSeq(q.frame, 1, 6) \in Seq(Byte)
    <3> HIDE DEF Byte
    <3> QED
      BY <2>1
  <2>3. Sealed(SubSeq(q.frame, 1, 6)) \in Seq(Byte)
    BY <2>2, SealedFits
  <2> QED
    BY <2>1, <2>3 DEF ReplyTo
<1> QED
  BY <1>3, <1>4, <1>5 DEF Asked

\* So is an exception, whose second byte shows that it is one.
LEMMA ExceptionFits ==
    ASSUME NEW q \in Asked, NEW code \in ExceptionCodes
    PROVE  LET e == Sealed(<<q.frame[1], q.frame[2] + 128, code>>)
           IN  e \in Seq(Byte) /\ e[2] >= 128 /\ <<>> \o e = e
<1> DEFINE s == <<q.frame[1], q.frame[2] + 128, code>>
           e == Sealed(s)
<1>1. /\ q.frame[1] \in Byte /\ q.frame[2] \in {3, 4, 16} /\ code \in Byte
  BY AskedFits, ReportAssumption
<1>2. q.frame[2] + 128 \in Byte /\ q.frame[2] + 128 >= 128
  BY <1>1 DEF Byte
<1>3. s \in Seq(Byte) /\ Len(s) = 3 /\ s[2] >= 128
  <2> HIDE DEF Byte
  <2> QED
    BY <1>1, <1>2
<1> HIDE DEF s
<1>4. e \in Seq(Byte) /\ e[2] = s[2]
  <2>1. e \in Seq(Byte) /\ \A i \in 1 .. Len(s) : e[i] = s[i]
    BY <1>3, SealedFits
  <2>2. 2 \in 1 .. Len(s)
    BY <1>3
  <2> QED
    BY <2>1, <2>2
<1>5. <<>> \o e = e
  <2> HIDE DEF e, Byte
  <2> QED
    BY <1>4
<1> QED
  BY <1>3, <1>4, <1>5 DEF s

-----------------------------------------------------------------------------
(* The invariant. *)

\* The request for the number that is wanted.
Question == ToRead(4, Wanted.address, Wanted.words)

\* What is on the way in a transaction that began with nothing there: its
\* request, or nothing any more, an exception, or a reply with what the registers
\* have held since the request of the client came.
Undisturbed ==
    \/ wire = <<Question>> /\ stream = <<>>
    \/ /\ wire = <<>>
       /\ \/ stream = <<>>
          \/ stream[2] >= 128
          \/ \E regs \in seen : stream = ReadReply(Question.frame, regs)

OnWay ==
    /\ wire \in Seq(Asked)
    /\ serving = "wait" => More
    /\ serving \in {"ask", "wait"} => registers \in seen
    /\ serving = "wait" /\ late = 0 => Undisturbed

ReportInv == ReportTypeOK /\ OnWay /\ NotTorn

LEMMA NothingAsked == <<>> \in Seq(Asked) /\ <<>> \in Seq(Byte) /\ <<>> \in Seq(Entries)
  OBVIOUS

LEMMA ReportInitHolds == ReportInit => ReportInv
<1> SUFFICES ASSUME ReportInit PROVE ReportInv
  OBVIOUS
<1>1. /\ wire \in Seq(Asked) /\ wire \in Seq([frame : Seq(Byte), meant : Meaning])
      /\ stream \in Seq(Byte) /\ report \in Seq(Entries) /\ Len(report) = 0
  BY NothingAsked DEF ReportInit
<1>2. ReportTypeOK
  <2>1. Len(report) <= Len(Fields)
    BY <1>1, FieldsFit
  <2>2. changes \in 0..MaxChanges /\ faults \in 0..MaxFaults /\ late \in 0..MaxLate
    BY ReportAssumption DEF ReportInit
  <2> QED
    BY <1>1, <2>1, <2>2 DEF ReportInit, ReportTypeOK
<1>3. OnWay /\ NotTorn
  BY <1>1 DEF ReportInit, OnWay, NotTorn
<1> QED
  BY <1>2, <1>3 DEF ReportInv

\* A number written down leaves those before it alone.
LEMMA AppendKeeps ==
    ASSUME ReportInv, NEW e \in Entries, More, report' = Append(report, e), seen' = seen,
           e.ok /\ e.own => \E regs \in seen : e.value = Held(Wanted, regs)
    PROVE  /\ report' \in Seq(Entries) /\ Len(report') <= Len(Fields)
           /\ NotTorn'
<1>1. report \in Seq(Entries) /\ Len(report) < 13 /\ Len(Fields) = 13
  BY FieldsFit DEF ReportInv, ReportTypeOK, More
<1>2. /\ report' \in Seq(Entries) /\ Len(report') = Len(report) + 1
      /\ DOMAIN report' = 1 .. Len(report) + 1
      /\ report'[Len(report) + 1] = e
      /\ \A k \in 1 .. Len(report) : report'[k] = report[k]
  BY <1>1
<1>3. ASSUME NEW k \in DOMAIN report', report'[k].ok, report'[k].own
      PROVE  \E regs \in seen' : report'[k].value = Held(Fields[k], regs)
  <2>1. CASE k = Len(report) + 1
    BY <1>2, <1>3, <2>1 DEF Wanted
  <2>2. CASE k # Len(report) + 1
    <3>1. k \in DOMAIN report /\ report'[k] = report[k]
      BY <1>1, <1>2, <2>2
    <3> QED
      BY <1>3, <3>1 DEF ReportInv, NotTorn
  <2> QED
    BY <2>1, <2>2
<1>4. NotTorn'
  BY <1>3 DEF NotTorn
<1> QED
  BY <1>1, <1>2, <1>4

\* Where nothing is written down and nothing seen is forgotten.
LEMMA ReportStays ==
    ASSUME ReportInv, UNCHANGED report, seen \subseteq seen'
    PROVE  /\ report' \in Seq(Entries) /\ Len(report') <= Len(Fields)
           /\ NotTorn'
  BY DEF ReportInv, ReportTypeOK, NotTorn

LEMMA NewReport ==
    ASSUME report' = <<>>
    PROVE  /\ report' \in Seq(Entries) /\ Len(report') <= Len(Fields)
           /\ NotTorn'
<1>1. Len(report') = 0 /\ DOMAIN report' = {}
  OBVIOUS
<1> QED
  BY <1>1, FieldsFit DEF NotTorn

\* The parts of a transaction.
LEMMA Sending ==
    ASSUME ReportInv, NEW q \in Asked, Sends(q)
    PROVE  /\ wire' \in Seq(Asked) /\ late' \in 0..MaxLate
           /\ late' = 0 => wire' = <<q>> /\ stream = <<>>
<1>1. wire \in Seq(Asked) /\ late \in 0..MaxLate /\ MaxLate \in Nat
  BY ReportAssumption DEF ReportInv, OnWay, ReportTypeOK
<1>2. /\ wire' = Append(wire, q) /\ late' <= MaxLate
      /\ late' = IF wire = <<>> /\ stream = <<>> THEN 0 ELSE late + 1
  BY DEF Sends
<1> HIDE DEF Asked
<1>3. wire' \in Seq(Asked)
  BY <1>1, <1>2
<1>4. late' = 0 => wire = <<>> /\ stream = <<>>
  BY <1>1, <1>2
<1>5. wire = <<>> => Append(wire, q) = <<q>>
  BY <1>1
<1> QED
  BY <1>1, <1>2, <1>3, <1>4, <1>5

LEMMA RestFits ==
    ASSUME NEW n \in Nat, stream \in Seq(Byte), n <= Len(stream)
    PROVE  SubSeq(stream, n + 1, Len(stream)) \in Seq(Byte)
<1> HIDE DEF Byte
<1> QED
  OBVIOUS

LEMMA Receiving ==
    ASSUME ReportInv, NEW n \in Nat, Receives(n)
    PROVE  stream' \in Seq(Byte) /\ late' = late /\ Len(stream) >= n /\ stream[2] < 128
  BY RestFits DEF Receives, ReportInv, ReportTypeOK

LEMMA GivingUp ==
    ASSUME ReportInv, NEW n, GivesUp(n)
    PROVE  stream' = stream /\ late' = late /\ faults' \in 0..MaxFaults
  BY ReportAssumption DEF GivesUp, ReportInv, ReportTypeOK

\* Thirteen numbers, and what is read of one in a stream of bytes.
LEMMA WantedFits ==
    ASSUME ReportInv, More
    PROVE  /\ Wanted.words \in {1, 2} /\ ReplyLength \in Nat
           /\ Len(report) + 1 \in 1..13 /\ Wanted = Fields[Len(report) + 1]
           /\ Question \in Asked
<1>1. Len(report) + 1 \in 1..13
  <2>1. report \in Seq(Entries) /\ Len(report) < 13
    BY FieldsFit DEF ReportInv, ReportTypeOK, More
  <2> DEFINE n == Len(report)
  <2>2. n \in Nat /\ n < 13
    BY <2>1
  <2> HIDE DEF n
  <2>3. n + 1 \in 1..13
    BY <2>2
  <2> QED
    BY <2>3 DEF n
<1>2. Wanted = Fields[Len(report) + 1]
  BY DEF Wanted
<1>3. Wanted.words \in {1, 2}
  BY <1>1, <1>2, FieldsFit
<1>4. ReplyLength \in Nat
  BY <1>3 DEF ReplyLength
<1>5. Question \in Asked
  BY <1>1, <1>2 DEF Question, Asked
<1> QED
  BY <1>1, <1>2, <1>3, <1>4, <1>5

LEMMA WordsOfBytes ==
    ASSUME stream \in Seq(Byte), NEW n \in {1, 2}, Len(stream) >= 5 + 2 * n
    PROVE  Joined(Values(stream, n)) \in Word \X Word
<1>1. ASSUME NEW k \in 1..n PROVE Values(stream, n)[k] \in Word
  <2>1. 2 * k + 2 \in 1..Len(stream) /\ 2 * k + 3 \in 1..Len(stream)
    OBVIOUS
  <2>2. stream[2 * k + 2] \in Byte /\ stream[2 * k + 3] \in Byte
    <3> HIDE DEF Byte
    <3> QED
      BY <2>1
  <2>3. 256 * stream[2 * k + 2] + stream[2 * k + 3] \in Word
    BY <2>2, Joining
  <2> QED
    BY <2>3 DEF Values
<1>2. Len(Values(stream, n)) = n
  BY DEF Values
<1> QED
  BY <1>1, <1>2, Small DEF Joined

LEMMA ReportStep ==
    ASSUME ReportInv, [ReportNext]_reportVars
    PROVE  ReportInv'
<1> DEFINE Log == /\ report' \in Seq(Entries) /\ Len(report') <= Len(Fields) /\ NotTorn'
           Others == /\ serving' \in {"boot", "clock", "compare", "set", "idle", "ask", "wait", "dead"}
                     /\ path' \in ReportPaths
                     /\ registers' \in RegisterFiles /\ seen' \subseteq RegisterFiles
                     /\ changes' \in 0..MaxChanges /\ faults' \in 0..MaxFaults
           Way == /\ wire' \in Seq(Asked) /\ stream' \in Seq(Byte) /\ late' \in 0..MaxLate
           Seen == serving' \in {"ask", "wait"} => registers' \in seen'
           Turn == /\ serving' = "wait" => More'
                   /\ serving' = "wait" /\ late' = 0 => Undisturbed'
<1>1. ASSUME Log, Others, Way, Seen, Turn PROVE ReportInv'
  <2>1. wire' \in Seq([frame : Seq(Byte), meant : Meaning])
    <3> DEFINE T == [frame : Seq(Byte), meant : Meaning]
    <3>1. Asked \subseteq T
      BY AskedFits
    <3> HIDE DEF T, Asked
    <3>2. Seq(Asked) \subseteq Seq(T)
      BY <3>1
    <3> QED
      BY <1>1, <3>2 DEF T
  <2> QED
    BY <1>1, <2>1 DEF ReportInv, ReportTypeOK, OnWay
<1> HIDE DEF Log
<1>2. /\ Id \in Byte /\ DataPaths \subseteq ReportPaths
      /\ RegisterFiles \subseteq [Registers -> Word] /\ Clocks \subseteq [1..3 -> Word]
      /\ ExceptionCodes \subseteq Byte /\ Strays \subseteq 1..13
      /\ Portions \subseteq Nat /\ MaxLate \in Nat
      /\ MaxChanges \in Nat /\ MaxFaults \in Nat
  <2>1. DOMAIN Fields = 1..13
    BY DEF Fields
  <2> QED
    BY <2>1, ReportAssumption
<1>3. /\ serving \in {"boot", "clock", "compare", "set", "idle", "ask", "wait", "dead"}
      /\ path \in ReportPaths
      /\ registers \in RegisterFiles /\ seen \subseteq RegisterFiles
      /\ changes \in 0..MaxChanges /\ faults \in 0..MaxFaults
      /\ stream \in Seq(Byte) /\ late \in 0..MaxLate /\ report \in Seq(Entries)
  BY DEF ReportInv, ReportTypeOK
<1>4. /\ wire \in Seq(Asked)
      /\ serving = "wait" => More
      /\ serving \in {"ask", "wait"} => registers \in seen
      /\ serving = "wait" /\ late = 0 => Undisturbed
  BY DEF ReportInv, OnWay
<1> HIDE DEF Asked
<1>5. ASSUME serving' # "wait" PROVE Turn
  BY <1>5
<1>6. CASE ReadClock
  <2>1. ToRead(3, RtcMinuteSecond, 3) \in Asked
    BY DEF Asked
  <2>2. Way
    BY <1>3, <1>6, <2>1, Sending DEF ReadClock
  <2>3. Log
    BY <1>6, ReportStays DEF ReadClock, Log
  <2>4. Others /\ Seen /\ serving' = "clock"
    BY <1>3, <1>6 DEF ReadClock
  <2> QED
    BY <1>1, <1>5, <2>2, <2>3, <2>4
<1>7. CASE ClockRead
  <2>1. Way /\ faults' \in 0..MaxFaults
    BY <1>3, <1>4, <1>7, Receiving, GivingUp DEF ClockRead
  <2>2. Log
    BY <1>7, ReportStays DEF ClockRead, Log
  <2>3. Others /\ Seen /\ serving' = "compare"
    BY <1>3, <1>7, <2>1 DEF ClockRead
  <2> QED
    BY <1>1, <1>5, <2>1, <2>2, <2>3
<1>8. CASE SetClock
  <2>1. PICK words \in Clocks : Sends(ToWrite(RtcMinuteSecond, words))
    BY <1>8 DEF SetClock
  <2>2. ToWrite(RtcMinuteSecond, words) \in Asked
    BY DEF Asked
  <2>3. Way
    BY <1>3, <1>8, <2>1, <2>2, Sending DEF SetClock
  <2>4. Log
    BY <1>8, ReportStays DEF SetClock, Log
  <2>5. Others /\ Seen /\ serving' = "set"
    BY <1>3, <1>8 DEF SetClock
  <2> QED
    BY <1>1, <1>5, <2>3, <2>4, <2>5
<1>9. CASE ClockSet
  <2>1. Way /\ faults' \in 0..MaxFaults
    BY <1>3, <1>4, <1>9, Receiving, GivingUp DEF ClockSet
  <2>2. Log
    BY <1>9, ReportStays DEF ClockSet, Log
  <2>3. Others /\ Seen /\ serving' = "idle"
    BY <1>3, <1>9, <2>1 DEF ClockSet
  <2> QED
    BY <1>1, <1>5, <2>1, <2>2, <2>3
<1>10. CASE ClockIsRight
  <2>1. Log
    BY <1>10, ReportStays DEF ClockIsRight, Log
  <2>2. Others /\ Way /\ Seen /\ serving' = "idle"
    BY <1>3, <1>4, <1>10 DEF ClockIsRight
  <2> QED
    BY <1>1, <1>5, <2>1, <2>2
<1>11. ASSUME NEW p \in ReportPaths, Request(p) PROVE ReportInv'
  <2>1. Log
    BY <1>11, NewReport DEF Request, Log
  <2>2. Others /\ Way /\ Seen /\ serving' # "wait"
    BY <1>2, <1>3, <1>4, <1>11 DEF Request
  <2> QED
    BY <1>1, <1>5, <2>1, <2>2
<1>12. CASE Ask
  <2>1. /\ serving = "ask" /\ serving' = "wait" /\ More /\ Sends(Question)
        /\ UNCHANGED <<path, stream, report, registers, seen, changes, faults>>
    BY <1>12 DEF Ask, Question
  <2>2. Question \in Asked
    BY <2>1, WantedFits
  <2>3. Way /\ (late' = 0 => wire' = <<Question>> /\ stream' = <<>>)
    BY <1>3, <2>1, <2>2, Sending
  <2>4. More' = More /\ Question' = Question
    BY <2>1 DEF More, Question, Wanted
  <2>5. Turn
    BY <2>1, <2>3, <2>4 DEF Undisturbed
  <2>6. Log
    BY <2>1, ReportStays DEF Log
  <2>7. Others /\ Seen
    BY <1>3, <1>4, <2>1
  <2> QED
    BY <1>1, <2>3, <2>5, <2>6, <2>7
<1>13. CASE Take
  <2>1. /\ serving = "wait" /\ serving' = "ask" /\ Receives(ReplyLength)
        /\ Writes(TRUE, Joined(Values(stream, Wanted.words)))
        /\ UNCHANGED <<path, wire, registers, seen, changes, faults>>
    BY <1>13 DEF Take
  <2>2. More /\ (late = 0 => Undisturbed)
    BY <1>4, <2>1
  <2>3. /\ Wanted.words \in {1, 2} /\ ReplyLength \in Nat
        /\ Len(report) + 1 \in 1..13 /\ Wanted = Fields[Len(report) + 1]
    BY <2>2, WantedFits
  <2>4. stream' \in Seq(Byte) /\ late' = late /\ Len(stream) >= ReplyLength /\ stream[2] < 128
    BY <2>1, <2>3, Receiving
  <2> DEFINE v == Joined(Values(stream, Wanted.words))
             e == [ok |-> TRUE, own |-> late = 0, value |-> v]
  <2>5. v \in Word \X Word
    BY <1>3, <2>3, <2>4, WordsOfBytes DEF ReplyLength
  <2>6. ASSUME late = 0 PROVE \E regs \in seen : v = Held(Wanted, regs)
    <3>1. Len(stream) >= 7
      <4>1. ReplyLength = 7 \/ ReplyLength = 9
        BY <2>3 DEF ReplyLength
      <4>2. Len(stream) \in Nat
        BY <1>3
      <4> QED
        BY <2>4, <4>1, <4>2
    <3>2. stream # <<>> /\ ~(stream[2] >= 128)
      <4>1. stream[2] \in Nat
        <5>1. stream[2] \in Byte
          BY <1>3, <3>1
        <5> QED
          BY <5>1 DEF Byte
      <4>2. stream # <<>>
        BY <3>1
      <4> QED
        BY <2>4, <4>1, <4>2
    <3>3. PICK regs \in seen : stream = ReadReply(Question.frame, regs)
      BY <2>2, <2>6, <3>2 DEF Undisturbed
    <3>4. regs \in [Registers -> Word] /\ Id \in Byte
      BY <1>2, <1>3
    <3> DEFINE k == Len(report) + 1
    <3>5. k \in 1..13 /\ Wanted = Fields[k]
      BY <2>3
    <3>6. Question.frame = ReadRequest(Id, 4, Wanted.address, Wanted.words)
      BY DEF Question, ToRead
    <3> HIDE DEF k
    <3>7. Joined(Values(ReadReply(ReadRequest(Id, 4, Fields[k].address, Fields[k].words), regs),
                        Fields[k].words)) = Held(Fields[k], regs)
      BY <3>4, <3>5, ReplyIsHeld
    <3>8. v = Held(Wanted, regs)
      BY <3>3, <3>5, <3>6, <3>7
    <3> QED
      BY <3>8
  <2>7. e \in Entries
    <3> HIDE DEF v
    <3> QED
      BY <2>5 DEF Entries
  <2>8. report' = Append(report, e)
    BY <2>1 DEF Writes
  <2>9. e.own = (late = 0) /\ e.value = v
    OBVIOUS
  <2> HIDE DEF e, v
  <2>10. Log
    BY <2>1, <2>2, <2>6, <2>7, <2>8, <2>9, AppendKeeps DEF Log
  <2>11. Others /\ Way /\ Seen
    BY <1>3, <1>4, <2>1, <2>4
  <2> QED
    BY <1>1, <1>5, <2>1, <2>10, <2>11
<1>14. CASE ReadFails
  <2> DEFINE e == [ok |-> FALSE, own |-> late = 0, value |-> <<0, 0>>]
  <2>1. /\ serving = "wait" /\ serving' = "ask" /\ GivesUp(ReplyLength)
        /\ UNCHANGED <<path, wire, registers, seen, changes>>
        /\ report' = Append(report, e)
    BY <1>14 DEF ReadFails, Writes
  <2>2. More
    BY <1>4, <2>1
  <2>3. e \in Entries /\ ~e.ok
    BY Small DEF Entries
  <2> HIDE DEF e
  <2>4. Log
    BY <2>1, <2>2, <2>3, AppendKeeps DEF Log
  <2>5. stream' = stream /\ late' = late /\ faults' \in 0..MaxFaults
    BY <2>1, GivingUp
  <2>6. Others /\ Way /\ Seen
    BY <1>3, <1>4, <2>1, <2>5
  <2> QED
    BY <1>1, <1>5, <2>1, <2>4, <2>6
<1>15. CASE Exception
  <2>1. stream' \in Seq(Byte)
    <3>1. stream' = SubSeq(stream, 3 + 1, Len(stream)) /\ 3 <= Len(stream)
      BY <1>3, <1>15 DEF Exception
    <3> QED
      BY <1>3, <3>1, RestFits
  <2>2. Log
    BY <1>15, NewReport DEF Exception, Log
  <2>3. Others /\ Way /\ Seen /\ serving' = "dead"
    BY <1>3, <1>4, <1>15, <2>1 DEF Exception
  <2> QED
    BY <1>1, <1>5, <2>2, <2>3
<1>16. CASE Respond
  <2>1. Log
    BY <1>16, ReportStays DEF Respond, Log
  <2>2. Others /\ Way /\ Seen /\ serving' = "idle"
    BY <1>3, <1>4, <1>16 DEF Respond
  <2> QED
    BY <1>1, <1>5, <2>1, <2>2
<1>17. CASE Reborn
  <2>1. Log
    BY <1>17, ReportStays DEF Reborn, Log
  <2>2. Others /\ Way /\ Seen /\ serving' = "boot"
    BY <1>3, <1>4, <1>17 DEF Reborn
  <2> QED
    BY <1>1, <1>5, <2>1, <2>2
<1>18. ASSUME wire # <<>>
      PROVE  Head(wire) \in Asked /\ Tail(wire) \in Seq(Asked)
  BY <1>4, <1>18
<1>19. ASSUME wire # <<>>, wire' = Tail(wire), serving = "wait", late = 0
      PROVE  wire = <<Question>> /\ stream = <<>> /\ wire' = <<>> /\ Head(wire) = Question
  <2>1. wire = <<Question>> /\ stream = <<>>
    BY <1>4, <1>19 DEF Undisturbed
  <2> QED
    BY <1>19, <2>1
<1>20. CASE Reply
  <2>1. /\ wire # <<>> /\ wire' = Tail(wire)
        /\ UNCHANGED <<serving, path, late, report, registers, seen, changes, faults>>
    BY <1>20 DEF Reply
  <2>2. PICK clock \in Clocks : stream' = stream \o ReplyTo(Head(wire).frame, clock)
    BY <1>20 DEF Reply, Oldest
  <2>3. ReplyTo(Head(wire).frame, clock) \in Seq(Byte)
    <3>1. PICK q \in Asked : q = Head(wire)
      BY <1>18, <2>1
    <3>2. registers \in [Registers -> Word]
      BY <1>2, <1>3
    <3> QED
      BY <3>1, <3>2, ReplyIsBytes
  <2>4. Way
    <3> DEFINE r == ReplyTo(Head(wire).frame, clock)
    <3>1. r \in Seq(Byte) /\ stream' = stream \o r
      BY <2>2, <2>3
    <3> HIDE DEF r, Byte
    <3>2. stream' \in Seq(Byte)
      BY <1>3, <3>1
    <3> QED
      BY <1>3, <1>18, <2>1, <3>2
  <2>5. Turn
    <3>1. serving' = "wait" => More'
      BY <1>4, <2>1 DEF More
    <3>2. ASSUME serving = "wait", late = 0 PROVE Undisturbed'
      <4>1. wire' = <<>> /\ stream = <<>> /\ Head(wire) = Question
        BY <1>19, <2>1, <3>2
      <4> DEFINE r == ReadReply(Question.frame, registers)
      <4>2. ReplyTo(Question.frame, clock) = r
        <5>1. More
          BY <1>4, <3>2
        <5>2. Question.frame[2] = 4
          <6>1. PICK k \in 1..13 : Wanted = Fields[k]
            BY <5>1, WantedFits
          <6>2. Wanted.address \in Word /\ Wanted.words \in Word /\ Id \in Byte
            BY <1>2, <6>1, FieldsFit, Small
          <6> QED
            BY <6>2, ToReadFits DEF Question
        <5> QED
          BY <5>2 DEF ReplyTo
      <4>3. r \in Seq(Byte) /\ stream' = <<>> \o r
        BY <2>2, <2>3, <4>1, <4>2
      <4>4. stream' = r
        <5> HIDE DEF r, Byte
        <5> QED
          BY <4>3
      <4>5. registers \in seen /\ seen' = seen /\ Question' = Question
        BY <1>4, <2>1, <3>2 DEF Question, Wanted
      <4> QED
        BY <4>1, <4>4, <4>5 DEF Undisturbed
    <3> QED
      BY <2>1, <3>1, <3>2
  <2>6. Log
    BY <2>1, ReportStays DEF Log
  <2>7. Others /\ Seen
    BY <1>3, <1>4, <2>1
  <2> QED
    BY <1>1, <2>4, <2>5, <2>6, <2>7
<1>21. CASE ReplyFails
  <2>1. /\ wire # <<>> /\ wire' = Tail(wire) /\ faults < MaxFaults /\ faults' = faults + 1
        /\ UNCHANGED <<serving, path, late, report, registers, seen, changes>>
    BY <1>21 DEF ReplyFails
  <2>2. PICK q \in Asked : q = Head(wire)
    BY <1>18, <2>1
  <2>3. \/ stream' = stream
        \/ \E e \in Seq(Byte) : e[2] >= 128 /\ <<>> \o e = e /\ stream' = stream \o e
    <3>1. CASE stream' = stream
      BY <3>1
    <3>2. CASE \E code \in ExceptionCodes :
                  stream' = stream \o Sealed(<<Oldest[1], Oldest[2] + 128, code>>)
      <4>1. PICK code \in ExceptionCodes :
                  stream' = stream \o Sealed(<<q.frame[1], q.frame[2] + 128, code>>)
        BY <2>2, <3>2 DEF Oldest
      <4> DEFINE e == Sealed(<<q.frame[1], q.frame[2] + 128, code>>)
      <4>2. e \in Seq(Byte) /\ e[2] >= 128 /\ <<>> \o e = e
        BY ExceptionFits
      <4>3. stream' = stream \o e
        BY <4>1
      <4> HIDE DEF e
      <4> QED
        BY <4>2, <4>3
    <3> QED
      BY <1>21, <3>1, <3>2 DEF ReplyFails
  <2>4. Way
    <3>1. stream' \in Seq(Byte)
      <4>1. ASSUME NEW e \in Seq(Byte) PROVE stream \o e \in Seq(Byte)
        <5>1. stream \in Seq(Byte)
          BY <1>3
        <5> HIDE DEF Byte
        <5> QED
          BY <5>1
      <4> QED
        BY <1>3, <2>3, <4>1
    <3> QED
      BY <1>3, <1>18, <2>1, <3>1
  <2>5. Turn
    <3>1. serving' = "wait" => More'
      BY <1>4, <2>1 DEF More
    <3>2. ASSUME serving = "wait", late = 0 PROVE Undisturbed'
      <4>1. wire' = <<>> /\ stream = <<>>
        BY <1>19, <2>1, <3>2
      <4>2. stream' = <<>> \/ stream'[2] >= 128
        BY <2>3, <4>1
      <4> QED
        BY <4>1, <4>2 DEF Undisturbed
    <3> QED
      BY <2>1, <3>1, <3>2
  <2>6. Log
    BY <2>1, ReportStays DEF Log
  <2>7. faults' \in 0..MaxFaults
    BY <1>2, <1>3, <2>1
  <2>8. Others /\ Seen
    BY <1>3, <1>4, <2>1, <2>7
  <2> QED
    BY <1>1, <2>4, <2>5, <2>6, <2>8
<1>22. ASSUME NEW k \in Strays, Stray(k) PROVE ReportInv'
  <2> DEFINE q == ToRead(4, Fields[k].address, Fields[k].words)
  <2>1. q \in Asked
    <3>1. k \in 1..13
      BY <1>2
    <3> QED
      BY <3>1 DEF Asked
  <2>2. /\ ~Waiting /\ faults < MaxFaults /\ faults' = faults + 1 /\ wire' = Append(wire, q)
        /\ UNCHANGED <<serving, path, stream, late, report, registers, seen, changes>>
    BY <1>22 DEF Stray
  <2> HIDE DEF q
  <2>3. wire' \in Seq(Asked)
    BY <1>4, <2>1, <2>2
  <2>4. Log
    BY <2>2, ReportStays DEF Log
  <2>5. faults' \in 0..MaxFaults
    BY <1>2, <1>3, <2>2
  <2>6. Others /\ Way /\ Seen /\ serving' # "wait"
    BY <1>3, <1>4, <2>2, <2>3, <2>5 DEF Waiting
  <2> QED
    BY <1>1, <1>5, <2>4, <2>6
<1>23. CASE Vanish
  <2>1. /\ ~Waiting
        /\ UNCHANGED <<serving, path, wire, late, report, registers, seen, changes, faults>>
    BY <1>23 DEF Vanish
  <2>2. PICK n \in {m \in Portions : m <= Len(stream)} \union {Len(stream)} :
          stream' = SubSeq(stream, n + 1, Len(stream))
    BY <1>23 DEF Vanish
  <2>3. n \in Nat /\ n <= Len(stream)
    BY <1>2, <1>3
  <2>4. stream' \in Seq(Byte)
    BY <1>3, <2>2, <2>3, RestFits
  <2>5. Log
    BY <2>1, ReportStays DEF Log
  <2>6. Others /\ Way /\ Seen /\ serving' # "wait"
    BY <1>3, <1>4, <2>1, <2>4 DEF Waiting
  <2> QED
    BY <1>1, <1>5, <2>5, <2>6
<1>24. CASE Change
  <2>1. /\ registers' \in RegisterFiles /\ seen' = seen \union {registers'}
        /\ UNCHANGED <<serving, path, wire, stream, late, report, faults>>
    BY <1>24 DEF Change
  <2>2. Log
    BY <2>1, ReportStays DEF Log
  <2>3. changes' \in 0..MaxChanges
    BY <1>2, <1>3, <1>24 DEF Change
  <2>4. Others /\ Way /\ Seen
    BY <1>3, <1>4, <2>1, <2>3
  <2>5. Turn
    <3>1. More' = More /\ Question' = Question /\ seen \subseteq seen'
      BY <2>1 DEF More, Question, Wanted
    <3> QED
      BY <1>4, <2>1, <3>1 DEF Undisturbed
  <2> QED
    BY <1>1, <2>2, <2>4, <2>5
<1>25. CASE UNCHANGED reportVars
  <2>1. UNCHANGED <<serving, path, wire, stream, late, report, registers, seen, changes, faults>>
    BY <1>25 DEF reportVars
  <2>2. Log
    BY <2>1, ReportStays DEF Log
  <2>3. Others /\ Way /\ Seen
    BY <1>3, <1>4, <2>1
  <2>4. Turn
    BY <1>4, <2>1 DEF Undisturbed, Question, Wanted, More
  <2> QED
    BY <1>1, <2>2, <2>3, <2>4
<1> QED
  BY <1>6, <1>7, <1>8, <1>9, <1>10, <1>11, <1>12, <1>13, <1>14, <1>15, <1>16, <1>17,
     <1>20, <1>21, <1>22, <1>23, <1>24, <1>25
     DEF ReportNext

LEMMA RequestsHold == ReportInv => RequestsAccepted
<1> SUFFICES ASSUME ReportInv, NEW k \in DOMAIN wire
             PROVE  Accepted(wire[k].frame) /\ Heard(wire[k].frame) = wire[k].meant
  BY DEF RequestsAccepted
<1>1. wire[k] \in Asked
  <2> HIDE DEF Asked
  <2> QED
    BY DEF ReportInv, OnWay
<1> QED
  BY <1>1, AskedFits

-----------------------------------------------------------------------------
THEOREM ReportInvariance == ReportSpec => []ReportInv
<1>1. ReportInit => ReportInv
  BY ReportInitHolds
<1>2. ReportInv /\ [ReportNext]_reportVars => ReportInv'
  BY ReportStep
<1> QED
  BY <1>1, <1>2, PTL DEF ReportSpec

\* The types of a report; all that goes over the wire are bytes.
THEOREM ReportTypeCorrect == ReportSpec => []ReportTypeOK
BY ReportInvariance, PTL DEF ReportInv

\* Whatever the registers hold, however often they change, whichever of the
\* transactions fail and whatever they or other clients leave on the way: every
\* number whose transaction began with nothing there was in its registers at one
\* moment of the request.
THEOREM NumbersAreNotTorn == ReportSpec => []NotTorn
BY ReportInvariance, PTL DEF ReportInv

\* Whatever the register is, whatever time is set and whichever number is asked
\* for: the charge controller finds the check sum of the request right, and takes
\* it for what readVariable() or writeRawVariable() was called with.
THEOREM RequestsAreAccepted == ReportSpec => []RequestsAccepted
BY ReportInvariance, RequestsHold, PTL

-----------------------------------------------------------------------------
(* The clock: fixTime(). *)

\* What a read returned, and what a write left, lags behind the clock by no more
\* than the time that has passed since the local clock was looked at.
Lag ==
    /\ now >= Day
    /\ pc # "start" => local >= Day /\ local <= now
    /\ pc \in {"start", "read", "compare", "write"} => ~wrote
    /\ pc \in {"compare", "write", "done"} /\ ~wrote /\ remote # Zeros
           => remote <= rtc /\ rtc - remote <= now - local
    /\ wrote => local <= rtc /\ rtc <= now

ClockInv == RtcTypeOK /\ Lag

-----------------------------------------------------------------------------
\* Clocks the condition lets pass are as close as their times of day.
LEMMA NotDifferent ==
    ASSUME NEW x \in Nat, NEW y \in Nat, ~Differ(x, y)
    PROVE  Distance(x, y) <= Tolerance
<1>1. Day \in Nat /\ Day > 0 /\ Tolerance \in Nat
  BY RtcAssumption
<1>2. x = Day * (x \div Day) + (x % Day) /\ y = Day * (y \div Day) + (y % Day)
  BY <1>1
<1>3. x \div Day = y \div Day /\ Distance(x % Day, y % Day) <= Tolerance
  BY <1>1 DEF Differ, Date, TimeOfDay, Distance
<1>4. Distance(x, y) = Distance(x % Day, y % Day)
  BY <1>1, <1>2, <1>3 DEF Distance
<1> QED
  BY <1>3, <1>4

\* The zeros of a failed read are never taken for the date of today.
LEMMA ZerosDiffer ==
    ASSUME NEW x \in Nat, x >= Day
    PROVE  Differ(x, Zeros)
<1>1. Day \in Nat /\ Day > 0
  BY RtcAssumption
<1>2. x \div Day >= 1 /\ 0 \div Day = 0
  BY <1>1
<1> QED
  BY <1>2 DEF Differ, Date, Zeros

-----------------------------------------------------------------------------
LEMMA ClockInit == RtcInit => ClockInv
<1> SUFFICES ASSUME RtcInit PROVE ClockInv
  OBVIOUS
<1>1. now \in Nat /\ now >= Day /\ rtc \in Nat
  BY RtcAssumption DEF RtcInit
<1> QED
  BY <1>1 DEF RtcInit, ClockInv, RtcTypeOK, Lag, Zeros

LEMMA ClockStep ==
    ASSUME ClockInv, [RtcNext]_rtcVars
    PROVE  ClockInv'
<1>0. Day \in Nat
  BY RtcAssumption
<1> USE <1>0 DEF ClockInv, RtcTypeOK, Lag
<1>1. CASE Capture
  BY <1>1 DEF Capture
<1>2. CASE ReadRtc
  <2>1. /\ pc = "read" /\ pc' = "compare" /\ remote' \in {rtc, Zeros}
        /\ UNCHANGED <<now, rtc, local>>
    BY <1>2 DEF ReadRtc
  <2>2. ~wrote /\ ~wrote' /\ wrote' \in BOOLEAN
    BY <1>2 DEF ReadRtc
  <2>3. CASE remote' = rtc
    BY <2>1, <2>2, <2>3
  <2>4. CASE remote' = Zeros
    <3>1. remote' = Zeros' /\ remote' \in Nat
      BY <2>4 DEF Zeros
    <3> QED
      BY <2>1, <2>2, <3>1
  <2> QED
    BY <2>1, <2>3, <2>4
<1>3. CASE Compare
  <2>1. pc' \in {"write", "done"} /\ UNCHANGED <<now, rtc, local, remote>>
    BY <1>3 DEF Compare
  <2>2. pc = "compare" /\ ~wrote /\ ~wrote' /\ wrote' \in BOOLEAN
    BY <1>3 DEF Compare
  <2> QED
    BY <2>1, <2>2
<1>4. CASE WriteRtc
  <2>1. pc = "write" /\ pc' = "done" /\ UNCHANGED <<now, local, remote>> /\ ~wrote
    BY <1>4 DEF WriteRtc
  <2>2. CASE rtc' = local /\ wrote' = TRUE
    BY <2>1, <2>2
  <2>3. CASE UNCHANGED <<rtc, wrote>>
    <3>1. ~wrote' /\ wrote' \in BOOLEAN
      BY <2>1, <2>3
    <3> QED
      BY <2>1, <2>3, <3>1
  <2> QED
    BY <1>4, <2>2, <2>3 DEF WriteRtc
<1>5. CASE Tick
  <2>1. now' = now + 1 /\ rtc' = rtc + 1 /\ UNCHANGED <<pc, local, remote>>
    BY <1>5 DEF Tick
  <2>2. ~wrote /\ ~wrote' /\ wrote' \in BOOLEAN
    BY <1>5 DEF Tick
  <2> QED
    BY <2>1, <2>2
<1>6. CASE UNCHANGED rtcVars
  <2>1. (wrote' <=> wrote) /\ wrote' \in BOOLEAN
    BY <1>6 DEF rtcVars
  <2> QED
    BY <1>6, <2>1 DEF rtcVars
<1> QED
  BY <1>1, <1>2, <1>3, <1>4, <1>5, <1>6 DEF RtcNext, Rest

LEMMA OutcomeIsSynced == ClockInv => Synced
<1> SUFFICES ASSUME ClockInv, pc = "done", wrote \/ ~Differ(local, remote)
             PROVE  Distance(now, rtc) <= Tolerance + Waited
  BY DEF Synced
<1>1. /\ now \in Nat /\ rtc \in Nat /\ local \in Nat /\ remote \in Nat
      /\ local >= Day /\ local <= now /\ Tolerance \in Nat
  BY RtcAssumption DEF ClockInv, RtcTypeOK, Lag
<1>2. CASE wrote
  BY <1>1, <1>2 DEF ClockInv, Lag, Distance, Waited
<1>3. CASE ~wrote
  <2>1. Distance(local, remote) <= Tolerance
    BY <1>1, <1>3, NotDifferent
  <2>2. remote # Zeros
    BY <1>1, <1>3, ZerosDiffer
  <2>3. remote <= rtc /\ rtc - remote <= now - local
    BY <1>3, <2>2 DEF ClockInv, Lag
  <2> QED
    BY <1>1, <2>1, <2>3 DEF Distance, Waited
<1> QED
  BY <1>2, <1>3

THEOREM ClockInvariance == RtcSpec => []ClockInv
<1>1. RtcInit => ClockInv
  BY ClockInit
<1>2. ClockInv /\ [RtcNext]_rtcVars => ClockInv'
  BY ClockStep
<1> QED
  BY <1>1, <1>2, PTL DEF RtcSpec

\* The types of fixTime() and of the controller's clock.
THEOREM ClockTypeCorrect == RtcSpec => []RtcTypeOK
BY ClockInvariance, PTL DEF ClockInv

\* However long the bus takes, wherever midnight falls and whether or not the
\* read fails: when fixTime() is done and has not lost its write, the clock of
\* the controller is right up to the tolerance and the time the bus took.
THEOREM ClockIsSynced == RtcSpec => []Synced
BY ClockInvariance, OutcomeIsSynced, PTL

-----------------------------------------------------------------------------

\* get() has only passed tables that it was not asked for: what it was to find
\* when it began is still in front of it.
StillAhead == http = "walk" => \A t \in 1..there : Tables[t] = request.name => t <= place

\* What toXML() is called on is a table.
FoundIsTable == http = "found" => place \in 1..Len(Tables)

\* run() deletes what nobody looks at any more.
NobodyLooks == main \in {"delete", "returned"} => http = "ended"

ServiceInv == ServiceTypeOK /\ StillAhead /\ FoundIsTable /\ NobodyLooks

LEMMA LenIsNat == Len(Tables) \in Nat /\ DOMAIN Tables = 1..Len(Tables)
  BY ServiceAssumption

LEMMA ServiceInitHolds == ServiceInit => ServiceInv
<1> SUFFICES ASSUME ServiceInit PROVE ServiceInv
    OBVIOUS
<1>1. request \in Requests /\ answer \in [code : {0, 200, 404}, entries : 0..MaxRecords]
    BY ServiceAssumption DEF ServiceInit, NoAnswer
<1>2. records \in [DOMAIN Tables -> 0..MaxRecords]
    BY ServiceAssumption DEF ServiceInit
<1>3. quit \in BOOLEAN /\ stored \in SUBSET {"next", "list"}
    BY DEF ServiceInit
<1>4. 0 \in 0..Len(Tables) /\ 0 \in 0..Wild
    BY LenIsNat DEF Wild
<1>5. ServiceTypeOK
    BY <1>1, <1>2, <1>3, <1>4 DEF ServiceInit, ServiceTypeOK, Null
<1> QED
    BY <1>5 DEF ServiceInit, ServiceInv, StillAhead, FoundIsTable, NobodyLooks

LEMMA MainThreadKeeps == ServiceInv /\ MainThread => ServiceInv'
<1> SUFFICES ASSUME ServiceInv, MainThread PROVE ServiceInv'
    OBVIOUS
<1> USE LenIsNat, ServiceAssumption
      DEF ServiceInv, ServiceTypeOK, StillAhead, FoundIsTable, NobodyLooks
<1>1. ASSUME NEW what \in {"next", "list"}, Store(what) PROVE ServiceInv'
    BY <1>1, SMTT(30) DEF Store
<1>2. CASE Made
    BY <1>2 DEF Made, Goes
<1>3. CASE SetUp
    BY <1>3 DEF SetUp
<1>4. CASE StartsPolling
    BY <1>4 DEF StartsPolling, Goes
<1>5. CASE Poll
    BY <1>5, SMTT(30) DEF Poll
<1>10. CASE PollDies
    BY <1>10 DEF PollDies
<1>6. CASE StopsPolling
    BY <1>6 DEF StopsPolling
<1>7. CASE Join
    BY <1>7 DEF Join
<1>8. CASE Delete
    BY <1>8 DEF Delete
<1>9. CASE Returns
    BY <1>9 DEF Returns, Goes
<1> QED
    BY <1>1, <1>2, <1>3, <1>4, <1>5, <1>6, <1>7, <1>8, <1>9, <1>10 DEF MainThread

LEMMA DyingKeeps == ServiceInv /\ Dying => ServiceInv'
  BY DEF Dying, ServiceInv, ServiceTypeOK, StillAhead, FoundIsTable, NobodyLooks, Requests

\* An answer of any document of the window leaves the HTTP thread in accept().
LEMMA AnswerKeeps ==
    ASSUME ServiceInv, main \notin {"delete", "returned"},
           NEW a \in [code : {0, 200, 404}, entries : 0..MaxRecords], Answers(a)
    PROVE  ServiceInv'
  BY LenIsNat DEF Answers, ServiceInv, ServiceTypeOK, StillAhead, FoundIsTable, NobodyLooks, Null, Wild

\* The head of the list is no older than the last table that is linked.
LEMMA HeadIsAhead ==
    ServiceTypeOK => c_list \in Linked..Wild /\ Linked \in 0..Len(Tables)
  BY LenIsNat DEF ServiceTypeOK, c_list, Linked, Wild

LEMMA HttpThreadKeeps == ServiceInv /\ HttpThread => ServiceInv'
<1> SUFFICES ASSUME ServiceInv, HttpThread PROVE ServiceInv'
    OBVIOUS
<1> USE LenIsNat, ServiceAssumption
<1>1. CASE Serve
    BY <1>1 DEF Serve, Alive, ServiceInv, ServiceTypeOK, StillAhead, FoundIsTable, NobodyLooks
<1>2. CASE Parse
  <2>1. CASE ~request.number
      BY <1>2, <2>1, DyingKeeps DEF Parse
  <2>2. CASE request.number
    <3>1. /\ http' = "walk" /\ place' = c_list /\ there' = Linked
          /\ UNCHANGED <<main, count, stored, request, answer, records, quit>>
          /\ main \notin {"delete", "returned"}
        BY <1>2, <2>2 DEF Parse, Alive, ServiceInv, NobodyLooks
    <3>2. c_list \in Linked..Wild /\ Linked \in 0..Len(Tables)
        BY HeadIsAhead DEF ServiceInv
    <3>3. ServiceTypeOK' /\ FoundIsTable' /\ NobodyLooks'
        BY <3>1, <3>2, Zenon, SMT DEF ServiceInv, ServiceTypeOK, FoundIsTable, NobodyLooks, Wild
    <3>4. StillAhead'
        BY <3>1, <3>2 DEF StillAhead, Wild
    <3> QED
        BY <3>3, <3>4 DEF ServiceInv
  <2> QED
      BY <2>1, <2>2 DEF ServiceInv, ServiceTypeOK, Requests
<1>3. CASE WalkOn
  <2>1. Alive /\ http = "walk" /\ main \notin {"delete", "returned"}
      BY <1>3 DEF WalkOn, ServiceInv, NobodyLooks
  <2>2. CASE place = Null
    <3>1. Answers(NotFound) /\ NotFound \in [code : {0, 200, 404}, entries : 0..MaxRecords]
        BY <1>3, <2>2 DEF WalkOn, NotFound, Null, Wild
    <3> QED
        BY <2>1, <3>1, AnswerKeeps
  <2>3. CASE place = Wild
    <3>1. Dying
        BY <1>3, <2>3 DEF WalkOn, Wild, Null
    <3> QED
        BY <3>1, DyingKeeps
  <2>4. CASE place \notin {Null, Wild}
    <3>1. place \in 1..Len(Tables)
        BY SMTT(30), <2>4 DEF ServiceInv, ServiceTypeOK, Null, Wild
    <3>2. CASE Tables[place] = request.name
      <4>1. http' = "found" /\ UNCHANGED <<main, count, stored, request, place, there, answer, records, quit>>
          BY <1>3, <2>4, <3>2 DEF WalkOn
      <4> QED
          BY <2>1, <3>1, <4>1 DEF ServiceInv, ServiceTypeOK, StillAhead, FoundIsTable, NobodyLooks
    <3>3. CASE Tables[place] # request.name
      <4>1. place' = NextOf(place) /\ UNCHANGED <<main, count, stored, http, request, there, answer, records, quit>>
          BY <1>3, <2>4, <3>3 DEF WalkOn
      <4>2. place' = Wild \/ place' = place - 1
          BY <4>1 DEF NextOf
      <4>3. ServiceTypeOK' /\ FoundIsTable' /\ NobodyLooks'
          BY <2>1, <3>1, <4>1, <4>2 DEF ServiceInv, ServiceTypeOK, FoundIsTable, NobodyLooks, Wild
      <4>4. ASSUME NEW t \in 1..there, Tables[t] = request.name PROVE t <= place'
        <5>1. t <= place /\ t # place /\ t <= Len(Tables)
            BY <2>1, <3>1, <3>3, <4>4 DEF ServiceInv, ServiceTypeOK, StillAhead
        <5> QED
            BY <3>1, <4>2, <5>1 DEF Wild
      <4>5. StillAhead'
          BY <4>1, <4>4 DEF StillAhead
      <4> QED
          BY <4>3, <4>5 DEF ServiceInv
    <3> QED
        BY <3>2, <3>3
  <2> QED
      BY <2>2, <2>3, <2>4
<1>4. CASE Found
  <2>1. main \notin {"delete", "returned"} /\ place \in 1..Len(Tables) /\ records[place] \in 0..MaxRecords
      BY <1>4 DEF Found, ServiceInv, ServiceTypeOK, FoundIsTable, NobodyLooks
  <2>2. PICK n \in Shown :
          CASE request.ext = "html" -> Answers(NotFound)
            [] request.ext = "json" /\ n \in Deadly -> Dying
            [] OTHER -> Answers([code |-> 200, entries |-> n])
      BY <1>4 DEF Found
  <2>3. n \in 0..MaxRecords
      BY <2>1, <2>2 DEF Shown
  <2>4. {NotFound, [code |-> 200, entries |-> n]} \subseteq [code : {0, 200, 404}, entries : 0..MaxRecords]
      BY <2>3 DEF NotFound
  <2>5. Answers(NotFound) \/ Dying \/ Answers([code |-> 200, entries |-> n])
      BY <2>2
  <2> QED
      BY <2>1, <2>4, <2>5, AnswerKeeps, DyingKeeps
<1>5. CASE LeavesAccept
    BY <1>5 DEF LeavesAccept, ServiceInv, ServiceTypeOK, StillAhead, FoundIsTable, NobodyLooks
<1> QED
    BY <1>1, <1>2, <1>3, <1>4, <1>5 DEF HttpThread

LEMMA OthersKeep ==
    ServiceInv /\ ((\E r \in Requests : Get(r)) \/ Quit \/ ServiceReborn \/ Ended) => ServiceInv'
<1> SUFFICES ASSUME ServiceInv, (\E r \in Requests : Get(r)) \/ Quit \/ ServiceReborn \/ Ended
             PROVE  ServiceInv'
    OBVIOUS
<1> USE LenIsNat, ServiceAssumption
      DEF ServiceInv, ServiceTypeOK, StillAhead, FoundIsTable, NobodyLooks
<1>1. ASSUME NEW r \in Requests, Get(r) PROVE ServiceInv'
  <2>1. answer' \in [code : {0, 200, 404}, entries : 0..MaxRecords] /\ request' \in Requests
      BY <1>1 DEF Get, NoAnswer
  <2> QED
      BY <1>1, <2>1 DEF Get, Alive
<1>2. CASE Quit
    BY <1>2 DEF Quit
<1>3. CASE ServiceReborn
  <2>1. 0 \in 0..Len(Tables) /\ 0 \in 0..Wild
      BY DEF Wild
  <2>2. quit' \in BOOLEAN /\ stored' \in SUBSET {"next", "list"}
      BY <1>3 DEF ServiceReborn, Born
  <2>3. answer' \in [code : {0, 200, 404}, entries : 0..MaxRecords]
      BY <1>3 DEF ServiceReborn, NoAnswer
  <2>4. ServiceTypeOK'
      BY <1>3, <2>1, <2>2, <2>3, Zenon DEF ServiceReborn, Born, Null
  <2> QED
      BY <1>3, <2>4 DEF ServiceReborn, Born
<1>4. CASE Ended
    BY <1>4 DEF Ended, serviceVars
<1> QED
    BY <1>1, <1>2, <1>3, <1>4

LEMMA StutterKeeps == ServiceInv /\ UNCHANGED serviceVars => ServiceInv'
  BY DEF serviceVars, ServiceInv, ServiceTypeOK, StillAhead, FoundIsTable, NobodyLooks

LEMMA ServiceInvariance == ServiceSpec => []ServiceInv
<1>1. ServiceInv /\ [ServiceNext]_serviceVars => ServiceInv'
    BY MainThreadKeeps, HttpThreadKeeps, OthersKeep, StutterKeeps DEF ServiceNext
<1> QED
    BY ServiceInitHolds, <1>1, PTL DEF ServiceSpec

-----------------------------------------------------------------------------

\* Types of the two threads of history, the place in the list included: what is
\* not a table is the end of the list or the memory of a table not yet linked.
THEOREM ServiceTypeCorrect == ServiceSpec => []ServiceTypeOK
<1>1. ServiceInv => ServiceTypeOK
    BY DEF ServiceInv
<1> QED
    BY ServiceInvariance, <1>1, PTL

LEMMA NothingDeleted == ServiceInv => NoUseAfterFree
    BY LenIsNat DEF ServiceInv, NobodyLooks, NoUseAfterFree, Gone, Deleted

LEMMA AllFound == ServiceInv => FindsWhatIsThere
    BY LenIsNat DEF ServiceInv, ServiceTypeOK, StillAhead, FindsWhatIsThere, Null

\* HistoryTable::get() and toXML() never look into a table that the end of
\* run() has deleted, wherever the two threads are when the service has to quit.
THEOREM NoTableIsUsedDeleted == ServiceSpec => []NoUseAfterFree
    BY ServiceInvariance, NothingDeleted, PTL

\* HistoryTable::get() returns NULL only for a table that was not linked when
\* it began, whatever the constructors link, or half link, in the meantime.
THEOREM LinkedIsFound == ServiceSpec => []FindsWhatIsThere
    BY ServiceInvariance, AllFound, PTL

-----------------------------------------------------------------------------
(* The documents of the services are made of tokens. *)

Doc(d) == IsSeq(d) /\ Tokens(d)

LEMMA DocOne == Doc(<<>>) /\ \A tk : IsToken(tk) => Doc(<<tk>>)
<1>1. Tokens(<<>>)
  <2>1. Len(<<>>) = 0 /\ 0 \in Nat /\ 1..0 = {}
    BY EmptySeq
  <2> QED
    BY <2>1 DEF Tokens
<1>2. ASSUME NEW tk, IsToken(tk) PROVE Tokens(<<tk>>)
  <2>1. PICK d : d = <<tk>>
    OBVIOUS
  <2>2. Len(d) = 1 /\ d[1] = tk
    BY <2>1
  <2>3. 1 \in Nat /\ 1 = Len(d) /\ \A k \in 1..1 : IsToken(d[k])
    BY <1>2, <2>2
  <2>4. Tokens(d)
    BY <2>3 DEF Tokens
  <2> QED
    BY <2>1, <2>4
<1> QED
  BY <1>1, <1>2, ShortIsSeq DEF Doc

LEMMA DocJoined == ASSUME NEW s, NEW t, Doc(s), Doc(t) PROVE Doc(s \o t)
<1>1. PICK m \in Nat : m = Len(s) /\ \A k \in 1..m : IsToken(s[k])
  BY DEF Doc, Tokens
<1>2. PICK n \in Nat : n = Len(t) /\ \A k \in 1..n : IsToken(t[k])
  BY DEF Doc, Tokens
<1>3. PICK u : u = s \o t
  OBVIOUS
<1>4. /\ IsSeq(u) /\ Len(u) = m + n
      /\ \A k \in 1..m : u[k] = s[k]
      /\ \A k \in 1..n : u[m + k] = t[k]
  BY <1>1, <1>2, <1>3, JoinedIsSeq DEF Doc
<1>5. ASSUME NEW k \in 1..(m + n) PROVE IsToken(u[k])
  <2>1. CASE k \in 1..m
    BY <1>1, <1>4, <2>1
  <2>2. CASE k \notin 1..m
    <3>1. k - m \in 1..n /\ m + (k - m) = k
      BY <2>2
    <3> QED
      BY <1>2, <1>4, <3>1
  <2> QED
    BY <2>1, <2>2
<1>6. m + n \in Nat
  OBVIOUS
<1>7. Tokens(u)
  BY <1>4, <1>5, <1>6 DEF Tokens
<1> QED
  BY <1>3, <1>4, <1>7 DEF Doc

LEMMA DocFlattened ==
    ASSUME NEW n \in Nat, NEW seqs, seqs = [k \in 1..n |-> seqs[k]], \A k \in 1..n : Doc(seqs[k])
    PROVE  Doc(FlattenSeq(seqs))
<1>1. PICK F : Chained(F, seqs, n) /\ FlattenSeq(seqs) = F[n]
  <2>1. \A k \in 1..n : IsSeq(seqs[k])
    BY DEF Doc
  <2> QED
    BY <2>1, Flattened
<1> DEFINE T == {k \in Nat : k \in 0..n => Doc(F[k])}
<1>2. 0 \in T
  BY <1>1, DocOne DEF Chained
<1>3. ASSUME NEW k \in Nat, k \in T PROVE k + 1 \in T
  <2> SUFFICES ASSUME k + 1 \in 0..n PROVE Doc(F[k + 1])
    OBVIOUS
  <2>1. k + 1 \in 1..n /\ (k + 1) - 1 = k /\ k \in 0..n
    OBVIOUS
  <2>2. F[k + 1] = F[k] \o seqs[k + 1] /\ Doc(F[k]) /\ Doc(seqs[k + 1])
    BY <1>1, <1>3, <2>1 DEF Chained
  <2> QED
    BY <2>2, DocJoined
<1> HIDE DEF T
<1>4. n \in T
  BY <1>2, <1>3, SetInduction
<1>5. n \in 0..n
  OBVIOUS
<1> QED
  BY <1>1, <1>4, <1>5 DEF T

LEMMA TokensAre ==
    /\ \A n, attrs : n # "#text" /\ IsSeq(attrs) => IsToken(StartTag(n, attrs))
    /\ IsToken(EndTag) /\ \A v : IsToken(Text(v))
<1>1. ASSUME NEW n, NEW attrs, n # "#text", IsSeq(attrs) PROVE IsToken(StartTag(n, attrs))
  BY <1>1 DEF IsToken, StartTag, IsSeq
<1>2. IsToken(EndTag)
  BY DEF IsToken, EndTag
<1>3. ASSUME NEW v PROVE IsToken(Text(v))
  BY DEF IsToken, Text
<1> QED
  BY <1>1, <1>2, <1>3

LEMMA ElementDoc ==
    ASSUME NEW n, n # "#text", NEW attrs, IsSeq(attrs), NEW inside, Doc(inside)
    PROVE  Doc(Element(n, attrs, inside))
<1>1. Doc(<<StartTag(n, attrs)>>) /\ Doc(<<EndTag>>)
  BY TokensAre, DocOne
<1> QED
  BY <1>1, DocJoined DEF Element

\* The numbers of a group have names of their own.
LEMMA FieldNames ==
    /\ DOMAIN Fields = 1..13
    /\ \A k \in 1..13 : Fields[k].name # "#text"
<1>1. DOMAIN Fields = 1..13
  BY DEF Fields
<1>2. \A k \in 1..13 : Fields[k].name \in {"voltage", "current", "power", "state_of_charge", "net_current", "today", "this_month", "this_year"}
  BY DEF Fields, Number1, Number2
<1> QED
  BY <1>1, <1>2

\* None of the names of the services begins with #.
LEMMA PlainNames ==
    /\ \A n \in {"controller", "xml", "entry", "voltage", "current"} : n \notin Hashed
    /\ \A k \in 1..13 : Fields[k].name \notin Hashed /\ Fields[k].group \notin Hashed
<1>1. \A f \in Range(Fields) : f.name \notin Hashed /\ f.group \notin Hashed
  BY DocumentAssumption
<1>2. \A k \in 1..13 : Fields[k] \in Range(Fields)
  BY FieldNames DEF Range
<1>3. \A n \in {"controller", "xml", "entry", "voltage", "current"} : n \notin Hashed
  BY DocumentAssumption
<1> QED
  BY <1>1, <1>2, <1>3

\* What a group has for a field.
FieldPart(g, entries, k) ==
    IF Fields[k].group # g THEN <<>>
    ELSE Element(Fields[k].name, <<>>, <<Text(Written(Fields[k], entries[k]))>>)

LEMMA GroupIs ==
    ASSUME NEW g, NEW entries
    PROVE  Group(g, entries) = Element(g, <<>>, FlattenSeq([k \in 1..13 |-> FieldPart(g, entries, k)]))
  BY FieldNames DEF Group, FieldPart

LEMMA FieldDoc == ASSUME NEW g, NEW entries, NEW k \in 1..13 PROVE Doc(FieldPart(g, entries, k))
<1>1. PICK v : v = Written(Fields[k], entries[k])
  OBVIOUS
<1>2. Doc(<<Text(v)>>)
  BY TokensAre, DocOne
<1>3. Doc(Element(Fields[k].name, <<>>, <<Text(v)>>))
  BY <1>2, ElementDoc, FieldNames, ShortIsSeq
<1> QED
  BY <1>1, <1>3, DocOne DEF FieldPart

LEMMA GroupDoc ==
    ASSUME NEW g, g # "#text", NEW entries
    PROVE  Doc(Group(g, entries))
<1>1. \A k \in 1..13 : Doc(FieldPart(g, entries, k))
  BY FieldDoc
<1>2. PICK seqs : seqs = [k \in 1..13 |-> FieldPart(g, entries, k)]
  OBVIOUS
<1>3. Doc(FlattenSeq(seqs))
  <2>1. seqs = [k \in 1..13 |-> seqs[k]] /\ \A k \in 1..13 : Doc(seqs[k])
    BY <1>1, <1>2
  <2> QED
    BY <2>1, DocFlattened
<1> QED
  BY <1>2, <1>3, GroupIs, ElementDoc, ShortIsSeq

LEMMA DocumentDoc == ASSUME NEW entries PROVE Doc(Document(entries))
<1>1. /\ Doc(Group("pv_array_rating", entries)) /\ Doc(Group("pv_array_now", entries))
      /\ Doc(Group("battery", entries)) /\ Doc(Group("generation", entries))
  BY GroupDoc
<1>2. PICK a : a = <<Attribute("id", "1")>>
  OBVIOUS
<1>3. IsSeq(a)
  BY <1>2, ShortIsSeq
<1>4. PICK d : d = Group("pv_array_rating", entries) \o Group("pv_array_now", entries)
                   \o Group("battery", entries) \o Group("generation", entries)
  OBVIOUS
<1>5. Doc(d)
  BY <1>1, <1>4, DocJoined
<1>6. Document(entries) = Element("controller", a, d)
  BY <1>2, <1>4 DEF Document
<1> QED
  BY <1>3, <1>5, <1>6, ElementDoc

LEMMA EntryDoc == ASSUME NEW v PROVE Doc(Entry(v))
<1>1. Doc(<<Text(v)>>)
  BY TokensAre, DocOne
<1>2. Doc(Element("voltage", <<>>, <<Text(v)>>)) /\ Doc(Element("current", <<>>, <<Text(v)>>))
  BY <1>1, ElementDoc, ShortIsSeq
<1>3. PICK a, d : /\ a = <<Attribute("time", "noon")>>
                  /\ d = Element("voltage", <<>>, <<Text(v)>>) \o Element("current", <<>>, <<Text(v)>>)
  OBVIOUS
<1>4. IsSeq(a) /\ Doc(d)
  BY <1>2, <1>3, ShortIsSeq, DocJoined
<1>5. Doc(Element("entry", a, d))
  BY <1>4, ElementDoc
<1> QED
  BY <1>3, <1>5 DEF Entry

LEMMA ToXmlDoc == ASSUME NEW n \in Nat PROVE Doc(ToXml(n))
<1>1. PICK v, seqs : v = "12.5" /\ seqs = [k \in 1..n |-> Entry(v)]
  OBVIOUS
<1>2. Doc(FlattenSeq(seqs))
  <2>1. seqs = [k \in 1..n |-> seqs[k]] /\ \A k \in 1..n : Doc(seqs[k])
    BY <1>1, EntryDoc
  <2> QED
    BY <2>1, DocFlattened
<1> QED
  BY <1>1, <1>2, ElementDoc, ShortIsSeq DEF ToXml

-----------------------------------------------------------------------------
(* One of the services, or a document that is read. *)

LEMMA SegmentDoc == ASSUME NEW s \in Segments PROVE Doc(s)
<1>1. s \in Seq(Range(s)) /\ \A k \in DOMAIN s : IsToken(s[k])
  BY DocumentAssumption
<1>2. PICK n \in Nat : n = Len(s) /\ DOMAIN s = 1..n
  BY <1>1, LenProperties
<1>3. n = Len(s) /\ \A k \in 1..n : IsToken(s[k])
  BY <1>1, <1>2
<1>4. Tokens(s)
  BY <1>3 DEF Tokens
<1> QED
  BY <1>1, <1>4 DEF Doc, IsSeq

\* What history has answered with JSON is not what the conversion dies of.
JsonHasRecords == answer.code = 200 /\ request.ext = "json" => answer.entries \notin Deadly

\* The inductive invariant of the services and the parser together.
IInv ==
    /\ source \in {"controller", "history", "document"}
    /\ ParserOk(reader) /\ weight \in 0..MaxWeight
    /\ ReportInv /\ ServiceInv /\ JsonHasRecords

LEMMA NoControllerHolds == NoController => ReportInv
<1> SUFFICES ASSUME NoController PROVE ReportInv
  OBVIOUS
<1>1. path \in ReportPaths /\ registers \in RegisterFiles
  BY DocumentAssumption DEF NoController
<1>2. /\ wire \in Seq(Asked) /\ wire \in Seq([frame : Seq(Byte), meant : Meaning])
      /\ stream \in Seq(Byte) /\ report \in Seq(Entries)
      /\ Len(report) = 0 /\ DOMAIN report = {}
  BY NothingAsked DEF NoController
<1>3. changes \in 0..MaxChanges /\ faults \in 0..MaxFaults /\ late \in 0..MaxLate
  BY ReportAssumption DEF NoController
<1>4. Len(report) <= Len(Fields)
  BY <1>2, FieldsFit
<1>5. ReportTypeOK
  BY <1>1, <1>2, <1>3, <1>4 DEF NoController, ReportTypeOK
<1>6. OnWay /\ NotTorn
  BY <1>2 DEF NoController, OnWay, NotTorn
<1> QED
  BY <1>5, <1>6 DEF ReportInv

LEMMA NoHistoryHolds == NoHistory => ServiceInv /\ JsonHasRecords
<1> SUFFICES ASSUME NoHistory PROVE ServiceInv /\ JsonHasRecords
  OBVIOUS
<1>1. request \in Requests
  <2>1. PICK n \in Names : TRUE
    BY DocumentAssumption
  <2>2. [name |-> n, ext |-> "xml", number |-> TRUE] \in Requests
    BY DEF Requests
  <2> QED
    BY <2>2 DEF NoHistory
<1>2. answer \in [code : {0, 200, 404}, entries : 0..MaxRecords] /\ answer.code = 0
  BY ServiceAssumption DEF NoHistory, NoAnswer
<1>3. records \in [DOMAIN Tables -> 0..MaxRecords]
  BY ServiceAssumption DEF NoHistory
<1>4. 0 \in 0..Len(Tables) /\ 0 \in 0..Wild
  BY LenIsNat DEF Wild
<1>5. stored \in SUBSET {"next", "list"} /\ quit \in BOOLEAN
  BY DEF NoHistory
<1>6. ServiceTypeOK
  BY <1>1, <1>2, <1>3, <1>4, <1>5 DEF NoHistory, ServiceTypeOK, Null
<1>7. ServiceInv
  BY <1>6 DEF NoHistory, ServiceInv, StillAhead, FoundIsTable, NobodyLooks
<1>8. JsonHasRecords
  BY <1>2 DEF JsonHasRecords
<1> QED
  BY <1>7, <1>8

LEMMA JsonInit == ServiceInit => JsonHasRecords
  BY DEF ServiceInit, NoAnswer, JsonHasRecords

LEMMA JsonStep ==
    ASSUME JsonHasRecords, [ServiceNext]_serviceVars
    PROVE  JsonHasRecords'
<1>1. ASSUME UNCHANGED <<answer, request>> PROVE JsonHasRecords'
  BY <1>1 DEF JsonHasRecords
<1>2. ASSUME answer'.code # 200 PROVE JsonHasRecords'
  BY <1>2 DEF JsonHasRecords
<1>3. CASE MainThread
  BY <1>1, <1>3 DEF MainThread, Store, Made, SetUp, StartsPolling, Poll, PollDies, StopsPolling, Join, Delete, Returns
<1>4. CASE HttpThread
  <2>1. CASE Serve \/ LeavesAccept
    BY <1>1, <2>1 DEF Serve, LeavesAccept
  <2>2. CASE Parse
    BY <1>1, <2>2 DEF Parse, Dying
  <2>3. CASE WalkOn
    <3>1. CASE place = Null
      <4>1. Answers(NotFound)
        BY <2>3, <3>1 DEF WalkOn, Null, Wild
      <4> QED
        BY <1>2, <4>1 DEF Answers, NotFound
    <3>2. CASE place # Null
      BY <1>1, <2>3, <3>2 DEF WalkOn, Dying
    <3> QED
      BY <3>1, <3>2
  <2>4. CASE Found
    <3>1. PICK n \in Shown :
            CASE request.ext = "html" -> Answers(NotFound)
              [] request.ext = "json" /\ n \in Deadly -> Dying
              [] OTHER -> Answers([code |-> 200, entries |-> n])
      BY <2>4 DEF Found
    <3>2. CASE request.ext = "html"
      <4>1. Answers(NotFound)
        BY <3>1, <3>2
      <4> QED
        BY <1>2, <4>1 DEF Answers, NotFound
    <3>3. CASE request.ext = "json" /\ n \in Deadly
      <4>1. Dying
        BY <3>1, <3>3
      <4> QED
        BY <1>1, <4>1 DEF Dying
    <3>4. CASE request.ext # "html" /\ ~(request.ext = "json" /\ n \in Deadly)
      <4>1. Answers([code |-> 200, entries |-> n])
        BY <3>1, <3>4
      <4>2. answer'.entries = n /\ request' = request
        BY <4>1 DEF Answers
      <4> QED
        BY <3>4, <4>2 DEF JsonHasRecords
    <3> QED
      BY <3>2, <3>3, <3>4
  <2> QED
    BY <1>4, <2>1, <2>2, <2>3, <2>4 DEF HttpThread
<1>5. ASSUME NEW r \in Requests, Get(r) PROVE JsonHasRecords'
  BY <1>2, <1>5 DEF Get, NoAnswer
<1>6. CASE Quit \/ Ended \/ UNCHANGED serviceVars
  BY <1>1, <1>6 DEF Quit, Ended, serviceVars
<1>7. CASE ServiceReborn
  BY <1>2, <1>7 DEF ServiceReborn, NoAnswer
<1> QED
  BY <1>3, <1>4, <1>5, <1>6, <1>7 DEF ServiceNext

LEMMA InitHolds == Init => IInv
<1> SUFFICES ASSUME Init PROVE IInv
  OBVIOUS
<1>1. source \in {"controller", "history", "document"} /\ ParserOk(reader) /\ weight \in 0..MaxWeight
  BY NewReaderOk, DocumentAssumption DEF Init
<1>2. ReportInv
  BY ReportInitHolds, NoControllerHolds DEF Init
<1>3. ServiceInv /\ JsonHasRecords
  BY ServiceInitHolds, JsonInit, NoHistoryHolds DEF Init
<1> QED
  BY <1>1, <1>2, <1>3 DEF IInv

LEMMA ServiceStep ==
    ASSUME ServiceInv, [ServiceNext]_serviceVars
    PROVE  ServiceInv'
  BY MainThreadKeeps, HttpThreadKeeps, OthersKeep, StutterKeeps DEF ServiceNext

LEMMA InductiveStep == IInv /\ [Next]_vars => IInv'
<1> SUFFICES ASSUME IInv, [Next]_vars PROVE IInv'
  OBVIOUS
<1>1. ReportInv /\ ServiceInv /\ JsonHasRecords
  BY DEF IInv
<1>2. ASSUME UNCHANGED <<source, reader, weight>>, [ReportNext]_reportVars, [ServiceNext]_serviceVars
      PROVE  IInv'
  <2>1. ReportInv' /\ ServiceInv' /\ JsonHasRecords'
    BY <1>1, <1>2, ReportStep, ServiceStep, JsonStep
  <2>2. source' = source /\ reader' = reader /\ weight' = weight
    BY <1>2
  <2> QED
    BY <2>1, <2>2 DEF IInv
<1>3. CASE Controller
  BY <1>2, <1>3 DEF Controller
<1>4. CASE History
  BY <1>2, <1>4 DEF History
<1>5. CASE ReadOn
  <2>1. PICK s \in Segments :
          weight' = weight + Weight[s] /\ weight' <= MaxWeight /\ reader' = ParseOn(reader, s)
    BY <1>5 DEF ReadOn
  <2>2. weight' \in 0..MaxWeight
    BY <2>1, DocumentAssumption DEF IInv
  <2>3. PICK q, p : q = ParseOn(p, s) /\ p = reader /\ reader' = q
    BY <2>1
  <2>4. ParserOk(q)
    BY <2>3, SegmentDoc, ParseOnOk DEF IInv, Doc
  <2>5. ParserOk(reader')
    BY <2>3, <2>4
  <2>6. ReportInv' /\ ServiceInv' /\ JsonHasRecords' /\ source' = source
    BY <1>1, <1>5, ReportStep, ServiceStep, JsonStep DEF ReadOn
  <2> QED
    BY <2>2, <2>5, <2>6 DEF IInv
<1>6. CASE DocumentEnds \/ UNCHANGED vars
  BY <1>2, <1>6 DEF DocumentEnds, vars
<1> QED
  BY <1>3, <1>4, <1>5, <1>6 DEF Next

\* The two services and the parser keep what they rely on, step by step.
THEOREM Invariance == Spec => []IInv
  BY InitHolds, InductiveStep, PTL DEF Spec

\* Types of the two services and of XML2JSON: the parser is reading, dead after
\* an end tag with nothing open, or has met an error, and is nothing else.
THEOREM TypeCorrect == Spec => []TypeOK
<1>1. IInv => TypeOK
  BY DEF IInv, TypeOK, ParserOk, ReportInv, ServiceInv
<1> QED
  BY Invariance, <1>1, PTL

\* Beside each other the two services keep what each of them keeps alone: no
\* number of an undisturbed transaction is torn, every request is understood as it
\* was meant, no deleted table is looked into, and every linked table is found.
THEOREM ServicesHold == Spec => [](NotTorn /\ RequestsAccepted /\ NoUseAfterFree /\ FindsWhatIsThere)
<1>1. IInv => NotTorn /\ RequestsAccepted /\ NoUseAfterFree /\ FindsWhatIsThere
  BY NothingDeleted, AllFound, RequestsHold DEF IInv, ReportInv
<1> QED
  BY Invariance, <1>1, PTL

LEMMA ReadingOk == IInv => ParserOk(Reading)
<1> SUFFICES ASSUME IInv PROVE ParserOk(Reading)
  OBVIOUS
<1>1. ParserOk(NewReader) /\ ParserOk(reader)
  BY NewReaderOk DEF IInv
<1>2. ASSUME NEW d, Doc(d) PROVE ParserOk(ParseOn(NewReader, d))
  BY <1>1, <1>2, ParseOnOk DEF Doc
<1>3. answer.entries \in Nat
  BY DEF IInv, ServiceInv, ServiceTypeOK
<1>4. CASE source = "document"
  BY <1>1, <1>4 DEF Reading
<1>5. CASE source = "history"
  BY <1>1, <1>2, <1>3, <1>5, ToXmlDoc DEF Reading
<1>6. CASE source = "controller"
  BY <1>1, <1>2, <1>6, DocumentDoc DEF Reading
<1> QED
  BY <1>4, <1>5, <1>6 DEF IInv

\* After every step of a service and every piece of a document: what
\* XML2JSON::convert() answers is JSON exactly when the document has a form in
\* JSON, however deep it is and however its elements are named.
THEOREM AnswersAreJson == Spec => []JsonWhereThereIs
<1>1. IInv => JsonWhereThereIs
  <2> SUFFICES ASSUME IInv PROVE JsonWhereThereIs
    OBVIOUS
  <2>1. PICK p : p = Reading
    OBVIOUS
  <2>2. JsonIffConvertible(p)
    BY <2>1, ReadingOk, AnswerIsJson
  <2> QED
    BY <2>1, <2>2 DEF JsonWhereThereIs
<1> QED
  BY Invariance, <1>1, PTL

\* No value of what has been read gets lost, gets another name or is made up on
\* the way through XML2JSON, whatever the pieces of the document are.
THEOREM NothingIsLost == Spec => []NothingLost
<1>1. IInv => NothingLost
  <2> SUFFICES ASSUME IInv PROVE NothingLost
    OBVIOUS
  <2>1. PICK p : p = Reading
    OBVIOUS
  <2>2. SaysTheSame(p)
    BY <2>1, ReadingOk, AnswerSaysTheSame
  <2> QED
    BY <2>1, <2>2 DEF NothingLost
<1> QED
  BY Invariance, <1>1, PTL

-----------------------------------------------------------------------------
(* Reading a document part by part. *)

Parses(f, p, doc, n) == f[0] = p /\ \A k \in 1..n : f[k] = Inner(f[k - 1], doc[k])

LEMMA TurnsAgree ==
    ASSUME NEW f, NEW g, NEW p, NEW doc, NEW n \in Nat, Parses(f, p, doc, n), Parses(g, p, doc, n)
    PROVE  f[n] = g[n]
<1> DEFINE T == {k \in Nat : k \in 0..n => f[k] = g[k]}
<1>1. 0 \in T
  BY DEF Parses
<1>2. ASSUME NEW k \in Nat, k \in T PROVE k + 1 \in T
  <2> SUFFICES ASSUME k + 1 \in 0..n PROVE f[k + 1] = g[k + 1]
    OBVIOUS
  <2>1. k + 1 \in 1..n /\ (k + 1) - 1 = k /\ k \in 0..n
    OBVIOUS
  <2> QED
    BY <1>2, <2>1 DEF Parses
<1> HIDE DEF T
<1>3. n \in T
  BY <1>1, <1>2, SetInduction
<1>4. n \in 0..n
  OBVIOUS
<1> QED
  BY <1>3, <1>4 DEF T

LEMMA ParseTurns ==
    ASSUME NEW p, NEW doc, NEW n \in Nat, n = Len(doc)
    PROVE  \E f : Parses(f, p, doc, n) /\ f[n] = ParseOn(p, doc)
  BY ZenonT(60), ParseSteps DEF Parses

LEMMA ParseJoined ==
    ASSUME NEW p, NEW s, NEW t, IsSeq(s), IsSeq(t)
    PROVE  ParseOn(p, s \o t) = ParseOn(ParseOn(p, s), t)
<1>0. /\ Len(s) \in Nat /\ Len(t) \in Nat /\ Len(s \o t) = Len(s) + Len(t)
      /\ \A k \in 1..Len(s) : (s \o t)[k] = s[k]
      /\ \A k \in 1..Len(t) : (s \o t)[Len(s) + k] = t[k]
  BY JoinedIsSeq
<1>1. PICK m \in Nat, n \in Nat : m = Len(s) /\ n = Len(t)
  BY <1>0
<1>2. PICK u : u = s \o t
  OBVIOUS
<1>3. PICK q : q = ParseOn(p, s)
  OBVIOUS
<1>4. PICK f : Parses(f, p, s, m) /\ f[m] = q
  BY <1>1, <1>3, ParseTurns
<1>5. PICK g : Parses(g, q, t, n) /\ g[n] = ParseOn(q, t)
  BY <1>1, ParseTurns
<1>6. PICK h : Parses(h, p, u, m + n) /\ h[m + n] = ParseOn(p, u)
  <2>1. PICK w \in Nat : w = m + n
    OBVIOUS
  <2>2. w = Len(u)
    BY <1>0, <1>1, <1>2, <2>1
  <2> QED
    BY <2>1, <2>2, ParseTurns
<1>7. /\ \A k \in 1..m : u[k] = s[k]
      /\ \A k \in 1..n : u[m + k] = t[k]
  BY <1>0, <1>1, <1>2
<1>8. Parses(h, p, s, m)
  <2>1. \A k \in 1..m : k \in 1..(m + n)
    OBVIOUS
  <2> QED
    BY <1>6, <1>7, <2>1 DEF Parses
<1>9. h[m] = q
  BY <1>4, <1>8, TurnsAgree
<1> DEFINE e == [k \in 0..n |-> h[m + k]]
<1>10. Parses(e, q, t, n)
  <2>1. e[0] = q
    BY <1>9
  <2>2. ASSUME NEW k \in 1..n PROVE e[k] = Inner(e[k - 1], t[k])
    <3>1. m + k \in 1..(m + n) /\ (m + k) - 1 = m + (k - 1) /\ k \in 0..n /\ k - 1 \in 0..n
      OBVIOUS
    <3>2. h[m + k] = Inner(h[m + (k - 1)], u[m + k])
      BY <1>6, <3>1 DEF Parses
    <3>3. e[k] = h[m + k] /\ e[k - 1] = h[m + (k - 1)]
      BY <3>1
    <3> QED
      BY <1>7, <3>2, <3>3
  <2> HIDE DEF e
  <2> QED
    BY <2>1, <2>2 DEF Parses
<1>11. e[n] = h[m + n]
  OBVIOUS
<1> HIDE DEF e
<1>12. e[n] = g[n]
  BY <1>5, <1>10, TurnsAgree
<1> QED
  BY <1>2, <1>3, <1>5, <1>6, <1>11, <1>12

LEMMA ParseFew == ASSUME NEW p PROVE ParseOn(p, <<>>) = p /\ \A tk : ParseOn(p, <<tk>>) = Inner(p, tk)
<1>1. ParseOn(p, <<>>) = p
  <2>1. Len(<<>>) = 0 /\ 0 \in Nat
    BY EmptySeq
  <2>2. PICK d : d = <<>> /\ Len(d) = 0
    BY <2>1
  <2>3. PICK f : Parses(f, p, d, 0) /\ f[0] = ParseOn(p, d)
    BY <2>2, ParseTurns
  <2> QED
    BY <2>2, <2>3 DEF Parses
<1>2. ASSUME NEW tk PROVE ParseOn(p, <<tk>>) = Inner(p, tk)
  <2>1. PICK d : d = <<tk>>
    OBVIOUS
  <2>2. Len(d) = 1 /\ d[1] = tk /\ 1 \in Nat
    BY <2>1
  <2>3. PICK f : Parses(f, p, d, 1) /\ f[1] = ParseOn(p, d)
    BY <2>2, ParseTurns
  <2>4. 1 \in 1..1 /\ 1 - 1 = 0
    OBVIOUS
  <2> QED
    BY <2>1, <2>2, <2>3, <2>4 DEF Parses
<1> QED
  BY <1>1, <1>2

\* An element: its start, what is inside, and its end.
LEMMA ParseElement ==
    ASSUME NEW p, NEW n, NEW attrs, NEW inside, IsSeq(inside)
    PROVE  ParseOn(p, Element(n, attrs, inside)) =
             Inner(ParseOn(Inner(p, StartTag(n, attrs)), inside), EndTag)
<1>1. PICK a, e : a = StartTag(n, attrs) /\ e = EndTag
  OBVIOUS
<1>2. IsSeq(<<a>>) /\ IsSeq(<<e>>)
  BY ShortIsSeq
<1>3. IsSeq(<<a>> \o inside)
  BY <1>2, JoinedIsSeq
<1>4. PICK d : d = <<a>> \o inside
  OBVIOUS
<1>5. ParseOn(p, d \o <<e>>) = ParseOn(ParseOn(p, d), <<e>>)
  BY <1>2, <1>3, <1>4, ParseJoined
<1>6. ParseOn(p, d) = ParseOn(ParseOn(p, <<a>>), inside)
  BY <1>2, <1>4, ParseJoined
<1>7. ParseOn(p, <<a>>) = Inner(p, a) /\ ParseOn(ParseOn(p, d), <<e>>) = Inner(ParseOn(p, d), e)
  BY ParseFew
<1>8. Element(n, attrs, inside) = d \o <<e>>
  BY <1>1, <1>4 DEF Element
<1> QED
  BY <1>1, <1>5, <1>6, <1>7, <1>8

\* A turn of the loop for each kind of token, while the text can be read.
Item(n, v, attrs, parent) == [name |-> n, value |-> v, attributes |-> attrs, parent |-> parent]

LEMMA AddItemIs ==
    ASSUME NEW p, ParserOk(p), NEW n, NEW v, NEW attrs
    PROVE  AddItem(p, n, v, attrs) = Parser(Append(p.items, Item(n, v, attrs, p.current)), p.current, p.after, p.state)
<1>1. PICK it : it = [name |-> n, value |-> v, attributes |-> attrs, parent |-> p.current]
  OBVIOUS
<1>2. PICK t : t = Append(p.items, it)
  OBVIOUS
<1>3. PICK q : q = AddItem(p, n, v, attrs)
  OBVIOUS
<1>4. q = Parser(t, p.current, p.after, p.state)
  BY <1>1, <1>2, <1>3 DEF AddItem, ParserOk, Parser
<1> QED
  BY <1>1, <1>2, <1>3, <1>4 DEF Item

LEMMA ReadsStart ==
    ASSUME NEW p, ParserOk(p), p.state = "reading", NEW n, NEW attrs
    PROVE  Inner(p, StartTag(n, attrs))
             = Parser(Append(p.items, Item(n, "", Readable(attrs), p.current)), Len(p.items) + 1, "start", "reading")
<1>1. PICK tk, v, a, k, c : tk = StartTag(n, attrs) /\ v = "" /\ a = Readable(attrs) /\ k = Len(p.items) + 1 /\ c = p.current
  OBVIOUS
<1>2. tk.kind = "start" /\ tk.name = n /\ tk.attrs = attrs
  BY <1>1 DEF StartTag
<1>3. PICK t : t = Append(p.items, Item(n, v, a, c))
  OBVIOUS
<1>4. AddItem(p, n, v, a) = Parser(t, p.current, p.after, p.state)
  BY <1>1, <1>3, AddItemIs
<1>5. OnStartTag(p, n, attrs) = Parser(t, k, p.after, p.state)
  <2>1. PICK q : q = AddItem(p, n, v, a)
    OBVIOUS
  <2>2. OnStartTag(p, n, attrs) = [q EXCEPT !.current = k]
    BY <1>1, <2>1 DEF OnStartTag
  <2>3. q = Parser(t, p.current, p.after, p.state)
    BY <1>4, <2>1
  <2> QED
    BY <2>2, <2>3 DEF Parser
<1>6. Inner(p, tk) = [OnStartTag(p, n, attrs) EXCEPT !.after = "start"]
  BY <1>2 DEF Inner
<1>7. Inner(p, tk) = Parser(t, k, "start", "reading")
  BY <1>5, <1>6 DEF Parser
<1> QED
  BY <1>1, <1>3, <1>7

LEMMA ReadsText ==
    ASSUME NEW p, ParserOk(p), p.state = "reading", NEW v
    PROVE  Inner(p, Text(v)) = Parser(Append(p.items, Item("#text", v, <<>>, p.current)), p.current, "text", "reading")
<1>1. PICK tk, n, a, c : tk = Text(v) /\ n = "#text" /\ a = <<>> /\ c = p.current
  OBVIOUS
<1>2. tk.kind = "text" /\ tk.value = v
  BY <1>1 DEF Text
<1>3. PICK t : t = Append(p.items, Item(n, v, a, c))
  OBVIOUS
<1>4. AddItem(p, n, v, a) = Parser(t, p.current, p.after, p.state)
  BY <1>1, <1>3, AddItemIs
<1>5. OnText(p, v) = Parser(t, c, p.after, p.state)
  BY <1>1, <1>4 DEF OnText
<1>6. Inner(p, tk) = [OnText(p, v) EXCEPT !.after = "text"]
  BY <1>2 DEF Inner
<1>7. Inner(p, tk) = Parser(t, c, "text", "reading")
  BY <1>5, <1>6 DEF Parser
<1> QED
  BY <1>1, <1>3, <1>7

LEMMA ReadsEnd ==
    ASSUME NEW p, ParserOk(p), p.state = "reading", p.current # 0
    PROVE  Inner(p, EndTag) = Parser(p.items, p.items[p.current].parent, "end", "reading")
<1>1. PICK tk, c : tk = EndTag /\ c = p.items[p.current].parent
  OBVIOUS
<1>2. tk.kind = "end"
  BY <1>1 DEF EndTag
<1>3. OnEndTag(p) = Parser(p.items, c, p.after, "reading")
  BY <1>1 DEF OnEndTag, ParserOk, Parser
<1>4. Inner(p, tk) = [OnEndTag(p) EXCEPT !.after = "end"]
  BY <1>2 DEF Inner
<1>5. Inner(p, tk) = Parser(p.items, c, "end", "reading")
  BY <1>3, <1>4 DEF Parser
<1> QED
  BY <1>1, <1>5

\* Attributes that have all been read, and have numbers where they have no quotes.
GoodAttributes(attrs) == IsSeq(attrs) /\ \A k \in DOMAIN attrs : attrs[k].ok /\ ValueOk(attrs[k].value)

LEMMA AllReadable == ASSUME NEW attrs, GoodAttributes(attrs) PROVE Readable(attrs) = attrs
<1>1. PICK n \in Nat : n = Len(attrs) /\ DOMAIN attrs = 1..n
  BY LenProperties DEF GoodAttributes, IsSeq
<1>2. {j \in 1..n : ~attrs[j].ok} = {}
  BY <1>1 DEF GoodAttributes
<1>3. SelectInSeq(attrs, LAMBDA a : ~a.ok) = 0
  BY <1>1, <1>2 DEF SelectInSeq
<1> QED
  BY <1>3 DEF Readable

-----------------------------------------------------------------------------
(* What the elements of a part of a document are like once it is read. *)

\* The form of an element, its name among its neighbours left aside.
Formed(items, i) ==
    /\ Children(items, i) # {} /\ items[i].name \notin Hashed
    /\ OnlyText(items, i) => ValueOk(TextOf(items, i))
    /\ ~OnlyText(items, i) =>
          /\ \A k \in Children(items, i) : ~IsText(items, k)
          /\ \A k \in DOMAIN items[i].attributes : ValueOk(items[i].attributes[k].value)

\* An item of a part that was read after the first a items, below the element c:
\* S are the names of its elements that are children of c, L of those of them
\* that have nothing but a text.
Belongs(items, a, c, S, L, j) ==
    /\ (items[j].parent = c /\ items[j].name \in S) \/ items[j].parent > a
    /\ items[j].name # "#text" => Formed(items, j)
    /\ OnlyText(items, j) =>
          /\ items[j].parent = c => items[j].name \in L
          /\ \A k \in (a + 1)..Len(items) :
                items[k].name = items[j].name /\ items[k].parent = items[j].parent => k = j

Begun(p) == ParserOk(p) /\ p.state = "reading" /\ p.after # "text"

Extends(u, t) == Len(t) <= Len(u) /\ \A j \in 1..Len(t) : u[j] = t[j]

Part(p, q, S, L) ==
    /\ Begun(q) /\ q.current = p.current /\ Extends(q.items, p.items)
    /\ \A j \in (Len(p.items) + 1)..Len(q.items) : Belongs(q.items, Len(p.items), p.current, S, L, j)

\* Nothing changes about an item that gets no further child.
LEMMA StaysFormed ==
    ASSUME NEW t, NEW u, Sound(t), Sound(u), Extends(u, t), NEW j \in 1..Len(t),
           \A k \in (Len(t) + 1)..Len(u) : u[k].parent # j
    PROVE  /\ OnlyText(u, j) <=> OnlyText(t, j)
           /\ Formed(t, j) => Formed(u, j)
<1>1. PICK m \in Nat : m = Len(t) /\ DOMAIN t = 1..m
  BY SoundItems
<1>2. PICK n \in Nat : n = Len(u) /\ DOMAIN u = 1..n
  BY SoundItems
<1>3. m <= n /\ j \in 1..m /\ \A k \in 1..m : u[k] = t[k]
  BY <1>1, <1>2 DEF Extends
<1>4. Children(u, j) = Children(t, j)
  <2>1. ASSUME NEW k \in 1..n, u[k].parent = j PROVE k \in 1..m
    BY <1>1, <1>2, <2>1
  <2> QED
    BY <1>1, <1>2, <1>3, <2>1 DEF Children
<1>5. \A k \in Children(t, j) : u[k] = t[k]
  BY <1>1, <1>3 DEF Children
<1>6. OnlyText(u, j) <=> OnlyText(t, j)
  BY <1>4, <1>5 DEF OnlyText, IsText
<1>7. OnlyText(t, j) => TextOf(u, j) = TextOf(t, j)
  BY <1>4, <1>5 DEF OnlyText, TextOf
<1>8. u[j] = t[j]
  BY <1>3
<1> QED
  BY <1>4, <1>5, <1>6, <1>7, <1>8 DEF Formed, IsText

LEMMA NothingPart == ASSUME NEW p, Begun(p), NEW S, NEW L PROVE Part(p, p, S, L)
<1>1. PICK m \in Nat : m = Len(p.items)
  BY SoundItems DEF Begun, ParserOk
<1>2. Extends(p.items, p.items) /\ (Len(p.items) + 1)..Len(p.items) = {}
  BY <1>1 DEF Extends
<1> QED
  BY <1>2 DEF Part

\* Two parts, one after the other.
LEMMA PartsJoined ==
    ASSUME NEW p, Begun(p), NEW q, NEW S, NEW L, Part(p, q, S, L),
           NEW r, NEW S2, NEW L2, Part(q, r, S2, L2),
           L \intersect S2 = {}, L2 \intersect S = {}
    PROVE  Part(p, r, S \union S2, L \union L2)
<1>t. PICK t : t = p.items
  OBVIOUS
<1>1. PICK a \in Nat : t = p.items /\ a = Len(t)
  BY <1>t, SoundItems DEF Begun, ParserOk
<1>u. PICK u : u = q.items
  OBVIOUS
<1>2. PICK b \in Nat : u = q.items /\ b = Len(u)
  BY <1>u, SoundItems DEF Begun, ParserOk, Part
<1>v. PICK v : v = r.items
  OBVIOUS
<1>3. PICK d \in Nat : v = r.items /\ d = Len(v)
  BY <1>v, SoundItems DEF Begun, ParserOk, Part
<1>4. PICK c \in 0..a : c = p.current
  BY <1>1 DEF Begun, ParserOk
<1>5. Sound(u) /\ Sound(v) /\ Begun(r) /\ r.current = c /\ q.current = c
  BY <1>2, <1>3, <1>4 DEF Part, Begun, ParserOk
<1>6. a <= b /\ b <= d /\ Extends(v, u) /\ (\A j \in 1..a : u[j] = t[j]) /\ (\A j \in 1..b : v[j] = u[j])
  BY <1>1, <1>2, <1>3 DEF Part, Extends
<1>7. Extends(v, t)
  BY <1>1, <1>2, <1>3, <1>6 DEF Extends
<1>8. \A j \in (a + 1)..b : Belongs(u, a, c, S, L, j)
  BY <1>1, <1>2, <1>4 DEF Part
<1>9. \A j \in (b + 1)..d : Belongs(v, b, c, S2, L2, j)
  BY <1>2, <1>3, <1>5 DEF Part
<1>10. \A j \in 1..d : v[j].parent \in 0..(j - 1)
  BY <1>3, <1>5 DEF Sound
<1>11. ASSUME NEW j \in (a + 1)..b PROVE Belongs(v, a, c, S \union S2, L \union L2, j)
  <2>1. Belongs(u, a, c, S, L, j) /\ j \in 1..b /\ v[j] = u[j]
    BY <1>6, <1>8
  <2>2. ASSUME NEW k \in (b + 1)..d PROVE v[k].parent # j /\ ((v[k].parent = c /\ v[k].name \in S2) \/ v[k].parent > b)
    BY <1>9, <2>1 DEF Belongs
  <2>3. (OnlyText(v, j) <=> OnlyText(u, j)) /\ (Formed(u, j) => Formed(v, j))
    BY <1>2, <1>3, <1>5, <1>6, <2>1, <2>2, StaysFormed
  <2>4. ASSUME OnlyText(v, j), NEW k \in (a + 1)..d, v[k].name = v[j].name, v[k].parent = v[j].parent
        PROVE  k = j
    <3>1. OnlyText(u, j)
      BY <2>3, <2>4
    <3>2. CASE k \in (a + 1)..b
      <4>1. v[k] = u[k]
        BY <1>6, <3>2
      <4> QED
        BY <1>2, <2>1, <2>4, <3>1, <3>2, <4>1 DEF Belongs
    <3>3. CASE k \notin (a + 1)..b
      <4>1. k \in (b + 1)..d
        BY <3>3
      <4>2. v[j].parent \in 0..(j - 1)
        BY <1>6, <1>10, <2>1
      <4>3. v[k].parent = c /\ v[k].name \in S2
        BY <2>2, <2>4, <4>1, <4>2
      <4>4. u[j].name \in L
        BY <2>1, <2>4, <3>1, <4>3 DEF Belongs
      <4> QED
        BY <2>1, <2>4, <4>3, <4>4
    <3> QED
      BY <3>2, <3>3
  <2> QED
    BY <1>3, <2>1, <2>3, <2>4 DEF Belongs
<1>12. ASSUME NEW j \in (b + 1)..d PROVE Belongs(v, a, c, S \union S2, L \union L2, j)
  <2>1. Belongs(v, b, c, S2, L2, j)
    BY <1>9
  <2>2. ASSUME OnlyText(v, j), NEW k \in (a + 1)..d, v[k].name = v[j].name, v[k].parent = v[j].parent
        PROVE  k = j
    <3>1. CASE k \in (b + 1)..d
      BY <1>3, <2>1, <2>2, <3>1 DEF Belongs
    <3>2. CASE k \notin (b + 1)..d
      <4>1. k \in (a + 1)..b /\ k \in 1..b
        BY <3>2
      <4>2. Belongs(u, a, c, S, L, k) /\ v[k] = u[k] /\ v[k].parent \in 0..(k - 1)
        BY <1>6, <1>8, <1>10, <4>1
      <4>3. v[j].parent = c /\ v[j].name \in L2
        BY <2>1, <2>2, <4>1, <4>2 DEF Belongs
      <4>4. u[k].name \in S
        BY <1>4, <2>2, <4>2, <4>3 DEF Belongs
      <4> QED
        BY <2>2, <4>2, <4>3, <4>4
    <3> QED
      BY <3>1, <3>2
  <2>3. (v[j].parent = c /\ v[j].name \in S2) \/ v[j].parent > a
    <3>1. v[j].parent \in 0..(j - 1) /\ j \in 1..d
      BY <1>10
    <3> QED
      BY <1>6, <2>1, <3>1 DEF Belongs
  <2> QED
    BY <1>3, <2>1, <2>2, <2>3 DEF Belongs
<1>13. ASSUME NEW j \in (a + 1)..d PROVE Belongs(v, a, c, S \union S2, L \union L2, j)
  <2>1. j \in (a + 1)..b \/ j \in (b + 1)..d
    BY <1>6
  <2> QED
    BY <1>11, <1>12, <2>1
<1> QED
  BY <1>1, <1>3, <1>4, <1>5, <1>7, <1>13 DEF Part

\* After the start of an element.
Started(p, p1, n, attrs) ==
    /\ Begun(p1) /\ p1.current = Len(p.items) + 1 /\ Len(p1.items) = Len(p.items) + 1
    /\ Extends(p1.items, p.items)
    /\ p1.items[Len(p.items) + 1].name = n /\ p1.items[Len(p.items) + 1].attributes = attrs
    /\ p1.items[Len(p.items) + 1].parent = p.current

LEMMA Starts ==
    ASSUME NEW p, Begun(p), NEW n, n # "#text", NEW attrs, GoodAttributes(attrs)
    PROVE  Started(p, Inner(p, StartTag(n, attrs)), n, attrs)
<1>t. PICK t : t = p.items
  OBVIOUS
<1>1. PICK a \in Nat : t = p.items /\ a = Len(t)
  BY <1>t, SoundItems DEF Begun, ParserOk
<1>2. PICK it : it = Item(n, "", attrs, p.current)
  OBVIOUS
<1>0. PICK u : u = Append(t, it)
  OBVIOUS
<1>3. PICK q : q = Inner(p, StartTag(n, attrs))
  OBVIOUS
<1>4. q = Parser(u, a + 1, "start", "reading")
  <2>1. Readable(attrs) = attrs
    BY AllReadable
  <2>2. q = Parser(Append(p.items, Item(n, "", Readable(attrs), p.current)), Len(p.items) + 1, "start", "reading")
    BY <1>3, ReadsStart DEF Begun
  <2> QED
    BY <1>0, <1>1, <1>2, <2>1, <2>2
<1>5. Len(u) = a + 1 /\ u[a + 1] = it /\ \A j \in 1..a : u[j] = t[j]
  <2>1. IsSeq(t)
    BY <1>1 DEF Begun, ParserOk, Sound
  <2> QED
    BY <1>0, <1>1, <2>1, Appended
<1>6. q.items = u /\ q.current = a + 1 /\ q.state = "reading" /\ q.after = "start"
  BY <1>4 DEF Parser
<1>7. ParserOk(q)
  <2>1. IsToken(StartTag(n, attrs))
    BY TokensAre DEF GoodAttributes
  <2> QED
    BY <1>3, <2>1, InnerOk DEF Begun
<1>8. it.name = n /\ it.attributes = attrs /\ it.parent = p.current
  BY <1>2 DEF Item
<1>9. Extends(u, t)
  BY <1>1, <1>5 DEF Extends
<1> QED
  BY <1>1, <1>3, <1>5, <1>6, <1>7, <1>8, <1>9 DEF Started, Begun

Grows(p, q, S, L) == Part(p, q, S, L) /\ Len(q.items) > Len(p.items)

\* An element with nothing but a text.
LEMMA LeafPart ==
    ASSUME NEW p, Begun(p), NEW n, n # "#text", n \notin Hashed, NEW v, ValueOk(v)
    PROVE  Grows(p, ParseOn(p, Element(n, <<>>, <<Text(v)>>)), {n}, {n})
<1>t. PICK t : t = p.items
  OBVIOUS
<1>1. PICK a \in Nat : t = p.items /\ a = Len(t)
  BY <1>t, SoundItems DEF Begun, ParserOk
<1>2. PICK c \in 0..a : c = p.current
  BY <1>1 DEF Begun, ParserOk
<1>3. PICK none : none = <<>>
  OBVIOUS
<1>4. PICK p1, t1 : p1 = Inner(p, StartTag(n, none)) /\ t1 = p1.items
  OBVIOUS
<1>5. Started(p, p1, n, none)
  <2>1. GoodAttributes(none)
    BY <1>3, ShortIsSeq DEF GoodAttributes
  <2> QED
    BY <1>4, <2>1, Starts
<1>6. /\ Begun(p1) /\ p1.current = a + 1 /\ Len(t1) = a + 1
      /\ t1[a + 1].name = n /\ t1[a + 1].parent = c /\ \A j \in 1..a : t1[j] = t[j]
  BY <1>1, <1>2, <1>4, <1>5 DEF Started, Extends
<1>7. PICK it, u : it = Item("#text", v, none, a + 1) /\ u = Append(t1, it)
  OBVIOUS
<1>8. PICK p2 : p2 = Inner(p1, Text(v))
  OBVIOUS
<1>9. p2 = Parser(u, a + 1, "text", "reading")
  <2>1. p2 = Parser(Append(p1.items, Item("#text", v, <<>>, p1.current)), p1.current, "text", "reading")
    BY <1>6, <1>8, ReadsText DEF Begun
  <2> QED
    BY <1>3, <1>4, <1>6, <1>7, <2>1
<1>10. p2.items = u /\ p2.current = a + 1 /\ p2.state = "reading"
  BY <1>9 DEF Parser
<1>11. ParserOk(p2)
  BY <1>6, <1>8, TokensAre, InnerOk DEF Begun
<1>12. Len(u) = a + 2 /\ u[a + 2] = it /\ \A j \in 1..(a + 1) : u[j] = t1[j]
  <2>1. IsSeq(t1) /\ a + 1 \in Nat /\ (a + 1) + 1 = a + 2
    BY <1>4, <1>6 DEF Begun, ParserOk, Sound
  <2> QED
    BY <1>6, <1>7, <2>1, Appended
<1>13. u[a + 1] = t1[a + 1] /\ \A j \in 1..a : u[j] = t[j]
  BY <1>6, <1>12
<1>14. PICK q : q = Inner(p2, EndTag)
  OBVIOUS
<1>15. q = Parser(u, c, "end", "reading")
  <2>1. p2.current # 0 /\ p2.items[p2.current].parent = c
    BY <1>6, <1>10, <1>13
  <2> QED
    BY <1>10, <1>11, <1>14, <2>1, ReadsEnd
<1>16. q.items = u /\ q.current = c /\ q.after = "end" /\ q.state = "reading"
  BY <1>15 DEF Parser
<1>17. ParserOk(q)
  BY <1>11, <1>14, TokensAre, InnerOk
<1>18. ParseOn(p, Element(n, <<>>, <<Text(v)>>)) = q
  <2>1. PICK d : d = <<Text(v)>>
    OBVIOUS
  <2>2. IsSeq(d) /\ ParseOn(p1, d) = p2
    BY <1>8, <2>1, ShortIsSeq, ParseFew
  <2>3. ParseOn(p, Element(n, none, d)) = q
    BY <1>4, <1>14, <2>2, ParseElement
  <2> QED
    BY <1>3, <2>1, <2>3
<1>19. it.name = "#text" /\ it.value = v /\ it.parent = a + 1
  BY <1>7 DEF Item
<1>20. Children(u, a + 1) = {a + 2} /\ Children(u, a + 2) = {}
  <2>1. Sound(u) /\ DOMAIN u = 1..(a + 2)
    <3>1. Sound(u)
      BY <1>16, <1>17 DEF ParserOk
    <3> QED
      BY <1>12, <3>1, SoundItems
  <2>2. \A k \in 1..(a + 2) : u[k].parent \in 0..(k - 1)
    BY <1>12, <2>1 DEF Sound
  <2>3. \A k \in 1..(a + 2) : (u[k].parent = a + 1 <=> k = a + 2) /\ u[k].parent # a + 2
    BY <1>2, <1>12, <1>19, <2>2
  <2> QED
    BY <2>1, <2>3 DEF Children
<1>21. OnlyText(u, a + 1) /\ TextOf(u, a + 1) = v /\ ~OnlyText(u, a + 2)
  <2>1. u[a + 2].name = "#text" /\ u[a + 2].value = v
    BY <1>12, <1>19
  <2> QED
    BY <1>20, <2>1 DEF OnlyText, IsText, TextOf
<1>22. Belongs(u, a, c, {n}, {n}, a + 1)
  <2>1. Formed(u, a + 1)
    BY <1>6, <1>13, <1>20, <1>21 DEF Formed
  <2>2. \A k \in (a + 1)..(a + 2) : u[k].name = u[a + 1].name => k = a + 1
    BY <1>6, <1>12, <1>13, <1>19
  <2> QED
    BY <1>6, <1>12, <1>13, <2>1, <2>2 DEF Belongs
<1>23. Belongs(u, a, c, {n}, {n}, a + 2)
  BY <1>12, <1>19, <1>21 DEF Belongs
<1>24. ASSUME NEW j \in (a + 1)..(a + 2) PROVE Belongs(u, a, c, {n}, {n}, j)
  <2>1. j = a + 1 \/ j = a + 2
    OBVIOUS
  <2> QED
    BY <1>22, <1>23, <2>1
<1>25. Extends(u, t)
  <2>1. Len(t) = a /\ a <= Len(u)
    BY <1>1, <1>12
  <2> QED
    BY <1>13, <2>1 DEF Extends
<1>26. Part(p, q, {n}, {n})
  BY <1>1, <1>2, <1>12, <1>16, <1>17, <1>24, <1>25 DEF Part, Begun
<1> QED
  BY <1>1, <1>12, <1>16, <1>18, <1>26 DEF Grows

\* An element with elements inside.
LEMMA ElementPart ==
    ASSUME NEW p, Begun(p), NEW n, n # "#text", n \notin Hashed, NEW attrs, GoodAttributes(attrs),
           NEW inside, IsSeq(inside), NEW p1, p1 = Inner(p, StartTag(n, attrs)), NEW q1, q1 = ParseOn(p1, inside),
           NEW S, NEW L, Grows(p1, q1, S, L), "#text" \notin S
    PROVE  Grows(p, ParseOn(p, Element(n, attrs, inside)), {n}, {})
<1>t. PICK t : t = p.items
  OBVIOUS
<1>1. PICK a \in Nat : t = p.items /\ a = Len(t)
  BY <1>t, SoundItems DEF Begun, ParserOk
<1>2. PICK c \in 0..a : c = p.current
  BY <1>1 DEF Begun, ParserOk
<1>3. PICK t1 : t1 = p1.items
  OBVIOUS
<1>4. /\ Begun(p1) /\ p1.current = a + 1 /\ Len(t1) = a + 1
      /\ t1[a + 1].name = n /\ t1[a + 1].attributes = attrs /\ t1[a + 1].parent = c
      /\ \A j \in 1..a : t1[j] = t[j]
  BY <1>1, <1>2, <1>3, Starts DEF Started, Extends
<1>u. PICK u : u = q1.items
  OBVIOUS
<1>5. PICK b \in Nat : u = q1.items /\ b = Len(u)
  BY <1>u, SoundItems DEF Grows, Part, Begun, ParserOk
<1>6. Begun(q1) /\ q1.current = a + 1 /\ b > a + 1 /\ \A j \in 1..(a + 1) : u[j] = t1[j]
  BY <1>3, <1>4, <1>5 DEF Grows, Part, Extends
<1>7. \A j \in (a + 2)..b : Belongs(u, a + 1, a + 1, S, L, j)
  <2>1. (a + 1) + 1 = a + 2
    OBVIOUS
  <2> QED
    BY <1>3, <1>4, <1>5, <2>1 DEF Grows, Part
<1>8. u[a + 1] = t1[a + 1] /\ \A j \in 1..a : u[j] = t[j]
  BY <1>4, <1>6
<1>9. PICK q : q = Inner(q1, EndTag)
  OBVIOUS
<1>10. q = Parser(u, c, "end", "reading")
  <2>1. q1.current # 0 /\ q1.items[q1.current].parent = c
    BY <1>4, <1>5, <1>6, <1>8
  <2> QED
    BY <1>5, <1>6, <1>9, <2>1, ReadsEnd DEF Begun
<1>11. q.items = u /\ q.current = c /\ q.after = "end" /\ q.state = "reading"
  BY <1>10 DEF Parser
<1>12. ParserOk(q)
  BY <1>6, <1>9, TokensAre, InnerOk DEF Begun
<1>13. ParseOn(p, Element(n, attrs, inside)) = q
  BY <1>9, ParseElement
<1>14. Sound(u) /\ DOMAIN u = 1..b /\ \A k \in 1..b : u[k].parent \in 0..(k - 1)
  <2>1. Sound(u)
    BY <1>11, <1>12 DEF ParserOk
  <2>2. DOMAIN u = 1..b
    BY <1>5, <2>1, SoundItems
  <2> QED
    BY <1>5, <2>1, <2>2 DEF Sound
<1>15. \A k \in Children(u, a + 1) : k \in (a + 2)..b /\ u[k].name # "#text"
  <2> SUFFICES ASSUME NEW k \in Children(u, a + 1) PROVE k \in (a + 2)..b /\ u[k].name # "#text"
    OBVIOUS
  <2>1. k \in 1..b /\ u[k].parent = a + 1
    BY <1>14 DEF Children
  <2>2. k \in (a + 2)..b
    BY <1>14, <2>1
  <2>3. Belongs(u, a + 1, a + 1, S, L, k)
    BY <1>7, <2>2
  <2> QED
    BY <2>1, <2>2, <2>3 DEF Belongs
<1>16. a + 2 \in Children(u, a + 1)
  <2>1. a + 2 \in (a + 2)..b /\ a + 2 \in 1..b
    BY <1>6
  <2>2. Belongs(u, a + 1, a + 1, S, L, a + 2) /\ u[a + 2].parent \in 0..((a + 2) - 1)
    BY <1>7, <1>14, <2>1
  <2>3. u[a + 2].parent = a + 1
    BY <2>2 DEF Belongs
  <2> QED
    BY <1>14, <2>1, <2>3 DEF Children
<1>17. ~OnlyText(u, a + 1)
  BY <1>15 DEF OnlyText, IsText
<1>18. Formed(u, a + 1)
  <2>1. \A k \in DOMAIN u[a + 1].attributes : ValueOk(u[a + 1].attributes[k].value)
    BY <1>4, <1>8 DEF GoodAttributes
  <2> QED
    BY <1>4, <1>8, <1>15, <1>16, <1>17, <2>1 DEF Formed, IsText
<1>19. Belongs(u, a, c, {n}, {}, a + 1)
  BY <1>4, <1>8, <1>17, <1>18 DEF Belongs
<1>20. ASSUME NEW j \in (a + 2)..b PROVE Belongs(u, a, c, {n}, {}, j)
  <2>1. Belongs(u, a + 1, a + 1, S, L, j)
    BY <1>7
  <2>2. u[j].parent > a /\ u[j].parent # c
    BY <1>2, <1>14, <2>1 DEF Belongs
  <2>3. ASSUME OnlyText(u, j), NEW k \in (a + 1)..b, u[k].name = u[j].name, u[k].parent = u[j].parent
        PROVE  k = j
    <3>1. k # a + 1
      BY <1>4, <1>8, <2>2, <2>3
    <3>2. k \in ((a + 1) + 1)..b
      BY <3>1
    <3> QED
      BY <1>5, <2>1, <2>3, <3>2 DEF Belongs
  <2> QED
    BY <1>5, <2>1, <2>2, <2>3 DEF Belongs
<1>21. ASSUME NEW j \in (a + 1)..b PROVE Belongs(u, a, c, {n}, {}, j)
  <2>1. j = a + 1 \/ j \in (a + 2)..b
    OBVIOUS
  <2> QED
    BY <1>19, <1>20, <2>1
<1>22. Extends(u, t) /\ b > a
  BY <1>1, <1>5, <1>6, <1>8 DEF Extends
<1>23. Part(p, q, {n}, {})
  BY <1>1, <1>2, <1>5, <1>11, <1>12, <1>21, <1>22 DEF Part, Begun
<1> QED
  BY <1>1, <1>5, <1>11, <1>13, <1>22, <1>23 DEF Grows

\* A whole document.
LEMMA WholePart ==
    ASSUME NEW q, NEW S, NEW L, "#text" \notin S, Grows(NewReader, q, S, L)
    PROVE  Convertible(q)
<1>1. NewReader.items = <<>> /\ NewReader.current = 0
  BY DEF NewReader
<1>u. PICK u : u = q.items
  OBVIOUS
<1>2. PICK b \in Nat : u = q.items /\ b = Len(u) /\ Sound(u) /\ DOMAIN u = 1..b
  BY <1>u, SoundItems DEF Grows, Part, Begun, ParserOk
<1>3. Len(<<>>) = 0
  BY EmptySeq
<1>4. b > 0 /\ \A j \in 1..b : Belongs(u, 0, 0, S, L, j)
  <2>1. Len(NewReader.items) = 0 /\ 0 + 1 = 1
    BY <1>1, <1>3
  <2> QED
    BY <1>1, <1>2, <2>1 DEF Grows, Part
<1>5. 1 \in Elements(u)
  <2>1. 1 \in 1..b /\ Belongs(u, 0, 0, S, L, 1)
    BY <1>4
  <2>2. u[1].parent \in 0..(1 - 1)
    BY <1>2, <2>1 DEF Sound
  <2>3. u[1].name \in S
    BY <2>1, <2>2 DEF Belongs
  <2> QED
    BY <1>2, <2>1, <2>3 DEF Elements
<1>6. PICK top : top = Tree(u)
  OBVIOUS
<1>7. top \in Elements(u) /\ InnerElements(u) = Sub(u, top)
  <2>1. top # 0
    BY <1>2, <1>5, <1>6, TreeIs
  <2> QED
    BY <1>2, <1>6, <2>1, TreeIs, InnerIs
<1>8. InnerElements(u) # {}
  BY <1>7, SubIs
<1>9. ASSUME NEW i \in InnerElements(u) PROVE HasForm(u, i)
  <2>1. i \in 1..b /\ u[i].name # "#text"
    BY <1>2, <1>7 DEF Sub, Elements
  <2>2. Belongs(u, 0, 0, S, L, i)
    BY <1>4, <2>1
  <2>3. Formed(u, i)
    BY <2>1, <2>2 DEF Belongs
  <2>4. OnlyText(u, i) => Alike(u, i) = {i}
    <3> SUFFICES ASSUME OnlyText(u, i) PROVE Alike(u, i) = {i}
      OBVIOUS
    <3>1. ASSUME NEW k \in Alike(u, i) PROVE k = i
      <4>1. k \in (0 + 1)..Len(u) /\ u[k].name = u[i].name /\ u[k].parent = u[i].parent
        BY <1>2 DEF Alike, Elements
      <4> QED
        BY <2>2, <4>1 DEF Belongs
    <3>2. i \in Alike(u, i)
      BY <1>2, <2>1 DEF Alike, Elements
    <3> QED
      BY <3>1, <3>2
  <2> QED
    BY <2>3, <2>4 DEF HasForm, Formed
<1>10. Parsed(q)
  BY DEF Parsed, Grows, Part, Begun
<1> QED
  BY <1>2, <1>8, <1>9, <1>10 DEF Convertible

-----------------------------------------------------------------------------
(* The documents of the services have a form in JSON. *)

LEMMA GrowsJoined ==
    ASSUME NEW p, Begun(p), NEW q, NEW S, NEW L, Part(p, q, S, L),
           NEW r, NEW S2, NEW L2, Grows(q, r, S2, L2),
           L \intersect S2 = {}, L2 \intersect S = {}
    PROVE  Grows(p, r, S \union S2, L \union L2)
<1>1. Part(p, r, S \union S2, L \union L2)
  BY PartsJoined DEF Grows
<1>2. Len(p.items) \in Nat /\ Len(q.items) \in Nat /\ Len(r.items) \in Nat
  BY SoundItems DEF Grows, Part, Begun, ParserOk
<1>3. Len(p.items) <= Len(q.items) /\ Len(q.items) < Len(r.items)
  BY <1>2 DEF Grows, Part, Extends
<1> QED
  BY <1>1, <1>2, <1>3 DEF Grows

\* The parser after each of a sequence of parts.
PartByPart(f, p, seqs, n) == f[0] = p /\ \A k \in 1..n : f[k] = ParseOn(f[k - 1], seqs[k])

LEMMA SequenceReads ==
    ASSUME NEW p, NEW n \in Nat, NEW seqs, seqs = [k \in 1..n |-> seqs[k]], \A k \in 1..n : IsSeq(seqs[k])
    PROVE  \E f : PartByPart(f, p, seqs, n) /\ f[n] = ParseOn(p, FlattenSeq(seqs))
<1>1. PICK F : Chained(F, seqs, n) /\ FlattenSeq(seqs) = F[n]
  BY Flattened
<1> DEFINE f == [k \in 0..n |-> ParseOn(p, F[k])]
<1>2. 0 \in 0..n /\ n \in 0..n
  OBVIOUS
<1>3. f[0] = p
  BY <1>1, <1>2, ParseFew DEF Chained
<1>4. f[n] = ParseOn(p, FlattenSeq(seqs))
  BY <1>1, <1>2
<1>5. ASSUME NEW k \in 1..n PROVE f[k] = ParseOn(f[k - 1], seqs[k])
  <2>1. k - 1 \in 0..n /\ k \in 0..n
    OBVIOUS
  <2>2. F[k] = F[k - 1] \o seqs[k] /\ IsSeq(F[k - 1])
    BY <1>1, <2>1 DEF Chained
  <2>3. ParseOn(p, F[k]) = ParseOn(ParseOn(p, F[k - 1]), seqs[k])
    BY <2>2, ParseJoined
  <2> QED
    BY <2>1, <2>3
<1> HIDE DEF f
<1>6. PartByPart(f, p, seqs, n)
  BY <1>3, <1>5 DEF PartByPart
<1> QED
  BY <1>4, <1>6

LEMMA NoAttributes == GoodAttributes(<<>>)
  BY ShortIsSeq DEF GoodAttributes

LEMMA OneAttribute ==
    ASSUME NEW n, NEW v, ValueOk(v)
    PROVE  GoodAttributes(<<Attribute(n, v)>>)
<1>1. PICK a, s : a = Attribute(n, v) /\ s = <<a>>
  OBVIOUS
<1>2. a.ok /\ a.value = v
  BY <1>1 DEF Attribute
<1>3. IsSeq(s) /\ DOMAIN s = {1} /\ s[1] = a
  BY <1>1, ShortIsSeq
<1> QED
  BY <1>1, <1>2, <1>3 DEF GoodAttributes

LEMMA WordsOk ==
    /\ ValueOk("0") /\ ValueOk("1") /\ ValueOk("12.5")
    /\ ValueOk("nan") /\ ValueOk("1e+06") /\ ValueOk("noon")
  BY DocumentAssumption DEF ValueOk

LEMMA EntryPart ==
    ASSUME NEW p, Begun(p), NEW v, ValueOk(v)
    PROVE  Grows(p, ParseOn(p, Entry(v)), {"entry"}, {})
<1>1. PICK a, d1, d2, d : /\ a = <<Attribute("time", "noon")>>
                          /\ d1 = Element("voltage", <<>>, <<Text(v)>>)
                          /\ d2 = Element("current", <<>>, <<Text(v)>>)
                          /\ d = d1 \o d2
  OBVIOUS
<1>2. GoodAttributes(a)
  BY <1>1, OneAttribute, WordsOk
<1>3. PICK n, x, y : n = "entry" /\ x = "voltage" /\ y = "current"
  OBVIOUS
<1>4. IsSeq(d1) /\ IsSeq(d2) /\ IsSeq(d)
  <2>1. PICK e : e = <<Text(v)>>
    OBVIOUS
  <2>2. Doc(e)
    BY <2>1, TokensAre, DocOne
  <2>3. Doc(d1) /\ Doc(d2)
    BY <1>1, <2>1, <2>2, ElementDoc, ShortIsSeq
  <2> QED
    BY <1>1, <2>3, JoinedIsSeq DEF Doc
<1>5. PICK p1 : p1 = Inner(p, StartTag(n, a))
  OBVIOUS
<1>6. Begun(p1)
  BY <1>2, <1>3, <1>5, Starts DEF Started
<1>7. PICK q1 : q1 = ParseOn(p1, d1)
  OBVIOUS
<1>8. Grows(p1, q1, {x}, {x})
  BY <1>1, <1>3, <1>6, <1>7, PlainNames, LeafPart
<1>9. Begun(q1)
  BY <1>8 DEF Grows, Part
<1>10. PICK q2 : q2 = ParseOn(q1, d2)
  OBVIOUS
<1>11. Grows(q1, q2, {y}, {y})
  BY <1>1, <1>3, <1>9, <1>10, PlainNames, LeafPart
<1>12. Grows(p1, q2, {x} \union {y}, {x} \union {y})
  <2>1. {x} \intersect {y} = {} /\ {y} \intersect {x} = {}
    BY <1>3
  <2>2. Part(p1, q1, {x}, {x})
    BY <1>8 DEF Grows
  <2> QED
    BY <1>6, <1>11, <2>1, <2>2, GrowsJoined
<1>13. q2 = ParseOn(p1, d)
  BY <1>1, <1>4, <1>7, <1>10, ParseJoined
<1>14. "#text" \notin {x} \union {y} /\ n # "#text" /\ n \notin Hashed
  BY <1>3, PlainNames
<1>15. Grows(p, ParseOn(p, Element(n, a, d)), {n}, {})
  BY <1>2, <1>4, <1>5, <1>12, <1>13, <1>14, ElementPart
<1> QED
  BY <1>1, <1>3, <1>15 DEF Entry

\* A table that has records.
LEMMA TableConverts ==
    ASSUME NEW n \in Nat, n # 0
    PROVE  Convertible(ParseOn(NewReader, ToXml(n)))
<1>1. PICK v, name, entry : v = "12.5" /\ name = "xml" /\ entry = "entry"
  OBVIOUS
<1>2. PICK seqs : seqs = [k \in 1..n |-> Entry(v)]
  OBVIOUS
<1>3. seqs = [k \in 1..n |-> seqs[k]] /\ (\A k \in 1..n : seqs[k] = Entry(v)) /\ \A k \in 1..n : Doc(seqs[k])
  BY <1>2, EntryDoc
<1>4. PICK d : d = FlattenSeq(seqs)
  OBVIOUS
<1>5. IsSeq(d)
  BY <1>3, <1>4, DocFlattened DEF Doc
<1>6. Begun(NewReader)
  BY NewReaderOk DEF Begun, NewReader
<1>7. PICK p1 : p1 = Inner(NewReader, StartTag(name, <<>>))
  OBVIOUS
<1>8. Begun(p1)
  BY <1>1, <1>6, <1>7, NoAttributes, Starts DEF Started
<1>9. PICK f : PartByPart(f, p1, seqs, n) /\ f[n] = ParseOn(p1, FlattenSeq(seqs))
  <2>1. \A k \in 1..n : IsSeq(seqs[k])
    BY <1>3 DEF Doc
  <2>2. seqs = [k \in 1..n |-> seqs[k]]
    BY <1>3
  <2> QED
    BY <2>1, <2>2, SequenceReads
<1> DEFINE T == {k \in Nat : k \in 0..n => Part(p1, f[k], {entry}, {}) /\ (k # 0 => Grows(p1, f[k], {entry}, {}))}
<1>10. 0 \in T
  BY <1>8, <1>9, NothingPart DEF PartByPart
<1>11. ASSUME NEW k \in Nat, k \in T PROVE k + 1 \in T
  <2>0. ASSUME k + 1 \in 0..n PROVE Grows(p1, f[k + 1], {entry}, {})
    <3>1. k + 1 \in 1..n /\ (k + 1) - 1 = k /\ k \in 0..n
      BY <2>0
    <3>2. PICK q, r : q = f[k] /\ r = f[k + 1]
      OBVIOUS
    <3>3. r = ParseOn(q, Entry(v)) /\ Part(p1, q, {entry}, {})
      BY <1>3, <1>9, <1>11, <3>1, <3>2 DEF PartByPart
    <3>4. Grows(q, r, {entry}, {})
      <4>1. Begun(q) /\ ValueOk(v)
        BY <1>1, <3>3, WordsOk DEF Part
      <4> QED
        BY <1>1, <3>3, <4>1, EntryPart
    <3>5. Grows(p1, r, {entry} \union {entry}, {} \union {})
      <4>1. {} \intersect {entry} = {}
        OBVIOUS
      <4> QED
        BY <1>8, <3>3, <3>4, <4>1, GrowsJoined
    <3>6. {entry} \union {entry} = {entry} /\ {} \union {} = {}
      OBVIOUS
    <3> QED
      BY <3>2, <3>5, <3>6
  <2> QED
    BY <2>0 DEF Grows
<1> HIDE DEF T
<1>12. n \in T
  BY <1>10, <1>11, SetInduction
<1>13. Grows(p1, ParseOn(p1, d), {entry}, {})
  <2>1. n \in 0..n
    OBVIOUS
  <2> QED
    BY <1>4, <1>9, <1>12, <2>1 DEF T
<1>14. Grows(NewReader, ParseOn(NewReader, Element(name, <<>>, d)), {name}, {})
  <2>1. "#text" \notin {entry} /\ name # "#text" /\ name \notin Hashed
    BY <1>1, PlainNames
  <2> QED
    BY <1>5, <1>6, <1>7, <1>13, <2>1, NoAttributes, ElementPart
<1>15. Convertible(ParseOn(NewReader, Element(name, <<>>, d)))
  <2>1. "#text" \notin {name}
    BY <1>1
  <2> QED
    BY <1>14, <2>1, WholePart
<1> QED
  BY <1>1, <1>2, <1>4, <1>15 DEF ToXml

\* What the report writes is a number, or has a letter in it.
LEMMA WrittenOk == ASSUME NEW f, NEW e PROVE ValueOk(Written(f, e))
  BY WordsOk DEF Written

\* The names of the fields of a group, among the first k.
NamesTo(g, k) == {Fields[j].name : j \in {i \in 1..k : Fields[i].group = g}}

LEMMA FieldGroups ==
    /\ Fields[1].group = "pv_array_rating" /\ Fields[4].group = "pv_array_now"
    /\ Fields[7].group = "battery" /\ Fields[11].group = "generation"
  BY DEF Fields, Number1, Number2

LEMMA NamesDiffer ==
    ASSUME NEW i \in 1..13, NEW j \in 1..13, Fields[i].group = Fields[j].group, Fields[i].name = Fields[j].name
    PROVE  i = j
<1>1. \A k \in 1..3 : Fields[k].group = "pv_array_rating"
  BY DEF Fields, Number1, Number2
<1>2. \A k \in 4..6 : Fields[k].group = "pv_array_now"
  BY DEF Fields, Number1, Number2
<1>3. \A k \in 7..10 : Fields[k].group = "battery"
  BY DEF Fields, Number1, Number2
<1>4. \A k \in 11..13 : Fields[k].group = "generation"
  BY DEF Fields, Number1, Number2
<1>5. /\ Fields[1].name = "voltage" /\ Fields[2].name = "current" /\ Fields[3].name = "power"
      /\ Fields[4].name = "voltage" /\ Fields[5].name = "current" /\ Fields[6].name = "power"
      /\ Fields[7].name = "voltage" /\ Fields[8].name = "current" /\ Fields[9].name = "state_of_charge"
      /\ Fields[10].name = "net_current"
      /\ Fields[11].name = "today" /\ Fields[12].name = "this_month" /\ Fields[13].name = "this_year"
  BY DEF Fields, Number1, Number2
<1>6. CASE i \in 1..3
  <2>1. j \in 1..3
    BY <1>1, <1>2, <1>3, <1>4, <1>6
  <2> QED
    BY <1>5, <1>6, <2>1
<1>7. CASE i \in 4..6
  <2>1. j \in 4..6
    BY <1>1, <1>2, <1>3, <1>4, <1>7
  <2> QED
    BY <1>5, <1>7, <2>1
<1>8. CASE i \in 7..10
  <2>1. j \in 7..10
    BY <1>1, <1>2, <1>3, <1>4, <1>8
  <2> QED
    BY <1>5, <1>8, <2>1
<1>9. CASE i \in 11..13
  <2>1. j \in 11..13
    BY <1>1, <1>2, <1>3, <1>4, <1>9
  <2> QED
    BY <1>5, <1>9, <2>1
<1> QED
  BY <1>6, <1>7, <1>8, <1>9

LEMMA GroupPart ==
    ASSUME NEW p, Begun(p), NEW g, g # "#text", g \notin Hashed, NEW here \in 1..13, Fields[here].group = g, NEW entries
    PROVE  Grows(p, ParseOn(p, Group(g, entries)), {g}, {})
<1>1. PICK seqs : seqs = [k \in 1..13 |-> FieldPart(g, entries, k)]
  OBVIOUS
<1>2. (\A k \in 1..13 : seqs[k] = FieldPart(g, entries, k)) /\ seqs = [k \in 1..13 |-> seqs[k]]
  BY <1>1
<1>3. \A k \in 1..13 : Doc(seqs[k])
  BY <1>2, FieldDoc
<1>4. PICK d : d = FlattenSeq(seqs)
  OBVIOUS
<1>5. IsSeq(d)
  BY <1>2, <1>3, <1>4, DocFlattened DEF Doc
<1>6. PICK p1 : p1 = Inner(p, StartTag(g, <<>>))
  OBVIOUS
<1>7. Begun(p1)
  BY <1>6, NoAttributes, Starts DEF Started
<1>8. PICK f : PartByPart(f, p1, seqs, 13) /\ f[13] = ParseOn(p1, FlattenSeq(seqs))
  <2>1. \A k \in 1..13 : IsSeq(seqs[k])
    BY <1>3 DEF Doc
  <2>2. seqs = [k \in 1..13 |-> seqs[k]] /\ 13 \in Nat
    BY <1>2
  <2> QED
    BY <2>1, <2>2, SequenceReads
<1> DEFINE N(k) == NamesTo(g, k)
           Seen(k) == \E i \in 1..k : Fields[i].group = g
           T == {k \in Nat : k \in 0..13 => Part(p1, f[k], N(k), N(k)) /\ (Seen(k) => Grows(p1, f[k], N(k), N(k)))}
<1>9. 0 \in T
  BY <1>7, <1>8, NothingPart DEF PartByPart
<1>10. ASSUME NEW k \in Nat, k \in T PROVE k + 1 \in T
  <2>0. ASSUME k + 1 \in 0..13
        PROVE  Part(p1, f[k + 1], N(k + 1), N(k + 1)) /\ (Seen(k + 1) => Grows(p1, f[k + 1], N(k + 1), N(k + 1)))
    <3>1. k + 1 \in 1..13 /\ (k + 1) - 1 = k /\ k \in 0..13
      BY <2>0
    <3>2. PICK q, r : q = f[k] /\ r = f[k + 1]
      OBVIOUS
    <3>3. Part(p1, q, N(k), N(k)) /\ (Seen(k) => Grows(p1, q, N(k), N(k)))
      BY <1>10, <3>1, <3>2
    <3>4. r = ParseOn(q, FieldPart(g, entries, k + 1))
      BY <1>2, <1>8, <3>1, <3>2 DEF PartByPart
    <3>5. \A i \in 1..(k + 1) : i \in 1..k \/ i = k + 1
      BY <3>1
    <3>6. CASE Fields[k + 1].group # g
      <4>1. r = q
        BY <3>4, <3>6, ParseFew DEF FieldPart
      <4>2. N(k + 1) = N(k)
        BY <3>1, <3>5, <3>6 DEF NamesTo
      <4>3. Seen(k + 1) => Seen(k)
        BY <3>5, <3>6
      <4> HIDE DEF N, Seen
      <4> QED
        BY <3>2, <3>3, <4>1, <4>2, <4>3
    <3>7. CASE Fields[k + 1].group = g
      <4>1. PICK x, v : x = Fields[k + 1].name /\ v = Written(Fields[k + 1], entries[k + 1])
        OBVIOUS
      <4>2. r = ParseOn(q, Element(x, <<>>, <<Text(v)>>))
        BY <3>4, <3>7, <4>1 DEF FieldPart
      <4>3. Begun(q) /\ x # "#text" /\ x \notin Hashed /\ ValueOk(v)
        BY <3>1, <3>3, <4>1, FieldNames, PlainNames, WrittenOk DEF Part
      <4>4. Grows(q, r, {x}, {x})
        BY <4>2, <4>3, LeafPart
      <4>5. x \notin N(k)
        <5> SUFFICES ASSUME NEW i \in 1..k, Fields[i].group = g, Fields[i].name = x PROVE FALSE
          BY DEF NamesTo
        <5>1. i \in 1..13 /\ i # k + 1
          BY <3>1
        <5> QED
          BY <3>1, <3>7, <4>1, <5>1, NamesDiffer
      <4>6. N(k) \union {x} = N(k + 1)
        BY <3>1, <3>5, <3>7, <4>1 DEF NamesTo
      <4> HIDE DEF N
      <4>7. Grows(p1, r, N(k) \union {x}, N(k) \union {x})
        <5>1. N(k) \intersect {x} = {} /\ {x} \intersect N(k) = {}
          BY <4>5
        <5> QED
          BY <1>7, <3>3, <4>4, <5>1, GrowsJoined
      <4> QED
        BY <3>2, <4>6, <4>7 DEF Grows
    <3> HIDE DEF N, Seen
    <3> QED
      BY <3>6, <3>7
  <2> QED
    BY <2>0
<1>11. \A S : S = NamesTo(g, 13) => "#text" \notin S
  BY FieldNames DEF NamesTo
<1>12. Seen(13)
  OBVIOUS
<1> HIDE DEF T, N, Seen
<1>13. 13 \in T
  BY <1>9, <1>10, SetInduction
<1>14. Grows(p1, ParseOn(p1, d), N(13), N(13))
  BY <1>4, <1>8, <1>12, <1>13 DEF T
<1>15. "#text" \notin N(13)
  BY <1>11 DEF N
<1>16. Grows(p, ParseOn(p, Element(g, <<>>, d)), {g}, {})
  BY <1>5, <1>6, <1>14, <1>15, NoAttributes, ElementPart
<1> QED
  BY <1>1, <1>4, <1>16, GroupIs

\* A report, whatever has been read, in part or not at all.
LEMMA DocumentConverts == ASSUME NEW entries PROVE Convertible(ParseOn(NewReader, Document(entries)))
<1>1. PICK g1, g2, g3, g4, name, a :
         /\ g1 = "pv_array_rating" /\ g2 = "pv_array_now" /\ g3 = "battery" /\ g4 = "generation"
         /\ name = "controller" /\ a = <<Attribute("id", "1")>>
  OBVIOUS
<1>2. PICK d1, d2, d3, d4 : /\ d1 = Group(g1, entries) /\ d2 = Group(g2, entries)
                            /\ d3 = Group(g3, entries) /\ d4 = Group(g4, entries)
  OBVIOUS
<1>3. Doc(d1) /\ Doc(d2) /\ Doc(d3) /\ Doc(d4)
  BY <1>1, <1>2, GroupDoc
<1>4. PICK d12, d123, d : d12 = d1 \o d2 /\ d123 = d12 \o d3 /\ d = d123 \o d4
  OBVIOUS
<1>5. IsSeq(d1) /\ IsSeq(d2) /\ IsSeq(d3) /\ IsSeq(d4) /\ IsSeq(d12) /\ IsSeq(d123) /\ IsSeq(d)
  BY <1>3, <1>4, JoinedIsSeq DEF Doc
<1>6. Document(entries) = Element(name, a, d)
  BY <1>1, <1>2, <1>4 DEF Document
<1>7. GoodAttributes(a)
  BY <1>1, WordsOk, OneAttribute
<1>8. Begun(NewReader)
  BY NewReaderOk DEF Begun, NewReader
<1>9. PICK p1 : p1 = Inner(NewReader, StartTag(name, a))
  OBVIOUS
<1>10. Begun(p1)
  BY <1>1, <1>7, <1>8, <1>9, Starts DEF Started
<1>11. PICK q1, q2, q3, q4 : /\ q1 = ParseOn(p1, d1) /\ q2 = ParseOn(q1, d2)
                             /\ q3 = ParseOn(q2, d3) /\ q4 = ParseOn(q3, d4)
  OBVIOUS
<1>12. q4 = ParseOn(p1, d)
  <2>1. q2 = ParseOn(p1, d12)
    BY <1>4, <1>5, <1>11, ParseJoined
  <2>2. q3 = ParseOn(p1, d123)
    BY <1>4, <1>5, <1>11, <2>1, ParseJoined
  <2> QED
    BY <1>4, <1>5, <1>11, <2>2, ParseJoined
<1>13. ASSUME NEW p, Begun(p), NEW g \in {g1, g2, g3, g4} PROVE Grows(p, ParseOn(p, Group(g, entries)), {g}, {})
  <2>1. PICK here \in 1..13 : Fields[here].group = g /\ g # "#text"
    BY <1>1, FieldGroups
  <2>2. g \notin Hashed
    BY <2>1, PlainNames
  <2> QED
    BY <1>13, <2>1, <2>2, GroupPart
<1>14. ASSUME NEW q, NEW S, Part(p1, q, S, {}), NEW g \in {g1, g2, g3, g4}
       PROVE  Grows(p1, ParseOn(q, Group(g, entries)), S \union {g}, {})
  <2>1. Begun(q)
    BY <1>14 DEF Part
  <2>2. Grows(q, ParseOn(q, Group(g, entries)), {g}, {})
    BY <1>13, <2>1
  <2>3. Grows(p1, ParseOn(q, Group(g, entries)), S \union {g}, {} \union {})
    <3>1. {} \intersect {g} = {} /\ {} \intersect S = {}
      OBVIOUS
    <3> QED
      BY <1>10, <1>14, <2>2, <3>1, GrowsJoined
  <2>4. {} \union {} = {}
    OBVIOUS
  <2> QED
    BY <2>3, <2>4
<1>15. Part(p1, q1, {} \union {g1}, {})
  BY <1>2, <1>10, <1>11, <1>14, NothingPart DEF Grows
<1>16. Part(p1, q2, {} \union {g1} \union {g2}, {})
  BY <1>2, <1>11, <1>14, <1>15 DEF Grows
<1>17. Part(p1, q3, {} \union {g1} \union {g2} \union {g3}, {})
  BY <1>2, <1>11, <1>14, <1>16 DEF Grows
<1>18. Grows(p1, q4, {} \union {g1} \union {g2} \union {g3} \union {g4}, {})
  BY <1>2, <1>11, <1>14, <1>17
<1>19. PICK S : S = {} \union {g1} \union {g2} \union {g3} \union {g4}
  OBVIOUS
<1>20. "#text" \notin S /\ name # "#text" /\ name \notin Hashed /\ "#text" \notin {name}
  BY <1>1, <1>19, PlainNames
<1>21. Grows(NewReader, ParseOn(NewReader, Element(name, a, d)), {name}, {})
  BY <1>5, <1>7, <1>8, <1>9, <1>12, <1>18, <1>19, <1>20, ElementPart
<1> QED
  BY <1>6, <1>20, <1>21, WholePart

LEMMA DiesJoined ==
    ASSUME NEW s, NEW t, IsSeq(s), IsSeq(t), Dies(s) \/ Dies(t)
    PROVE  Dies(s \o t)
<1>1. PICK m \in Nat, n \in Nat : m = Len(s) /\ n = Len(t) /\ DOMAIN s = 1..m /\ DOMAIN t = 1..n
  BY LenProperties DEF IsSeq
<1>2. PICK u : u = s \o t
  OBVIOUS
<1>3. /\ IsSeq(u) /\ Len(u) = m + n
      /\ \A k \in 1..m : u[k] = s[k]
      /\ \A k \in 1..n : u[m + k] = t[k]
  BY <1>1, <1>2, JoinedIsSeq
<1>4. DOMAIN u = 1..(m + n)
  BY <1>3, LenProperties DEF IsSeq
<1>5. \A k \in 1..m : k \in 1..(m + n)
  OBVIOUS
<1>6. \A k \in 1..n : m + k \in 1..(m + n)
  OBVIOUS
<1>7. Dies(u)
  BY <1>1, <1>3, <1>4, <1>5, <1>6 DEF Dies
<1> QED
  BY <1>2, <1>7

\* A table without records.
LEMMA EmptyTableDies == Dies(Convert(ToXml(0)))
<1>1. PICK name, none, p1, e : name = "xml" /\ none = <<>> /\ p1 = Inner(NewReader, StartTag(name, none)) /\ e = EndTag
  OBVIOUS
<1>2. Begun(NewReader) /\ NewReader.items = <<>> /\ NewReader.current = 0 /\ Len(<<>>) = 0
  BY NewReaderOk, EmptySeq DEF Begun, NewReader
<1>3. PICK u : u = p1.items
  OBVIOUS
<1>4. Begun(p1) /\ p1.current = 1 /\ Len(u) = 1 /\ u[1].name = name /\ u[1].parent = 0
  <2>1. Started(NewReader, p1, name, none)
    BY <1>1, <1>2, NoAttributes, Starts
  <2>2. Len(NewReader.items) + 1 = 1
    BY <1>2
  <2> QED
    BY <1>2, <1>3, <2>1, <2>2 DEF Started
<1>5. PICK q : q = Inner(p1, e)
  OBVIOUS
<1>6. ToXml(0) = Element(name, none, none)
  <2>1. [k \in 1..0 |-> Entry("12.5")] = <<>>
    OBVIOUS
  <2>2. FlattenSeq(<<>>) = <<>>
    BY <1>2 DEF FlattenSeq
  <2> QED
    BY <1>1, <2>1, <2>2 DEF ToXml
<1>7. ParseOn(NewReader, ToXml(0)) = q
  <2>1. IsSeq(none) /\ ParseOn(p1, none) = p1
    BY <1>1, ShortIsSeq, ParseFew
  <2>2. ParseOn(NewReader, Element(name, none, none)) = Inner(ParseOn(p1, none), EndTag)
    BY <1>1, <2>1, ParseElement
  <2> QED
    BY <1>1, <1>5, <1>6, <2>1, <2>2
<1>8. q.items = u /\ q.state = "reading" /\ q.after = "end"
  <2>1. q = Parser(u, u[1].parent, "end", "reading")
    BY <1>1, <1>3, <1>4, <1>5, ReadsEnd DEF Begun
  <2> QED
    BY <2>1 DEF Parser
<1>9. Sound(u) /\ DOMAIN u = 1..1
  BY <1>3, <1>4, SoundItems DEF Begun, ParserOk
<1>10. Tree(u) = 1
  <2>1. PICK top : top = Tree(u)
    OBVIOUS
  <2>2. 1 \in Elements(u)
    BY <1>1, <1>4, <1>9 DEF Elements
  <2>3. top \in 1..1
    BY <1>4, <1>9, <2>1, <2>2, TreeIs
  <2> QED
    BY <2>1, <2>3
<1>11. Children(u, 1) = {}
  BY <1>4, <1>9 DEF Children
<1>12. Inside(u)[1] = Attributes(u, 1) \o <<Dead>> /\ IsSeq(Attributes(u, 1))
  <2>1. 1 \in 1..Len(u)
    BY <1>4
  <2> QED
    BY <1>9, <1>11, <2>1, ChildlessIs, AttributesSeq
<1>13. Dies(Inside(u)[1]) /\ IsSeq(Inside(u)[1])
  <2>1. PICK x : x = <<Dead>>
    OBVIOUS
  <2>2. Dies(x) /\ IsSeq(x)
    BY <2>1, ShortIsSeq DEF Dies
  <2> QED
    BY <1>12, <2>1, <2>2, DiesJoined, JoinedIsSeq
<1>14. PICK o, o1, c, w : /\ o = <<Opens(u[1].name, "object")>> /\ o1 = <<Piece("object")>>
                          /\ c = <<Piece("object_end")>> /\ w = Walk(Inside(u), u, 1, TRUE, FALSE)
  OBVIOUS
<1>15. IsSeq(o) /\ IsSeq(o1) /\ IsSeq(c)
  BY <1>14, ShortIsSeq
<1>16. w = o \o Inside(u)[1] \o c \o <<>>
  <2>1. ~OnlyText(u, 1)
    BY <1>11 DEF OnlyText
  <2> QED
    BY <1>14, <2>1 DEF Walk, Comma
<1>17. Dies(w) /\ IsSeq(w)
  <2>1. Dies(o \o Inside(u)[1]) /\ IsSeq(o \o Inside(u)[1])
    BY <1>13, <1>15, DiesJoined, JoinedIsSeq
  <2>2. Dies(o \o Inside(u)[1] \o c) /\ IsSeq(o \o Inside(u)[1] \o c)
    BY <1>15, <2>1, DiesJoined, JoinedIsSeq
  <2> QED
    BY <1>16, <2>2, ShortIsSeq, DiesJoined, JoinedIsSeq
<1>18. Dies(o1 \o w) /\ IsSeq(o1 \o w)
  BY <1>15, <1>17, DiesJoined, JoinedIsSeq
<1>19. Dies(o1 \o w \o c)
  BY <1>15, <1>18, DiesJoined
<1>20. Convert(ToXml(0)) = o1 \o w \o c
  <2>1. Convert(ToXml(0)) = Result(q)
    BY <1>7 DEF Convert
  <2>2. Result(q) = OnFinish(q)
    BY <1>8 DEF Result, Parsed
  <2>3. OnFinish(q) = o1 \o w \o c
    BY <1>8, <1>10, <1>14 DEF OnFinish
  <2> QED
    BY <2>1, <2>2, <2>3
<1> QED
  BY <1>19, <1>20

\* dataOp() of controller_read with any of its registers unread, zero or too
\* large for six digits, and dataOp() of history with any number of records:
\* what they send for a request with .json is JSON.
THEOREM ServicesAnswerInJson == Spec => []ServicesSendJson
<1>1. IInv => ServicesSendJson
  <2> SUFFICES ASSUME IInv,
                      \/ source = "controller" /\ serving = "idle" /\ ~More
                      \/ source = "history" /\ answer.code = 200 /\ request.ext = "json"
               PROVE  \A p \in {Reading} : IsJson(Result(p))
    BY DEF ServicesSendJson
  <2>1. PICK p : p = Reading
    OBVIOUS
  <2>2. Convertible(p)
    <3>1. CASE source = "controller" /\ serving = "idle" /\ ~More
      <4>1. p = ParseOn(NewReader, Document(report))
        BY <2>1, <3>1 DEF Reading
      <4> QED
        BY <4>1, DocumentConverts
    <3>2. CASE source = "history" /\ answer.code = 200 /\ request.ext = "json"
      <4>1. PICK n : n = answer.entries
        OBVIOUS
      <4>2. p = ParseOn(NewReader, ToXml(n))
        BY <2>1, <3>2, <4>1 DEF Reading
      <4>3. n \in 0..MaxRecords /\ n \notin Deadly
        BY <3>2, <4>1 DEF IInv, ServiceInv, ServiceTypeOK, JsonHasRecords
      <4>4. n # 0
        <5>1. ~Dies(Convert(ToXml(n)))
          BY <4>3, ConversionAssumption DEF DeadlyCounts
        <5> QED
          BY <5>1, EmptyTableDies
      <4> QED
        BY <4>2, <4>3, <4>4, TableConverts
    <3> QED
      BY <3>1, <3>2
  <2>3. JsonIffConvertible(p)
    BY <2>1, ReadingOk, AnswerIsJson
  <2> QED
    BY <2>1, <2>2, <2>3 DEF JsonIffConvertible
<1> QED
  BY Invariance, <1>1, PTL

\* Of all the tables history can be asked for, toXML() of the ones without a
\* record, and of no others, ends the process in XML2JSON::convert().
THEOREM EmptyTablesAreDeadly == Deadly = {0}
<1>1. MaxRecords \in Nat
  BY ServiceAssumption
<1>2. ASSUME NEW n \in Nat, n # 0 PROVE ~Dies(Convert(ToXml(n)))
  <2>1. PICK p : p = ParseOn(NewReader, ToXml(n))
    OBVIOUS
  <2>2. Convertible(p)
    BY <1>2, <2>1, TableConverts
  <2>3. ParserOk(p)
    BY <2>1, NewReaderOk, ToXmlDoc, ParseOnOk DEF Doc
  <2> QED
    BY <2>1, <2>2, <2>3, FormNeverDies DEF Convert
<1>3. DeadlyCounts = {0}
  BY <1>1, <1>2, EmptyTableDies DEF DeadlyCounts
<1> QED
  BY <1>3, ConversionAssumption
=============================================================================
