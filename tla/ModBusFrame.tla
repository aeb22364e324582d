----------------------------- MODULE ModBusFrame -----------------------------
(***************************************************************************)
(* What ModBus puts on the wire and reads from it: requests with their     *)
(* check sum, and the registers of a reply.  Bytes are 0..255, a register  *)
(* is a word; the bits of the check sum are a set of positions, so that    *)
(* exclusive or is the symmetric difference.                               *)
(*                                                                         *)
(* The charge controller on the other side computes the check sum as the   *)
(* Modbus standard defines it, as the remainder of a division.             *)
(***************************************************************************)
EXTENDS Naturals, Sequences, SequencesExt, FiniteSetsExt

Byte == 0..255
Word == {256 * high + low : high \in Byte, low \in Byte}

Hi(w) == (w \div 256) % 256
Lo(w) == w % 256

-----------------------------------------------------------------------------
(* calc_crc() *)

Bits(b) == {k \in 0..7 : (b \div 2^k) % 2 = 1}
Number(bits) ==
    LET bit(k, value) == IF k \in bits THEN value ELSE 0
    IN  bit(0, 1) + bit(1, 2) + bit(2, 4) + bit(3, 8)
        + bit(4, 16) + bit(5, 32) + bit(6, 64) + bit(7, 128)

\* rc >> 1, and 0xA001 when a one has been shifted out.
Shifted(rc) ==
    LET right == {k - 1 : k \in rc \ {0}}
    IN  IF 0 \in rc THEN SymDiff(right, {0, 13, 15}) ELSE right

Turns(rc) ==
    LET after[j \in 0..8] == IF j = 0 THEN rc ELSE Shifted(after[j - 1]) IN after[8]

\* (A union over one set: TLC then evaluates byte after byte.)
AddByte(rc, b) == UNION {Turns(r) : r \in {SymDiff(rc, Bits(b))}}

\* Mutant: the register starts empty.
CrcSum_FromZero(buffer) ==
    LET rc[n \in 0..Len(buffer)] == IF n = 0 THEN {} ELSE AddByte(rc[n - 1], buffer[n])
    IN  rc[Len(buffer)]

CrcSum(buffer) ==
    LET rc[n \in 0..Len(buffer)] == IF n = 0 THEN 0..15 ELSE AddByte(rc[n - 1], buffer[n])
    IN  rc[Len(buffer)]

\* The two bytes of a sum as they are sent: the low one first.
LowFirst(rc) ==
    <<Number(rc \intersect 0..7), Number({k - 8 : k \in rc \ 0..7})>>

calc_crc(buffer) == LowFirst(CrcSum(buffer))

-----------------------------------------------------------------------------
(* readVariable() and writeRawVariable(): requests, and what is taken from  *)
(* the reply.                                                              *)

Summed(buffer) == buffer \o calc_crc(buffer)

\* VT_INPUT_CONTACT is read with 4, VT_INPUT_REGISTER with 3.
ReadRequest(id, function, address, count) ==
    Summed(<<id, function, Hi(address), Lo(address), Hi(count), Lo(count)>>)

WriteRequest(id, address, words) ==
    LET n == Len(words)
    IN  Summed(<<id, 16, Hi(address), Lo(address), Hi(n), Lo(n), 2 * n>>
               \o [k \in 1..2*n |-> IF k % 2 = 1 THEN Hi(words[(k + 1) \div 2])
                                                 ELSE Lo(words[k \div 2])])

\* setValues( buffer+3 ): neither the count nor the check sum of the reply is
\* looked at.
Values(reply, count) ==
    [k \in 1..count |-> 256 * reply[2 * k + 2] + reply[2 * k + 3]]

-----------------------------------------------------------------------------
(* The charge controller. *)

\* x^16 + x^15 + x^2 + 1 divides the message, lowest bit of each byte first, with
\* its first 16 bits inverted; position i is the i-th bit sent.
Divide(S, i) == IF i \in S THEN SymDiff(S, {i, i + 1, i + 14, i + 16}) ELSE S

\* The bits of a message, in the order they are sent.
Sent(message) ==
    {i \in 1..8 * Len(message) : (i - 1) % 8 \in Bits(message[(i + 7) \div 8])}

Remainder(message) ==
    LET bits == 8 * Len(message)
        rest[i \in 0..bits] == IF i = 0 THEN SymDiff(Sent(message), 1..16)
                                        ELSE Divide(rest[i - 1], i)
    IN  {i - bits - 1 : i \in rest[bits]}

Accepted(frame) ==
    LET n == Len(frame) - 2
    IN  n > 2 /\ LowFirst(Remainder(SubSeq(frame, 1, n))) = SubSeq(frame, n + 1, n + 2)

Argument(frame, i) == 256 * frame[i] + frame[i + 1]

Sealed(message) == message \o LowFirst(Remainder(message))

\* The reply to a request to read, from registers as they are.
ReadReply(frame, registers) ==
    LET first == Argument(frame, 3)
        count == Argument(frame, 5)
    IN  Sealed(<<frame[1], frame[2], 2 * count>>
               \o [k \in 1..2*count |-> LET r == registers[first + (k - 1) \div 2]
                                        IN  IF k % 2 = 1 THEN Hi(r) ELSE Lo(r)])
=============================================================================
