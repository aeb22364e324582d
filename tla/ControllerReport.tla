--------------------------- MODULE ControllerReport ---------------------------
(***************************************************************************)
(* Controller::HTTPServerRequest(): for every request of its page          *)
(* controller_read reads thirteen numbers from the charge controller, one  *)
(* transaction after the other, and writes them down as it gets them.  The *)
(* charge controller goes on working meanwhile, and any of the             *)
(* transactions may fail.                                                  *)
(*                                                                         *)
(* A request and its reply are frames of bytes.  A transaction that gives  *)
(* up leaves its request, or the reply to it, on the way (Rs485Bus has the *)
(* bridge that does this), and the next one reads whatever bytes come      *)
(* first.                                                                  *)
(***************************************************************************)
EXTENDS ModBusFrame

CONSTANTS
    Id,            \* the option -i
    ReportPaths,   \* what is asked for
    DataPaths,     \* of that, /data.xml and /data.json
    RegisterFiles, \* what the registers of the charge controller may hold
    Clocks,        \* what the three of its clock may hold, and fixTime() write
    ExceptionCodes,\* the third byte of an exception reply
    Strays,        \* numbers of Fields that other clients of the bridge ask for
    Portions,      \* bound: bytes that go to a client that has left
    MaxLate,       \* bound: transactions in a row that begin with something on the way
    MaxChanges,    \* bound: changes of the registers during a request
    MaxFaults      \* bound: faults of a request, or of some, if it finds something on the way

\* A number of the report: where it stands, its first register, how many.  The
\* addresses are of two bytes, as Renogy.hpp has them in hexadecimal.
Number1(g, n, hi, lo) == [group |-> g, name |-> n, address |-> 256 * hi + lo, words |-> 1]
Number2(g, n, hi, lo) == [group |-> g, name |-> n, address |-> 256 * hi + lo, words |-> 2]

Fields == <<
    Number1("pv_array_rating", "voltage", 48, 0),
    Number1("pv_array_rating", "current", 48, 1),
    Number2("pv_array_rating", "power",   48, 2),
    Number1("pv_array_now", "voltage", 49, 0),
    Number1("pv_array_now", "current", 49, 1),
    Number2("pv_array_now", "power",   49, 2),
    Number1("battery", "voltage", 49, 4),
    Number1("battery", "current", 49, 5),
    Number1("battery", "state_of_charge", 49, 26),
    Number2("battery", "net_current", 51, 27),
    Number2("generation", "today",      51, 12),
    Number2("generation", "this_month", 51, 14),
    Number2("generation", "this_year",  51, 16) >>

RtcMinuteSecond == 256 * 144 + 19

Registers == UNION {f.address .. f.address + f.words - 1 : f \in Range(Fields)}

ASSUME ReportAssumption ==
    /\ Id \in Byte /\ DataPaths \subseteq ReportPaths
    /\ RegisterFiles \subseteq [Registers -> Word] /\ Clocks \subseteq [1..3 -> Word]
    /\ ExceptionCodes \subseteq Byte /\ Strays \subseteq DOMAIN Fields
    /\ Portions \subseteq Nat \ {0} /\ MaxLate \in Nat
    /\ MaxChanges \in Nat /\ MaxFaults \in Nat

VARIABLES
    serving,    \* "boot", "clock", "compare", "set", "idle", "ask", "wait" or "dead"
    path,       \* what the client asked for
    wire,       \* requests the charge controller has not answered, the oldest first
    stream,     \* bytes on their way to whoever reads next
    late,       \* transactions since one began with nothing else on the way
    report,     \* the numbers written so far
    registers,  \* what the registers of the charge controller hold
    seen,       \* all they have held since the request came
    changes, faults

reportVars == <<serving, path, wire, stream, late, report, registers, seen, changes, faults>>

\* What a request is for: the arguments of readVariable() or writeRawVariable().
Meaning == [unit : Byte, function : {3, 4, 16}, address : Word, count : Word, values : Seq(Word)]

\* A number as written: its two halves, or that its transaction failed.
Entries == [ok : BOOLEAN, own : BOOLEAN, value : Word \X Word]

ReportTypeOK ==
    /\ serving \in {"boot", "clock", "compare", "set", "idle", "ask", "wait", "dead"}
    /\ path \in ReportPaths
    /\ wire \in Seq([frame : Seq(Byte), meant : Meaning])
    /\ stream \in Seq(Byte) /\ late \in 0..MaxLate
    /\ report \in Seq(Entries) /\ Len(report) <= Len(Fields)
    /\ registers \in RegisterFiles /\ seen \subseteq RegisterFiles
    /\ changes \in 0..MaxChanges /\ faults \in 0..MaxFaults

ReportInit ==
    /\ serving = "boot" /\ path \in ReportPaths \ DataPaths
    /\ wire = <<>> /\ stream = <<>> /\ late = 0 /\ report = <<>>
    /\ registers \in RegisterFiles /\ seen = {registers}
    /\ changes = 0 /\ faults = 0

-----------------------------------------------------------------------------
(* ModBus: a transaction begins with its request, and ends. *)

ToRead(function, address, count) ==
    [frame |-> ReadRequest(Id, function, address, count),
     meant |-> [unit |-> Id, function |-> function, address |-> address,
                count |-> count, values |-> <<>>]]

ToWrite(address, words) ==
    [frame |-> WriteRequest(Id, address, words),
     meant |-> [unit |-> Id, function |-> 16, address |-> address,
                count |-> Len(words), values |-> words]]

Sends(request) ==
    /\ wire' = Append(wire, request)
    /\ late' = IF wire = <<>> /\ stream = <<>> THEN 0 ELSE late + 1
    /\ late' <= MaxLate

\* rx_len bytes have come; of the first three, the second is no exception's.
\* They may be another's: neither the id, the function nor the check sum is
\* compared with anything.
Receives(rx_len) ==
    /\ Len(stream) >= rx_len /\ stream[2] < 128
    /\ stream' = SubSeq(stream, rx_len + 1, Len(stream))
    /\ UNCHANGED late

\* A read times out, or nobody listens: what is on the way stays there.
GivesUp(rx_len) ==
    /\ \/ faults < MaxFaults /\ faults' = faults + 1
       \/ wire = <<>> /\ Len(stream) < rx_len /\ UNCHANGED faults
    /\ UNCHANGED <<stream, late>>

-----------------------------------------------------------------------------
(* controller_read. *)

\* run() begins with fixTime(), which reads the clock, and sets it or does not;
\* RtcSync says when.
ReadClock ==
    /\ serving = "boot" /\ serving' = "clock"
    /\ Sends(ToRead(3, RtcMinuteSecond, 3))
    /\ UNCHANGED <<path, stream, report, registers, seen, changes, faults>>

ClockRead ==
    /\ serving = "clock" /\ serving' = "compare"
    /\ \/ Receives(11) /\ UNCHANGED faults
       \/ GivesUp(11)
    /\ UNCHANGED <<path, wire, report, registers, seen, changes>>

SetClock ==
    /\ serving = "compare" /\ serving' = "set"
    /\ \E words \in Clocks : Sends(ToWrite(RtcMinuteSecond, words))
    /\ UNCHANGED <<path, stream, report, registers, seen, changes, faults>>

ClockSet ==
    /\ serving = "set" /\ serving' = "idle"
    /\ \/ Receives(8) /\ UNCHANGED faults
       \/ GivesUp(8)
    /\ UNCHANGED <<path, wire, report, registers, seen, changes>>

ClockIsRight ==
    /\ serving = "compare" /\ serving' = "idle"
    /\ UNCHANGED <<path, wire, stream, late, report, registers, seen, changes, faults>>

\* Any other path is answered with 404 at once.
Request(p) ==
    /\ serving = "idle"
    /\ path' = p
    /\ serving' = IF p \in DataPaths THEN "ask" ELSE "idle"
    /\ report' = <<>> /\ seen' = {registers}
    /\ changes' = 0
    /\ faults' = IF wire = <<>> /\ stream = <<>> THEN 0 ELSE faults
    /\ UNCHANGED <<wire, stream, late, registers>>

More == Len(report) < Len(Fields)
Wanted == Fields[Len(report) + 1]
ReplyLength == 5 + 2 * Wanted.words

Ask ==
    /\ serving = "ask" /\ More /\ serving' = "wait"
    /\ Sends(ToRead(4, Wanted.address, Wanted.words))
    /\ UNCHANGED <<path, stream, report, registers, seen, changes, faults>>

\* Mutant: the registers of a pair are taken in the order of the wire.
Joined_AsSent(values) ==
    IF Len(values) = 1 THEN <<0, values[1]>> ELSE <<values[1], values[2]>>

\* ( value[1].raw() << 16 ) | value[0].raw(), or the one value there is.
Joined(values) ==
    IF Len(values) = 1 THEN <<0, values[1]>> ELSE <<values[2], values[1]>>

Writes(ok, value) == report' = Append(report, [ok |-> ok, own |-> late = 0, value |-> value])

Take ==
    /\ serving = "wait" /\ serving' = "ask"
    /\ Receives(ReplyLength)
    /\ Writes(TRUE, Joined(Values(stream, Wanted.words)))
    /\ UNCHANGED <<path, wire, registers, seen, changes, faults>>

\* The result of readVariable() is not looked at: the values are invalid, a
\* single one is written as nan, and a pair, joined from zeros, as 0.
ReadFails ==
    /\ serving = "wait" /\ serving' = "ask"
    /\ GivesUp(ReplyLength)
    /\ Writes(FALSE, <<0, 0>>)
    /\ UNCHANGED <<path, wire, registers, seen, changes>>

Waiting == serving \in {"clock", "set", "wait"}

\* What has come looks like an exception: the assert in transact() ends the
\* process.
Exception ==
    /\ Waiting /\ serving' = "dead"
    /\ Len(stream) >= 3 /\ stream[2] >= 128
    /\ stream' = SubSeq(stream, 4, Len(stream))
    /\ report' = <<>>
    /\ UNCHANGED <<path, wire, late, registers, seen, changes, faults>>

Respond ==
    /\ serving = "ask" /\ ~More
    /\ serving' = "idle"
    /\ UNCHANGED <<path, wire, stream, late, report, registers, seen, changes, faults>>

\* Task::main forks the service again.
Reborn ==
    /\ serving = "dead"
    /\ serving' = "boot" /\ path' \in ReportPaths \ DataPaths
    /\ UNCHANGED <<wire, stream, late, report, registers, seen, changes, faults>>

-----------------------------------------------------------------------------
(* The charge controller, and the bridge. *)

\* What the charge controller takes a request for.
Heard(frame) ==
    LET n == Argument(frame, 5)
    IN  [unit |-> frame[1], function |-> frame[2], address |-> Argument(frame, 3), count |-> n,
         values |-> IF frame[2] = 16 THEN [k \in 1..n |-> Argument(frame, 2 * k + 6)] ELSE <<>>]

ReplyTo(frame, clock) ==
    CASE frame[2] = 4 -> ReadReply(frame, registers)
      [] frame[2] = 3 ->
            ReadReply(frame, [a \in RtcMinuteSecond..RtcMinuteSecond + 2 |->
                                 clock[a - RtcMinuteSecond + 1]])
      [] OTHER -> Sealed(SubSeq(frame, 1, 6))

Oldest == Head(wire).frame

Reply ==
    /\ wire # <<>> /\ Accepted(Oldest)
    /\ \E clock \in Clocks : stream' = stream \o ReplyTo(Oldest, clock)
    /\ wire' = Tail(wire)
    /\ UNCHANGED <<serving, path, late, report, registers, seen, changes, faults>>

\* It answers with an exception, or not at all.
ReplyFails ==
    /\ wire # <<>> /\ faults < MaxFaults
    /\ faults' = faults + 1
    /\ \/ \E code \in ExceptionCodes :
             stream' = stream \o Sealed(<<Oldest[1], Oldest[2] + 128, code>>)
       \/ UNCHANGED stream
    /\ wire' = Tail(wire)
    /\ UNCHANGED <<serving, path, late, report, registers, seen, changes>>

\* Another client that the bridge serves first leaves before its reply comes.
\* Nobody looks at the unit it has asked.
Stray(k) ==
    /\ ~Waiting /\ faults < MaxFaults
    /\ faults' = faults + 1
    /\ wire' = Append(wire, ToRead(4, Fields[k].address, Fields[k].words))
    /\ UNCHANGED <<serving, path, stream, late, report, registers, seen, changes>>

\* Between two transactions: the bridge writes what has come to a socket that is
\* closed, flushes it when it starts, or another client takes it.
Vanish ==
    /\ ~Waiting
    /\ \E n \in {m \in Portions : m <= Len(stream)} \union {Len(stream)} :
          stream' = SubSeq(stream, n + 1, Len(stream))
    /\ UNCHANGED <<serving, path, wire, late, report, registers, seen, changes, faults>>

Change ==
    /\ serving \in {"ask", "wait"} /\ changes < MaxChanges
    /\ changes' = changes + 1
    /\ registers' \in RegisterFiles
    /\ seen' = seen \union {registers'}
    /\ UNCHANGED <<serving, path, wire, stream, late, report, faults>>

ReportNext ==
    \/ ReadClock \/ ClockRead \/ SetClock \/ ClockSet \/ ClockIsRight
    \/ \E p \in ReportPaths : Request(p)
    \/ Ask \/ Take \/ ReadFails \/ Exception \/ Respond \/ Reborn
    \/ Reply \/ ReplyFails \/ (\E k \in Strays : Stray(k)) \/ Vanish \/ Change

ReportSpec == ReportInit /\ [][ReportNext]_reportVars

-----------------------------------------------------------------------------
(* Properties. *)

\* The low half of a number is in its first register, the high half in the next.
Held(f, regs) ==
    <<IF f.words = 1 THEN 0 ELSE regs[f.address + 1], regs[f.address]>>

\* A number whose transaction began with nothing on the way, and is no failure,
\* was in its registers, both halves at one moment, while the request was
\* served: it is of the right registers, and no carry from one half to the other
\* falls between their reading; whatever became of the transactions before.
NotTorn ==
    \A k \in DOMAIN report :
        report[k].ok /\ report[k].own
            => \E regs \in seen : report[k].value = Held(Fields[k], regs)

\* The charge controller finds the check sum of every request right, so that it
\* answers at all, and takes it for what it was meant: unit, function, address,
\* count, and what is to be written.
RequestsAccepted ==
    \A k \in DOMAIN wire :
        Accepted(wire[k].frame) /\ Heard(wire[k].frame) = wire[k].meant
=============================================================================
