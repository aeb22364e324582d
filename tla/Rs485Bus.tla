------------------------------ MODULE Rs485Bus ------------------------------
(***************************************************************************)
(* The shared RS485 bus: services that run ModBus::transact(), the         *)
(* rs485-tcp bridge that serves one TCP connection at a time, the serial   *)
(* line and the controllers on it.                                         *)
(*                                                                         *)
(* The bridge copies bytes.  It knows neither where a reply ends nor whose *)
(* it is, does not empty the tty buffer between two connections, and reads *)
(* the request of a client that has gone.  The client takes the first      *)
(* rx_len bytes it gets for its reply.  So a request whose client has left *)
(* (an orphan) matters: it is kept here, with Nobody for an owner.         *)
(*                                                                         *)
(* Bytes come in cells: the first cell of a reply is the header transact() *)
(* looks at, the others are the data and the checksum.  A cell knows whose *)
(* request it answers and its place in the reply; no code looks at either. *)
(***************************************************************************)
EXTENDS Integers, Sequences, FiniteSets

CONSTANTS
    Clients,     \* threads of the services that call ModBus::transact()
    Kinds,       \* requests they make
    Want,        \* Want[k]: cells of the reply to k, rx_len
    Unit,        \* Unit[k]: the controller k is addressed to
    ExcLen,      \* cells of a MODBUS exception reply (5 bytes, header 3)
    Backlog,     \* connections the listening socket holds
    Nobody, NoReq,
    MaxLate      \* bound: clients that leave before their answer came

ASSUME BusAssumption ==
    /\ Nobody \notin Clients
    /\ NoReq \notin Kinds
    /\ Want \in [Kinds -> Nat]
    /\ ExcLen \in Nat \ {0}
    /\ \A k \in Kinds : ExcLen <= Want[k]
    /\ Backlog \in Nat
    /\ MaxLate \in Nat

VARIABLES
    want,     \* want[c]: the request client c waits for, NoReq when it is idle
    inbox,    \* inbox[c]: cells received on c's connection
    backlog,  \* connections not yet accepted
    bridge,   \* "accept", "serve", "down" (killed) or "exited" (finished)
    cur,      \* the connection being served
    line,     \* "up" or "hungup": the serial file descriptor
    wire,     \* requests on the serial line
    rx,       \* the tty input buffer
    late      \* clients that left before their answer came

vars == <<want, inbox, backlog, bridge, cur, line, wire, rx, late>>

Owner == Clients \union {Nobody}
Conn  == [from : Owner, req : Kinds \union {NoReq}]
Frame == [from : Owner, kind : Kinds]
Cell  == [from : Owner, pos : Nat \ {0}, exc : BOOLEAN]

NoConn == [from |-> Nobody, req |-> NoReq]

TypeOK ==
    /\ want \in [Clients -> Kinds \union {NoReq}]
    /\ inbox \in [Clients -> Seq(Cell)]
    /\ backlog \in Seq(Conn)
    /\ bridge \in {"accept", "serve", "down", "exited"}
    /\ cur \in Conn
    /\ line \in {"up", "hungup"}
    /\ wire \in Seq(Frame)
    /\ rx \in Seq(Cell)
    /\ late \in Nat

Init ==
    /\ want = [c \in Clients |-> NoReq]
    /\ inbox = [c \in Clients |-> <<>>]
    /\ backlog = <<>> /\ bridge = "accept" /\ cur = NoConn
    /\ line = "up" /\ wire = <<>> /\ rx = <<>>
    /\ late = 0

-----------------------------------------------------------------------------
(* Ownership. *)

Owns(seq, c) == \E i \in DOMAIN seq : seq[i].from = c

\* Something client c asked for is still on its way.
InFlight(c) ==
    \/ Owns(backlog, c) \/ Owns(wire, c) \/ Owns(rx, c)
    \/ cur.from = c /\ cur.req # NoReq

\* The same records, those of client c without an owner.
DisownOne(r, c) == IF r.from = c THEN [r EXCEPT !.from = Nobody] ELSE r
Disown(seq, c)  == [i \in DOMAIN seq |-> DisownOne(seq[i], c)]

Listening == bridge \in {"accept", "serve"}

-----------------------------------------------------------------------------
(* The clients: ModBus::transact(). *)

\* TCP::connect() and the write of the request.
Send(c) ==
    /\ want[c] = NoReq /\ Listening /\ Len(backlog) < Backlog
    /\ \E k \in Kinds :
          /\ want' = [want EXCEPT ![c] = k]
          /\ backlog' = Append(backlog, [from |-> c, req |-> k])
    /\ UNCHANGED <<inbox, bridge, cur, line, wire, rx, late>>

\* Nobody listens: TCP::connect() fails and so does the transaction.
Refused(c) == want[c] = NoReq /\ ~Listening /\ UNCHANGED vars

\* Mutant: what was received is still there when the next call begins.
Close_KeepsInbox(c) ==
    /\ want' = [want EXCEPT ![c] = NoReq]
    /\ backlog' = Disown(backlog, c)
    /\ cur' = DisownOne(cur, c)
    /\ wire' = Disown(wire, c)
    /\ rx' = Disown(rx, c)
    /\ UNCHANGED <<inbox, bridge, line>>

\* close(): what is still on its way has lost its owner.
Close(c) ==
    /\ want' = [want EXCEPT ![c] = NoReq]
    /\ inbox' = [inbox EXCEPT ![c] = <<>>]
    /\ backlog' = Disown(backlog, c)
    /\ cur' = DisownOne(cur, c)
    /\ wire' = Disown(wire, c)
    /\ rx' = Disown(rx, c)
    /\ UNCHANGED <<bridge, line>>

\* rx_len bytes are in: success, whatever the bytes are.
Finish(c) ==
    /\ want[c] # NoReq
    /\ Len(inbox[c]) >= Want[want[c]] /\ ~inbox[c][1].exc
    /\ Close(c)
    /\ UNCHANGED late

CountLate(c) ==
    /\ late' = IF InFlight(c) THEN late + 1 ELSE late
    /\ late' <= MaxLate

\* A read times out, finds the connection closed, or fails.
GiveUp(c) ==
    /\ want[c] # NoReq /\ Len(inbox[c]) < Want[want[c]]
    /\ Close(c)
    /\ CountLate(c)

\* buffer[1] & 0x80 in the header: assert(0).  Bytes from the middle of some
\* reply may show that bit as well.
Abort(c) ==
    /\ want[c] # NoReq /\ Len(inbox[c]) > 0
    /\ inbox[c][1].exc \/ inbox[c][1].pos # 1
    /\ Close(c)
    /\ CountLate(c)

-----------------------------------------------------------------------------
(* The bridge: RS485TCP::main and SerialPort::transact. *)

\* Mutant: a new connection is taken while another is served.
Accept_Concurrently ==
    /\ Listening /\ backlog # <<>>
    /\ cur' = Head(backlog) /\ backlog' = Tail(backlog)
    /\ bridge' = "serve"
    /\ UNCHANGED <<want, inbox, line, wire, rx, late>>

Accept ==
    /\ bridge = "accept" /\ backlog # <<>>
    /\ cur' = Head(backlog) /\ backlog' = Tail(backlog)
    /\ bridge' = "serve"
    /\ UNCHANGED <<want, inbox, line, wire, rx, late>>

\* Mutant: the request is written again.
ServeRequest_Twice ==
    /\ bridge = "serve" /\ line = "up" /\ cur.req # NoReq
    /\ LET frame == [from |-> cur.from, kind |-> cur.req]
       IN  wire' = wire \o <<frame, frame>>
    /\ cur' = [cur EXCEPT !.req = NoReq]
    /\ UNCHANGED <<want, inbox, backlog, bridge, line, rx, late>>

\* The client descriptor has the request: write it to the serial port.
ServeRequest ==
    /\ bridge = "serve" /\ line = "up" /\ cur.req # NoReq
    /\ wire' = Append(wire, [from |-> cur.from, kind |-> cur.req])
    /\ cur' = [cur EXCEPT !.req = NoReq]
    /\ UNCHANGED <<want, inbox, backlog, bridge, line, rx, late>>

\* Mutant: what was forwarded stays in the buffer.
ServeReply_Keeps ==
    /\ bridge = "serve" /\ line = "up" /\ rx # <<>>
    /\ inbox' = IF cur.from \in Clients
                THEN [inbox EXCEPT ![cur.from] = @ \o rx] ELSE inbox
    /\ UNCHANGED <<want, backlog, bridge, cur, line, wire, rx, late>>

\* The serial descriptor has bytes: write what is there to the client, which
\* may not have written its request yet, or may have closed since poll()
\* returned, and then they are lost.
ServeReply ==
    /\ bridge = "serve" /\ line = "up"
    /\ \E n \in 1..Len(rx) :
          /\ rx' = SubSeq(rx, n + 1, Len(rx))
          /\ inbox' = IF cur.from \in Clients
                      THEN [inbox EXCEPT ![cur.from] = @ \o SubSeq(rx, 1, n)]
                      ELSE inbox
    /\ UNCHANGED <<want, backlog, bridge, cur, line, wire, late>>

\* Mutant: the end of file is noticed only when there is a reply to forward.
ServeClosed_OnReply ==
    /\ bridge = "serve" /\ cur.from = Nobody /\ cur.req = NoReq /\ rx # <<>>
    /\ cur' = NoConn /\ bridge' = "accept"
    /\ UNCHANGED <<want, inbox, backlog, line, wire, rx, late>>

\* The client closed and has no more data: back to accept.
ServeClosed ==
    /\ bridge = "serve" /\ cur.from = Nobody /\ cur.req = NoReq
    /\ cur' = NoConn /\ bridge' = "accept"
    /\ UNCHANGED <<want, inbox, backlog, line, wire, rx, late>>

\* The write to the serial port fails, or poll() reports it hung up: the
\* connection is closed; the port is not opened again.
ServeHungUp ==
    /\ bridge = "serve" /\ line = "hungup"
    /\ cur' = NoConn /\ bridge' = "accept"
    /\ UNCHANGED <<want, inbox, backlog, line, wire, rx, late>>

\* SIGINT: accept() and transact() return, main returns 0.
Quit ==
    /\ Listening
    /\ bridge' = "exited" /\ cur' = NoConn /\ backlog' = <<>>
    /\ wire' = <<>> /\ rx' = <<>>
    /\ UNCHANGED <<want, inbox, line, late>>

\* The process is killed: its sockets are reset, the bus goes on.
Crash ==
    /\ Listening
    /\ bridge' = "down" /\ cur' = NoConn /\ backlog' = <<>> /\ rx' = <<>>
    /\ wire' = [i \in DOMAIN wire |-> [wire[i] EXCEPT !.from = Nobody]]
    /\ late' = IF \E i \in DOMAIN wire : wire[i].from # Nobody
               THEN late + 1 ELSE late
    /\ late' <= MaxLate
    /\ UNCHANGED <<want, inbox, line>>

\* Task::main forks again: SerialPort::open() flushes the input and the bridge
\* listens, or the device is gone and main returns 0.
Restart ==
    /\ bridge = "down"
    /\ \/ bridge' = "accept" /\ line' = "up"
       \/ bridge' = "exited" /\ UNCHANGED line
    /\ rx' = <<>>
    /\ UNCHANGED <<want, inbox, backlog, cur, wire, late>>

-----------------------------------------------------------------------------
(* The line and the controllers. *)

Reply(f, exc) ==
    [p \in 1..(IF exc THEN ExcLen ELSE Want[f.kind]) |->
        [from |-> f.from, pos |-> p, exc |-> IF p = 1 THEN exc ELSE FALSE]]

Without(seq, i) == SubSeq(seq, 1, i - 1) \o SubSeq(seq, i + 1, Len(seq))

\* A controller answers its oldest request; a closed port hears nothing.
Answer ==
    \E i \in DOMAIN wire, exc \in BOOLEAN :
        /\ \A j \in 1..(i - 1) : Unit[wire[j].kind] # Unit[wire[i].kind]
        /\ wire' = Without(wire, i)
        /\ rx' = IF Listening THEN rx \o Reply(wire[i], exc) ELSE rx
        /\ UNCHANGED <<want, inbox, backlog, bridge, cur, line, late>>

\* A request is not answered: no such unit, or it was garbled.
Lose ==
    /\ \E i \in DOMAIN wire : wire' = Without(wire, i)
    /\ UNCHANGED <<want, inbox, backlog, bridge, cur, line, rx, late>>

\* The adapter is unplugged: what was on the line or in the tty is gone.
HangUp ==
    /\ line = "up" /\ Listening
    /\ line' = "hungup" /\ wire' = <<>> /\ rx' = <<>>
    /\ UNCHANGED <<want, inbox, backlog, bridge, cur, late>>

-----------------------------------------------------------------------------
Client(c) == Send(c) \/ Refused(c) \/ Finish(c) \/ GiveUp(c) \/ Abort(c)
Return(c) == Finish(c) \/ GiveUp(c) \/ Abort(c)
Serve     == ServeRequest \/ ServeReply \/ ServeClosed \/ ServeHungUp
Bridge    == Accept \/ Serve \/ Quit \/ Crash \/ Restart
Bus       == Answer \/ Lose \/ HangUp

Next == (\E c \in Clients : Client(c)) \/ Bridge \/ Bus

\* A client returns when it can, the bridge polls without end, a request does
\* not stay on the line for ever, a killed bridge is started again.  Nothing
\* obliges a client to ask, or the bridge to stop.
Fairness ==
    /\ \A c \in Clients : WF_vars(Return(c))
    /\ WF_vars(Accept) /\ WF_vars(Serve) /\ WF_vars(Restart)
    /\ WF_vars(Answer \/ Lose)

Spec == Init /\ [][Next]_vars /\ Fairness

-----------------------------------------------------------------------------
(* Properties. *)

PairedAlways ==
    \A c \in Clients : \A i \in DOMAIN inbox[c] :
        inbox[c][i].from = c /\ inbox[c][i].pos = i

HalfDuplexAlways == Len(wire) <= 1 /\ (wire # <<>> => rx = <<>>)

\* As long as no client has left before its answer came, a client receives the
\* reply to its own request, in order, and nothing else.
Paired == late = 0 => PairedAlways

\* As long as no client has left before its answer came, there is one request
\* or one reply on the half duplex line: the bridge serialises the services.
HalfDuplex == late = 0 => HalfDuplexAlways

\* Every transaction ends: a client that waits is idle again.
Returned == \A c \in Clients : want[c] # NoReq ~> want[c] = NoReq

-----------------------------------------------------------------------------
(* How far out of step the bus can get. *)

Size(req) == IF req = NoReq THEN 0 ELSE Want[req]
IndicesOf(seq, o) == {i \in 1..Len(seq) : seq[i].from = o}

\* Every cell owner o has on its way; a request stands for the longest reply to it.
Due(o) ==
    (UNION {{<<"backlog", i, p>> : p \in 1..Size(backlog[i].req)} : i \in IndicesOf(backlog, o)})
    \union {<<"served", p>> : p \in IF cur.from = o THEN 1..Size(cur.req) ELSE {}}
    \union (UNION {{<<"wire", i, p>> : p \in 1..Size(wire[i].kind)} : i \in IndicesOf(wire, o)})
    \union {<<"rx", i>> : i \in IndicesOf(rx, o)}
    \union (UNION {{<<"inbox", c, i>> : i \in IndicesOf(inbox[c], o)} : c \in Clients})

\* Cells nobody asked for never outnumber the longest replies of the clients
\* that left early: reading another's reply passes the shift on to the next
\* client, it does not add to it.
OrphanBound ==
    \A k \in Kinds : (\A j \in Kinds : Want[j] <= Want[k])
        => Cardinality(Due(Nobody)) <= late * Want[k]

-----------------------------------------------------------------------------
(* The bus as the service it implements while no client leaves early. *)

BusOf ==
    IF wire # <<>> THEN wire[1].from ELSE IF rx # <<>> THEN rx[1].from ELSE Nobody

\* An exception reply counts as an answer, also before its last cell is read.
HasAnswer(c) ==
    \/ Len(inbox[c]) >= Want[want[c]]
    \/ inbox[c] # <<>> /\ inbox[c][1].exc /\ Len(inbox[c]) = ExcLen

StateOf ==
    [c \in Clients |->
        IF want[c] = NoReq THEN "idle"
        ELSE IF HasAnswer(c) THEN "answered" ELSE "waiting"]

Service == INSTANCE BusService WITH st <- StateOf, bus <- BusOf

\* The bus does what it promises, step by step, its takers included.
Implements == Service!Spec

\* As long as no client has left before its answer came, every step of the bus
\* is one of the service, or none.
ServiceSteps ==
    /\ Service!Init
    /\ [][late' = 0 => [Service!Next]_(Service!vars)]_vars
=============================================================================
