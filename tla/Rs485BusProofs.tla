--------------------------- MODULE Rs485BusProofs ---------------------------
(***************************************************************************)
(* The bus pairs requests and replies, is half duplex and implements the   *)
(* service as long as no client leaves before its answer came, and gets    *)
(* out of step by no more than the replies of those that did: for any      *)
(* number of clients, controllers, kinds of request and reply lengths.     *)
(***************************************************************************)
EXTENDS Rs485Bus, SequenceTheorems, FiniteSetTheorems, TLAPS

-----------------------------------------------------------------------------
(* Lemmas about the operators of the module. *)

\* Giving up the ownership of records changes no length and no other field.
LEMMA DisownType ==
  ASSUME NEW S, NEW seq \in Seq(S), NEW c,
         \A r \in S : DisownOne(r, c) \in S
  PROVE  /\ Disown(seq, c) \in Seq(S)
         /\ Len(Disown(seq, c)) = Len(seq)
         /\ \A i \in 1..Len(seq) : Disown(seq, c)[i] = DisownOne(seq[i], c)
<1>1. DOMAIN seq = 1..Len(seq) /\ Len(seq) \in Nat
  BY LenProperties
<1>2. \A i \in 1..Len(seq) : DisownOne(seq[i], c) \in S
  BY ElementOfSeq
<1>3. Disown(seq, c) \in [1..Len(seq) -> S]
  BY <1>1, <1>2 DEF Disown
<1>4. Disown(seq, c) \in Seq(S)
  BY <1>1, <1>3, SeqDef
<1> QED
  BY <1>1, <1>3, <1>4 DEF Disown

\* A sequence in which c owns nothing stays as it is.
LEMMA DisownNothing ==
  ASSUME NEW S, NEW seq \in Seq(S), NEW c, ~Owns(seq, c)
  PROVE  Disown(seq, c) = seq
<1>1. DOMAIN seq = 1..Len(seq) /\ seq \in [1..Len(seq) -> S]
  BY LenProperties
<1>2. \A i \in 1..Len(seq) : DisownOne(seq[i], c) = seq[i]
  BY <1>1 DEF Owns, DisownOne
<1> QED
  BY <1>1, <1>2 DEF Disown

LEMMA RecordTypes ==
  ASSUME NEW c \in Clients
  PROVE  /\ \A r \in Conn : DisownOne(r, c) \in Conn
         /\ \A r \in Frame : DisownOne(r, c) \in Frame
         /\ \A r \in Cell : DisownOne(r, c) \in Cell
         /\ NoConn \in Conn
  BY DEF Conn, Frame, Cell, Owner, DisownOne, NoConn

\* A sequence without one of its elements.
LEMMA WithoutType ==
  ASSUME NEW S, NEW seq \in Seq(S), NEW i \in DOMAIN seq
  PROVE  /\ Without(seq, i) \in Seq(S)
         /\ Len(Without(seq, i)) = Len(seq) - 1
<1>1. DOMAIN seq = 1..Len(seq) /\ Len(seq) \in Nat
  BY LenProperties
<1>2. \A j \in 1..Len(seq) : seq[j] \in S
  BY ElementOfSeq
<1>3. /\ SubSeq(seq, 1, i - 1) \in Seq(S)
      /\ Len(SubSeq(seq, 1, i - 1)) = i - 1
  BY <1>1, <1>2, SubSeqProperties
<1>4. /\ SubSeq(seq, i + 1, Len(seq)) \in Seq(S)
      /\ Len(SubSeq(seq, i + 1, Len(seq))) = Len(seq) - i
  BY <1>1, <1>2, SubSeqProperties
<1> DEFINE s1 == SubSeq(seq, 1, i - 1)
           s2 == SubSeq(seq, i + 1, Len(seq))
<1>5. s1 \o s2 \in Seq(S) /\ Len(s1 \o s2) = Len(s1) + Len(s2)
  BY <1>3, <1>4, ConcatProperties
<1> QED
  BY <1>1, <1>3, <1>4, <1>5, SMTT(60) DEF Without

\* The two parts of a sequence cut after n elements.
LEMMA CutSeq ==
  ASSUME NEW S, NEW seq \in Seq(S), NEW n \in 1..Len(seq)
  PROVE  /\ SubSeq(seq, 1, n) \in Seq(S)
         /\ Len(SubSeq(seq, 1, n)) = n
         /\ \A i \in 1..n : SubSeq(seq, 1, n)[i] = seq[i]
         /\ SubSeq(seq, n + 1, Len(seq)) \in Seq(S)
         /\ Len(SubSeq(seq, n + 1, Len(seq))) = Len(seq) - n
         /\ \A i \in 1..(Len(seq) - n) :
               SubSeq(seq, n + 1, Len(seq))[i] = seq[n + i]
<1>1. Len(seq) \in Nat /\ n \in Nat /\ n <= Len(seq) /\ n >= 1
  BY LenProperties
<1>2. \A i \in 1..Len(seq) : seq[i] \in S
  BY ElementOfSeq
<1>3. /\ SubSeq(seq, 1, n) \in Seq(S)
      /\ Len(SubSeq(seq, 1, n)) = IF 1 <= n THEN n - 1 + 1 ELSE 0
      /\ \A i \in 1..(n - 1 + 1) : SubSeq(seq, 1, n)[i] = seq[1 + i - 1]
  <2>1. \A i \in 1..n : seq[i] \in S
    BY <1>1, <1>2
  <2> QED
    BY <1>1, <2>1, SubSeqProperties
<1>4. /\ SubSeq(seq, n + 1, Len(seq)) \in Seq(S)
      /\ Len(SubSeq(seq, n + 1, Len(seq))) =
            IF n + 1 <= Len(seq) THEN Len(seq) - (n + 1) + 1 ELSE 0
      /\ \A i \in 1..(Len(seq) - (n + 1) + 1) :
            SubSeq(seq, n + 1, Len(seq))[i] = seq[(n + 1) + i - 1]
  <2>1. \A i \in (n + 1)..Len(seq) : seq[i] \in S
    BY <1>1, <1>2
  <2> DEFINE m == n + 1
  <2>2. m \in Int /\ Len(seq) \in Int /\ \A i \in m..Len(seq) : seq[i] \in S
    BY <1>1, <2>1
  <2> HIDE DEF m
  <2>3. /\ SubSeq(seq, m, Len(seq)) \in Seq(S)
        /\ Len(SubSeq(seq, m, Len(seq))) =
              IF m <= Len(seq) THEN Len(seq) - m + 1 ELSE 0
        /\ \A i \in 1..(Len(seq) - m + 1) :
              SubSeq(seq, m, Len(seq))[i] = seq[m + i - 1]
    BY <2>2, SubSeqProperties
  <2> QED
    BY <2>3 DEF m
<1>5. n - 1 + 1 = n /\ Len(seq) - (n + 1) + 1 = Len(seq) - n
  BY <1>1
<1>6. \A i \in 1..(Len(seq) - n) : (n + 1) + i - 1 = n + i
  BY <1>1
<1>7. \A i \in 1..n : 1 + i - 1 = i
  BY <1>1
<1>8. /\ Len(SubSeq(seq, 1, n)) = n
      /\ \A i \in 1..n : SubSeq(seq, 1, n)[i] = seq[i]
  BY <1>1, <1>3, <1>5, <1>7
<1>9. Len(SubSeq(seq, n + 1, Len(seq))) = Len(seq) - n
  BY <1>1, <1>4
<1>10. \A i \in 1..(Len(seq) - n) : SubSeq(seq, n + 1, Len(seq))[i] = seq[n + i]
  BY <1>4, <1>5, <1>6
<1> QED
  BY <1>3, <1>4, <1>8, <1>9, <1>10

\* Cells of client c, whose places in the reply follow the n-th.
InOrder(seq, c, n) == \A i \in 1..Len(seq) : seq[i].from = c /\ seq[i].pos = n + i

\* When a client has the first cells of its reply and the tty the others, it
\* has more of them, still in order, after the bridge has copied some.
LEMMA CopyCells ==
  ASSUME NEW in \in Seq(Cell), NEW buf \in Seq(Cell), NEW n \in 1..Len(buf), NEW c,
         InOrder(in, c, 0), InOrder(buf, c, Len(in))
  PROVE  LET more == in \o SubSeq(buf, 1, n)
             left == SubSeq(buf, n + 1, Len(buf))
         IN  /\ Len(more) + Len(left) = Len(in) + Len(buf)
             /\ Len(more) \in Nat \ {0}
             /\ InOrder(more, c, 0) /\ InOrder(left, c, Len(more))
             /\ more[1] = IF in = <<>> THEN buf[1] ELSE in[1]
<1> DEFINE got  == SubSeq(buf, 1, n)
           more == in \o got
           left == SubSeq(buf, n + 1, Len(buf))
<1>1. /\ Len(in) \in Nat /\ Len(buf) \in Nat /\ (in = <<>> <=> Len(in) = 0)
      /\ n \in Nat /\ n <= Len(buf) /\ n >= 1
  BY LenProperties, EmptySeq
<1>0. /\ \A i \in 1..Len(in) : in[i].from = c /\ in[i].pos = i
      /\ \A i \in 1..Len(buf) : buf[i].from = c /\ buf[i].pos = Len(in) + i
  BY DEF InOrder
<1>2. /\ got \in Seq(Cell) /\ Len(got) = n
      /\ \A i \in 1..n : got[i] = buf[i]
      /\ Len(left) = Len(buf) - n
      /\ \A i \in 1..(Len(buf) - n) : left[i] = buf[n + i]
  BY CutSeq, ZenonT(30)
<1>3. /\ Len(more) = Len(in) + n
      /\ \A i \in 1..(Len(in) + n) :
            more[i] = IF i <= Len(in) THEN in[i] ELSE got[i - Len(in)]
  BY <1>2, ConcatProperties
<1> HIDE DEF got, more, left
<1>4. ASSUME NEW i \in 1..(Len(in) + n) PROVE more[i].from = c /\ more[i].pos = i
  <2>1. CASE i <= Len(in)
    <3>1. i \in 1..Len(in)
      BY <1>1, <2>1
    <3> QED
      BY <1>0, <1>3, <2>1, <3>1
  <2>2. CASE i > Len(in)
    <3>1. /\ i - Len(in) \in 1..n /\ i - Len(in) \in 1..Len(buf)
          /\ Len(in) + (i - Len(in)) = i
      BY <1>1, <2>2
    <3>2. more[i] = buf[i - Len(in)]
      BY <1>1, <1>2, <1>3, <2>2, <3>1
    <3> QED
      BY <1>0, <3>1, <3>2
  <2> QED
    BY <1>1, <2>1, <2>2
<1>5. ASSUME NEW i \in 1..Len(left)
      PROVE  left[i].from = c /\ left[i].pos = Len(more) + i
  <2>1. n + i \in 1..Len(buf) /\ Len(in) + (n + i) = (Len(in) + n) + i
    BY <1>1, <1>2
  <2>2. left[i] = buf[n + i]
    BY <1>2
  <2> QED
    BY <1>0, <1>3, <2>1, <2>2
<1>6. more[1] = IF in = <<>> THEN buf[1] ELSE in[1]
  <2>1. 1 \in 1..(Len(in) + n) /\ 1 \in 1..n
    BY <1>1
  <2>2. in = <<>> => more[1] = got[1]
    BY <1>1, <1>3, <2>1
  <2>3. in # <<>> => more[1] = in[1]
    BY <1>1, <1>3, <2>1
  <2> QED
    BY <1>2, <2>1, <2>2, <2>3
<1>7. Len(more) + Len(left) = Len(in) + Len(buf) /\ Len(more) \in Nat \ {0}
  <2>1. Len(more) = Len(in) + n /\ Len(left) = Len(buf) - n
    BY <1>2, <1>3
  <2> DEFINE p == Len(in)
             q == Len(buf)
  <2>2. p \in Nat /\ q \in Nat /\ Len(more) = p + n /\ Len(left) = q - n
    BY <1>1, <2>1
  <2> HIDE DEF p, q
  <2>3. Len(more) + Len(left) = p + q /\ Len(more) \in Nat \ {0}
    BY <1>1, <2>2
  <2> QED
    BY <2>3 DEF p, q
<1>8. \A i \in 1..Len(more) : more[i].from = c /\ more[i].pos = i
  BY <1>3, <1>4
<1>9. InOrder(more, c, 0) /\ InOrder(left, c, Len(more))
  BY <1>1, <1>3, <1>5, <1>8 DEF InOrder
<1> QED
  BY <1>6, <1>7, <1>9 DEF got, more, left

\* A reply has the cells of its kind, or those of an exception, numbered from
\* one and all of the client that asked.
LEMMA ReplyType ==
  ASSUME NEW f \in Frame, NEW exc \in BOOLEAN
  PROVE  /\ Reply(f, exc) \in Seq(Cell)
         /\ Len(Reply(f, exc)) = IF exc THEN ExcLen ELSE Want[f.kind]
         /\ \A p \in 1..Len(Reply(f, exc)) :
               /\ Reply(f, exc)[p].from = f.from
               /\ Reply(f, exc)[p].pos = p
               /\ p = 1 => Reply(f, exc)[p].exc = exc
<1> DEFINE n == IF exc THEN ExcLen ELSE Want[f.kind]
<1>1. n \in Nat
  BY BusAssumption DEF BusAssumption, Frame
<1> DEFINE e(p) == IF p = 1 THEN exc ELSE FALSE
<1>2. \A p \in 1..n : e(p) \in BOOLEAN /\ (p = 1 => e(p) = exc)
  BY Zenon
<1>3. Reply(f, exc) = [p \in 1..n |-> [from |-> f.from, pos |-> p, exc |-> e(p)]]
  BY DEF Reply
<1> HIDE DEF e, n
<1>4. \A p \in 1..n : [from |-> f.from, pos |-> p, exc |-> e(p)] \in Cell
  BY <1>1, <1>2 DEF Frame, Cell
<1>5. Reply(f, exc) \in [1..n -> Cell]
  BY <1>3, <1>4
<1>6. Reply(f, exc) \in Seq(Cell)
  BY <1>1, <1>5, SeqDef
<1>7. Len(Reply(f, exc)) = n
  BY <1>1, <1>5, <1>6, LenProperties
<1>8. \A p \in 1..n : /\ Reply(f, exc)[p].from = f.from
                      /\ Reply(f, exc)[p].pos = p
                      /\ p = 1 => Reply(f, exc)[p].exc = exc
  BY <1>2, <1>3
<1> QED
  BY <1>6, <1>7, <1>8 DEF n

-----------------------------------------------------------------------------
(* Type correctness. *)

\* close() keeps the types.
LEMMA CloseType ==
  ASSUME TypeOK, NEW c \in Clients, Close(c)
  PROVE  /\ want' \in [Clients -> Kinds \union {NoReq}]
         /\ inbox' \in [Clients -> Seq(Cell)]
         /\ backlog' \in Seq(Conn) /\ cur' \in Conn
         /\ wire' \in Seq(Frame) /\ rx' \in Seq(Cell)
<1>1. /\ Disown(backlog, c) \in Seq(Conn)
      /\ Disown(wire, c) \in Seq(Frame)
      /\ Disown(rx, c) \in Seq(Cell)
  BY RecordTypes, DisownType DEF TypeOK
<1>2. DisownOne(cur, c) \in Conn
  BY RecordTypes DEF TypeOK
<1>3. <<>> \in Seq(Cell)
  BY EmptySeq
<1> QED
  BY <1>1, <1>2, <1>3 DEF Close, TypeOK

LEMMA TypeInit == Init => TypeOK
<1>1. <<>> \in Seq(Cell) /\ <<>> \in Seq(Conn) /\ <<>> \in Seq(Frame)
  BY EmptySeq
<1>2. NoConn \in Conn
  BY DEF NoConn, Conn, Owner
<1> QED
  BY <1>1, <1>2 DEF Init, TypeOK

LEMMA TypeStep == TypeOK /\ [Next]_vars => TypeOK'
<1> SUFFICES ASSUME TypeOK, [Next]_vars PROVE TypeOK'
  OBVIOUS
<1>e. <<>> \in Seq(Cell) /\ <<>> \in Seq(Conn) /\ <<>> \in Seq(Frame)
  BY EmptySeq
<1>n. NoConn \in Conn
  BY DEF NoConn, Conn, Owner
<1>1. ASSUME NEW c \in Clients, Send(c) PROVE TypeOK'
  <2>1. PICK k \in Kinds : /\ want' = [want EXCEPT ![c] = k]
                           /\ backlog' = Append(backlog, [from |-> c, req |-> k])
    BY <1>1 DEF Send
  <2>2. [from |-> c, req |-> k] \in Conn
    BY DEF Conn, Owner
  <2>3. backlog' \in Seq(Conn)
    BY <2>1, <2>2, AppendProperties DEF TypeOK
  <2> QED
    BY <1>1, <2>1, <2>3 DEF Send, TypeOK
<1>2. ASSUME NEW c \in Clients, Refused(c) PROVE TypeOK'
  BY <1>2 DEF Refused, vars, TypeOK
<1>3. ASSUME NEW c \in Clients, Finish(c) PROVE TypeOK'
  BY <1>3, CloseType DEF Finish, Close, TypeOK
<1>4. ASSUME NEW c \in Clients, GiveUp(c) PROVE TypeOK'
  <2>1. Close(c) /\ late' \in Nat
    BY <1>4 DEF GiveUp, CountLate, TypeOK
  <2> QED
    BY <2>1, CloseType DEF Close, TypeOK
<1>5. ASSUME NEW c \in Clients, Abort(c) PROVE TypeOK'
  <2>1. Close(c) /\ late' \in Nat
    BY <1>5 DEF Abort, CountLate, TypeOK
  <2> QED
    BY <2>1, CloseType DEF Close, TypeOK
<1>6. CASE Accept
  BY <1>6, HeadTailProperties DEF Accept, TypeOK
<1>7. CASE ServeRequest
  <2>1. /\ [from |-> cur.from, kind |-> cur.req] \in Frame
        /\ [cur EXCEPT !.req = NoReq] \in Conn
    BY <1>7 DEF ServeRequest, TypeOK, Conn, Frame
  <2>2. wire' \in Seq(Frame)
    BY <1>7, <2>1, AppendProperties DEF ServeRequest, TypeOK
  <2> QED
    BY <1>7, <2>1, <2>2 DEF ServeRequest, TypeOK
<1>8. CASE ServeReply
  <2>1. PICK n \in 1..Len(rx) :
          /\ rx' = SubSeq(rx, n + 1, Len(rx))
          /\ inbox' = IF cur.from \in Clients
                      THEN [inbox EXCEPT ![cur.from] = @ \o SubSeq(rx, 1, n)]
                      ELSE inbox
    BY <1>8 DEF ServeReply
  <2>2. Len(rx) \in Nat /\ \A i \in 1..Len(rx) : rx[i] \in Cell
    BY LenProperties, ElementOfSeq DEF TypeOK
  <2>3. SubSeq(rx, n + 1, Len(rx)) \in Seq(Cell) /\ SubSeq(rx, 1, n) \in Seq(Cell)
    BY <2>2, SubSeqProperties
  <2>4. inbox' \in [Clients -> Seq(Cell)]
    BY <2>1, <2>3, ConcatProperties DEF TypeOK
  <2> QED
    BY <1>8, <2>1, <2>3, <2>4 DEF ServeReply, TypeOK
<1>9. CASE ServeClosed
  BY <1>9, <1>n DEF ServeClosed, TypeOK
<1>10. CASE ServeHungUp
  BY <1>10, <1>n DEF ServeHungUp, TypeOK
<1>11. CASE Quit
  BY <1>11, <1>n, <1>e DEF Quit, TypeOK
<1>12. CASE Crash
  <2>1. DOMAIN wire = 1..Len(wire) /\ Len(wire) \in Nat
    BY LenProperties DEF TypeOK
  <2>2. \A i \in 1..Len(wire) : wire[i] \in Frame
    BY ElementOfSeq DEF TypeOK
  <2>5. \A r \in Frame : [r EXCEPT !.from = Nobody] \in Frame
    BY DEF Frame, Owner
  <2>3. wire' \in [1..Len(wire) -> Frame]
    BY <1>12, <2>1, <2>2, <2>5 DEF Crash
  <2>4. wire' \in Seq(Frame)
    BY <2>1, <2>3, SeqDef
  <2> QED
    BY <1>12, <1>n, <1>e, <2>4 DEF Crash, TypeOK
<1>13. CASE Restart
  BY <1>13, <1>e DEF Restart, TypeOK
<1>14. CASE Answer
  <2>1. PICK i \in DOMAIN wire, exc \in BOOLEAN :
          /\ wire' = Without(wire, i)
          /\ rx' = IF Listening THEN rx \o Reply(wire[i], exc) ELSE rx
          /\ UNCHANGED <<want, inbox, backlog, bridge, cur, line, late>>
    BY <1>14 DEF Answer
  <2>2. wire[i] \in Frame
    BY ElementOfSeq, LenProperties DEF TypeOK
  <2>3. wire' \in Seq(Frame)
    BY <2>1, WithoutType DEF TypeOK
  <2>4. Reply(wire[i], exc) \in Seq(Cell)
    BY <2>2, ReplyType
  <2>5. rx' \in Seq(Cell)
    BY <2>1, <2>4, ConcatProperties DEF TypeOK
  <2> QED
    BY <2>1, <2>3, <2>5 DEF TypeOK
<1>15. CASE Lose
  BY <1>15, WithoutType DEF Lose, TypeOK
<1>16. CASE HangUp
  BY <1>16, <1>e DEF HangUp, TypeOK
<1>17. CASE UNCHANGED vars
  BY <1>17 DEF vars, TypeOK
<1> QED
  BY <1>1, <1>2, <1>3, <1>4, <1>5, <1>6, <1>7, <1>8, <1>9, <1>10, <1>11, <1>12,
     <1>13, <1>14, <1>15, <1>16, <1>17 DEF Next, Client, Bridge, Serve, Bus

\* Type correctness of the bus.
THEOREM TypeCorrect == Spec => []TypeOK
  BY TypeInit, TypeStep, PTL DEF Spec

-----------------------------------------------------------------------------
(* The bus in step: what holds while no client has left early. *)

\* A waiting connection belongs to a client that has sent its request and
\* received nothing; a client has one connection.
BacklogQ ==
    /\ \A i \in 1..Len(backlog) :
          /\ backlog[i].from \in Clients
          /\ backlog[i].req # NoReq
          /\ want[backlog[i].from] = backlog[i].req
          /\ inbox[backlog[i].from] = <<>>
          /\ backlog[i].from # cur.from
    /\ \A i, j \in 1..Len(backlog) : backlog[i].from = backlog[j].from => i = j

\* A request not yet written finds the line silent.
CurQ ==
    /\ bridge # "serve" => cur = NoConn
    /\ cur.from \in Clients => want[cur.from] # NoReq
    /\ cur.req # NoReq => /\ cur.from \in Clients
                          /\ want[cur.from] = cur.req
                          /\ inbox[cur.from] = <<>>
                          /\ wire = <<>> /\ rx = <<>>

\* The request on the line is the one of the client being served.
WireQ ==
    wire # <<>> => /\ bridge = "serve" /\ line = "up" /\ cur.req = NoReq
                   /\ Len(wire) = 1 /\ rx = <<>>
                   /\ cur.from \in Clients
                   /\ wire[1].from = cur.from
                   /\ want[cur.from] = wire[1].kind
                   /\ inbox[cur.from] = <<>>

FirstExc == IF inbox[cur.from] = <<>> THEN rx[1].exc ELSE inbox[cur.from][1].exc

\* The tty buffer continues what the client being served has received, and
\* the two together are one reply.
RxQ ==
    rx # <<>> => /\ bridge = "serve" /\ line = "up" /\ cur.req = NoReq
                 /\ cur.from \in Clients
                 /\ InOrder(rx, cur.from, Len(inbox[cur.from]))
                 /\ Len(inbox[cur.from]) + Len(rx) =
                       IF FirstExc THEN ExcLen ELSE Want[want[cur.from]]

InboxQ ==
    \A c \in Clients :
        /\ want[c] = NoReq => inbox[c] = <<>>
        /\ InOrder(inbox[c], c, 0)

Quiet == BacklogQ /\ CurQ /\ WireQ /\ RxQ /\ InboxQ

\* A client that leaves with nothing on its way changes nothing but itself.
LEMMA CloseQuiet ==
  ASSUME TypeOK, Quiet, NEW c \in Clients, Close(c), want[c] # NoReq, ~InFlight(c)
  PROVE  Quiet'
<1> USE DEF TypeOK
<1>1. backlog' = backlog /\ wire' = wire /\ rx' = rx
  BY DisownNothing DEF Close, InFlight
<1>2. cur' = IF cur.from = c THEN [cur EXCEPT !.from = Nobody] ELSE cur
  BY DEF Close, DisownOne
<1>3. /\ want' = [want EXCEPT ![c] = NoReq]
      /\ inbox' = [inbox EXCEPT ![c] = <<>>]
      /\ bridge' = bridge /\ line' = line
  BY DEF Close
<1>4. /\ DOMAIN backlog = 1..Len(backlog) /\ DOMAIN wire = 1..Len(wire)
      /\ DOMAIN rx = 1..Len(rx) /\ Len(rx) \in Nat /\ Len(wire) \in Nat
  BY LenProperties
<1>5. cur.from = c => wire = <<>> /\ rx = <<>> /\ cur.req = NoReq
  <2>1. ASSUME wire # <<>>, cur.from = c PROVE FALSE
    BY <1>4, <2>1, SMTT(60) DEF Quiet, WireQ, InFlight, Owns
  <2>2. ASSUME rx # <<>>, cur.from = c PROVE FALSE
    <3>1. 1 \in 1..Len(rx)
      BY <2>2, <1>4, EmptySeq
    <3> QED
      BY <1>4, <2>2, <3>1 DEF Quiet, RxQ, InOrder, InFlight, Owns
  <2> QED
    BY <2>1, <2>2 DEF InFlight
<1>6. cur.from # c => cur' = cur
  BY <1>2
<1>7. cur.from = c => cur'.from = Nobody /\ cur'.req = NoReq
  BY <1>2, <1>5 DEF Conn
<1>8. Nobody \notin Clients
  BY BusAssumption DEF BusAssumption
<1>9. \A i \in 1..Len(backlog) : backlog[i].from # c
  BY <1>4 DEF InFlight, Owns
<1>10. BacklogQ'
  BY <1>1, <1>3, <1>6, <1>7, <1>8, <1>9 DEF Quiet, BacklogQ
<1>11. CurQ'
  BY <1>1, <1>2, <1>3, <1>6, <1>7, <1>8 DEF Quiet, CurQ, NoConn
<1>12. WireQ'
  BY <1>1, <1>3, <1>5, <1>6 DEF Quiet, WireQ
<1>13. RxQ'
  BY <1>1, <1>3, <1>5, <1>6 DEF Quiet, RxQ, FirstExc
<1>14. InboxQ'
  <2>1. inbox'[c] = <<>> /\ InOrder(inbox'[c], c, 0)
    BY <1>3, EmptySeq DEF InOrder
  <2> QED
    BY <1>3, <2>1 DEF Quiet, InboxQ
<1> QED
  BY <1>10, <1>11, <1>12, <1>13, <1>14 DEF Quiet

\* A client that has its whole reply leaves nothing behind.
LEMMA FinishLeavesNothing ==
  ASSUME TypeOK, Quiet, NEW c \in Clients, want[c] # NoReq,
         Len(inbox[c]) >= Want[want[c]], ~inbox[c][1].exc
  PROVE  ~InFlight(c)
<1> USE DEF TypeOK
<1>1. /\ DOMAIN backlog = 1..Len(backlog) /\ DOMAIN wire = 1..Len(wire)
      /\ DOMAIN rx = 1..Len(rx)
      /\ Len(rx) \in Nat /\ Len(wire) \in Nat /\ Len(inbox[c]) \in Nat
  BY LenProperties
<1>2. want[c] \in Kinds /\ Want[want[c]] \in Nat \ {0}
  BY BusAssumption DEF BusAssumption
<1>3. inbox[c] # <<>>
  BY <1>1, <1>2, EmptySeq
<1>4. ~Owns(backlog, c)
  BY <1>1, <1>3 DEF Quiet, BacklogQ, Owns
<1>5. ~Owns(wire, c)
  BY <1>1, <1>3 DEF Quiet, WireQ, Owns
<1>6. ~Owns(rx, c)
  <2> SUFFICES ASSUME Owns(rx, c) PROVE FALSE
    OBVIOUS
  <2>1. rx # <<>> /\ Len(rx) > 0
    BY <1>1, EmptySeq DEF Owns
  <2>2. cur.from = c
    BY <1>1, <2>1 DEF Quiet, RxQ, InOrder, Owns
  <2>3. Len(inbox[c]) + Len(rx) = Want[want[c]]
    BY <1>3, <2>1, <2>2 DEF Quiet, RxQ, FirstExc
  <2> QED
    BY <1>1, <1>2, <2>1, <2>3
<1>7. ~(cur.from = c /\ cur.req # NoReq)
  BY <1>3 DEF Quiet, CurQ
<1> QED
  BY <1>4, <1>5, <1>6, <1>7 DEF InFlight

LEMMA QuietInit == Init => Quiet
<1>1. Len(<<>>) = 0
  BY EmptySeq
<1> QED
  BY <1>1, BusAssumption
  DEF BusAssumption, Init, Quiet, BacklogQ, CurQ, WireQ, RxQ, InboxQ, InOrder,
      NoConn

\* A step that does not make a client late keeps the bus in step.
LEMMA QuietStep ==
  ASSUME TypeOK, TypeOK', Quiet, late = 0, late' = 0, [Next]_vars
  PROVE  Quiet'
<1> USE DEF TypeOK
<1>a. /\ DOMAIN backlog = 1..Len(backlog) /\ Len(backlog) \in Nat
      /\ DOMAIN wire = 1..Len(wire) /\ Len(wire) \in Nat
      /\ DOMAIN rx = 1..Len(rx) /\ Len(rx) \in Nat
  BY LenProperties
<1>b. \A c \in Clients : Len(inbox[c]) \in Nat
  BY LenProperties
<1>e. Len(<<>>) = 0
  BY EmptySeq
<1>n. Nobody \notin Clients /\ NoReq \notin Kinds
  BY BusAssumption DEF BusAssumption
<1>q. BacklogQ /\ CurQ /\ WireQ /\ RxQ /\ InboxQ
  BY DEF Quiet
<1>1. ASSUME NEW c \in Clients, Send(c) PROVE Quiet'
  <2>1. PICK k \in Kinds : /\ want' = [want EXCEPT ![c] = k]
                           /\ backlog' = Append(backlog, [from |-> c, req |-> k])
    BY <1>1 DEF Send
  <2>2. /\ want[c] = NoReq
        /\ UNCHANGED <<inbox, bridge, cur, line, wire, rx>>
    BY <1>1 DEF Send
  <2>3. [from |-> c, req |-> k] \in Conn
    BY DEF Conn, Owner
  <2>4. /\ Len(backlog') = Len(backlog) + 1
        /\ \A i \in 1..Len(backlog) : backlog'[i] = backlog[i]
        /\ backlog'[Len(backlog) + 1] = [from |-> c, req |-> k]
    BY <2>1, <2>3, AppendProperties
  <2>5. k # NoReq /\ cur.from # c /\ inbox[c] = <<>>
    BY <2>2, <1>q, <1>n DEF CurQ, InboxQ
  <2>6. \A i \in 1..Len(backlog) : backlog[i].from # c
    BY <2>2, <1>q DEF BacklogQ
  <2>7. BacklogQ'
    <3>1. ASSUME NEW i \in 1..Len(backlog')
          PROVE  i \in 1..Len(backlog) \/ i = Len(backlog) + 1
      BY <2>4, <1>a
    <3>2. ASSUME NEW i \in 1..Len(backlog')
          PROVE  /\ backlog'[i].from \in Clients
                 /\ backlog'[i].req # NoReq
                 /\ want'[backlog'[i].from] = backlog'[i].req
                 /\ inbox'[backlog'[i].from] = <<>>
                 /\ backlog'[i].from # cur'.from
      <4>1. CASE i \in 1..Len(backlog)
        BY <4>1, <2>1, <2>2, <2>4, <2>6, <1>q DEF BacklogQ
      <4>2. CASE i = Len(backlog) + 1
        BY <4>2, <2>1, <2>2, <2>4, <2>5
      <4> QED
        BY <3>1, <4>1, <4>2
    <3>3. ASSUME NEW i \in 1..Len(backlog'), NEW j \in 1..Len(backlog'),
                 backlog'[i].from = backlog'[j].from
          PROVE  i = j
      <4>1. backlog'[Len(backlog) + 1].from = c
        BY <2>4
      <4>2. CASE i \in 1..Len(backlog) /\ j \in 1..Len(backlog)
        BY <4>2, <3>3, <2>4, <1>q DEF BacklogQ
      <4>3. CASE i \in 1..Len(backlog) /\ j = Len(backlog) + 1
        BY <4>1, <4>3, <3>3, <2>4, <2>6
      <4>4. CASE i = Len(backlog) + 1 /\ j \in 1..Len(backlog)
        BY <4>1, <4>4, <3>3, <2>4, <2>6
      <4> QED
        BY <3>1, <4>2, <4>3, <4>4
    <3> QED
      BY <3>2, <3>3 DEF BacklogQ
  <2>8. CurQ'
    BY <2>1, <2>2, <2>5, <1>n, <1>q DEF CurQ
  <2>9. WireQ'
    BY <2>1, <2>2, <2>5, <1>q DEF WireQ
  <2>10. RxQ'
    BY <2>1, <2>2, <2>5, <1>q DEF RxQ, FirstExc
  <2>11. InboxQ'
    BY <2>1, <2>2, <2>5, <1>n, <1>q DEF InboxQ
  <2> QED
    BY <2>7, <2>8, <2>9, <2>10, <2>11 DEF Quiet
<1>2. ASSUME NEW c \in Clients, Finish(c) PROVE Quiet'
  BY <1>2, CloseQuiet, FinishLeavesNothing DEF Finish
<1>3. ASSUME NEW c \in Clients, GiveUp(c) PROVE Quiet'
  BY <1>3, CloseQuiet DEF GiveUp, CountLate
<1>4. ASSUME NEW c \in Clients, Abort(c) PROVE Quiet'
  BY <1>4, CloseQuiet DEF Abort, CountLate
<1>5. CASE Accept
  <2>1. /\ backlog # <<>> /\ cur' = Head(backlog) /\ backlog' = Tail(backlog)
        /\ bridge = "accept" /\ bridge' = "serve"
        /\ UNCHANGED <<want, inbox, line, wire, rx>>
    BY <1>5 DEF Accept
  <2>2. /\ cur = NoConn /\ wire = <<>> /\ rx = <<>>
    BY <2>1, <1>q DEF CurQ, WireQ, RxQ
  <2>3. /\ Len(backlog') = Len(backlog) - 1
        /\ \A i \in 1..Len(backlog') : backlog'[i] = backlog[i + 1]
        /\ 1 \in 1..Len(backlog) /\ cur' = backlog[1]
    <3>1. Len(backlog) > 0
      BY <2>1, <1>a, EmptySeq
    <3>2. cur' = backlog[1]
      BY <2>1
    <3> QED
      BY <2>1, <1>a, <3>1, <3>2, HeadTailProperties
  <2>4. /\ cur'.from \in Clients /\ cur'.req # NoReq
        /\ want[cur'.from] = cur'.req /\ inbox[cur'.from] = <<>>
    BY <2>3, <1>q DEF BacklogQ
  <2>5. BacklogQ'
    BY <2>1, <2>3, <1>a, <1>q DEF BacklogQ
  <2>6. CurQ'
    BY <2>1, <2>2, <2>4 DEF CurQ
  <2>7. WireQ' /\ RxQ'
    BY <2>1, <2>2 DEF WireQ, RxQ
  <2>8. InboxQ'
    BY <2>1, <1>q DEF InboxQ
  <2> QED
    BY <2>5, <2>6, <2>7, <2>8 DEF Quiet
<1>6. CASE ServeRequest
  <2> DEFINE f == [from |-> cur.from, kind |-> cur.req]
  <2>1. /\ bridge = "serve" /\ line = "up" /\ cur.req # NoReq
        /\ wire' = Append(wire, f)
        /\ cur' = [cur EXCEPT !.req = NoReq]
        /\ UNCHANGED <<want, inbox, backlog, bridge, line, rx>>
    BY <1>6 DEF ServeRequest
  <2>2. /\ cur.from \in Clients /\ want[cur.from] = cur.req
        /\ inbox[cur.from] = <<>> /\ wire = <<>> /\ rx = <<>>
    BY <2>1, <1>q DEF CurQ
  <2>3. cur'.from = cur.from /\ cur'.req = NoReq
    BY <2>1 DEF Conn
  <2>4. f \in Frame
    BY <2>1 DEF Conn, Frame
  <2>5. Len(wire') = 1 /\ wire'[1] = f
    BY <2>1, <2>2, <2>4, <1>e, AppendProperties
  <2>6. BacklogQ'
    BY <2>1, <2>3, <1>q DEF BacklogQ
  <2>7. CurQ'
    BY <2>1, <2>2, <2>3, <1>q DEF CurQ
  <2>8. WireQ'
    BY <2>1, <2>2, <2>3, <2>5 DEF WireQ
  <2>9. RxQ'
    BY <2>1, <2>2 DEF RxQ
  <2>10. InboxQ'
    BY <2>1, <1>q DEF InboxQ
  <2> QED
    BY <2>6, <2>7, <2>8, <2>9, <2>10 DEF Quiet
<1>7. CASE ServeReply
  <2>1. PICK n \in 1..Len(rx) :
          /\ rx' = SubSeq(rx, n + 1, Len(rx))
          /\ inbox' = IF cur.from \in Clients
                      THEN [inbox EXCEPT ![cur.from] = @ \o SubSeq(rx, 1, n)]
                      ELSE inbox
    BY <1>7 DEF ServeReply
  <2>2. UNCHANGED <<want, backlog, bridge, cur, line, wire>>
    BY <1>7 DEF ServeReply
  <2> DEFINE c == cur.from
  <2>3. /\ rx # <<>> /\ bridge = "serve" /\ line = "up" /\ cur.req = NoReq
        /\ c \in Clients
        /\ InOrder(rx, c, Len(inbox[c]))
        /\ Len(inbox[c]) + Len(rx) = IF FirstExc THEN ExcLen ELSE Want[want[c]]
    <3>1. rx # <<>>
      BY <1>a, <1>e
    <3> QED
      BY <3>1, <1>q DEF RxQ
  <2>4. wire = <<>>
    BY <2>3, <1>q DEF WireQ
  <2>5. /\ inbox'[c] = inbox[c] \o SubSeq(rx, 1, n)
        /\ \A d \in Clients : d # c => inbox'[d] = inbox[d]
    BY <2>1, <2>3
  <2>6. /\ Len(inbox'[c]) + Len(rx') = Len(inbox[c]) + Len(rx)
        /\ Len(inbox'[c]) \in Nat \ {0}
        /\ InOrder(inbox'[c], c, 0)
        /\ InOrder(rx', c, Len(inbox'[c]))
        /\ inbox'[c][1] = IF inbox[c] = <<>> THEN rx[1] ELSE inbox[c][1]
    <3>1. inbox[c] \in Seq(Cell) /\ InOrder(inbox[c], c, 0)
      BY <2>3, <1>q DEF InboxQ
    <3> DEFINE in   == inbox[c]
               more == in \o SubSeq(rx, 1, n)
               left == SubSeq(rx, n + 1, Len(rx))
    <3>2. in \in Seq(Cell) /\ rx \in Seq(Cell) /\ n \in 1..Len(rx)
      BY <3>1
    <3>3. InOrder(in, c, 0) /\ InOrder(rx, c, Len(in))
      BY <2>3, <3>1
    <3>4. inbox'[c] = more /\ rx' = left
      BY <2>1, <2>5
    <3> HIDE DEF c, in, TypeOK
    <3>5. /\ Len(more) + Len(left) = Len(in) + Len(rx)
          /\ Len(more) \in Nat \ {0}
          /\ InOrder(more, c, 0) /\ InOrder(left, c, Len(more))
          /\ more[1] = IF in = <<>> THEN rx[1] ELSE in[1]
      BY <3>2, <3>3, CopyCells
    <3> HIDE DEF more, left
    <3> QED
      BY <3>4, <3>5 DEF in
  <2>7. InboxQ'
    <3>1. want[c] # NoReq
      BY <2>3, <1>q DEF CurQ
    <3> QED
      BY <3>1, <2>2, <2>5, <2>6, <1>q DEF InboxQ
  <2>8. BacklogQ'
    BY <2>2, <2>5, <1>q DEF BacklogQ
  <2>9. CurQ'
    BY <2>2, <2>3, <1>q DEF CurQ
  <2>10. WireQ'
    BY <2>2, <2>4 DEF WireQ
  <2>11. RxQ'
    <3>1. FirstExc' = FirstExc
      <4>1. inbox'[c] # <<>>
        BY <2>6, <1>e
      <4> QED
        BY <4>1, <2>6, <2>2 DEF FirstExc
    <3> QED
      BY <3>1, <2>2, <2>3, <2>6 DEF RxQ
  <2> QED
    BY <2>7, <2>8, <2>9, <2>10, <2>11 DEF Quiet
<1>8. CASE ServeClosed
  <2>1. /\ cur.from = Nobody /\ cur.req = NoReq
        /\ cur' = NoConn /\ bridge' = "accept"
        /\ UNCHANGED <<want, inbox, backlog, line, wire, rx>>
    BY <1>8 DEF ServeClosed
  <2>2. wire = <<>> /\ rx = <<>>
    BY <2>1, <1>n, <1>q DEF WireQ, RxQ
  <2>3. BacklogQ'
    BY <2>1, <1>n, <1>q DEF BacklogQ, NoConn
  <2> QED
    BY <2>1, <2>2, <2>3, <1>n, <1>q DEF Quiet, CurQ, WireQ, RxQ, InboxQ, NoConn
<1>9. CASE ServeHungUp
  <2>1. /\ line = "hungup"
        /\ cur' = NoConn /\ bridge' = "accept"
        /\ UNCHANGED <<want, inbox, backlog, line, wire, rx>>
    BY <1>9 DEF ServeHungUp
  <2>2. wire = <<>> /\ rx = <<>>
    BY <2>1, <1>q DEF WireQ, RxQ
  <2>3. BacklogQ'
    BY <2>1, <1>n, <1>q DEF BacklogQ, NoConn
  <2> QED
    BY <2>1, <2>2, <2>3, <1>n, <1>q DEF Quiet, CurQ, WireQ, RxQ, InboxQ, NoConn
<1>10. ASSUME Quit \/ Crash PROVE Quiet'
  <2>1. /\ cur' = NoConn /\ backlog' = <<>> /\ rx' = <<>> /\ UNCHANGED <<want, inbox>>
    BY <1>10 DEF Quit, Crash
  <2>2. wire' = <<>>
    <3>1. CASE Quit
      BY <3>1 DEF Quit
    <3>2. CASE Crash
      <4>1. ~\E i \in DOMAIN wire : wire[i].from # Nobody
        BY <3>2 DEF Crash
      <4>2. wire = <<>>
        BY <4>1, <1>a, <1>n, <1>q DEF WireQ
      <4> QED
        BY <3>2, <4>2, <1>a, <1>e DEF Crash
    <3> QED
      BY <1>10, <3>1, <3>2
  <2> QED
    BY <2>1, <2>2, <1>e, <1>n, <1>q
    DEF Quiet, BacklogQ, CurQ, WireQ, RxQ, InboxQ, NoConn
<1>11. CASE Restart
  <2>1. /\ bridge = "down" /\ bridge' # "serve" /\ rx' = <<>>
        /\ UNCHANGED <<want, inbox, backlog, cur, wire>>
    BY <1>11 DEF Restart
  <2>2. wire = <<>> /\ cur = NoConn
    BY <2>1, <1>q DEF WireQ, CurQ
  <2> QED
    BY <2>1, <2>2, <1>n, <1>q
    DEF Quiet, BacklogQ, CurQ, WireQ, RxQ, InboxQ, NoConn
<1>12. CASE Answer
  <2>1. PICK i \in DOMAIN wire, exc \in BOOLEAN :
          /\ wire' = Without(wire, i)
          /\ rx' = IF Listening THEN rx \o Reply(wire[i], exc) ELSE rx
          /\ UNCHANGED <<want, inbox, backlog, bridge, cur, line>>
    BY <1>12 DEF Answer
  <2>2. /\ bridge = "serve" /\ line = "up" /\ cur.req = NoReq
        /\ Len(wire) = 1 /\ rx = <<>> /\ cur.from \in Clients
        /\ wire[1].from = cur.from /\ want[cur.from] = wire[1].kind
        /\ inbox[cur.from] = <<>>
    <3>1. wire # <<>>
      BY <1>a, <1>e
    <3> QED
      BY <3>1, <1>q DEF WireQ
  <2>3. i = 1 /\ wire' = <<>>
    <3>1. i = 1
      BY <2>2, <1>a
    <3>2. wire' \in Seq(Frame) /\ Len(wire') = 0
      <4>1. Len(Without(wire, i)) = Len(wire) - 1
        BY WithoutType
      <4> QED
        BY <2>1, <2>2, <4>1
    <3> QED
      BY <3>1, <3>2, EmptySeq
  <2>4. wire[1] \in Frame
    BY <2>1, <2>3, <1>a, ElementOfSeq
  <2> DEFINE r == Reply(wire[1], exc)
  <2>5. rx' = r /\ r \in Seq(Cell)
    <3>1. r \in Seq(Cell)
      BY <2>4, ReplyType
    <3> QED
      BY <2>1, <2>2, <2>3, <3>1, ConcatEmptySeq DEF Listening
  <2>6. /\ Len(r) = IF exc THEN ExcLen ELSE Want[wire[1].kind]
        /\ \A p \in 1..Len(r) :
              /\ r[p].from = wire[1].from /\ r[p].pos = p
              /\ p = 1 => r[p].exc = exc
    BY <2>4, ReplyType
  <2>7. Len(r) \in Nat \ {0}
    BY <2>4, <2>6, BusAssumption DEF BusAssumption, Frame
  <2> HIDE DEF r
  <2>8. InOrder(rx', cur.from, 0)
    <3>1. \A p \in 1..Len(r) : r[p].pos = 0 + p
      BY <2>6, <2>7
    <3> QED
      BY <2>2, <2>5, <2>6, <3>1 DEF InOrder
  <2>9. rx'[1].exc = exc
    BY <2>5, <2>6, <2>7
  <2>10. RxQ'
    <3>1. Len(inbox[cur.from]) = 0
      BY <2>2, <1>e
    <3>2. FirstExc' = exc
      BY <2>1, <2>2, <2>9 DEF FirstExc
    <3>3. Len(inbox'[cur'.from]) + Len(rx') =
             IF FirstExc' THEN ExcLen ELSE Want[want'[cur'.from]]
      BY <2>1, <2>2, <2>5, <2>6, <2>7, <3>1, <3>2
    <3> QED
      BY <2>1, <2>2, <2>8, <3>1, <3>3 DEF RxQ
  <2>11. BacklogQ' /\ InboxQ'
    BY <2>1, <1>q DEF BacklogQ, InboxQ
  <2>12. CurQ'
    BY <2>1, <2>2, <1>q DEF CurQ
  <2>13. WireQ'
    BY <2>3 DEF WireQ
  <2> QED
    BY <2>10, <2>11, <2>12, <2>13 DEF Quiet
<1>13. CASE Lose
  <2>1. PICK i \in DOMAIN wire : wire' = Without(wire, i)
    BY <1>13 DEF Lose
  <2>2. UNCHANGED <<want, inbox, backlog, bridge, cur, line, rx>>
    BY <1>13 DEF Lose
  <2>3. Len(wire) = 1 /\ cur.req = NoReq
    <3>1. wire # <<>>
      BY <1>a, <1>e
    <3> QED
      BY <3>1, <1>q DEF WireQ
  <2>4. wire' = <<>>
    <3>1. wire' \in Seq(Frame) /\ Len(wire') = 0
      <4>1. Len(Without(wire, i)) = Len(wire) - 1
        BY WithoutType
      <4> QED
        BY <2>1, <2>3, <4>1
    <3> QED
      BY <3>1, EmptySeq
  <2> QED
    BY <2>2, <2>3, <2>4, <1>q
    DEF Quiet, BacklogQ, CurQ, WireQ, RxQ, FirstExc, InboxQ
<1>14. CASE HangUp
  BY <1>14, <1>q DEF HangUp, Quiet, BacklogQ, CurQ, WireQ, RxQ, InboxQ
<1>15. ASSUME UNCHANGED vars PROVE Quiet'
  BY <1>15, <1>q DEF vars, Quiet, BacklogQ, CurQ, WireQ, RxQ, FirstExc, InboxQ
<1>16. ASSUME NEW c \in Clients, Refused(c) PROVE Quiet'
  BY <1>15, <1>16 DEF Refused
<1> QED
  BY <1>1, <1>2, <1>3, <1>4, <1>5, <1>6, <1>7, <1>8, <1>9, <1>10, <1>11, <1>12,
     <1>13, <1>14, <1>15, <1>16 DEF Next, Client, Bridge, Serve, Bus

\* No action makes a late client on time.
LEMMA LateGrows == TypeOK /\ [Next]_vars => late' >= late
  BY DEF TypeOK, Next, Client, Bridge, Serve, Bus, vars, Send, Refused, Finish,
         GiveUp, Abort, CountLate, Accept, ServeRequest, ServeReply, ServeClosed,
         ServeHungUp, Quit, Crash, Restart, Answer, Lose, HangUp

IInv == TypeOK /\ (late = 0 => Quiet)

\* The bus stays in step as long as no client is late.
LEMMA SpecIInv == Spec => []IInv
<1>1. Init => IInv
  BY TypeInit, QuietInit DEF IInv
<1>2. IInv /\ [Next]_vars => IInv'
  BY TypeStep, QuietStep, LateGrows DEF IInv, TypeOK
<1> QED
  BY <1>1, <1>2, PTL DEF Spec

\* A client receives the reply to its own request, in order, and nothing else,
\* as long as no client has left before its answer came.
THEOREM RepliesArePaired == Spec => []Paired
<1>1. IInv => Paired
  <2> SUFFICES ASSUME IInv, late = 0, NEW c \in Clients, NEW i \in DOMAIN inbox[c]
               PROVE  inbox[c][i].from = c /\ inbox[c][i].pos = i
    BY DEF Paired, PairedAlways
  <2>1. inbox[c] \in Seq(Cell) /\ InOrder(inbox[c], c, 0)
    BY DEF IInv, TypeOK, Quiet, InboxQ
  <2>2. i \in 1..Len(inbox[c]) /\ Len(inbox[c]) \in Nat
    BY <2>1, LenProperties
  <2> QED
    BY <2>1, <2>2 DEF InOrder
<1> QED
  BY <1>1, SpecIInv, PTL

\* One request or one reply is on the half duplex line, under the same condition.
THEOREM LineIsHalfDuplex == Spec => []HalfDuplex
<1>1. IInv => HalfDuplex
  <2> SUFFICES ASSUME IInv, late = 0 PROVE HalfDuplexAlways
    BY DEF HalfDuplex
  <2>1. WireQ /\ Len(<<>>) = 0
    BY EmptySeq DEF IInv, Quiet
  <2>2. CASE wire = <<>>
    BY <2>1, <2>2 DEF HalfDuplexAlways
  <2>3. CASE wire # <<>>
    <3>1. Len(wire) = 1 /\ rx = <<>>
      BY <2>1, <2>3 DEF WireQ
    <3> QED
      BY <3>1 DEF HalfDuplexAlways
  <2> QED
    BY <2>2, <2>3
<1> QED
  BY <1>1, SpecIInv, PTL

-----------------------------------------------------------------------------
(* The bus implements the service, step by step. *)

\* What the mapping makes of one client.
St(c) ==
    IF want[c] = NoReq THEN "idle" ELSE IF HasAnswer(c) THEN "answered" ELSE "waiting"

\* The bus works for the client the bridge serves, and that client has not got
\* its answer yet.
WorksForCur ==
    /\ BusOf = IF wire = <<>> /\ rx = <<>> THEN Nobody ELSE cur.from
    /\ wire # <<>> \/ rx # <<>> =>
          \E c \in Clients : c = cur.from /\ St(c) = "waiting"

LEMMA BusWhenQuiet == TypeOK /\ Quiet => WorksForCur
<1> SUFFICES ASSUME TypeOK, Quiet PROVE WorksForCur
  OBVIOUS
<1> DEFINE c == cur.from
<1>1. CASE wire # <<>>
  <2>1. /\ wire[1].from = c /\ c \in Clients /\ inbox[c] = <<>>
        /\ want[c] # NoReq
    BY <1>1 DEF Quiet, WireQ, CurQ
  <2>2. want[c] \in Kinds /\ Want[want[c]] \in Nat \ {0} /\ Len(<<>>) = 0
    BY <2>1, BusAssumption, EmptySeq DEF BusAssumption, TypeOK
  <2>3. St(c) = "waiting"
    BY <2>1, <2>2 DEF St, HasAnswer
  <2> QED
    BY <1>1, <2>1, <2>3 DEF WorksForCur, BusOf
<1>2. CASE wire = <<>> /\ rx # <<>>
  <2>1. /\ c \in Clients /\ want[c] # NoReq
        /\ InOrder(rx, c, Len(inbox[c]))
        /\ Len(inbox[c]) + Len(rx) = IF FirstExc THEN ExcLen ELSE Want[want[c]]
    BY <1>2 DEF Quiet, RxQ, CurQ
  <2>2. Len(rx) \in Nat \ {0} /\ Len(inbox[c]) \in Nat
    BY <1>2, <2>1, LenProperties, EmptySeq DEF TypeOK
  <2>3. rx[1].from = c
    BY <2>1, <2>2 DEF InOrder
  <2>4. /\ want[c] \in Kinds /\ Want[want[c]] \in Nat
        /\ ExcLen \in Nat /\ ExcLen <= Want[want[c]]
    BY <2>1, BusAssumption DEF BusAssumption, TypeOK
  <2>5. Len(inbox[c]) < Want[want[c]]
    BY <2>1, <2>2, <2>4
  <2>6. ~(inbox[c] # <<>> /\ inbox[c][1].exc /\ Len(inbox[c]) = ExcLen)
    BY <2>1, <2>2, <2>4 DEF FirstExc
  <2>7. St(c) = "waiting"
    BY <2>1, <2>2, <2>4, <2>5, <2>6 DEF St, HasAnswer
  <2> QED
    BY <1>2, <2>1, <2>3, <2>7 DEF WorksForCur, BusOf
<1>3. CASE wire = <<>> /\ rx = <<>>
  BY <1>3 DEF WorksForCur, BusOf
<1> QED
  BY <1>1, <1>2, <1>3

\* The mapped state of a client, before and after a step.
LEMMA StateOfClient ==
  /\ StateOf = [c \in Clients |-> St(c)]
  /\ StateOf' = [c \in Clients |-> St(c)']
  BY DEF StateOf, St

\* A step that leaves every client as it was, and the bus too unless it becomes
\* free, loses a request or is invisible.
LEMMA FreesBus ==
  ASSUME UNCHANGED <<want, inbox>>, BusOf' \in {BusOf, Nobody}
  PROVE  [Service!Next]_(Service!vars)
<1>1. StateOf' = StateOf
  BY DEF StateOf, HasAnswer
<1>2. CASE BusOf' = BusOf
  BY <1>1, <1>2 DEF Service!vars
<1>3. CASE BusOf' = Nobody /\ BusOf # Nobody
  BY <1>1, <1>3 DEF Service!Next, Service!Drop
<1> QED
  BY <1>2, <1>3

\* One client changes its state: the mapped function changes there only.
LEMMA OneClient ==
  ASSUME NEW c \in Clients, \A d \in Clients : d # c => St(d)' = St(d)
  PROVE  StateOf' = [StateOf EXCEPT ![c] = St(c)']
  BY StateOfClient

\* close() of a client with nothing on its way takes its answer, or is a
\* transaction that failed and left nothing on the bus.
LEMMA CloseMaps ==
  ASSUME TypeOK, Quiet, NEW c \in Clients, Close(c), want[c] # NoReq, ~InFlight(c)
  PROVE  Service!Next
<1>1. backlog' = backlog /\ wire' = wire /\ rx' = rx
  BY DisownNothing DEF Close, InFlight, TypeOK
<1>2. /\ want' = [want EXCEPT ![c] = NoReq]
      /\ inbox' = [inbox EXCEPT ![c] = <<>>]
  BY DEF Close
<1>3. BusOf' = BusOf
  BY <1>1 DEF BusOf
<1>4. StateOf' = [StateOf EXCEPT ![c] = "idle"]
  <2>1. St(c)' = "idle"
    BY <1>2 DEF St, TypeOK
  <2>2. \A d \in Clients : d # c => St(d)' = St(d)
    BY <1>2 DEF St, HasAnswer, TypeOK
  <2> QED
    BY <2>1, <2>2, OneClient
<1>5. StateOf[c] \in {"answered", "waiting"}
  BY StateOfClient DEF St
<1>6. BusOf # c
  <2>1. Nobody \notin Clients
    BY BusAssumption DEF BusAssumption
  <2>2. /\ wire # <<>> => 1 \in DOMAIN wire
        /\ rx # <<>> => 1 \in DOMAIN rx
    BY LenProperties, EmptySeq DEF TypeOK
  <2> QED
    BY <2>1, <2>2 DEF BusOf, InFlight, Owns
<1>7. CASE StateOf[c] = "answered"
  BY <1>3, <1>4, <1>7 DEF Service!Next, Service!Take
<1>8. CASE StateOf[c] = "waiting"
  BY <1>3, <1>4, <1>6, <1>8 DEF Service!Next, Service!Fail
<1> QED
  BY <1>5, <1>7, <1>8

\* As long as no client is late, a step of the bus is a step of the service or
\* leaves it as it was.
LEMMA ServiceStep ==
  ASSUME TypeOK, TypeOK', Quiet, Quiet', late = 0, late' = 0, [Next]_vars
  PROVE  [Service!Next]_(Service!vars)
<1>n. Nobody \notin Clients /\ NoReq \notin Kinds
  BY BusAssumption DEF BusAssumption
<1>b. WorksForCur /\ WorksForCur'
  BY BusWhenQuiet, PTL
<1>q. BacklogQ /\ CurQ /\ WireQ /\ RxQ /\ InboxQ
  BY DEF Quiet
<1>1. ASSUME NEW c \in Clients, Send(c) PROVE [Service!Next]_(Service!vars)
  <2>1. PICK k \in Kinds : want' = [want EXCEPT ![c] = k]
    BY <1>1 DEF Send
  <2>2. want[c] = NoReq /\ inbox[c] = <<>> /\ UNCHANGED <<inbox, wire, rx>>
    BY <1>1, <1>q DEF Send, InboxQ
  <2>3. Len(<<>>) = 0 /\ Want[k] \in Nat \ {0} /\ k # NoReq
    BY <1>n, BusAssumption, EmptySeq DEF BusAssumption
  <2>4. St(c) = "idle" /\ St(c)' = "waiting"
    BY <2>1, <2>2, <2>3 DEF St, HasAnswer, TypeOK
  <2>5. \A d \in Clients : d # c => St(d)' = St(d)
    BY <2>1, <2>2 DEF St, HasAnswer, TypeOK
  <2>6. StateOf[c] = "idle" /\ StateOf' = [StateOf EXCEPT ![c] = "waiting"]
    BY <2>4, <2>5, OneClient, StateOfClient
  <2>7. BusOf' = BusOf
    BY <2>2 DEF BusOf
  <2> QED
    BY <2>6, <2>7 DEF Service!Next, Service!Ask
<1>2. ASSUME NEW c \in Clients, Finish(c) PROVE [Service!Next]_(Service!vars)
  BY <1>2, FinishLeavesNothing, CloseMaps DEF Finish
<1>3. ASSUME NEW c \in Clients, GiveUp(c) \/ Abort(c)
      PROVE  [Service!Next]_(Service!vars)
  <2>1. Close(c) /\ want[c] # NoReq /\ ~InFlight(c)
    BY <1>3 DEF GiveUp, Abort, CountLate
  <2> QED
    BY <2>1, CloseMaps
<1>4. ASSUME UNCHANGED <<want, inbox, wire, rx>> PROVE [Service!Next]_(Service!vars)
  <2>1. BusOf' = BusOf
    BY <1>4 DEF BusOf
  <2> QED
    BY <1>4, <2>1, FreesBus
<1>5. ASSUME UNCHANGED <<want, inbox>>, wire' = <<>>, rx' = <<>>
      PROVE  [Service!Next]_(Service!vars)
  <2>1. BusOf' = Nobody
    BY <1>5, <1>b DEF WorksForCur
  <2> QED
    BY <1>5, <2>1, FreesBus
<1>6. CASE Accept \/ ServeClosed \/ ServeHungUp \/ UNCHANGED vars
  BY <1>4, <1>6 DEF Accept, ServeClosed, ServeHungUp, vars
<1>7. ASSUME NEW c \in Clients, Refused(c) PROVE [Service!Next]_(Service!vars)
  BY <1>6, <1>7 DEF Refused
<1>8. CASE ServeRequest
  <2>0. PICK c : c = cur.from
    OBVIOUS
  <2>1. /\ cur.req # NoReq /\ cur' = [cur EXCEPT !.req = NoReq]
        /\ wire' = Append(wire, [from |-> cur.from, kind |-> cur.req])
        /\ UNCHANGED <<want, inbox, rx>>
    BY <1>8 DEF ServeRequest
  <2>2. c \in Clients /\ wire = <<>> /\ rx = <<>> /\ BusOf = Nobody
    BY <2>0, <2>1, <1>b, <1>q DEF CurQ, WorksForCur
  <2>3. wire' # <<>>
    <3>1. [from |-> cur.from, kind |-> cur.req] \in Frame
      BY <2>1 DEF Conn, Frame, TypeOK
    <3> QED
      BY <2>1, <2>2, <3>1, AppendProperties, EmptySeq DEF TypeOK
  <2>4. cur'.from = c
    BY <2>0, <2>1 DEF Conn, TypeOK
  <2>5. BusOf' = c /\ St(c)' = "waiting"
    BY <2>2, <2>3, <2>4, <1>b DEF WorksForCur
  <2>6. StateOf' = StateOf
    BY <2>1 DEF StateOf, HasAnswer
  <2>7. StateOf[c] = "waiting"
    BY <2>2, <2>5, <2>6, StateOfClient
  <2> QED
    BY <2>2, <2>5, <2>6, <2>7 DEF Service!Next, Service!Grab
<1>9. CASE ServeReply
  <2>0. PICK c : c = cur.from
    OBVIOUS
  <2>1. PICK n \in 1..Len(rx) :
          /\ rx' = SubSeq(rx, n + 1, Len(rx))
          /\ inbox' = IF c \in Clients
                      THEN [inbox EXCEPT ![c] = @ \o SubSeq(rx, 1, n)]
                      ELSE inbox
    BY <2>0, <1>9 DEF ServeReply
  <2>2. UNCHANGED <<want, cur, wire>>
    BY <1>9 DEF ServeReply
  <2>3. rx # <<>> /\ wire = <<>>
    <3>1. rx # <<>>
      BY EmptySeq, LenProperties DEF TypeOK
    <3> QED
      BY <3>1, <1>q DEF WireQ
  <2>4. c \in Clients /\ BusOf = c /\ St(c) = "waiting"
    BY <2>0, <2>3, <1>b DEF WorksForCur
  <2>5. \A d \in Clients : d # c => St(d)' = St(d)
    BY <2>1, <2>2, <2>4 DEF St, HasAnswer, TypeOK
  <2>6. CASE rx' # <<>>
    <3>1. BusOf' = c /\ St(c)' = "waiting"
      BY <2>2, <2>4, <2>6, <1>b DEF WorksForCur
    <3>2. StateOf' = StateOf
      BY <2>4, <2>5, <3>1, StateOfClient
    <3> QED
      BY <2>4, <3>1, <3>2 DEF Service!vars
  <2>7. CASE rx' = <<>>
    <3>1. BusOf' = Nobody
      BY <2>2, <2>3, <2>7, <1>b DEF WorksForCur
    <3>2. St(c)' = "answered"
      <4> USE DEF TypeOK
      <4>1. /\ InOrder(rx, c, Len(inbox[c])) /\ InOrder(inbox[c], c, 0)
            /\ Len(inbox[c]) + Len(rx) = IF FirstExc THEN ExcLen ELSE Want[want[c]]
            /\ want[c] # NoReq
        BY <2>0, <2>3, <2>4, <1>q DEF RxQ, InboxQ, CurQ
      <4> DEFINE in == inbox[c]
                 more == in \o SubSeq(rx, 1, n)
                 left == SubSeq(rx, n + 1, Len(rx))
      <4>2. in \in Seq(Cell) /\ rx \in Seq(Cell) /\ n \in 1..Len(rx)
        BY <2>4
      <4>3. InOrder(in, c, 0) /\ InOrder(rx, c, Len(in))
        BY <4>1
      <4>4. inbox'[c] = more /\ left = <<>>
        BY <2>1, <2>4, <2>7
      <4> HIDE DEF in, TypeOK
      <4>5. /\ Len(more) + Len(left) = Len(in) + Len(rx)
            /\ Len(more) \in Nat \ {0}
            /\ more[1] = IF in = <<>> THEN rx[1] ELSE in[1]
        BY <4>2, <4>3, CopyCells
      <4> HIDE DEF more, left
      <4>6. Len(inbox'[c]) = IF FirstExc THEN ExcLen ELSE Want[want[c]]
        BY <4>1, <4>4, <4>5, EmptySeq DEF in
      <4>7. inbox'[c] # <<>> /\ inbox'[c][1].exc = FirstExc
        BY <2>0, <4>4, <4>5, EmptySeq DEF in, FirstExc
      <4>8. want'[c] = want[c]
        BY <2>2
      <4>9. Want[want[c]] \in Nat
        BY <4>1, <2>4, BusAssumption DEF BusAssumption, TypeOK
      <4> QED
        BY <4>1, <4>6, <4>7, <4>8, <4>9 DEF St, HasAnswer
    <3>3. StateOf[c] = "waiting" /\ StateOf' = [StateOf EXCEPT ![c] = "answered"]
      BY <2>4, <2>5, <3>2, OneClient, StateOfClient
    <3> QED
      BY <2>4, <3>1, <3>3 DEF Service!Next, Service!Deliver
  <2> QED
    BY <2>6, <2>7
<1>10. CASE Quit \/ Crash
  <2>1. UNCHANGED <<want, inbox>> /\ rx' = <<>>
    BY <1>10 DEF Quit, Crash
  <2>2. CASE Quit
    BY <1>5, <2>1, <2>2 DEF Quit
  <2>3. CASE Crash
    <3>1. cur' = NoConn
      BY <2>3 DEF Crash
    <3>2. wire' = <<>>
      BY <3>1, <1>b, <1>n DEF NoConn, WorksForCur
    <3> QED
      BY <1>5, <2>1, <3>2
  <2> QED
    BY <1>10, <2>2, <2>3
<1>11. CASE Restart
  <2>1. bridge = "down" /\ rx' = <<>> /\ UNCHANGED <<want, inbox, wire>>
    BY <1>11 DEF Restart
  <2>2. wire = <<>>
    BY <2>1, <1>q DEF WireQ
  <2> QED
    BY <1>5, <2>1, <2>2
<1>12. ASSUME Answer \/ Lose PROVE [Service!Next]_(Service!vars)
  <2>1. /\ UNCHANGED <<want, inbox, cur>>
        /\ \E i \in DOMAIN wire : wire' = Without(wire, i)
    BY <1>12 DEF Answer, Lose
  <2>2. wire # <<>>
    BY <2>1, EmptySeq, LenProperties DEF TypeOK
  <2>3. BusOf = cur.from
    BY <2>2, <1>b DEF WorksForCur
  <2>4. BusOf' \in {BusOf, Nobody}
    BY <2>1, <2>3, <1>b DEF WorksForCur
  <2> QED
    BY <2>1, <2>4, FreesBus
<1>13. CASE HangUp
  BY <1>5, <1>13 DEF HangUp
<1> QED
  BY <1>1, <1>2, <1>3, <1>6, <1>7, <1>8, <1>9, <1>10, <1>11, <1>12, <1>13
     DEF Next, Client, Bridge, Serve, Bus

LEMMA ServiceInit == Init => Service!Init
  BY DEF Init, Service!Init, StateOf, BusOf

\* As long as no client is late, the bus does nothing that the service does not
\* allow: it serves one request at a time and hands a reply to the one that asked.
THEOREM BusIsTheService == Spec => ServiceSteps
<1>1. IInv /\ IInv' /\ [Next]_vars => (late' = 0 => [Service!Next]_(Service!vars))
  BY ServiceStep, LateGrows DEF IInv, TypeOK
<1> QED
  BY <1>1, ServiceInit, SpecIInv, PTL DEF Spec, ServiceSteps

LEMMA NobodyLate ==
  ASSUME MaxLate = 0
  PROVE  Spec => [](late = 0)
<1>1. Init => late = 0
  BY DEF Init
<1>2. TypeOK /\ late = 0 /\ [Next]_vars => (late = 0)'
  BY DEF TypeOK, Next, Client, Bridge, Serve, Bus, vars, Send, Refused, Finish,
         GiveUp, Abort, CountLate, Accept, ServeRequest, ServeReply, ServeClosed,
         ServeHungUp, Quit, Crash, Restart, Answer, Lose, HangUp
<1> QED
  BY <1>1, <1>2, TypeCorrect, PTL DEF Spec

\* Where no client leaves early, the bus implements the service: every step is
\* one of the service or none, so that of Implements only the fairness of the
\* service is left, that clients take their answers, which TLC checks.
THEOREM BusImplementsService ==
  ASSUME MaxLate = 0
  PROVE  Spec => Service!Safety /\ (Service!Fairness => Implements)
<1>1. IInv /\ IInv' /\ late = 0 /\ (late = 0)' /\ [Next]_vars
         => [Service!Next]_(Service!vars)
  BY ServiceStep DEF IInv
<1>2. Spec => Service!Safety
  BY <1>1, ServiceInit, SpecIInv, NobodyLate, PTL DEF Spec, Service!Safety
<1> QED
  BY <1>2 DEF Implements, Service!Spec

-----------------------------------------------------------------------------
(* How far out of step the bus can get: one token for each cell that a     *)
(* owner has on its way.                                                   *)

\* A set every element of which comes from one of a finite set is no larger.
LEMMA ImageBound ==
  ASSUME NEW S, IsFiniteSet(S), NEW T, NEW f, \A t \in T : \E s \in S : f[s] = t
  PROVE  IsFiniteSet(T) /\ Cardinality(T) <= Cardinality(S)
<1> DEFINE U == {s \in S : f[s] \in T}
           g == [s \in U |-> f[s]]
<1>1. IsFiniteSet(U) /\ Cardinality(U) <= Cardinality(S)
  BY FS_Subset
<1>2. g \in Surjection(U, T)
  BY DEF Surjection
<1>3. IsFiniteSet(T) /\ Cardinality(T) <= Cardinality(U)
  BY <1>1, <1>2, FS_Surjection
<1>4. Cardinality(T) \in Nat /\ Cardinality(U) \in Nat /\ Cardinality(S) \in Nat
  BY <1>1, <1>3, FS_CardinalityType
<1> QED
  BY <1>1, <1>3, <1>4

LEMMA SizeType == \A r \in Kinds \union {NoReq} : Size(r) \in Nat
  BY BusAssumption DEF BusAssumption, Size

\* What is due to o, place by place, before and after a step.
LEMMA DueIs ==
  ASSUME NEW o, NEW t
  PROVE  /\ t \in Due(o) <=>
            \/ \E i \in IndicesOf(backlog, o) : \E p \in 1..Size(backlog[i].req) :
                  t = <<"backlog", i, p>>
            \/ cur.from = o /\ \E p \in 1..Size(cur.req) : t = <<"served", p>>
            \/ \E i \in IndicesOf(wire, o) : \E p \in 1..Size(wire[i].kind) :
                  t = <<"wire", i, p>>
            \/ \E i \in IndicesOf(rx, o) : t = <<"rx", i>>
            \/ \E c \in Clients : \E i \in IndicesOf(inbox[c], o) : t = <<"inbox", c, i>>
         /\ t \in Due(o)' <=>
            \/ \E i \in IndicesOf(backlog', o) : \E p \in 1..Size(backlog'[i].req) :
                  t = <<"backlog", i, p>>
            \/ cur'.from = o /\ \E p \in 1..Size(cur'.req) : t = <<"served", p>>
            \/ \E i \in IndicesOf(wire', o) : \E p \in 1..Size(wire'[i].kind) :
                  t = <<"wire", i, p>>
            \/ \E i \in IndicesOf(rx', o) : t = <<"rx", i>>
            \/ \E c \in Clients : \E i \in IndicesOf(inbox'[c], o) : t = <<"inbox", c, i>>
<1>10. Due(o) = (UNION {{<<"backlog", i, p>> : p \in 1..Size(backlog[i].req)} : i \in IndicesOf(backlog, o)})
    \union {<<"served", p>> : p \in IF cur.from = o THEN 1..Size(cur.req) ELSE {}}
    \union (UNION {{<<"wire", i, p>> : p \in 1..Size(wire[i].kind)} : i \in IndicesOf(wire, o)})
    \union {<<"rx", i>> : i \in IndicesOf(rx, o)}
    \union (UNION {{<<"inbox", c, i>> : i \in IndicesOf(inbox[c], o)} : c \in Clients})
  BY DEF Due, IndicesOf, Size
<1>11. t \in UNION {{<<"backlog", i, p>> : p \in 1..Size(backlog[i].req)} : i \in IndicesOf(backlog, o)}
      <=> \E i \in IndicesOf(backlog, o) : \E p \in 1..Size(backlog[i].req) :
             t = <<"backlog", i, p>>
  OBVIOUS
<1>12. t \in {<<"served", p>> : p \in IF cur.from = o THEN 1..Size(cur.req) ELSE {}}
      <=> cur.from = o /\ \E p \in 1..Size(cur.req) : t = <<"served", p>>
  OBVIOUS
<1>13. t \in UNION {{<<"wire", i, p>> : p \in 1..Size(wire[i].kind)} : i \in IndicesOf(wire, o)}
      <=> \E i \in IndicesOf(wire, o) : \E p \in 1..Size(wire[i].kind) :
             t = <<"wire", i, p>>
  OBVIOUS
<1>14. t \in {<<"rx", i>> : i \in IndicesOf(rx, o)}
      <=> \E i \in IndicesOf(rx, o) : t = <<"rx", i>>
  OBVIOUS
<1>15. t \in UNION {{<<"inbox", c, i>> : i \in IndicesOf(inbox[c], o)} : c \in Clients}
      <=> \E c \in Clients : \E i \in IndicesOf(inbox[c], o) : t = <<"inbox", c, i>>
  OBVIOUS
<1>20. Due(o)' = (UNION {{<<"backlog", i, p>> : p \in 1..Size(backlog'[i].req)} : i \in IndicesOf(backlog', o)})
    \union {<<"served", p>> : p \in IF cur'.from = o THEN 1..Size(cur'.req) ELSE {}}
    \union (UNION {{<<"wire", i, p>> : p \in 1..Size(wire'[i].kind)} : i \in IndicesOf(wire', o)})
    \union {<<"rx", i>> : i \in IndicesOf(rx', o)}
    \union (UNION {{<<"inbox", c, i>> : i \in IndicesOf(inbox'[c], o)} : c \in Clients})
  BY DEF Due, IndicesOf, Size
<1>21. t \in UNION {{<<"backlog", i, p>> : p \in 1..Size(backlog'[i].req)} : i \in IndicesOf(backlog', o)}
      <=> \E i \in IndicesOf(backlog', o) : \E p \in 1..Size(backlog'[i].req) :
             t = <<"backlog", i, p>>
  OBVIOUS
<1>22. t \in {<<"served", p>> : p \in IF cur'.from = o THEN 1..Size(cur'.req) ELSE {}}
      <=> cur'.from = o /\ \E p \in 1..Size(cur'.req) : t = <<"served", p>>
  OBVIOUS
<1>23. t \in UNION {{<<"wire", i, p>> : p \in 1..Size(wire'[i].kind)} : i \in IndicesOf(wire', o)}
      <=> \E i \in IndicesOf(wire', o) : \E p \in 1..Size(wire'[i].kind) :
             t = <<"wire", i, p>>
  OBVIOUS
<1>24. t \in {<<"rx", i>> : i \in IndicesOf(rx', o)}
      <=> \E i \in IndicesOf(rx', o) : t = <<"rx", i>>
  OBVIOUS
<1>25. t \in UNION {{<<"inbox", c, i>> : i \in IndicesOf(inbox'[c], o)} : c \in Clients}
      <=> \E c \in Clients : \E i \in IndicesOf(inbox'[c], o) : t = <<"inbox", c, i>>
  OBVIOUS
<1> QED
  BY <1>10, <1>11, <1>12, <1>13, <1>14, <1>15,
     <1>20, <1>21, <1>22, <1>23, <1>24, <1>25, Zenon

NoMore(o) == IsFiniteSet(Due(o)') /\ Cardinality(Due(o)') <= Cardinality(Due(o))

\* A step after which every token comes from a token before it.
LEMMA Moves ==
  ASSUME NEW o, NEW f, IsFiniteSet(Due(o)),
         \A i \in IndicesOf(backlog', o) : \A p \in 1..Size(backlog'[i].req) :
            \E s \in Due(o) : f[s] = <<"backlog", i, p>>,
         cur'.from = o => \A p \in 1..Size(cur'.req) : \E s \in Due(o) : f[s] = <<"served", p>>,
         \A i \in IndicesOf(wire', o) : \A p \in 1..Size(wire'[i].kind) :
            \E s \in Due(o) : f[s] = <<"wire", i, p>>,
         \A i \in IndicesOf(rx', o) : \E s \in Due(o) : f[s] = <<"rx", i>>,
         \A c \in Clients : \A i \in IndicesOf(inbox'[c], o) :
            \E s \in Due(o) : f[s] = <<"inbox", c, i>>
  PROVE  NoMore(o)
<1>1. \A t \in Due(o)' : \E s \in Due(o) : f[s] = t
  <2> SUFFICES ASSUME NEW t \in Due(o)' PROVE \E s \in Due(o) : f[s] = t
    OBVIOUS
  <2>0. \/ \E i \in IndicesOf(backlog', o) : \E p \in 1..Size(backlog'[i].req) :
              t = <<"backlog", i, p>>
        \/ cur'.from = o /\ \E p \in 1..Size(cur'.req) : t = <<"served", p>>
        \/ \E i \in IndicesOf(wire', o) : \E p \in 1..Size(wire'[i].kind) :
              t = <<"wire", i, p>>
        \/ \E i \in IndicesOf(rx', o) : t = <<"rx", i>>
        \/ \E c \in Clients : \E i \in IndicesOf(inbox'[c], o) : t = <<"inbox", c, i>>
    BY DueIs
  <2>1. CASE \E i \in IndicesOf(backlog', o) : \E p \in 1..Size(backlog'[i].req) :
                  t = <<"backlog", i, p>>
    BY <2>1, Zenon
  <2>2. CASE cur'.from = o /\ \E p \in 1..Size(cur'.req) : t = <<"served", p>>
    BY <2>2, Zenon
  <2>3. CASE \E i \in IndicesOf(wire', o) : \E p \in 1..Size(wire'[i].kind) :
                  t = <<"wire", i, p>>
    BY <2>3, Zenon
  <2>4. CASE \E i \in IndicesOf(rx', o) : t = <<"rx", i>>
    BY <2>4, Zenon
  <2>5. CASE \E c \in Clients : \E i \in IndicesOf(inbox'[c], o) : t = <<"inbox", c, i>>
    BY <2>5, Zenon
  <2> QED
    BY <2>0, <2>1, <2>2, <2>3, <2>4, <2>5, Zenon
<1> QED
  BY <1>1, ImageBound DEF NoMore

LEMMA MovesAccept ==
  ASSUME TypeOK, NEW o, IsFiniteSet(Due(o)), Accept
  PROVE  NoMore(o)
<1> DEFINE f == [t \in Due(o) |->
               IF t[1] = "backlog"
               THEN IF t[2] = 1 THEN <<"served", t[3]>> ELSE <<"backlog", t[2] - 1, t[3]>>
               ELSE t]
<1>1. /\ Len(backlog) \in Nat \ {0} /\ cur' = backlog[1] /\ Len(backlog') = Len(backlog) - 1
      /\ \A i \in 1..Len(backlog') : backlog'[i] = backlog[i + 1]
      /\ UNCHANGED <<want, inbox, line, wire, rx, late>>
  BY HeadTailProperties, LenProperties, EmptySeq DEF Accept, TypeOK
<1>2. ASSUME NEW i \in IndicesOf(backlog', o), NEW p \in 1..Size(backlog'[i].req)
      PROVE  \E s \in Due(o) : f[s] = <<"backlog", i, p>>
  <2>1. i + 1 \in IndicesOf(backlog, o) /\ p \in 1..Size(backlog[i + 1].req) /\ i \in Nat \ {0}
    BY <1>1 DEF IndicesOf
  <2>2. <<"backlog", i + 1, p>> \in Due(o)
    BY <2>1, DueIs
  <2>3. i + 1 # 1 /\ (i + 1) - 1 = i
    BY <2>1
  <2>4. f[<<"backlog", i + 1, p>>] = <<"backlog", (i + 1) - 1, p>>
    BY <2>2, <2>3
  <2> QED
    BY <2>2, <2>3, <2>4
<1>3. ASSUME cur'.from = o, NEW p \in 1..Size(cur'.req)
      PROVE  \E s \in Due(o) : f[s] = <<"served", p>>
  <2>1. 1 \in IndicesOf(backlog, o) /\ p \in 1..Size(backlog[1].req)
    BY <1>1, <1>3 DEF IndicesOf
  <2>2. <<"backlog", 1, p>> \in Due(o)
    BY <2>1, DueIs
  <2> QED
    BY <2>2
<1>4. ASSUME NEW i \in IndicesOf(wire', o), NEW p \in 1..Size(wire'[i].kind)
      PROVE  \E s \in Due(o) : f[s] = <<"wire", i, p>>
  <2>1. <<"wire", i, p>> \in Due(o)
    BY <1>1, DueIs
  <2> QED
    BY <2>1
<1>5. ASSUME NEW i \in IndicesOf(rx', o)
      PROVE  \E s \in Due(o) : f[s] = <<"rx", i>>
  <2>1. <<"rx", i>> \in Due(o)
    BY <1>1, DueIs
  <2> QED
    BY <2>1
<1>6. ASSUME NEW c \in Clients, NEW i \in IndicesOf(inbox'[c], o)
      PROVE  \E s \in Due(o) : f[s] = <<"inbox", c, i>>
  <2>1. <<"inbox", c, i>> \in Due(o)
    BY <1>1, DueIs
  <2> QED
    BY <2>1
<1> HIDE DEF f
<1> QED
  BY <1>2, <1>3, <1>4, <1>5, <1>6, Moves

LEMMA MovesServeRequest ==
  ASSUME TypeOK, NEW o, IsFiniteSet(Due(o)), ServeRequest
  PROVE  NoMore(o)
<1> DEFINE f == [t \in Due(o) |->
               IF t[1] = "served" THEN <<"wire", Len(wire) + 1, t[2]>> ELSE t]
           g == [from |-> cur.from, kind |-> cur.req]
<1>1. /\ Len(wire) \in Nat /\ Len(wire') = Len(wire) + 1
      /\ \A i \in 1..Len(wire) : wire'[i] = wire[i]
      /\ wire'[Len(wire) + 1] = g
      /\ cur'.req = NoReq /\ cur'.from = cur.from
      /\ UNCHANGED <<want, inbox, backlog, line, rx, late>>
  <2>1. g \in Frame /\ wire \in Seq(Frame) /\ cur.req # NoReq
    BY DEF ServeRequest, TypeOK, Conn, Frame
  <2>2. wire' = Append(wire, g) /\ cur' = [cur EXCEPT !.req = NoReq]
    BY DEF ServeRequest
  <2>3. cur'.req = NoReq /\ cur'.from = cur.from
    BY <2>2 DEF TypeOK, Conn
  <2> HIDE DEF g
  <2> QED
    BY <2>1, <2>2, <2>3, AppendProperties, LenProperties DEF ServeRequest
<1>2. ASSUME NEW i \in IndicesOf(backlog', o), NEW p \in 1..Size(backlog'[i].req)
      PROVE  \E s \in Due(o) : f[s] = <<"backlog", i, p>>
  <2>1. <<"backlog", i, p>> \in Due(o)
    BY <1>1, DueIs
  <2> QED
    BY <2>1
<1>3. ASSUME cur'.from = o, NEW p \in 1..Size(cur'.req)
      PROVE  \E s \in Due(o) : f[s] = <<"served", p>>
  BY <1>1, <1>3 DEF Size
<1>4. ASSUME NEW i \in IndicesOf(wire', o), NEW p \in 1..Size(wire'[i].kind)
      PROVE  \E s \in Due(o) : f[s] = <<"wire", i, p>>
  <2>1. CASE i = Len(wire) + 1
    <3>1. cur.from = o /\ p \in 1..Size(cur.req)
      BY <1>1, <2>1 DEF IndicesOf
    <3>2. <<"served", p>> \in Due(o)
      BY <3>1, DueIs
    <3> QED
      BY <2>1, <3>2
  <2>2. CASE i # Len(wire) + 1
    <3>1. i \in IndicesOf(wire, o) /\ p \in 1..Size(wire[i].kind)
      BY <1>1, <2>2 DEF IndicesOf
    <3>2. <<"wire", i, p>> \in Due(o)
      BY <3>1, DueIs
    <3> QED
      BY <3>2
  <2> QED
    BY <2>1, <2>2
<1>5. ASSUME NEW i \in IndicesOf(rx', o)
      PROVE  \E s \in Due(o) : f[s] = <<"rx", i>>
  <2>1. <<"rx", i>> \in Due(o)
    BY <1>1, DueIs
  <2> QED
    BY <2>1
<1>6. ASSUME NEW c \in Clients, NEW i \in IndicesOf(inbox'[c], o)
      PROVE  \E s \in Due(o) : f[s] = <<"inbox", c, i>>
  <2>1. <<"inbox", c, i>> \in Due(o)
    BY <1>1, DueIs
  <2> QED
    BY <2>1
<1> HIDE DEF f
<1> QED
  BY <1>2, <1>3, <1>4, <1>5, <1>6, Moves

LEMMA MovesServeReply ==
  ASSUME TypeOK, NEW o, IsFiniteSet(Due(o)), ServeReply
  PROVE  NoMore(o)
<1> DEFINE d == cur.from
<1>0. PICK n \in 1..Len(rx) :
        /\ rx' = SubSeq(rx, n + 1, Len(rx))
        /\ inbox' = IF d \in Clients
                    THEN [inbox EXCEPT ![d] = @ \o SubSeq(rx, 1, n)]
                    ELSE inbox
  BY DEF ServeReply
<1> DEFINE f == [t \in Due(o) |->
               IF t[1] = "rx"
               THEN IF t[2] <= n THEN <<"inbox", d, Len(inbox[d]) + t[2]>> ELSE <<"rx", t[2] - n>>
               ELSE t]
<1>1. /\ Len(rx) \in Nat /\ n \in Nat /\ n <= Len(rx) /\ Len(rx') = Len(rx) - n
      /\ \A i \in 1..(Len(rx) - n) : rx'[i] = rx[n + i]
      /\ UNCHANGED <<want, backlog, cur, line, wire, late>>
  <2>1. rx \in Seq(Cell) /\ Len(rx) \in Nat /\ n \in Nat /\ n <= Len(rx)
    BY LenProperties DEF TypeOK
  <2>2. /\ Len(SubSeq(rx, n + 1, Len(rx))) = Len(rx) - n
        /\ \A i \in 1..(Len(rx) - n) : SubSeq(rx, n + 1, Len(rx))[i] = rx[n + i]
    BY <2>1, CutSeq, Zenon
  <2>3. UNCHANGED <<want, backlog, cur, line, wire, late>>
    BY DEF ServeReply
  <2> QED
    BY <1>0, <2>1, <2>2, <2>3, Zenon
<1>2. ASSUME NEW i \in IndicesOf(backlog', o), NEW p \in 1..Size(backlog'[i].req)
      PROVE  \E s \in Due(o) : f[s] = <<"backlog", i, p>>
  <2>1. <<"backlog", i, p>> \in Due(o)
    BY <1>1, DueIs
  <2> QED
    BY <2>1
<1>3. ASSUME cur'.from = o, NEW p \in 1..Size(cur'.req)
      PROVE  \E s \in Due(o) : f[s] = <<"served", p>>
  <2>1. <<"served", p>> \in Due(o)
    BY <1>1, <1>3, DueIs
  <2> QED
    BY <2>1
<1>4. ASSUME NEW i \in IndicesOf(wire', o), NEW p \in 1..Size(wire'[i].kind)
      PROVE  \E s \in Due(o) : f[s] = <<"wire", i, p>>
  <2>1. <<"wire", i, p>> \in Due(o)
    BY <1>1, DueIs
  <2> QED
    BY <2>1
<1>5. ASSUME NEW i \in IndicesOf(rx', o)
      PROVE  \E s \in Due(o) : f[s] = <<"rx", i>>
  <2>1. n + i \in IndicesOf(rx, o) /\ ~(n + i <= n) /\ (n + i) - n = i
    BY <1>1 DEF IndicesOf
  <2>2. <<"rx", n + i>> \in Due(o)
    BY <2>1, DueIs
  <2>3. f[<<"rx", n + i>>] = <<"rx", (n + i) - n>>
    BY <2>1, <2>2
  <2> QED
    BY <2>1, <2>2, <2>3
<1>6. ASSUME NEW c \in Clients, NEW i \in IndicesOf(inbox'[c], o)
      PROVE  \E s \in Due(o) : f[s] = <<"inbox", c, i>>
  <2>1. CASE i \in IndicesOf(inbox[c], o)
    <3>1. <<"inbox", c, i>> \in Due(o)
      BY <2>1, DueIs
    <3> QED
      BY <3>1
  <2>2. CASE i \notin IndicesOf(inbox[c], o)
    <3>1. c = d /\ inbox'[c] = inbox[c] \o SubSeq(rx, 1, n)
      BY <1>0, <2>2 DEF TypeOK
    <3>2. /\ SubSeq(rx, 1, n) \in Seq(Cell) /\ Len(SubSeq(rx, 1, n)) = n
          /\ \A j \in 1..n : SubSeq(rx, 1, n)[j] = rx[j]
      BY <1>0, CutSeq DEF TypeOK
    <3>3. inbox[c] \in Seq(Cell) /\ Len(inbox[c]) \in Nat
      BY LenProperties DEF TypeOK
    <3> DEFINE m == Len(inbox[c])
               q == SubSeq(rx, 1, n)
    <3>4. /\ Len(inbox[c] \o q) = m + n
          /\ \A j \in 1..(m + n) : (inbox[c] \o q)[j] = IF j <= m THEN inbox[c][j] ELSE q[j - m]
      BY <3>2, <3>3, ConcatProperties
    <3>5. i \in 1..(m + n) /\ (inbox[c] \o q)[i].from = o
      BY <3>1, <3>4 DEF IndicesOf
    <3> HIDE DEF q
    <3>6. ~(i <= m)
      BY <2>2, <3>3, <3>4, <3>5 DEF IndicesOf
    <3> HIDE DEF m
    <3>7. i - m \in 1..n /\ m + (i - m) = i
      BY <3>3, <3>5, <3>6, <1>1 DEF m
    <3>8. rx[i - m].from = o
      BY <3>2, <3>4, <3>5, <3>6, <3>7 DEF q
    <3>9. i - m \in IndicesOf(rx, o)
      BY <1>1, <3>7, <3>8 DEF IndicesOf
    <3>10. <<"rx", i - m>> \in Due(o)
      BY <3>9, DueIs
    <3>11. f[<<"rx", i - m>>] = <<"inbox", d, m + (i - m)>>
      BY <3>1, <3>7, <3>10 DEF m
    <3> QED
      BY <3>1, <3>7, <3>10, <3>11
  <2> QED
    BY <2>1, <2>2
<1> HIDE DEF f
<1> QED
  BY ZenonT(60), <1>2, <1>3, <1>4, <1>5, <1>6, Moves

\* The elements of a sequence without its i-th are those of the sequence.
LEMMA WithoutAt ==
  ASSUME NEW S, NEW seq \in Seq(S), NEW i \in DOMAIN seq
  PROVE  /\ i \in Nat \ {0} /\ i <= Len(seq) /\ Len(seq) \in Nat
         /\ Without(seq, i) \in Seq(S)
         /\ Len(Without(seq, i)) = Len(seq) - 1
         /\ \A j \in 1..(Len(seq) - 1) :
               Without(seq, i)[j] = IF j < i THEN seq[j] ELSE seq[j + 1]
<1>1. DOMAIN seq = 1..Len(seq) /\ Len(seq) \in Nat
  BY LenProperties
<1>2. \A j \in 1..Len(seq) : seq[j] \in S
  BY ElementOfSeq
<1> DEFINE s1 == SubSeq(seq, 1, i - 1)
           s2 == SubSeq(seq, i + 1, Len(seq))
<1>3. /\ s1 \in Seq(S) /\ Len(s1) = i - 1
      /\ \A j \in 1..(i - 1) : s1[j] = seq[1 + j - 1]
  BY <1>1, <1>2, SubSeqProperties
<1>4. /\ s2 \in Seq(S) /\ Len(s2) = Len(seq) - i
      /\ \A j \in 1..(Len(seq) - i) : s2[j] = seq[i + 1 + j - 1]
  <2> DEFINE m == i + 1
  <2>1. m \in Int /\ Len(seq) \in Int /\ \A j \in m..Len(seq) : seq[j] \in S
    BY <1>1, <1>2
  <2> HIDE DEF m
  <2>2. /\ SubSeq(seq, m, Len(seq)) \in Seq(S)
        /\ Len(SubSeq(seq, m, Len(seq))) = IF m <= Len(seq) THEN Len(seq) - m + 1 ELSE 0
        /\ \A j \in 1..(Len(seq) - m + 1) : SubSeq(seq, m, Len(seq))[j] = seq[m + j - 1]
    BY <2>1, SubSeqProperties
  <2>3. Len(seq) - m + 1 = Len(seq) - i
    BY <1>1 DEF m
  <2> QED
    BY <1>1, <2>2, <2>3 DEF m
<1>5. /\ s1 \o s2 \in Seq(S) /\ Len(s1 \o s2) = Len(s1) + Len(s2)
      /\ \A j \in 1..(Len(s1) + Len(s2)) :
            (s1 \o s2)[j] = IF j <= Len(s1) THEN s1[j] ELSE s2[j - Len(s1)]
  BY <1>3, <1>4, ConcatProperties
<1> HIDE DEF s1, s2
<1>6. ASSUME NEW j \in 1..(Len(seq) - 1)
      PROVE  (s1 \o s2)[j] = IF j < i THEN seq[j] ELSE seq[j + 1]
  <2>1. CASE j < i
    <3>1. j \in 1..(i - 1) /\ 1 + j - 1 = j /\ j <= Len(s1) /\ j \in 1..(Len(s1) + Len(s2))
      BY <1>1, <1>3, <1>4, <2>1
    <3> QED
      BY <1>3, <1>5, <2>1, <3>1
  <2>2. CASE ~(j < i)
    <3> DEFINE L == Len(seq)
    <3>4. L \in Nat /\ i \in 1..L /\ j \in 1..(L - 1) /\ Len(s1) = i - 1 /\ Len(s2) = L - i
      BY <1>1, <1>3, <1>4
    <3> HIDE DEF L
    <3>5. /\ j - (i - 1) \in 1..(L - i) /\ i + 1 + (j - (i - 1)) - 1 = j + 1
          /\ ~(j <= i - 1) /\ j \in 1..((i - 1) + (L - i))
      <4>1. L \in Int /\ i \in Int /\ j \in Int /\ j >= i /\ j <= L - 1 /\ i >= 1
        BY <2>2, <3>4
      <4>2. j - (i - 1) >= 1 /\ j - (i - 1) <= L - i /\ j - (i - 1) \in Int /\ L - i \in Int
        BY <4>1
      <4>3. i + 1 + (j - (i - 1)) - 1 = j + 1 /\ ~(j <= i - 1)
        BY <4>1
      <4>4. j >= 1 /\ j <= (i - 1) + (L - i)
        BY <4>1
      <4> QED
        BY <4>1, <4>2, <4>3, <4>4
    <3>1. /\ j - (i - 1) \in 1..(Len(seq) - i) /\ i + 1 + (j - (i - 1)) - 1 = j + 1
          /\ ~(j <= Len(s1)) /\ j \in 1..(Len(s1) + Len(s2))
      BY <3>4, <3>5 DEF L
    <3>2. (s1 \o s2)[j] = s2[j - (i - 1)]
      BY <1>3, <1>5, <3>1
    <3>3. s2[j - (i - 1)] = seq[i + 1 + (j - (i - 1)) - 1]
      BY <1>4, <3>1
    <3> QED
      BY <2>2, <3>1, <3>2, <3>3
  <2> QED
    BY <2>1, <2>2
<1>7. Len(s1 \o s2) = Len(seq) - 1
  BY <1>1, <1>3, <1>4, <1>5
<1>8. Without(seq, i) = s1 \o s2
  BY DEF Without, s1, s2
<1>9. i \in Nat \ {0} /\ i <= Len(seq)
  BY <1>1
<1> QED
  BY <1>1, <1>5, <1>6, <1>7, <1>8, <1>9, Zenon

\* A request leaves the wire; its reply, if there is one, is not longer than
\* what the request stands for.
LEMMA MovesWire ==
  ASSUME TypeOK, NEW o, IsFiniteSet(Due(o)), NEW i \in DOMAIN wire, NEW exc \in BOOLEAN,
         wire' = Without(wire, i),
         rx' = rx \o Reply(wire[i], exc) \/ rx' = rx,
         UNCHANGED <<inbox, backlog, cur>>
  PROVE  NoMore(o)
<1> DEFINE f == [t \in Due(o) |->
               IF t[1] = "wire"
               THEN IF t[2] = i THEN <<"rx", Len(rx) + t[3]>>
                    ELSE IF t[2] < i THEN t ELSE <<"wire", t[2] - 1, t[3]>>
               ELSE t]
           w == wire[i]
           reply == Reply(w, exc)
<1>1. /\ i \in Nat \ {0} /\ i <= Len(wire) /\ Len(wire) \in Nat
      /\ Len(wire') = Len(wire) - 1
      /\ \A j \in 1..(Len(wire) - 1) : wire'[j] = IF j < i THEN wire[j] ELSE wire[j + 1]
  BY WithoutAt DEF TypeOK
<1>2. ASSUME NEW j \in IndicesOf(backlog', o), NEW p \in 1..Size(backlog'[j].req)
      PROVE  \E s \in Due(o) : f[s] = <<"backlog", j, p>>
  <2>1. <<"backlog", j, p>> \in Due(o)
    BY DueIs
  <2> QED
    BY <2>1
<1>3. ASSUME cur'.from = o, NEW p \in 1..Size(cur'.req)
      PROVE  \E s \in Due(o) : f[s] = <<"served", p>>
  <2>1. <<"served", p>> \in Due(o)
    BY <1>3, DueIs
  <2> QED
    BY <2>1
<1>4. ASSUME NEW j \in IndicesOf(wire', o), NEW p \in 1..Size(wire'[j].kind)
      PROVE  \E s \in Due(o) : f[s] = <<"wire", j, p>>
  <2>0. j \in 1..(Len(wire) - 1) /\ wire'[j].from = o
    BY <1>1 DEF IndicesOf
  <2>1. CASE j < i
    <3>1. j \in IndicesOf(wire, o) /\ p \in 1..Size(wire[j].kind) /\ j # i
      BY <1>1, <2>0, <2>1 DEF IndicesOf
    <3>2. <<"wire", j, p>> \in Due(o)
      BY <3>1, DueIs
    <3> QED
      BY <2>1, <3>1, <3>2
  <2>2. CASE ~(j < i)
    <3>1. /\ j + 1 \in IndicesOf(wire, o) /\ p \in 1..Size(wire[j + 1].kind)
          /\ j + 1 # i /\ ~(j + 1 < i) /\ (j + 1) - 1 = j
      BY <1>1, <2>0, <2>2 DEF IndicesOf
    <3>2. <<"wire", j + 1, p>> \in Due(o)
      BY <3>1, DueIs
    <3>3. f[<<"wire", j + 1, p>>] = <<"wire", (j + 1) - 1, p>>
      BY <3>1, <3>2
    <3> QED
      BY <3>1, <3>2, <3>3
  <2> QED
    BY <2>1, <2>2
<1>5. ASSUME NEW j \in IndicesOf(rx', o)
      PROVE  \E s \in Due(o) : f[s] = <<"rx", j>>
  <2>1. CASE j \in IndicesOf(rx, o)
    <3>1. <<"rx", j>> \in Due(o)
      BY <2>1, DueIs
    <3> QED
      BY <3>1
  <2>2. CASE j \notin IndicesOf(rx, o)
    <3>1. rx' = rx \o reply
      BY <2>2
    <3>2. w \in Frame
      BY ElementOfSeq, LenProperties DEF TypeOK
    <3>3. /\ reply \in Seq(Cell)
          /\ Len(reply) = IF exc THEN ExcLen ELSE Want[w.kind]
          /\ \A p \in 1..Len(reply) : reply[p].from = w.from
      BY <3>2, ReplyType
    <3>4. /\ w.kind \in Kinds /\ Size(w.kind) = Want[w.kind] /\ Want[w.kind] \in Nat
          /\ ExcLen \in Nat /\ ExcLen <= Want[w.kind]
      BY <3>2, BusAssumption DEF BusAssumption, Frame, Size
    <3>5. rx \in Seq(Cell) /\ Len(rx) \in Nat /\ Len(reply) \in Nat
      BY <3>3, LenProperties DEF TypeOK
    <3> DEFINE m == Len(rx)
               n == Len(reply)
    <3> HIDE DEF reply
    <3>6. /\ Len(rx \o reply) = m + n
          /\ \A k \in 1..(m + n) : (rx \o reply)[k] = IF k <= m THEN rx[k] ELSE reply[k - m]
      BY <3>3, <3>5, ConcatProperties
    <3>7. j \in 1..(m + n) /\ (rx \o reply)[j].from = o
      BY <3>1, <3>6 DEF IndicesOf
    <3>8. ~(j <= m)
      BY <2>2, <3>5, <3>6, <3>7 DEF IndicesOf
    <3>9. n <= Want[w.kind]
      BY <3>3, <3>4
    <3> HIDE DEF m, n, w
    <3>10. m \in Nat /\ n \in Nat
      BY <3>5 DEF m, n
    <3>11. j - m \in 1..n /\ j - m \in 1..Want[w.kind] /\ m + (j - m) = j
      BY <3>4, <3>7, <3>8, <3>9, <3>10
    <3>12. reply[j - m].from = o
      BY <3>6, <3>7, <3>8
    <3>13. w.from = o
      BY <3>3, <3>11, <3>12 DEF n
    <3>14. i \in IndicesOf(wire, o) /\ j - m \in 1..Size(wire[i].kind)
      BY <1>1, <3>4, <3>11, <3>13 DEF IndicesOf, w
    <3>15. <<"wire", i, j - m>> \in Due(o)
      BY <3>14, DueIs
    <3>16. f[<<"wire", i, j - m>>] = <<"rx", m + (j - m)>>
      BY <3>15 DEF m
    <3> QED
      BY <3>11, <3>15, <3>16
  <2> QED
    BY <2>1, <2>2
<1>6. ASSUME NEW c \in Clients, NEW j \in IndicesOf(inbox'[c], o)
      PROVE  \E s \in Due(o) : f[s] = <<"inbox", c, j>>
  <2>1. <<"inbox", c, j>> \in Due(o)
    BY DueIs
  <2> QED
    BY <2>1
<1> HIDE DEF f, w, reply
<1> QED
  BY ONLY IsFiniteSet(Due(o)), <1>2, <1>3, <1>4, <1>5, <1>6, Moves

LEMMA SubsetNoMore ==
  ASSUME NEW o, IsFiniteSet(Due(o)), Due(o)' \subseteq Due(o)
  PROVE  NoMore(o)
  BY FS_Subset DEF NoMore

\* A step that empties some of the places and leaves the others as they were.
LEMMA Empties ==
  ASSUME NEW o, IsFiniteSet(Due(o)), backlog' \in {backlog, <<>>},
         cur' \in {cur, NoConn}, wire' \in {wire, <<>>}, rx' \in {rx, <<>>},
         UNCHANGED inbox
  PROVE  NoMore(o)
<1>1. IndicesOf(<<>>, o) = {} /\ 1..Size(NoConn.req) = {}
  <2>1. Len(<<>>) = 0
    BY EmptySeq
  <2> QED
    BY <2>1 DEF IndicesOf, Size, NoConn
<1>0. (\A t \in Due(o)' : t \in Due(o)) => NoMore(o)
  BY SubsetNoMore
<1> SUFFICES ASSUME NEW t \in Due(o)' PROVE t \in Due(o)
  BY <1>0
<1>2. CASE \E i \in IndicesOf(backlog', o) : \E p \in 1..Size(backlog'[i].req) :
              t = <<"backlog", i, p>>
  BY <1>1, <1>2, DueIs
<1>3. CASE cur'.from = o /\ \E p \in 1..Size(cur'.req) : t = <<"served", p>>
  <2>1. cur' # NoConn
    BY <1>1, <1>3
  <2> QED
    BY <1>3, <2>1, DueIs
<1>4. CASE \E i \in IndicesOf(wire', o) : \E p \in 1..Size(wire'[i].kind) :
              t = <<"wire", i, p>>
  BY <1>1, <1>4, DueIs
<1>5. CASE \E i \in IndicesOf(rx', o) : t = <<"rx", i>>
  BY <1>1, <1>5, DueIs
<1>6. CASE \E c \in Clients : \E i \in IndicesOf(inbox'[c], o) : t = <<"inbox", c, i>>
  BY <1>6, DueIs
<1> QED
  <2>1. \/ \E i \in IndicesOf(backlog', o) : \E p \in 1..Size(backlog'[i].req) :
              t = <<"backlog", i, p>>
        \/ cur'.from = o /\ \E p \in 1..Size(cur'.req) : t = <<"served", p>>
        \/ \E i \in IndicesOf(wire', o) : \E p \in 1..Size(wire'[i].kind) :
              t = <<"wire", i, p>>
        \/ \E i \in IndicesOf(rx', o) : t = <<"rx", i>>
        \/ \E c \in Clients : \E i \in IndicesOf(inbox'[c], o) : t = <<"inbox", c, i>>
    BY DueIs
  <2> QED
    BY <1>2, <1>3, <1>4, <1>5, <1>6, <2>1, Zenon

-----------------------------------------------------------------------------
(* Where the cells of an owner can be. *)

From(seq, A) == \A i \in 1..Len(seq) : seq[i].from \in A

\* What is on the line belongs to the client the bridge serves or to nobody,
\* and so does what a client has received; an idle client has nothing anywhere.
Routed ==
    /\ From(wire, {cur.from, Nobody}) /\ From(rx, {cur.from, Nobody})
    /\ \A c \in Clients : From(inbox[c], {c, Nobody})
    /\ line = "hungup" => wire = <<>> /\ rx = <<>>
    /\ bridge # "serve" => cur = NoConn
    /\ \A c \in Clients : want[c] = NoReq =>
          inbox[c] = <<>> /\ cur.from # c /\ From(backlog, Owner \ {c})

LEMMA FromEmpty == \A A : From(<<>>, A)
  BY EmptySeq DEF From

LEMMA FromAppend ==
  ASSUME NEW S, NEW seq \in Seq(S), NEW r \in S, NEW A, From(seq, A), r.from \in A
  PROVE  From(Append(seq, r), A)
  BY AppendProperties, LenProperties DEF From

LEMMA FromConcat ==
  ASSUME NEW S, NEW s1 \in Seq(S), NEW s2 \in Seq(S), NEW A, From(s1, A), From(s2, A)
  PROVE  From(s1 \o s2, A)
<1>1. /\ Len(s1) \in Nat /\ Len(s2) \in Nat /\ Len(s1 \o s2) = Len(s1) + Len(s2)
      /\ \A i \in 1..(Len(s1) + Len(s2)) :
            (s1 \o s2)[i] = IF i <= Len(s1) THEN s1[i] ELSE s2[i - Len(s1)]
  BY ConcatProperties, LenProperties
<1>2. \A i \in 1..(Len(s1) + Len(s2)) : ~(i <= Len(s1)) => i - Len(s1) \in 1..Len(s2)
  BY <1>1
<1> QED
  BY <1>1, <1>2 DEF From

LEMMA FromDisown ==
  ASSUME NEW S, NEW seq \in Seq(S), NEW c, NEW A, From(seq, A),
         S \in {Conn, Frame, Cell}, c \in Clients
  PROVE  From(Disown(seq, c), (A \ {c}) \union {Nobody})
<1>1. \A r \in S : DisownOne(r, c) \in S
  BY RecordTypes
<1>2. /\ Len(Disown(seq, c)) = Len(seq)
      /\ \A i \in 1..Len(seq) : Disown(seq, c)[i] = DisownOne(seq[i], c) /\ seq[i] \in S
  BY <1>1, DisownType, ElementOfSeq
<1>3. ASSUME NEW r \in S, r.from \in A
      PROVE  DisownOne(r, c).from \in (A \ {c}) \union {Nobody}
  BY <1>3 DEF DisownOne, Conn, Frame, Cell
<1> QED
  BY <1>2, <1>3 DEF From

\* close() keeps what is on its way where it was.
LEMMA CloseRouted ==
  ASSUME TypeOK, Routed, NEW c \in Clients, Close(c), UNCHANGED <<bridge, line>>
  PROVE  Routed'
<1>n. Nobody \notin Clients /\ Owner = Clients \union {Nobody}
  BY BusAssumption DEF BusAssumption, Owner
<1>1. /\ From(wire', ({cur.from, Nobody} \ {c}) \union {Nobody})
      /\ From(rx', ({cur.from, Nobody} \ {c}) \union {Nobody})
      /\ \A A : From(backlog, A) => From(backlog', (A \ {c}) \union {Nobody})
  BY FromDisown DEF Close, Routed, TypeOK
<1>2. ({cur.from, Nobody} \ {c}) \union {Nobody} \subseteq {cur'.from, Nobody}
  BY DEF Close, DisownOne, TypeOK, Conn
<1>3. From(wire', {cur'.from, Nobody}) /\ From(rx', {cur'.from, Nobody})
  BY <1>1, <1>2 DEF From
<1>4. \A d \in Clients : inbox'[d] = IF d = c THEN <<>> ELSE inbox[d]
  BY DEF Close, TypeOK
<1>5. \A d \in Clients : From(inbox'[d], {d, Nobody})
  BY <1>4, FromEmpty DEF Routed
<1>6. line = "hungup" => wire' = <<>> /\ rx' = <<>>
  BY DisownNothing, EmptySeq DEF Routed, Close, Disown
<1>7. bridge # "serve" => cur' = NoConn
  BY <1>n DEF Routed, Close, DisownOne, NoConn
<1>8. \A d \in Clients : want'[d] = IF d = c THEN NoReq ELSE want[d]
  BY DEF Close, TypeOK
<1>9. ASSUME NEW d \in Clients, want'[d] = NoReq
      PROVE  inbox'[d] = <<>> /\ cur'.from # d /\ From(backlog', Owner \ {d})
  <2>1. CASE d = c
    <3>1. From(backlog, Owner)
      <4>1. \A i \in 1..Len(backlog) : backlog[i] \in Conn
        BY ElementOfSeq DEF TypeOK
      <4> QED
        BY <4>1 DEF From, Conn
    <3>2. (Owner \ {c}) \union {Nobody} = Owner \ {c}
      BY <1>n
    <3>3. cur'.from # c
      BY <1>n DEF Close, DisownOne, TypeOK, Conn
    <3>4. From(backlog', Owner \ {d})
      BY <1>1, <2>1, <3>1, <3>2
    <3> QED
      BY <1>4, <2>1, <3>3, <3>4
  <2>2. CASE d # c
    <3>1. want[d] = NoReq
      BY <1>8, <1>9, <2>2
    <3>2. inbox[d] = <<>> /\ cur.from # d /\ From(backlog, Owner \ {d})
      BY <3>1 DEF Routed
    <3>3. ((Owner \ {d}) \ {c}) \union {Nobody} \subseteq Owner \ {d}
      BY <1>n
    <3>4. From(backlog', Owner \ {d})
      BY <1>1, <3>2, <3>3 DEF From
    <3>5. cur'.from # d
      BY <1>n, <3>2 DEF Close, DisownOne, TypeOK, Conn
    <3> QED
      BY <1>4, <2>2, <3>2, <3>4, <3>5
  <2> QED
    BY <2>1, <2>2
<1> QED
  BY <1>3, <1>5, <1>6, <1>7, <1>9 DEF Routed

LEMMA RoutedInit == Init => Routed
<1> SUFFICES ASSUME Init PROVE Routed
  OBVIOUS
<1>1. /\ wire = <<>> /\ rx = <<>> /\ backlog = <<>> /\ cur = NoConn /\ NoConn.from = Nobody
      /\ \A c \in Clients : inbox[c] = <<>>
      /\ bridge = "accept" /\ line = "up"
  BY DEF Init, NoConn
<1>2. Nobody \notin Clients
  BY BusAssumption DEF BusAssumption
<1> QED
  BY <1>1, <1>2, FromEmpty DEF Routed

LEMMA RoutedStep == TypeOK /\ TypeOK' /\ Routed /\ [Next]_vars => Routed'
<1> SUFFICES ASSUME TypeOK, TypeOK', Routed, [Next]_vars PROVE Routed'
  OBVIOUS
<1>n. Nobody \notin Clients /\ Owner = Clients \union {Nobody}
  BY BusAssumption DEF BusAssumption, Owner
<1>i. \A c \in Clients : want[c] = NoReq =>
          inbox[c] = <<>> /\ cur.from # c /\ From(backlog, Owner \ {c})
  BY DEF Routed
<1>1. ASSUME NEW c \in Clients, Send(c) PROVE Routed'
  <2>1. PICK k \in Kinds : /\ want' = [want EXCEPT ![c] = k]
                           /\ backlog' = Append(backlog, [from |-> c, req |-> k])
    BY <1>1 DEF Send
  <2>2. k # NoReq /\ [from |-> c, req |-> k] \in Conn
    BY BusAssumption DEF BusAssumption, Conn, Owner
  <2>3. UNCHANGED <<inbox, bridge, cur, line, wire, rx>>
    BY <1>1 DEF Send
  <2>4. ASSUME NEW d \in Clients, want'[d] = NoReq
        PROVE  inbox'[d] = <<>> /\ cur'.from # d /\ From(backlog', Owner \ {d})
    <3>1. d # c /\ want[d] = NoReq
      BY <2>1, <2>2, <2>4 DEF TypeOK
    <3>2. c \in Owner \ {d}
      BY <1>n, <3>1
    <3>3. From(backlog', Owner \ {d})
      <4> DEFINE conn == [from |-> c, req |-> k]
                 A == Owner \ {d}
      <4>1. backlog \in Seq(Conn) /\ conn \in Conn /\ conn.from \in A /\ From(backlog, A)
        BY <1>i, <2>2, <3>1, <3>2 DEF TypeOK
      <4> HIDE DEF conn, A
      <4>2. From(Append(backlog, conn), A)
        BY <4>1, FromAppend
      <4> QED
        BY <2>1, <4>2 DEF conn, A
    <3> QED
      BY <1>i, <2>3, <3>1, <3>3
  <2> QED
    BY <2>3, <2>4 DEF Routed
<1>2. ASSUME NEW c \in Clients, Finish(c) \/ GiveUp(c) \/ Abort(c) PROVE Routed'
  BY <1>2, CloseRouted DEF Finish, GiveUp, Abort, Close
<1>3. CASE UNCHANGED vars
  BY <1>3 DEF vars, Routed
<1>4. ASSUME NEW c \in Clients, Refused(c) PROVE Routed'
  BY <1>3, <1>4 DEF Refused
<1>5. CASE Accept
  <2>1. cur.from = Nobody
    BY <1>5 DEF Accept, Routed, NoConn
  <2>2. From(wire', {cur'.from, Nobody}) /\ From(rx', {cur'.from, Nobody})
    BY <1>5, <2>1 DEF Accept, Routed, From
  <2>3. /\ cur' = backlog[1] /\ Len(backlog) \in Nat \ {0} /\ Len(backlog') = Len(backlog) - 1
        /\ \A i \in 1..Len(backlog') : backlog'[i] = backlog[i + 1]
    BY <1>5, HeadTailProperties, LenProperties, EmptySeq DEF Accept, TypeOK
  <2>4. \A A : From(backlog, A) => From(backlog', A) /\ cur'.from \in A
    BY <2>3 DEF From
  <2>5. ASSUME NEW d \in Clients, want'[d] = NoReq
        PROVE  inbox'[d] = <<>> /\ cur'.from # d /\ From(backlog', Owner \ {d})
    <3>1. want[d] = NoReq /\ inbox' = inbox
      BY <1>5, <2>5 DEF Accept
    <3>2. From(backlog', Owner \ {d}) /\ cur'.from \in Owner \ {d}
      BY <1>i, <2>4, <3>1
    <3> QED
      BY <1>i, <3>1, <3>2
  <2> QED
    BY <1>5, <2>2, <2>5 DEF Accept, Routed
<1>6. CASE ServeRequest
  <2>0. /\ wire' = Append(wire, [from |-> cur.from, kind |-> cur.req])
        /\ cur' = [cur EXCEPT !.req = NoReq]
        /\ UNCHANGED <<want, inbox, backlog, bridge, line, rx, late>>
        /\ bridge = "serve" /\ line = "up" /\ cur.req # NoReq
    BY <1>6 DEF ServeRequest
  <2>1. [from |-> cur.from, kind |-> cur.req] \in Frame /\ cur'.from = cur.from
    BY <2>0 DEF TypeOK, Conn, Frame
  <2>2. From(wire', {cur.from, Nobody})
    BY <2>0, <2>1, FromAppend DEF Routed, TypeOK
  <2> QED
    BY <2>0, <2>1, <2>2 DEF Routed
<1>7. CASE ServeReply
  <2> DEFINE d == cur.from
  <2>1. PICK n \in 1..Len(rx) :
          /\ rx' = SubSeq(rx, n + 1, Len(rx))
          /\ inbox' = IF d \in Clients
                      THEN [inbox EXCEPT ![d] = @ \o SubSeq(rx, 1, n)]
                      ELSE inbox
    BY <1>7 DEF ServeReply
  <2>2. /\ UNCHANGED <<want, backlog, bridge, cur, line, wire, late>>
        /\ bridge = "serve" /\ line = "up"
    BY <1>7 DEF ServeReply
  <2>3. rx \in Seq(Cell) /\ n \in Nat /\ Len(rx) \in Nat /\ n <= Len(rx)
    BY LenProperties DEF TypeOK
  <2>4. /\ SubSeq(rx, 1, n) \in Seq(Cell) /\ Len(SubSeq(rx, 1, n)) = n
        /\ \A i \in 1..n : SubSeq(rx, 1, n)[i] = rx[i]
        /\ Len(rx') = Len(rx) - n
        /\ \A i \in 1..(Len(rx) - n) : rx'[i] = rx[n + i]
    BY <2>1, <2>3, CutSeq, Zenon
  <2>5. From(SubSeq(rx, 1, n), {d, Nobody})
    BY <2>3, <2>4 DEF From, Routed
  <2>6. From(rx', {d, Nobody})
    <3>1. \A i \in 1..(Len(rx) - n) : n + i \in 1..Len(rx)
      BY <2>3
    <3> QED
      BY <2>4, <3>1 DEF From, Routed
  <2>7. d \in Clients => From(inbox[d] \o SubSeq(rx, 1, n), {d, Nobody})
    BY <2>4, <2>5, FromConcat DEF Routed, TypeOK
  <2>8. \A c \in Clients : From(inbox'[c], {c, Nobody})
    BY <2>1, <2>7 DEF Routed, TypeOK
  <2>9. \A c \in Clients : want'[c] = NoReq => inbox'[c] = inbox[c]
    BY <2>1, <2>2, <1>i DEF TypeOK
  <2> QED
    BY <2>2, <2>6, <2>8, <2>9 DEF Routed
<1>8. CASE ServeClosed
  <2>1. cur' = NoConn /\ NoConn.from = cur.from /\ NoConn.from = Nobody
    BY <1>8 DEF ServeClosed, NoConn
  <2> QED
    BY <1>8, <2>1, <1>n DEF ServeClosed, Routed
<1>9. CASE ServeHungUp
  <2>1. cur' = NoConn /\ NoConn.from = Nobody /\ wire = <<>> /\ rx = <<>>
    BY <1>9 DEF ServeHungUp, NoConn, Routed
  <2> QED
    BY <1>9, <2>1, <1>n, FromEmpty DEF ServeHungUp, Routed
<1>10. CASE Quit
  <2>1. cur' = NoConn /\ NoConn.from = Nobody
    BY <1>10 DEF Quit, NoConn
  <2> QED
    BY <1>10, <2>1, <1>n, FromEmpty DEF Quit, Routed
<1>11. CASE Crash
  <2>1. cur' = NoConn /\ NoConn.from = Nobody
    BY <1>11 DEF Crash, NoConn
  <2>2. /\ DOMAIN wire = 1..Len(wire) /\ Len(wire) \in Nat
        /\ \A i \in 1..Len(wire) : wire[i] \in Frame
    BY ElementOfSeq, LenProperties DEF TypeOK
  <2>3. wire' = [i \in 1..Len(wire) |-> [wire[i] EXCEPT !.from = Nobody]]
    BY <1>11, <2>2 DEF Crash
  <2>4. Len(wire') = Len(wire)
    BY <2>2, <2>3, LenProperties DEF TypeOK
  <2>5. From(wire', {cur'.from, Nobody})
    BY <2>2, <2>3, <2>4 DEF From, Frame
  <2>6. line = "hungup" => wire' = <<>>
    BY <2>2, <2>4, EmptySeq, LenProperties DEF Routed, TypeOK
  <2> QED
    BY <1>11, <2>1, <2>5, <2>6, <1>n, FromEmpty DEF Crash, Routed
<1>12. CASE Restart
  <2>1. /\ rx' = <<>> /\ bridge = "down"
        /\ UNCHANGED <<want, inbox, backlog, cur, wire, late>>
        /\ line' \in {"up", line}
    BY <1>12 DEF Restart
  <2> QED
    BY <2>1, FromEmpty DEF Routed
<1>13. ASSUME Answer \/ Lose PROVE Routed'
  <2>1. PICK i \in DOMAIN wire, exc \in BOOLEAN :
          /\ wire' = Without(wire, i)
          /\ rx' = rx \o Reply(wire[i], exc) \/ rx' = rx
          /\ UNCHANGED <<want, inbox, backlog, bridge, cur, line, late>>
    <3>1. CASE Answer
      <4>1. PICK i \in DOMAIN wire, exc \in BOOLEAN :
              /\ wire' = Without(wire, i)
              /\ rx' = IF Listening THEN rx \o Reply(wire[i], exc) ELSE rx
              /\ UNCHANGED <<want, inbox, backlog, bridge, cur, line, late>>
        BY <3>1 DEF Answer
      <4>2. rx' = rx \o Reply(wire[i], exc) \/ rx' = rx
        BY <4>1
      <4> QED
        BY <4>1, <4>2
    <3>2. CASE Lose
      BY <3>2 DEF Lose
    <3> QED
      BY <1>13, <3>1, <3>2
  <2>2. /\ Len(wire') = Len(wire) - 1 /\ Len(wire) \in Nat
        /\ i \in Nat \ {0} /\ i <= Len(wire)
        /\ \A j \in 1..(Len(wire) - 1) : wire'[j] = IF j < i THEN wire[j] ELSE wire[j + 1]
    BY <2>1, WithoutAt DEF TypeOK
  <2>3. From(wire', {cur.from, Nobody})
    BY <2>2 DEF From, Routed
  <2>4. wire[i] \in Frame /\ wire[i].from \in {cur.from, Nobody}
    BY <2>2, ElementOfSeq DEF TypeOK, Routed, From
  <2>5. /\ Reply(wire[i], exc) \in Seq(Cell)
        /\ From(Reply(wire[i], exc), {cur.from, Nobody})
    BY <2>4, ReplyType DEF From
  <2>6. From(rx', {cur.from, Nobody})
    <3>1. rx \in Seq(Cell) /\ From(rx, {cur.from, Nobody})
      BY DEF TypeOK, Routed
    <3> DEFINE reply == Reply(wire[i], exc)
               A == {cur.from, Nobody}
    <3>2. reply \in Seq(Cell) /\ From(reply, A) /\ From(rx, A)
      BY <2>5, <3>1
    <3> HIDE DEF reply, A
    <3>3. From(rx \o reply, A)
      BY <3>1, <3>2, FromConcat
    <3> QED
      BY <2>1, <3>2, <3>3 DEF reply, A
  <2>7. line # "hungup"
    BY <2>2, EmptySeq DEF Routed
  <2> QED
    BY <2>1, <2>3, <2>6, <2>7 DEF Routed
<1>14. CASE HangUp
  BY <1>14, FromEmpty DEF HangUp, Routed
<1> QED
  BY <1>1, <1>2, <1>3, <1>4, <1>5, <1>6, <1>7, <1>8, <1>9, <1>10, <1>11, <1>12, <1>13, <1>14
     DEF Next, Client, Bridge, Serve, Bus

-----------------------------------------------------------------------------
(* The invariant behind the bound. *)

DueFinite == \A o \in Owner : IsFiniteSet(Due(o))

\* No more is due to a client than the reply it waits for.
DueBound == \A c \in Clients : want[c] # NoReq => Cardinality(Due(c)) <= Want[want[c]]

OInv == Routed /\ DueFinite /\ DueBound /\ OrphanBound

Longest(k) == \A j \in Kinds : Want[j] <= Want[k]

LEMMA WantType == \A k \in Kinds : Want[k] \in Nat
  BY BusAssumption DEF BusAssumption

LEMMA DueNumbers ==
  ASSUME DueFinite
  PROVE  \A o \in Owner : Cardinality(Due(o)) \in Nat
  BY FS_CardinalityType DEF DueFinite

\* A step that adds to nothing and counts nobody keeps the bounds.
LEMMA Kept ==
  ASSUME TypeOK, OInv, UNCHANGED <<want, late>>, \A o \in Owner : NoMore(o)
  PROVE  (DueFinite /\ DueBound /\ OrphanBound)'
<1>1. \A o \in Owner : /\ IsFiniteSet(Due(o)') /\ Cardinality(Due(o)') <= Cardinality(Due(o))
                       /\ Cardinality(Due(o)) \in Nat /\ Cardinality(Due(o)') \in Nat
  BY DueNumbers, FS_CardinalityType DEF NoMore, OInv
<1>2. DueFinite'
  BY <1>1 DEF DueFinite
<1>3. DueBound'
  <2> SUFFICES ASSUME NEW c \in Clients, want'[c] # NoReq
               PROVE  Cardinality(Due(c)') <= Want[want'[c]]
    BY DEF DueBound
  <2>1. want'[c] = want[c] /\ want[c] \in Kinds /\ Want[want[c]] \in Nat /\ c \in Owner
    BY WantType DEF TypeOK, Owner
  <2>2. Cardinality(Due(c)) <= Want[want[c]]
    BY <2>1 DEF OInv, DueBound
  <2> QED
    BY <1>1, <2>1, <2>2
<1>4. OrphanBound'
  <2> SUFFICES ASSUME NEW k \in Kinds, Longest(k)
               PROVE  Cardinality(Due(Nobody)') <= late' * Want[k]
    BY DEF OrphanBound, Longest
  <2>1. Cardinality(Due(Nobody)) <= late * Want[k]
    BY DEF OInv, OrphanBound, Longest
  <2>2. late' = late /\ Nobody \in Owner
    BY DEF Owner
  <2> DEFINE bound == late * Want[k]
  <2>3. bound \in Nat
    BY WantType DEF TypeOK
  <2> HIDE DEF bound
  <2>4. Cardinality(Due(Nobody)) <= bound
    BY <2>1 DEF bound
  <2>5. Cardinality(Due(Nobody)') <= bound
    BY <1>1, <2>2, <2>3, <2>4
  <2> QED
    BY <2>2, <2>5 DEF bound
<1> QED
  BY <1>2, <1>3, <1>4

\* What one client pays when its cells lose their owner.
LEMMA Paid ==
  ASSUME TypeOK, OInv, NEW c \in Clients, want[c] # NoReq, late' = late + 1,
         \A t \in Due(Nobody)' : t \in Due(Nobody) \/ t \in Due(c)
  PROVE  OrphanBound'
<1> SUFFICES ASSUME NEW k \in Kinds, Longest(k)
             PROVE  Cardinality(Due(Nobody)') <= late' * Want[k]
  BY DEF OrphanBound, Longest
<1> DEFINE N == Due(Nobody)
           D == Due(c)
           U == N \union D
           M == Due(Nobody)'
<1>1. c \in Owner /\ Nobody \in Owner
  BY DEF Owner
<1>2. IsFiniteSet(N) /\ IsFiniteSet(D)
  BY <1>1 DEF OInv, DueFinite
<1>3. M \subseteq U
  OBVIOUS
<1>4. Cardinality(N) <= late * Want[k]
  BY DEF OInv, OrphanBound, Longest
<1>5. Cardinality(D) <= Want[want[c]] /\ Want[want[c]] <= Want[k]
  BY DEF OInv, DueBound, Longest, TypeOK
<1>6. late \in Nat /\ Want[k] \in Nat /\ Want[want[c]] \in Nat
  BY WantType DEF TypeOK
<1> HIDE DEF N, D, M
<1>7. /\ IsFiniteSet(U) /\ Cardinality(U) = Cardinality(N) + Cardinality(D) - Cardinality(N \cap D)
      /\ IsFiniteSet(N \cap D)
  BY <1>2, FS_Union, FS_Intersection
<1>8. IsFiniteSet(M) /\ Cardinality(M) <= Cardinality(U)
  BY <1>3, <1>7, FS_Subset
<1>9. /\ Cardinality(N) \in Nat /\ Cardinality(D) \in Nat /\ Cardinality(N \cap D) \in Nat
      /\ Cardinality(M) \in Nat
  BY <1>2, <1>7, <1>8, FS_CardinalityType
<1> DEFINE bound == late * Want[k]
<1>10. bound \in Nat /\ late' * Want[k] = bound + Want[k]
  BY <1>6
<1> HIDE DEF bound, U
<1>11. Cardinality(N) <= bound
  BY <1>4 DEF bound
<1>12. Cardinality(M) <= bound + Want[k]
  BY <1>5, <1>6, <1>7, <1>8, <1>9, <1>10, <1>11
<1> QED
  BY <1>10, <1>12 DEF M

\* What is due to o after c closed its connection was due to o or to c before,
\* and is not in the inbox of c.
LEMMA CloseDue ==
  ASSUME TypeOK, NEW c \in Clients, Close(c), NEW o \in Owner, NEW t \in Due(o)'
  PROVE  /\ t \in Due(o) \/ (o = Nobody /\ t \in Due(c))
         /\ ~\E i \in 1..Len(inbox[c]) : t = <<"inbox", c, i>>
<1>n. Nobody \notin Clients
  BY BusAssumption DEF BusAssumption
<1>1. /\ Len(backlog') = Len(backlog)
      /\ \A i \in 1..Len(backlog) : backlog'[i] = DisownOne(backlog[i], c) /\ backlog[i] \in Conn
  BY RecordTypes, DisownType, ElementOfSeq DEF Close, TypeOK
<1>2. /\ Len(wire') = Len(wire)
      /\ \A i \in 1..Len(wire) : wire'[i] = DisownOne(wire[i], c) /\ wire[i] \in Frame
  BY RecordTypes, DisownType, ElementOfSeq DEF Close, TypeOK
<1>3. /\ Len(rx') = Len(rx)
      /\ \A i \in 1..Len(rx) : rx'[i] = DisownOne(rx[i], c) /\ rx[i] \in Cell
  BY RecordTypes, DisownType, ElementOfSeq DEF Close, TypeOK
<1>4. ASSUME NEW r \in Conn \union Frame \union Cell, DisownOne(r, c).from = o
      PROVE  r.from = o \/ (o = Nobody /\ r.from = c)
  BY <1>4 DEF DisownOne, Conn, Frame, Cell
<1>5. \A r \in Conn : DisownOne(r, c).req = r.req
  BY DEF DisownOne, Conn
<1>6. \A r \in Frame : DisownOne(r, c).kind = r.kind
  BY DEF DisownOne, Frame
<1>7. CASE \E i \in IndicesOf(backlog', o) : \E p \in 1..Size(backlog'[i].req) :
              t = <<"backlog", i, p>>
  <2>0. PICK i \in IndicesOf(backlog', o) :
          \E p \in 1..Size(backlog'[i].req) : t = <<"backlog", i, p>>
    BY <1>7
  <2>1. PICK p \in 1..Size(backlog'[i].req) : t = <<"backlog", i, p>>
    BY <2>0
  <2>2. p \in 1..Size(backlog[i].req)
    BY <1>1, <1>5 DEF IndicesOf
  <2>3. i \in IndicesOf(backlog, o) \/ (o = Nobody /\ i \in IndicesOf(backlog, c))
    BY <1>1, <1>4 DEF IndicesOf
  <2> QED
    BY <2>1, <2>2, <2>3, DueIs
<1>8. CASE cur'.from = o /\ \E p \in 1..Size(cur'.req) : t = <<"served", p>>
  <2>1. PICK p \in 1..Size(cur'.req) : t = <<"served", p>>
    BY <1>8
  <2>2. cur' = DisownOne(cur, c) /\ cur \in Conn
    BY DEF Close, TypeOK
  <2>3. p \in 1..Size(cur.req) /\ (cur.from = o \/ (o = Nobody /\ cur.from = c))
    BY <1>4, <1>5, <1>8, <2>2
  <2> QED
    BY <2>1, <2>3, DueIs
<1>9. CASE \E i \in IndicesOf(wire', o) : \E p \in 1..Size(wire'[i].kind) :
              t = <<"wire", i, p>>
  <2>0. PICK i \in IndicesOf(wire', o) :
          \E p \in 1..Size(wire'[i].kind) : t = <<"wire", i, p>>
    BY <1>9
  <2>1. PICK p \in 1..Size(wire'[i].kind) : t = <<"wire", i, p>>
    BY <2>0
  <2>2. p \in 1..Size(wire[i].kind)
    BY <1>2, <1>6 DEF IndicesOf
  <2>3. i \in IndicesOf(wire, o) \/ (o = Nobody /\ i \in IndicesOf(wire, c))
    BY <1>2, <1>4 DEF IndicesOf
  <2> QED
    BY <2>1, <2>2, <2>3, DueIs
<1>10. CASE \E i \in IndicesOf(rx', o) : t = <<"rx", i>>
  <2>1. PICK i \in IndicesOf(rx', o) : t = <<"rx", i>>
    BY <1>10
  <2>3. i \in IndicesOf(rx, o) \/ (o = Nobody /\ i \in IndicesOf(rx, c))
    BY <1>3, <1>4 DEF IndicesOf
  <2> QED
    BY <2>1, <2>3, DueIs
<1>11. CASE \E d \in Clients : \E i \in IndicesOf(inbox'[d], o) : t = <<"inbox", d, i>>
  <2>0. PICK d \in Clients : \E i \in IndicesOf(inbox'[d], o) : t = <<"inbox", d, i>>
    BY <1>11
  <2>1. PICK i \in IndicesOf(inbox'[d], o) : t = <<"inbox", d, i>>
    BY <2>0
  <2>2. inbox' = [inbox EXCEPT ![c] = <<>>]
    BY DEF Close
  <2>3. d # c /\ inbox'[d] = inbox[d]
    BY <2>2, EmptySeq DEF TypeOK, IndicesOf
  <2> QED
    BY <2>1, <2>3, DueIs
<1>12. \/ \E i \in IndicesOf(backlog', o) : \E p \in 1..Size(backlog'[i].req) :
             t = <<"backlog", i, p>>
       \/ cur'.from = o /\ \E p \in 1..Size(cur'.req) : t = <<"served", p>>
       \/ \E i \in IndicesOf(wire', o) : \E p \in 1..Size(wire'[i].kind) :
             t = <<"wire", i, p>>
       \/ \E i \in IndicesOf(rx', o) : t = <<"rx", i>>
       \/ \E d \in Clients : \E i \in IndicesOf(inbox'[d], o) : t = <<"inbox", d, i>>
  BY DueIs
<1> QED
  BY <1>7, <1>8, <1>9, <1>10, <1>11, <1>12, Zenon

\* A client that closes leaves nothing of its own, and no more to the others.
LEMMA CloseBounds ==
  ASSUME TypeOK, OInv, NEW c \in Clients, Close(c)
  PROVE  DueFinite' /\ DueBound'
<1>n. Nobody \notin Clients /\ Owner = Clients \union {Nobody}
  BY BusAssumption DEF BusAssumption, Owner
<1>1. \A o \in Clients : Due(o)' \subseteq Due(o)
  BY <1>n, CloseDue
<1>2. Due(Nobody)' \subseteq Due(Nobody) \union Due(c)
  BY <1>n, CloseDue
<1>3. \A o \in Clients : NoMore(o)
  BY <1>1, <1>n, SubsetNoMore DEF OInv, DueFinite
<1>4. IsFiniteSet(Due(Nobody) \union Due(c))
  BY <1>n, FS_Union DEF OInv, DueFinite
<1>5. IsFiniteSet(Due(Nobody)')
  BY <1>2, <1>4, FS_Subset
<1>6. DueFinite'
  BY <1>3, <1>5, <1>n DEF DueFinite, NoMore
<1>7. DueBound'
  <2> SUFFICES ASSUME NEW d \in Clients, want'[d] # NoReq
               PROVE  Cardinality(Due(d)') <= Want[want'[d]]
    BY DEF DueBound
  <2>1. want'[d] = want[d] /\ want[d] \in Kinds
    BY DEF Close, TypeOK
  <2>2. Cardinality(Due(d)) <= Want[want[d]] /\ Want[want[d]] \in Nat
    BY <2>1, WantType DEF OInv, DueBound
  <2>3. Cardinality(Due(d)') <= Cardinality(Due(d)) /\ IsFiniteSet(Due(d)')
    BY <1>3 DEF NoMore
  <2>4. Cardinality(Due(d)') \in Nat /\ Cardinality(Due(d)) \in Nat
    BY <2>3, <1>n, DueNumbers, FS_CardinalityType DEF OInv
  <2> QED
    BY <2>1, <2>2, <2>3, <2>4
<1> QED
  BY <1>6, <1>7

\* A client that got its cells took as many as were due to it: the cells of
\* others it took stand for those of its own it leaves behind.
LEMMA FinishPays ==
  ASSUME TypeOK, OInv, NEW c \in Clients, Finish(c)
  PROVE  OrphanBound'
<1> DEFINE N == Due(Nobody)
           D == Due(c)
           U == N \union D
           n == Len(inbox[c])
           I == {<<"inbox", c, i>> : i \in 1..n}
           M == Due(Nobody)'
<1>n. c \in Owner /\ Nobody \in Owner
  BY DEF Owner
<1>0. Close(c) /\ want[c] # NoReq /\ n >= Want[want[c]] /\ late' = late
  BY DEF Finish
<1>1. n \in Nat /\ want[c] \in Kinds /\ Want[want[c]] \in Nat
  BY <1>0, WantType, LenProperties DEF TypeOK
<1>2. IsFiniteSet(N) /\ IsFiniteSet(D) /\ Cardinality(D) <= Want[want[c]]
  BY <1>n, <1>0 DEF OInv, DueFinite, DueBound
<1>3. M \subseteq U \ I
  <2> SUFFICES ASSUME NEW t \in M PROVE t \in U \ I
    OBVIOUS
  <2>1. t \in U /\ ~\E i \in 1..Len(inbox[c]) : t = <<"inbox", c, i>>
    BY <1>0, <1>n, CloseDue
  <2> QED
    BY <2>1
<1>4. I \subseteq U
  <2> SUFFICES ASSUME NEW i \in 1..n PROVE <<"inbox", c, i>> \in U
    OBVIOUS
  <2>1. inbox[c][i].from = c \/ inbox[c][i].from = Nobody
    BY DEF OInv, Routed, From
  <2>2. i \in IndicesOf(inbox[c], c) \/ i \in IndicesOf(inbox[c], Nobody)
    BY <2>1 DEF IndicesOf
  <2> QED
    BY <2>2, DueIs
<1>5. \A i \in 1..n : \E s \in I : [t \in I |-> t[3]][s] = i
  <2> SUFFICES ASSUME NEW i \in 1..n PROVE \E s \in I : [t \in I |-> t[3]][s] = i
    OBVIOUS
  <2>1. <<"inbox", c, i>> \in I /\ <<"inbox", c, i>>[3] = i
    OBVIOUS
  <2> HIDE DEF I
  <2> QED
    BY <2>1
<1>c. Due(Nobody)' = M /\ Due(Nobody) = N
  OBVIOUS
<1>6. ASSUME NEW k \in Kinds, Longest(k) PROVE Cardinality(N) <= late * Want[k]
  BY <1>6 DEF OInv, OrphanBound, Longest
<1> HIDE DEF N, D, M, I
<1>7. /\ IsFiniteSet(U) /\ Cardinality(U) = Cardinality(N) + Cardinality(D) - Cardinality(N \cap D)
      /\ IsFiniteSet(N \cap D)
  BY <1>2, FS_Union, FS_Intersection
<1> HIDE DEF U
<1>8. IsFiniteSet(I) /\ U \cap I = I
  BY <1>4, <1>7, FS_Subset
<1>9. n <= Cardinality(I)
  <2>1. Cardinality(1..n) <= Cardinality(I)
    BY <1>5, <1>8, ImageBound
  <2>2. Cardinality(1..n) = n
    BY <1>1, FS_Interval
  <2> QED
    BY <2>1, <2>2
<1>10. IsFiniteSet(U \ I) /\ Cardinality(U \ I) = Cardinality(U) - Cardinality(I)
  BY <1>7, <1>8, FS_Difference
<1>11. IsFiniteSet(M) /\ Cardinality(M) <= Cardinality(U \ I)
  BY <1>3, <1>10, FS_Subset
<1>12. /\ Cardinality(N) \in Nat /\ Cardinality(D) \in Nat /\ Cardinality(N \cap D) \in Nat
       /\ Cardinality(M) \in Nat /\ Cardinality(I) \in Nat
  BY <1>2, <1>7, <1>8, <1>11, FS_CardinalityType
<1> HIDE DEF n
<1>13. Cardinality(M) <= Cardinality(N)
  BY <1>0, <1>1, <1>2, <1>7, <1>9, <1>10, <1>11, <1>12
<1> SUFFICES ASSUME NEW k \in Kinds, Longest(k)
             PROVE  Cardinality(M) <= late' * Want[k]
  BY <1>c DEF OrphanBound, Longest
<1> DEFINE bound == late * Want[k]
<1>14. bound \in Nat /\ late' * Want[k] = bound
  BY <1>0, WantType DEF TypeOK
<1>15. Cardinality(N) <= bound
  BY <1>6
<1> HIDE DEF bound
<1>16. Cardinality(M) <= bound
  BY <1>12, <1>13, <1>14, <1>15
<1> QED
  BY <1>14, <1>16

\* A client that leaves with nothing on its way has at most what it received,
\* and throws that away.
LEMMA LeavePays ==
  ASSUME TypeOK, OInv, NEW c \in Clients, want[c] # NoReq, Close(c), CountLate(c)
  PROVE  OrphanBound'
<1>n. c \in Owner /\ Nobody \in Owner /\ Nobody \notin Clients
  BY BusAssumption DEF BusAssumption, Owner
<1>1. CASE InFlight(c)
  <2>1. late' = late + 1
    BY <1>1 DEF CountLate
  <2>2. \A t \in Due(Nobody)' : t \in Due(Nobody) \/ t \in Due(c)
    BY <1>n, CloseDue
  <2> QED
    BY <2>1, <2>2, Paid
<1>2. CASE ~InFlight(c)
  <2>1. late' = late
    BY <1>2 DEF CountLate
  <2>2. ASSUME NEW t \in Due(c) PROVE \E i \in 1..Len(inbox[c]) : t = <<"inbox", c, i>>
    <3>0. /\ DOMAIN backlog = 1..Len(backlog) /\ DOMAIN wire = 1..Len(wire)
          /\ DOMAIN rx = 1..Len(rx)
      BY LenProperties DEF TypeOK
    <3>1. IndicesOf(backlog, c) = {} /\ IndicesOf(wire, c) = {} /\ IndicesOf(rx, c) = {}
      BY <1>2, <3>0 DEF InFlight, Owns, IndicesOf
    <3>2. cur.from = c => 1..Size(cur.req) = {}
      BY <1>2 DEF InFlight, Size
    <3>3. PICK d \in Clients : \E i \in IndicesOf(inbox[d], c) : t = <<"inbox", d, i>>
      BY <2>2, <3>1, <3>2, DueIs
    <3>4. PICK i \in IndicesOf(inbox[d], c) : t = <<"inbox", d, i>>
      BY <3>3
    <3>5. d = c
      BY <1>n, <3>4 DEF IndicesOf, OInv, Routed, From
    <3> QED
      BY <3>4, <3>5 DEF IndicesOf
  <2>3. Due(Nobody)' \subseteq Due(Nobody)
    BY <1>n, <2>2, CloseDue
  <2>4. IsFiniteSet(Due(Nobody))
    BY <1>n DEF OInv, DueFinite
  <2>5. IsFiniteSet(Due(Nobody)') /\ Cardinality(Due(Nobody)') <= Cardinality(Due(Nobody))
    BY <2>3, <2>4, FS_Subset
  <2>6. Cardinality(Due(Nobody)') \in Nat /\ Cardinality(Due(Nobody)) \in Nat
    BY <2>4, <2>5, FS_CardinalityType
  <2> SUFFICES ASSUME NEW k \in Kinds, Longest(k)
               PROVE  Cardinality(Due(Nobody)') <= late' * Want[k]
    BY DEF OrphanBound, Longest
  <2> DEFINE bound == late * Want[k]
  <2>7. bound \in Nat /\ late' * Want[k] = bound
    BY <2>1, WantType DEF TypeOK
  <2>8. Cardinality(Due(Nobody)) <= bound
    BY DEF OInv, OrphanBound, Longest
  <2> HIDE DEF bound
  <2>9. Cardinality(Due(Nobody)') <= bound
    BY <2>5, <2>6, <2>7, <2>8
  <2> QED
    BY <2>7, <2>9
<1> QED
  BY <1>1, <1>2

\* A request stands for the reply the client waits for.
LEMMA SendPays ==
  ASSUME TypeOK, OInv, NEW c \in Clients, Send(c)
  PROVE  (DueFinite /\ DueBound /\ OrphanBound)'
<1>n. Nobody \notin Clients /\ Owner = Clients \union {Nobody}
  BY BusAssumption DEF BusAssumption, Owner
<1>1. PICK k \in Kinds : /\ want' = [want EXCEPT ![c] = k]
                         /\ backlog' = Append(backlog, [from |-> c, req |-> k])
  BY DEF Send
<1>2. want[c] = NoReq /\ UNCHANGED <<inbox, bridge, cur, line, wire, rx, late>>
  BY DEF Send
<1>3. k # NoReq /\ Size(k) = Want[k] /\ Want[k] \in Nat
  BY BusAssumption, WantType DEF BusAssumption, Size
<1>4. /\ Len(backlog) \in Nat /\ Len(backlog') = Len(backlog) + 1
      /\ \A i \in 1..Len(backlog) : backlog'[i] = backlog[i]
      /\ backlog'[Len(backlog) + 1] = [from |-> c, req |-> k]
  <2> DEFINE conn == [from |-> c, req |-> k]
  <2>1. conn \in Conn /\ backlog \in Seq(Conn)
    BY DEF Conn, Owner, TypeOK
  <2>2. backlog' = Append(backlog, conn)
    BY <1>1
  <2> HIDE DEF conn
  <2>3. /\ Len(backlog) \in Nat /\ Len(backlog') = Len(backlog) + 1
        /\ \A i \in 1..Len(backlog) : backlog'[i] = backlog[i]
        /\ backlog'[Len(backlog) + 1] = conn
    BY <2>1, <2>2, AppendProperties, LenProperties
  <2> QED
    BY <2>3 DEF conn
<1>5. ASSUME NEW o \in Owner, NEW t \in Due(o)'
      PROVE  \/ t \in Due(o)
             \/ o = c /\ \E p \in 1..Want[k] : t = <<"backlog", Len(backlog) + 1, p>>
  <2>1. CASE \E i \in IndicesOf(backlog', o) : \E p \in 1..Size(backlog'[i].req) :
                t = <<"backlog", i, p>>
    <3>1. PICK i \in IndicesOf(backlog', o) :
            \E p \in 1..Size(backlog'[i].req) : t = <<"backlog", i, p>>
      BY <2>1
    <3>2. CASE i = Len(backlog) + 1
      BY <1>3, <1>4, <3>1, <3>2 DEF IndicesOf
    <3>3. CASE i # Len(backlog) + 1
      <4>1. i \in IndicesOf(backlog, o) /\ backlog'[i] = backlog[i]
        BY <1>4, <3>3 DEF IndicesOf
      <4> QED
        BY <3>1, <4>1, DueIs
    <3> QED
      BY <3>2, <3>3
  <2>2. CASE ~\E i \in IndicesOf(backlog', o) : \E p \in 1..Size(backlog'[i].req) :
                t = <<"backlog", i, p>>
    BY <1>2, <1>5, <2>2, DueIs
  <2> QED
    BY <2>1, <2>2
<1>6. \A o \in Owner \ {c} : NoMore(o)
  BY <1>5, SubsetNoMore DEF OInv, DueFinite
<1>7. ASSUME NEW t \in Due(c)'
      PROVE  \E p \in 1..Want[k] : t = <<"backlog", Len(backlog) + 1, p>>
  <2>0. /\ From(wire, {cur.from, Nobody}) /\ From(rx, {cur.from, Nobody})
        /\ \A d \in Clients : From(inbox[d], {d, Nobody})
        /\ inbox[c] = <<>> /\ cur.from # c /\ From(backlog, Owner \ {c})
    BY <1>2 DEF OInv, Routed
  <2>1. /\ IndicesOf(backlog, c) = {} /\ IndicesOf(wire, c) = {} /\ IndicesOf(rx, c) = {}
        /\ c # Nobody
    BY <1>n, <2>0 DEF From, IndicesOf
  <2>2. \A d \in Clients : IndicesOf(inbox[d], c) = {}
    BY <1>n, <2>0, EmptySeq DEF From, IndicesOf
  <2>3. t \notin Due(c)
    BY <2>0, <2>1, <2>2, DueIs
  <2> QED
    BY <1>5, <1>7, <1>n, <2>3
<1>8. IsFiniteSet(Due(c)') /\ Cardinality(Due(c)') <= Want[k]
  <2> DEFINE f == [p \in 1..Want[k] |-> <<"backlog", Len(backlog) + 1, p>>]
             P == 1..Want[k]
  <2>1. \A t \in Due(c)' : \E p \in P : f[p] = t
    BY <1>7
  <2>2. IsFiniteSet(P) /\ Cardinality(P) = Want[k]
    BY SMTT(30), <1>3, FS_Interval
  <2> HIDE DEF f, P
  <2>3. IsFiniteSet(Due(c)') /\ Cardinality(Due(c)') <= Cardinality(P)
    BY <2>1, <2>2, ImageBound
  <2> QED
    BY <2>2, <2>3
<1>9. DueFinite'
  BY <1>6, <1>8 DEF DueFinite, NoMore
<1>10. \A o \in Owner : Cardinality(Due(o)) \in Nat /\ Cardinality(Due(o)') \in Nat
  BY <1>9, FS_CardinalityType DEF OInv, DueFinite
<1>11. DueBound'
  <2> SUFFICES ASSUME NEW d \in Clients, want'[d] # NoReq
               PROVE  Cardinality(Due(d)') <= Want[want'[d]]
    BY DEF DueBound
  <2>1. CASE d = c
    BY <1>1, <1>8, <2>1 DEF TypeOK
  <2>2. CASE d # c
    <3>1. want'[d] = want[d] /\ want[d] \in Kinds /\ want[d] # NoReq
      BY <1>1, <2>2 DEF TypeOK
    <3>2. Cardinality(Due(d)) <= Want[want[d]] /\ Want[want[d]] \in Nat
      BY <3>1, WantType DEF OInv, DueBound
    <3>3. Cardinality(Due(d)') <= Cardinality(Due(d))
      BY <1>6, <1>n, <2>2 DEF NoMore
    <3> QED
      BY <1>10, <1>n, <3>1, <3>2, <3>3
  <2> QED
    BY <2>1, <2>2
<1>12. OrphanBound'
  <2> SUFFICES ASSUME NEW j \in Kinds, Longest(j)
               PROVE  Cardinality(Due(Nobody)') <= late' * Want[j]
    BY DEF OrphanBound, Longest
  <2> DEFINE bound == late * Want[j]
  <2>1. bound \in Nat /\ late' * Want[j] = bound
    BY <1>2, WantType DEF TypeOK
  <2>2. Cardinality(Due(Nobody)) <= bound
    BY DEF OInv, OrphanBound, Longest
  <2>3. Cardinality(Due(Nobody)') <= Cardinality(Due(Nobody)) /\ Nobody \in Owner
    BY <1>6, <1>n DEF NoMore
  <2> HIDE DEF bound
  <2>4. Cardinality(Due(Nobody)') <= bound
    BY <1>10, <2>1, <2>2, <2>3
  <2> QED
    BY <2>1, <2>4
<1> QED
  BY <1>9, <1>11, <1>12

\* The requests of the client that was served have no owner any more once the
\* bridge is killed.
LEMMA CrashPays ==
  ASSUME TypeOK, OInv, Crash
  PROVE  (DueFinite /\ DueBound /\ OrphanBound)'
<1>n. Nobody \notin Clients /\ Owner = Clients \union {Nobody}
  BY BusAssumption DEF BusAssumption, Owner
<1>1. /\ rx' = <<>> /\ backlog' = <<>> /\ cur' = NoConn /\ UNCHANGED <<want, inbox>>
      /\ late' = IF \E i \in DOMAIN wire : wire[i].from # Nobody THEN late + 1 ELSE late
  BY DEF Crash
<1>2. /\ DOMAIN wire = 1..Len(wire) /\ Len(wire) \in Nat
      /\ \A i \in 1..Len(wire) : wire[i] \in Frame
  BY ElementOfSeq, LenProperties DEF TypeOK
<1>3. wire' = [i \in 1..Len(wire) |-> [wire[i] EXCEPT !.from = Nobody]]
  BY <1>2 DEF Crash
<1>4. Len(wire') = Len(wire)
  BY <1>2, <1>3, LenProperties
<1>5. \A i \in 1..Len(wire) : wire'[i].from = Nobody /\ wire'[i].kind = wire[i].kind
  BY <1>2, <1>3 DEF Frame
<1>6. ASSUME NEW o \in Owner, NEW t \in Due(o)'
      PROVE  \/ t \in Due(o)
             \/ /\ o = Nobody
                /\ \E i \in 1..Len(wire) : wire[i].from # Nobody /\ t \in Due(wire[i].from)
  <2>1. IndicesOf(backlog', o) = {} /\ IndicesOf(rx', o) = {} /\ 1..Size(cur'.req) = {}
    BY <1>1, EmptySeq DEF IndicesOf, Size, NoConn
  <2>2. CASE \E i \in IndicesOf(wire', o) : \E p \in 1..Size(wire'[i].kind) :
                t = <<"wire", i, p>>
    <3>1. PICK i \in IndicesOf(wire', o) :
            \E p \in 1..Size(wire'[i].kind) : t = <<"wire", i, p>>
      BY <2>2
    <3>2. i \in 1..Len(wire) /\ o = Nobody /\ wire'[i].kind = wire[i].kind
      BY <1>4, <1>5 DEF IndicesOf
    <3>3. i \in IndicesOf(wire, wire[i].from)
      BY <3>2 DEF IndicesOf
    <3>4. t \in Due(wire[i].from)
      BY <3>1, <3>2, <3>3, DueIs
    <3> QED
      BY <3>2, <3>4
  <2>3. CASE ~\E i \in IndicesOf(wire', o) : \E p \in 1..Size(wire'[i].kind) :
                t = <<"wire", i, p>>
    BY <1>1, <1>6, <2>1, <2>3, DueIs
  <2> QED
    BY <2>2, <2>3
<1>7. \A o \in Clients : NoMore(o)
  BY <1>6, <1>n, SubsetNoMore DEF OInv, DueFinite
<1>8. \A i \in 1..Len(wire) : wire[i].from # Nobody => wire[i].from = cur.from /\ cur.from \in Clients
  BY <1>2, <1>n DEF OInv, Routed, From, Frame
<1>9. CASE \E i \in 1..Len(wire) : wire[i].from # Nobody
  <2> DEFINE c == cur.from
  <2>1. c \in Clients /\ late' = late + 1
    BY <1>1, <1>2, <1>8, <1>9
  <2>2. want[c] # NoReq
    BY <2>1 DEF OInv, Routed
  <2>3. \A t \in Due(Nobody)' : t \in Due(Nobody) \/ t \in Due(c)
    BY <1>6, <1>8, <1>n
  <2> HIDE DEF c
  <2>4. OrphanBound'
    BY <2>1, <2>2, <2>3, Paid
  <2>5. IsFiniteSet(Due(Nobody) \union Due(c))
    BY <2>1, <1>n, FS_Union DEF OInv, DueFinite
  <2>6. IsFiniteSet(Due(Nobody)')
    <3>1. Due(Nobody)' \subseteq Due(Nobody) \union Due(c)
      BY <2>3
    <3> QED
      BY <2>5, <3>1, FS_Subset
  <2>7. DueFinite'
    BY <1>7, <1>n, <2>6 DEF DueFinite, NoMore
  <2>8. DueBound'
    <3> SUFFICES ASSUME NEW d \in Clients, want'[d] # NoReq
                 PROVE  Cardinality(Due(d)') <= Want[want'[d]]
      BY DEF DueBound
    <3>1. want'[d] = want[d] /\ want[d] \in Kinds
      BY <1>1 DEF TypeOK
    <3>2. Cardinality(Due(d)) <= Want[want[d]] /\ Want[want[d]] \in Nat
      BY <3>1, WantType DEF OInv, DueBound
    <3>3. Cardinality(Due(d)') <= Cardinality(Due(d)) /\ IsFiniteSet(Due(d)')
      BY <1>7 DEF NoMore
    <3>4. Cardinality(Due(d)') \in Nat /\ Cardinality(Due(d)) \in Nat
      BY <3>3, <1>n, DueNumbers, FS_CardinalityType DEF OInv
    <3> QED
      BY <3>1, <3>2, <3>3, <3>4
  <2> QED
    BY <2>4, <2>7, <2>8
<1>10. CASE ~\E i \in 1..Len(wire) : wire[i].from # Nobody
  <2>1. UNCHANGED <<want, late>>
    BY <1>1, <1>2, <1>10
  <2>2. \A o \in Owner : NoMore(o)
    BY <1>6, <1>10, SubsetNoMore DEF OInv, DueFinite
  <2> QED
    BY <2>1, <2>2, Kept
<1> QED
  BY <1>9, <1>10

LEMMA OrphanInit == Init => OInv
<1> SUFFICES ASSUME Init PROVE OInv
  OBVIOUS
<1>1. \A o : Due(o) = {}
  <2> SUFFICES ASSUME NEW o, NEW t \in Due(o) PROVE FALSE
    OBVIOUS
  <2>1. /\ backlog = <<>> /\ wire = <<>> /\ rx = <<>> /\ cur = NoConn
        /\ \A c \in Clients : inbox[c] = <<>>
    BY DEF Init
  <2>2. IndicesOf(<<>>, o) = {} /\ 1..Size(NoConn.req) = {}
    BY EmptySeq DEF IndicesOf, Size, NoConn
  <2> QED
    BY <2>1, <2>2, DueIs
<1>2. IsFiniteSet({}) /\ Cardinality({}) = 0
  BY FS_EmptySet
<1>3. DueFinite
  BY <1>1, <1>2 DEF DueFinite
<1>4. DueBound
  BY DEF DueBound, Init
<1>5. OrphanBound
  <2>1. late = 0 /\ Cardinality(Due(Nobody)) = 0
    BY <1>1, <1>2 DEF Init
  <2>2. \A k \in Kinds : 0 <= 0 * Want[k]
    BY WantType
  <2> QED
    BY <2>1, <2>2 DEF OrphanBound
<1> QED
  BY <1>3, <1>4, <1>5, RoutedInit DEF OInv

LEMMA OrphanStep == TypeOK /\ TypeOK' /\ OInv /\ [Next]_vars => OInv'
<1> SUFFICES ASSUME TypeOK, TypeOK', OInv, [Next]_vars PROVE (DueFinite /\ DueBound /\ OrphanBound)'
  BY RoutedStep DEF OInv
<1>f. \A o \in Owner : IsFiniteSet(Due(o))
  BY DEF OInv, DueFinite
<1>1. ASSUME NEW c \in Clients, Send(c) PROVE (DueFinite /\ DueBound /\ OrphanBound)'
  BY <1>1, SendPays
<1>2. ASSUME NEW c \in Clients, Finish(c) PROVE (DueFinite /\ DueBound /\ OrphanBound)'
  <2>1. Close(c)
    BY <1>2 DEF Finish
  <2> QED
    BY <1>2, <2>1, CloseBounds, FinishPays
<1>3. ASSUME NEW c \in Clients, GiveUp(c) \/ Abort(c)
      PROVE  (DueFinite /\ DueBound /\ OrphanBound)'
  <2>1. Close(c) /\ CountLate(c) /\ want[c] # NoReq
    BY <1>3 DEF GiveUp, Abort
  <2> QED
    BY <2>1, CloseBounds, LeavePays
<1>4. ASSUME backlog' \in {backlog, <<>>}, cur' \in {cur, NoConn}, wire' \in {wire, <<>>},
             rx' \in {rx, <<>>}, UNCHANGED <<inbox, want, late>>
      PROVE  (DueFinite /\ DueBound /\ OrphanBound)'
  <2>1. \A o \in Owner : NoMore(o)
    BY <1>4, <1>f, Empties
  <2> QED
    BY <1>4, <2>1, Kept
<1>5. ASSUME \/ UNCHANGED vars \/ ServeClosed \/ ServeHungUp \/ Quit \/ Restart \/ HangUp
             \/ \E c \in Clients : Refused(c)
      PROVE  (DueFinite /\ DueBound /\ OrphanBound)'
  <2>1. /\ backlog' \in {backlog, <<>>} /\ cur' \in {cur, NoConn} /\ wire' \in {wire, <<>>}
        /\ rx' \in {rx, <<>>} /\ UNCHANGED <<inbox, want, late>>
    BY <1>5 DEF vars, ServeClosed, ServeHungUp, Quit, Restart, HangUp, Refused
  <2> QED
    BY <1>4, <2>1
<1>6. CASE Accept
  <2>1. \A o \in Owner : NoMore(o)
    BY <1>6, <1>f, MovesAccept
  <2> QED
    BY <1>6, <2>1, Kept DEF Accept
<1>7. CASE ServeRequest
  <2>1. \A o \in Owner : NoMore(o)
    BY <1>7, <1>f, MovesServeRequest
  <2> QED
    BY <1>7, <2>1, Kept DEF ServeRequest
<1>8. CASE ServeReply
  <2>1. \A o \in Owner : NoMore(o)
    BY <1>8, <1>f, MovesServeReply
  <2> QED
    BY <1>8, <2>1, Kept DEF ServeReply
<1>9. CASE Crash
  BY <1>9, CrashPays
<1>10. CASE Answer
  <2>1. PICK i \in DOMAIN wire, exc \in BOOLEAN :
          /\ wire' = Without(wire, i)
          /\ rx' = IF Listening THEN rx \o Reply(wire[i], exc) ELSE rx
          /\ UNCHANGED <<want, inbox, backlog, bridge, cur, line, late>>
    BY <1>10 DEF Answer
  <2>2. rx' = rx \o Reply(wire[i], exc) \/ rx' = rx
    BY <2>1
  <2>3. \A o \in Owner : NoMore(o)
    BY <1>f, <2>1, <2>2, MovesWire
  <2> QED
    BY <2>1, <2>3, Kept
<1>11. CASE Lose
  <2>1. PICK i \in DOMAIN wire : wire' = Without(wire, i)
    BY <1>11 DEF Lose
  <2>2. UNCHANGED <<want, inbox, backlog, bridge, cur, line, rx, late>>
    BY <1>11 DEF Lose
  <2>3. TRUE \in BOOLEAN
    OBVIOUS
  <2>4. \A o \in Owner : NoMore(o)
    BY <1>f, <2>1, <2>2, <2>3, MovesWire
  <2> QED
    BY <2>2, <2>4, Kept
<1> QED
  BY <1>1, <1>2, <1>3, <1>5, <1>6, <1>7, <1>8, <1>9, <1>10, <1>11
     DEF Next, Client, Bridge, Serve, Bus

\* Cells nobody asked for never outnumber the longest replies of the clients
\* that left early, however many clients, kinds and controllers there are.
THEOREM OrphansAreBounded == Spec => []OrphanBound
<1>1. Spec => [](TypeOK /\ OInv)
  BY TypeInit, TypeStep, OrphanInit, OrphanStep, PTL DEF Spec
<1>2. OInv => OrphanBound
  BY DEF OInv
<1> QED
  BY <1>1, <1>2, PTL
=============================================================================
