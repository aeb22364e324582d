--------------------------- MODULE HttpServerProofs ---------------------------
(***************************************************************************)
(* Proofs about HTTPServer::process(), for any number of connections, any  *)
(* lines and any handler: a client gets its own page or none.              *)
(***************************************************************************)
EXTENDS HttpServer, SequenceTheorems, WellFoundedInduction, TLAPS

-----------------------------------------------------------------------------
(* The first GET of a request, and of what a request is the beginning of. *)

LEMMA MinIsFirst ==
    ASSUME NEW T, T \subseteq Nat, T # {}
    PROVE  /\ Min(T) \in T /\ \A y \in T : Min(T) <= y
<1> DEFINE R == OpToRel(<, Nat)
<1>1. IsWellFoundedOn(R, Nat)
  BY NatLessThanWellFounded
<1> HIDE DEF R
<1>2. PICK x \in T : \A y \in T : ~ (<<y, x>> \in R)
  BY <1>1, WFMin
<1>3. ASSUME NEW y \in T PROVE x <= y
  <2>1. x \in Nat /\ y \in Nat
    OBVIOUS
  <2>2. ASSUME y < x PROVE <<y, x>> \in R
    BY <2>1, <2>2 DEF R, OpToRel
  <2> QED
    BY <1>2, <2>1, <2>2
<1> QED
  BY <1>3 DEF Min

Gets(s) == {i \in 1 .. Len(s) : s[i] \in Paths}

LEMMA FirstGetIs ==
    ASSUME NEW s
    PROVE  FirstGet(s) = IF Gets(s) # {} THEN Min(Gets(s)) ELSE 0
  BY DEF FirstGet, SelectInSeq, Gets

\* r is the beginning of s; r is the beginning of s and b the rest.
Begins(r, s) == Len(r) <= Len(s) /\ \A i \in 1 .. Len(r) : s[i] = r[i]
Splits(s, r, b) ==
    /\ Len(s) = Len(r) + Len(b)
    /\ \A i \in 1 .. Len(r) : s[i] = r[i]
    /\ \A i \in 1 .. Len(b) : s[Len(r) + i] = b[i]

LEMMA SplitBegins ==
    ASSUME NEW s \in Seq(Lines), NEW r \in Seq(Lines), NEW b \in Seq(Lines), Splits(s, r, b)
    PROVE  Begins(r, s)
  BY DEF Splits, Begins

LEMMA SplitNothing ==
    ASSUME NEW s \in Seq(Lines)
    PROVE  Splits(s, <<>>, s)
  BY DEF Splits

LEMMA SplitSent ==
    ASSUME NEW s \in Seq(Lines), NEW r \in Seq(Lines), NEW b \in Seq(Lines), NEW l \in Lines,
           Splits(s, r, b)
    PROVE  Splits(Append(s, l), r, Append(b, l))
<1> DEFINE S == Append(s, l)
           B == Append(b, l)
<1>1. Len(S) = Len(s) + 1 /\ Len(B) = Len(b) + 1 /\ Len(s) = Len(r) + Len(b)
  BY DEF Splits
<1>2. ASSUME NEW i \in 1 .. Len(r) PROVE S[i] = r[i]
  BY DEF Splits
<1>3. ASSUME NEW i \in 1 .. Len(B) PROVE S[Len(r) + i] = B[i]
  <2>1. CASE i = Len(B)
    BY <1>1, <2>1
  <2>2. CASE i # Len(B)
    <3>1. i \in 1 .. Len(b) /\ Len(r) + i \in 1 .. Len(s)
      BY <1>1, <2>2
    <3>2. S[Len(r) + i] = s[Len(r) + i] /\ B[i] = b[i]
      BY <3>1
    <3> QED
      BY <3>1, <3>2 DEF Splits
  <2> QED
    BY <2>1, <2>2
<1>4. Len(S) = Len(r) + Len(B)
  BY <1>1
<1> HIDE DEF S, B
<1>5. Splits(S, r, B)
  BY <1>2, <1>3, <1>4 DEF Splits
<1> QED
  BY <1>5 DEF S, B

LEMMA SplitRead ==
    ASSUME NEW s \in Seq(Lines), NEW r \in Seq(Lines), NEW b \in Seq(Lines), b # <<>>,
           Splits(s, r, b)
    PROVE  Splits(s, Append(r, Head(b)), Tail(b))
<1> DEFINE R == Append(r, Head(b))
           B == Tail(b)
<1>1. /\ Len(R) = Len(r) + 1 /\ Len(B) = Len(b) - 1 /\ Len(b) >= 1
      /\ Len(s) = Len(r) + Len(b) /\ Head(b) = b[1]
  BY DEF Splits
<1>2. ASSUME NEW i \in 1 .. Len(R) PROVE s[i] = R[i]
  <2>1. CASE i = Len(R)
    BY <1>1, <2>1 DEF Splits
  <2>2. CASE i # Len(R)
    BY <1>1, <2>2 DEF Splits
  <2> QED
    BY <2>1, <2>2
<1>3. ASSUME NEW i \in 1 .. Len(B) PROVE s[Len(R) + i] = B[i]
  <2>1. B[i] = b[i + 1] /\ i + 1 \in 1 .. Len(b)
    BY <1>1
  <2>2. Len(R) + i = Len(r) + (i + 1)
    BY <1>1
  <2> QED
    BY <2>1, <2>2 DEF Splits
<1> QED
  BY <1>1, <1>2, <1>3 DEF Splits

LEMMA BeginsAppend ==
    ASSUME NEW s \in Seq(Lines), NEW r \in Seq(Lines), NEW l \in Lines, Begins(r, s)
    PROVE  Begins(r, Append(s, l))
  BY DEF Begins

\* More lines do not change which GET is the first.
LEMMA FirstGetStays ==
    ASSUME NEW s \in Seq(Lines), NEW r \in Seq(Lines), Begins(r, s), FirstGet(r) # 0
    PROVE  /\ FirstGet(s) = FirstGet(r)
           /\ FirstGet(r) \in 1 .. Len(r) /\ r[FirstGet(r)] \in Paths
           /\ s[FirstGet(r)] = r[FirstGet(r)]
<1>1. Gets(r) # {} /\ FirstGet(r) = Min(Gets(r))
  BY FirstGetIs
<1>2. Gets(r) \subseteq Nat /\ Gets(s) \subseteq Nat
  BY DEF Gets
<1>3. /\ FirstGet(r) \in Gets(r) /\ \A i \in Gets(r) : FirstGet(r) <= i
  BY <1>1, <1>2, MinIsFirst
<1>4. FirstGet(r) \in Gets(s)
  BY <1>3 DEF Gets, Begins
<1>5. ASSUME NEW i \in Gets(s) PROVE FirstGet(r) <= i
  <2>1. CASE i <= Len(r)
    <3>1. i \in Gets(r)
      BY <2>1 DEF Gets, Begins
    <3> QED
      BY <1>3, <3>1
  <2>2. CASE ~(i <= Len(r))
    <3>1. FirstGet(r) \in 1 .. Len(r) /\ i \in Nat
      BY <1>2, <1>3 DEF Gets
    <3> QED
      BY <2>2, <3>1
  <2> QED
    BY <2>1, <2>2
<1>6. FirstGet(s) = Min(Gets(s))
  BY <1>4, FirstGetIs
<1>7. Min(Gets(s)) \in Gets(s) /\ \A i \in Gets(s) : Min(Gets(s)) <= i
  BY <1>2, <1>4, MinIsFirst
<1>8. Min(Gets(s)) <= FirstGet(r) /\ FirstGet(r) <= Min(Gets(s))
  BY <1>4, <1>5, <1>7
<1>9. Min(Gets(s)) \in Nat /\ FirstGet(r) \in Nat
  BY <1>2, <1>4, <1>7
<1>10. FirstGet(s) = FirstGet(r)
  BY <1>6, <1>8, <1>9
<1> QED
  BY <1>3, <1>10 DEF Gets, Begins

-----------------------------------------------------------------------------
(* The invariant. *)

\* One connection is served or none, the others wait, none of them twice.
Serving ==
    /\ srv \in {"accept", "down"} => conn = NoConn
    /\ srv \notin {"accept", "down"} => conn \in Conns /\ \A i \in 1 .. Len(queue) : queue[i] # conn
    /\ \A i, j \in 1 .. Len(queue) : queue[i] = queue[j] => i = j

\* What has been read and what has not are what the client sent.
ReadSoFar ==
    /\ \A i \in 1 .. Len(queue) : inbox[queue[i]] = sent[queue[i]]
    /\ srv = "read" => Splits(sent[conn], request, inbox[conn])
    /\ srv = "answer" => Begins(request, sent[conn])

IInv == TypeOK /\ Serving /\ ReadSoFar /\ OwnPage

LEMMA Answering ==
    /\ None \in Answers /\ Error \in Answers /\ Reset \in Answers
    /\ None.code \notin {"200", "404"} /\ Error.code \notin {"200", "404"}
    /\ Reset.code \notin {"200", "404"}
    /\ \A p \in Paths : Outcome[p] # "throws" => [code |-> Outcome[p], path |-> p] \in Answers
  BY HttpAssumption DEF None, Error, Reset, Answers

LEMMA InitHolds == Init => IInv
<1> SUFFICES ASSUME Init PROVE IInv
  OBVIOUS
<1>1. TypeOK
  BY Answering DEF Init, TypeOK
<1>2. Serving
  BY DEF Init, Serving
<1>3. ReadSoFar
  BY DEF Init, ReadSoFar
<1>4. OwnPage
  BY Answering DEF Init, OwnPage
<1> QED
  BY <1>1, <1>2, <1>3, <1>4 DEF IInv

LEMMA Had ==
    ASSUME IInv
    PROVE  /\ srv \in {"accept", "read", "answer", "linger", "down"}
           /\ conn \in Conns \union {NoConn}
           /\ request \in Seq(Lines) /\ queue \in Seq(Conns)
           /\ open \in [Conns -> BOOLEAN]
           /\ inbox \in [Conns -> Seq(Lines)] /\ sent \in [Conns -> Seq(Lines)]
           /\ answer \in [Conns -> Answers]
           /\ Serving /\ ReadSoFar /\ OwnPage /\ NoConn \notin Conns
           /\ \A i \in 1 .. Len(queue) : queue[i] \in Conns
  BY HttpAssumption DEF IInv, TypeOK

LEMMA ConnectStep == ASSUME IInv, NEW c \in Conns, Connect(c) PROVE IInv'
<1>1. c # conn /\ \A i \in 1 .. Len(queue) : queue[i] # c
  BY Had DEF Connect, Pending, Contains
<1>2. queue' = Append(queue, c) /\ UNCHANGED <<srv, conn, request>>
  BY DEF Connect
<1>3. /\ \A i \in 1 .. Len(queue) : queue'[i] = queue[i]
      /\ queue'[Len(queue) + 1] = c
      /\ Len(queue') = Len(queue) + 1 /\ queue' \in Seq(Conns)
  BY <1>2, Had
<1>4. /\ inbox'[c] = <<>> /\ sent'[c] = <<>> /\ answer'[c] = None
      /\ \A d \in Conns \ {c} : /\ inbox'[d] = inbox[d] /\ sent'[d] = sent[d]
                                /\ answer'[d] = answer[d]
      /\ inbox' \in [Conns -> Seq(Lines)] /\ sent' \in [Conns -> Seq(Lines)]
  BY Had DEF Connect
<1>5. TypeOK'
  <2>1. open' \in [Conns -> BOOLEAN]
    BY Had DEF Connect
  <2>2. answer' \in [Conns -> Answers]
    BY Had, Answering DEF Connect
  <2> QED
    BY <1>2, <1>3, <1>4, <2>1, <2>2, Had DEF TypeOK
<1>6. Serving'
  <2>1. \A i, j \in 1 .. Len(queue') : queue'[i] = queue'[j] => i = j
    <3> SUFFICES ASSUME NEW i \in 1 .. Len(queue'), NEW j \in 1 .. Len(queue'),
                        queue'[i] = queue'[j]
                 PROVE  i = j
      OBVIOUS
    <3>1. (i \in 1 .. Len(queue) \/ i = Len(queue) + 1) /\ (j \in 1 .. Len(queue) \/ j = Len(queue) + 1)
      BY SMTT(30), <1>3, Had
    <3> QED
      BY <1>1, <1>3, <3>1, Had DEF Serving
  <2>2. conn \in Conns => c # conn
    BY <1>1
  <2>3. ASSUME srv \notin {"accept", "down"}, NEW i \in 1 .. Len(queue') PROVE queue'[i] # conn
    <3>1. i \in 1 .. Len(queue) \/ i = Len(queue) + 1
      BY <1>3, Had
    <3> QED
      BY <1>1, <1>3, <2>3, <3>1, Had DEF Serving
  <2> QED
    BY <1>2, <2>1, <2>3, Had DEF Serving
<1>7. ReadSoFar'
  <2>1. ASSUME NEW i \in 1 .. Len(queue') PROVE inbox'[queue'[i]] = sent'[queue'[i]]
    <3>1. CASE i = Len(queue) + 1
      BY <1>3, <1>4, <3>1
    <3>2. CASE i # Len(queue) + 1
      <4>1. i \in 1 .. Len(queue)
        BY <1>3, <3>2, Had
      <4>2. queue'[i] = queue[i] /\ queue[i] \in Conns \ {c} /\ inbox[queue[i]] = sent[queue[i]]
        BY <1>1, <1>3, <4>1, Had DEF ReadSoFar
      <4> QED
        BY <1>4, <4>2
    <3> QED
      BY <3>1, <3>2
  <2>2. ASSUME srv \notin {"accept", "down"}
        PROVE  inbox'[conn] = inbox[conn] /\ sent'[conn] = sent[conn]
    <3>1. conn \in Conns \ {c}
      BY <1>1, <2>2, Had DEF Serving
    <3> QED
      BY <1>4, <3>1
  <2> QED
    BY <1>2, <2>1, <2>2, Had DEF ReadSoFar
<1>8. OwnPage'
  BY <1>4, Answering, Had DEF OwnPage
<1> QED
  BY <1>5, <1>6, <1>7, <1>8 DEF IInv

LEMMA SendLineStep == ASSUME IInv, NEW c \in Conns, SendLine(c) PROVE IInv'
<1>1. PICK l \in Lines : /\ inbox' = [inbox EXCEPT ![c] = Append(@, l)]
                         /\ sent' = [sent EXCEPT ![c] = Append(@, l)]
  BY DEF SendLine
<1>2. UNCHANGED <<srv, conn, request, queue, open, answer>>
  BY DEF SendLine
<1>3. /\ inbox[c] \in Seq(Lines) /\ sent[c] \in Seq(Lines)
      /\ inbox'[c] = Append(inbox[c], l) /\ sent'[c] = Append(sent[c], l)
      /\ \A d \in Conns \ {c} : inbox'[d] = inbox[d] /\ sent'[d] = sent[d]
  BY <1>1, Had
<1>4. inbox' \in [Conns -> Seq(Lines)] /\ sent' \in [Conns -> Seq(Lines)]
  <2>1. Append(inbox[c], l) \in Seq(Lines) /\ Append(sent[c], l) \in Seq(Lines)
    BY <1>3
  <2> QED
    BY <1>1, <2>1, Had
<1>5. TypeOK'
  BY <1>2, <1>4, Had DEF TypeOK
<1>6. Serving'
  BY <1>2, Had DEF Serving
<1>7. ReadSoFar'
  <2>1. ASSUME NEW i \in 1 .. Len(queue) PROVE inbox'[queue[i]] = sent'[queue[i]]
    <3>1. queue[i] \in Conns /\ inbox[queue[i]] = sent[queue[i]]
      BY Had DEF ReadSoFar
    <3> QED
      BY <1>3, <3>1
  <2>2. ASSUME srv = "read" PROVE Splits(sent'[conn], request, inbox'[conn])
    <3>1. conn \in Conns /\ Splits(sent[conn], request, inbox[conn])
      BY <2>2, Had DEF Serving, ReadSoFar
    <3>2. CASE conn = c
      <4>1. Splits(sent[c], request, inbox[c]) /\ request \in Seq(Lines)
        BY <3>1, <3>2, Had
      <4>2. Splits(Append(sent[c], l), request, Append(inbox[c], l))
        BY <1>3, <4>1, SplitSent
      <4> QED
        BY <1>3, <3>2, <4>2
    <3>3. CASE conn # c
      BY <1>3, <3>1, <3>3
    <3> QED
      BY <3>2, <3>3
  <2>3. ASSUME srv = "answer" PROVE Begins(request, sent'[conn])
    <3>1. conn \in Conns /\ Begins(request, sent[conn])
      BY <2>3, Had DEF Serving, ReadSoFar
    <3>2. CASE conn = c
      <4>1. Begins(request, sent[c]) /\ request \in Seq(Lines)
        BY <3>1, <3>2, Had
      <4>2. Begins(request, Append(sent[c], l))
        BY <1>3, <4>1, BeginsAppend
      <4> QED
        BY <1>3, <3>2, <4>2
    <3>3. CASE conn # c
      BY <1>3, <3>1, <3>3
    <3> QED
      BY <3>2, <3>3
  <2> QED
    BY <1>2, <2>1, <2>2, <2>3 DEF ReadSoFar
<1>8. OwnPage'
  <2> SUFFICES ASSUME NEW d \in Conns, answer[d].code \in {"200", "404"}
               PROVE  /\ FirstGet(sent'[d]) # 0
                      /\ answer[d] = [code |-> Outcome[sent'[d][FirstGet(sent'[d])]],
                                      path |-> sent'[d][FirstGet(sent'[d])]]
    BY <1>2 DEF OwnPage
  <2>1. /\ FirstGet(sent[d]) # 0
        /\ answer[d] = [code |-> Outcome[sent[d][FirstGet(sent[d])]],
                        path |-> sent[d][FirstGet(sent[d])]]
    BY Had DEF OwnPage
  <2>2. CASE d = c
    <3>1. Begins(sent[c], Append(sent[c], l)) /\ Append(sent[c], l) \in Seq(Lines)
      BY <1>3 DEF Begins
    <3>2. /\ FirstGet(sent'[c]) = FirstGet(sent[c])
          /\ sent'[c][FirstGet(sent[c])] = sent[c][FirstGet(sent[c])]
      <4>1. FirstGet(sent[c]) # 0 /\ sent[c] \in Seq(Lines)
        BY <1>3, <2>1, <2>2
      <4>2. /\ FirstGet(Append(sent[c], l)) = FirstGet(sent[c])
            /\ Append(sent[c], l)[FirstGet(sent[c])] = sent[c][FirstGet(sent[c])]
        BY <3>1, <4>1, FirstGetStays
      <4> QED
        BY <1>3, <4>2
    <3> QED
      BY <2>1, <2>2, <3>2
  <2>3. CASE d # c
    BY <1>3, <2>1, <2>3
  <2> QED
    BY <2>2, <2>3
<1> QED
  BY <1>5, <1>6, <1>7, <1>8 DEF IInv

LEMMA HangUpStep == ASSUME IInv, NEW c \in Conns, HangUp(c) PROVE IInv'
<1>1. UNCHANGED <<srv, conn, request, queue, inbox, sent, answer>>
  BY DEF HangUp
<1>2. open' \in [Conns -> BOOLEAN]
  BY Had DEF HangUp
<1>3. TypeOK'
  BY <1>1, <1>2, Had DEF TypeOK
<1>4. Serving' /\ ReadSoFar' /\ OwnPage'
  BY <1>1, Had DEF Serving, ReadSoFar, OwnPage
<1> QED
  BY <1>3, <1>4 DEF IInv

LEMMA AcceptStep == ASSUME IInv, Accept PROVE IInv'
<1>1. /\ srv = "accept" /\ srv' = "read" /\ request' = <<>>
      /\ conn' = Head(queue) /\ queue' = Tail(queue)
      /\ UNCHANGED <<open, inbox, sent, answer>>
  BY DEF Accept
<1>2. /\ Len(queue) >= 1 /\ conn' = queue[1] /\ queue[1] \in Conns
      /\ queue' \in Seq(Conns) /\ Len(queue') = Len(queue) - 1
      /\ \A i \in 1 .. Len(queue') : queue'[i] = queue[i + 1] /\ i + 1 \in 1 .. Len(queue)
  BY Had DEF Accept
<1>3. request' \in Seq(Lines)
  BY <1>1
<1>4. TypeOK'
  BY <1>1, <1>2, <1>3, Had DEF TypeOK
<1>5. Serving'
  <2>1. ASSUME NEW i \in 1 .. Len(queue') PROVE queue'[i] # conn'
    <3>1. 1 \in 1 .. Len(queue) /\ i + 1 # 1
      BY <1>2, Had
    <3> QED
      BY <1>2, <3>1, Had DEF Serving
  <2>2. ASSUME NEW i \in 1 .. Len(queue'), NEW j \in 1 .. Len(queue'), queue'[i] = queue'[j]
        PROVE  i = j
    <3>1. i + 1 = j + 1
      BY <1>2, <2>2, Had DEF Serving
    <3> QED
      BY <1>2, <3>1
  <2> QED
    BY <1>1, <1>2, <2>1, <2>2 DEF Serving
<1>6. ReadSoFar'
  <2>1. inbox[queue[1]] = sent[queue[1]] /\ sent[queue[1]] \in Seq(Lines)
    <3>1. 1 \in 1 .. Len(queue)
      BY <1>2, Had
    <3> QED
      BY <1>2, <3>1, Had DEF ReadSoFar
  <2>2. Splits(sent'[conn'], request', inbox'[conn'])
    BY <1>1, <1>2, <2>1, SplitNothing
  <2>3. \A i \in 1 .. Len(queue') : inbox'[queue'[i]] = sent'[queue'[i]]
    BY <1>1, <1>2, Had DEF ReadSoFar
  <2> QED
    BY <1>1, <2>2, <2>3 DEF ReadSoFar
<1>7. OwnPage'
  BY <1>1, Had DEF OwnPage
<1> QED
  BY <1>4, <1>5, <1>6, <1>7 DEF IInv

LEMMA ReadLineStep == ASSUME IInv, ReadLine PROVE IInv'
<1>1. /\ srv = "read" /\ srv' \in {"read", "answer"} /\ inbox[conn] # <<>>
      /\ inbox' = [inbox EXCEPT ![conn] = Tail(@)]
      /\ UNCHANGED <<conn, queue, open, sent, answer>>
  BY DEF ReadLine
<1>2. /\ conn \in Conns /\ inbox[conn] \in Seq(Lines) /\ sent[conn] \in Seq(Lines)
      /\ Splits(sent[conn], request, inbox[conn]) /\ request \in Seq(Lines)
      /\ \A i \in 1 .. Len(queue) : queue[i] # conn
  BY <1>1, Had DEF Serving, ReadSoFar
<1>3. /\ Tail(inbox[conn]) \in Seq(Lines) /\ Head(inbox[conn]) \in Lines
      /\ Append(request, Head(inbox[conn])) \in Seq(Lines)
  BY <1>1, <1>2
<1>4. /\ inbox' \in [Conns -> Seq(Lines)] /\ inbox'[conn] = Tail(inbox[conn])
      /\ \A d \in Conns \ {conn} : inbox'[d] = inbox[d]
  BY <1>1, <1>2, <1>3, Had
<1>5. request' \in Seq(Lines)
  BY <1>2, <1>3 DEF ReadLine
<1>6. TypeOK'
  BY <1>1, <1>4, <1>5, Had DEF TypeOK
<1>7. Serving'
  BY <1>1, Had DEF Serving
<1>8. ReadSoFar'
  <2>1. \A i \in 1 .. Len(queue) : inbox'[queue[i]] = sent[queue[i]]
    BY <1>2, <1>4, Had DEF ReadSoFar
  <2>2. CASE srv' = "read"
    <3>1. request' = Append(request, Head(inbox[conn]))
      BY <1>1, <2>2 DEF ReadLine
    <3>2. Splits(sent[conn], request', inbox'[conn])
      BY <1>1, <1>2, <1>4, <3>1, SplitRead
    <3> QED
      BY <1>1, <2>1, <2>2, <3>2 DEF ReadSoFar
  <2>3. CASE srv' = "answer"
    <3>1. request' = request
      BY <1>1, <2>3 DEF ReadLine
    <3>2. Begins(request, sent[conn])
      BY <1>2, SplitBegins
    <3> QED
      BY <1>1, <2>1, <2>3, <3>1, <3>2 DEF ReadSoFar
  <2> QED
    BY <1>1, <2>2, <2>3
<1>9. OwnPage'
  BY <1>1, Had DEF OwnPage
<1> QED
  BY <1>6, <1>7, <1>8, <1>9 DEF IInv

LEMMA ReadEndsStep == ASSUME IInv, ReadEnds PROVE IInv'
<1>1. /\ srv = "read" /\ srv' = "answer"
      /\ UNCHANGED <<conn, request, queue, open, inbox, sent, answer>>
  BY DEF ReadEnds
<1>2. Begins(request, sent[conn])
  <2>1. /\ conn \in Conns /\ inbox[conn] \in Seq(Lines) /\ sent[conn] \in Seq(Lines)
        /\ Splits(sent[conn], request, inbox[conn]) /\ request \in Seq(Lines)
    BY <1>1, Had DEF Serving, ReadSoFar
  <2> QED
    BY <2>1, SplitBegins
<1>3. TypeOK'
  BY <1>1, Had DEF TypeOK
<1>4. Serving' /\ ReadSoFar' /\ OwnPage'
  BY <1>1, <1>2, Had DEF Serving, ReadSoFar, OwnPage
<1> QED
  BY <1>3, <1>4 DEF IInv

LEMMA AnswerStep == ASSUME IInv, Answer PROVE IInv'
<1> DEFINE i == FirstGet(request)
           a == IF i = 0 THEN Error ELSE [code |-> Outcome[request[i]], path |-> request[i]]
<1>1. /\ srv = "answer" /\ srv' = "linger" /\ a.code # "throws"
      /\ answer' = IF open[conn] THEN [answer EXCEPT ![conn] = a] ELSE answer
      /\ UNCHANGED <<conn, request, queue, open, inbox, sent>>
  BY DEF Answer
<1>2. /\ conn \in Conns /\ Begins(request, sent[conn])
      /\ request \in Seq(Lines) /\ sent[conn] \in Seq(Lines)
  BY <1>1, Had DEF Serving, ReadSoFar
<1>3. CASE i = 0
  <2>1. a = Error
    BY <1>3
  <2> HIDE DEF i, a
  <2>2. answer' \in [Conns -> Answers] /\ OwnPage'
    BY <1>1, <1>2, <2>1, Answering, Had DEF OwnPage
  <2>3. TypeOK'
    BY <1>1, <2>2, Had DEF TypeOK
  <2>4. Serving' /\ ReadSoFar'
    BY <1>1, Had DEF Serving, ReadSoFar
  <2> QED
    BY <2>2, <2>3, <2>4 DEF IInv
<1>4. CASE i # 0
  <2>1. /\ FirstGet(sent[conn]) = i /\ request[i] \in Paths
        /\ sent[conn][i] = request[i]
    BY <1>2, <1>4, FirstGetStays
  <2>2. a = [code |-> Outcome[request[i]], path |-> request[i]]
    BY <1>4
  <2>3. a \in Answers
    <3>1. Outcome[request[i]] # "throws"
      BY <1>1, <2>2
    <3> QED
      BY <2>1, <2>2, <3>1, Answering
  <2> HIDE DEF i, a
  <2>4. answer' \in [Conns -> Answers]
    BY <1>1, <1>2, <2>3, Had
  <2>5. OwnPage'
    <3> SUFFICES ASSUME NEW d \in Conns, answer'[d].code \in {"200", "404"}
                 PROVE  /\ FirstGet(sent[d]) # 0
                        /\ answer'[d] = [code |-> Outcome[sent[d][FirstGet(sent[d])]],
                                         path |-> sent[d][FirstGet(sent[d])]]
      BY <1>1 DEF OwnPage
    <3>1. CASE d = conn /\ open[conn]
      <4>1. answer'[d] = a
        BY <1>1, <1>2, <3>1, Had
      <4> QED
        BY <1>4, <2>1, <2>2, <3>1, <4>1
    <3>2. CASE ~(d = conn /\ open[conn])
      <4>1. answer'[d] = answer[d]
        BY <1>1, <1>2, <3>2, Had
      <4> QED
        BY <4>1, Had DEF OwnPage
    <3> QED
      BY <3>1, <3>2
  <2>6. TypeOK'
    BY <1>1, <2>4, Had DEF TypeOK
  <2>7. Serving' /\ ReadSoFar'
    BY <1>1, Had DEF Serving, ReadSoFar
  <2> QED
    BY <2>5, <2>6, <2>7 DEF IInv
<1> QED
  BY <1>3, <1>4

LEMMA LingerStep == ASSUME IInv, Linger PROVE IInv'
<1>1. /\ srv = "linger" /\ srv' = "accept" /\ conn' = NoConn
      /\ inbox' = [inbox EXCEPT ![conn] = <<>>]
      /\ UNCHANGED <<request, queue, open, sent, answer>>
  BY DEF Linger
<1>2. conn \in Conns /\ \A i \in 1 .. Len(queue) : queue[i] # conn
  BY <1>1, Had DEF Serving
<1>3. inbox' \in [Conns -> Seq(Lines)] /\ \A d \in Conns \ {conn} : inbox'[d] = inbox[d]
  <2>1. <<>> \in Seq(Lines)
    OBVIOUS
  <2> QED
    BY <1>1, <1>2, <2>1, Had
<1>4. TypeOK'
  BY <1>1, <1>3, Had DEF TypeOK
<1>5. Serving'
  BY <1>1, Had DEF Serving
<1>6. ReadSoFar'
  BY <1>1, <1>2, <1>3, Had DEF ReadSoFar
<1>7. OwnPage'
  BY <1>1, Had DEF OwnPage
<1> QED
  BY <1>4, <1>5, <1>6, <1>7 DEF IInv

LEMMA ThrowStep == ASSUME IInv, Throw PROVE IInv'
<1>1. /\ srv' = "down" /\ conn' = NoConn /\ queue' = <<>> /\ request' = <<>> /\ sent' = sent
      /\ answer' = [c \in Conns |-> IF Pending(c) /\ open[c] THEN Reset ELSE answer[c]]
      /\ inbox' = [c \in Conns |-> IF Pending(c) THEN <<>> ELSE inbox[c]]
      /\ open' = [c \in Conns |-> open[c] /\ ~Pending(c)]
  BY DEF Throw
<1>2. queue' \in Seq(Conns) /\ request' \in Seq(Lines) /\ Len(queue') = 0
  BY <1>1
<1>3. inbox' \in [Conns -> Seq(Lines)]
  <2>1. <<>> \in Seq(Lines)
    OBVIOUS
  <2> QED
    BY <1>1, <2>1, Had
<1>4. answer' \in [Conns -> Answers]
  BY <1>1, Answering, Had
<1>5. open' \in [Conns -> BOOLEAN]
  BY <1>1
<1>6. TypeOK'
  BY <1>1, <1>2, <1>3, <1>4, <1>5, Had DEF TypeOK
<1>7. Serving' /\ ReadSoFar'
  BY <1>1, <1>2 DEF Serving, ReadSoFar
<1>8. OwnPage'
  <2> SUFFICES ASSUME NEW d \in Conns, answer'[d].code \in {"200", "404"}
               PROVE  answer'[d] = answer[d]
    BY <1>1, Had DEF OwnPage
  <2> QED
    BY <1>1, Answering
<1> QED
  BY <1>6, <1>7, <1>8 DEF IInv

LEMMA RestartStep == ASSUME IInv, Restart \/ UNCHANGED vars PROVE IInv'
<1>1. /\ UNCHANGED <<conn, request, queue, open, inbox, sent, answer>>
      /\ srv' = srv \/ (srv = "down" /\ srv' = "accept")
  BY DEF Restart, vars
<1>2. TypeOK'
  BY <1>1, Had DEF TypeOK
<1>3. Serving' /\ ReadSoFar' /\ OwnPage'
  BY <1>1, Had DEF Serving, ReadSoFar, OwnPage
<1> QED
  BY <1>2, <1>3 DEF IInv

LEMMA InductiveStep == ASSUME IInv, [Next]_vars PROVE IInv'
<1>1. ASSUME NEW c \in Conns, Client(c) PROVE IInv'
  BY <1>1, ConnectStep, SendLineStep, HangUpStep DEF Client
<1>2. CASE Server
  BY <1>2, AcceptStep, ReadLineStep, ReadEndsStep, AnswerStep, LingerStep, ThrowStep, RestartStep
     DEF Server
<1>3. CASE UNCHANGED vars
  BY <1>3, RestartStep
<1> QED
  BY <1>1, <1>2, <1>3 DEF Next

-----------------------------------------------------------------------------
THEOREM Invariance == Spec => []IInv
<1>1. Init => IInv
  BY InitHolds
<1>2. IInv /\ [Next]_vars => IInv'
  BY InductiveStep
<1> QED
  BY <1>1, <1>2, PTL DEF Spec

\* The types of the server and its clients.
THEOREM TypeCorrect == Spec => []TypeOK
BY Invariance, PTL DEF IInv

\* However many clients connect, stall, send on and hang up, and whatever the
\* handler does: a page answers the first GET its client sent.
THEOREM PagesAreOwn == Spec => []OwnPage
BY Invariance, PTL DEF IInv
=============================================================================
