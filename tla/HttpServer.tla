----------------------------- MODULE HttpServer -----------------------------
(***************************************************************************)
(* The HTTP server of the services: HTTPServer::process() takes one        *)
(* connection, reads its request line by line, answers it, waits for the   *)
(* client to hang up and closes it; only then comes the next.              *)
(*                                                                         *)
(* A request is a sequence of lines: a GET of some path, other lines, an   *)
(* empty one.  readLine() gives up after a second without a character; the *)
(* request then is what has been read so far.  What a handler does with a  *)
(* path is a constant: a page, no page, or an exception nobody catches.    *)
(***************************************************************************)
EXTENDS Naturals, Sequences, SequencesExt

CONSTANTS
    Conns,       \* connections
    Paths,       \* what a GET may ask for
    Outcome,     \* Outcome[p]: "200", "404" or "throws"
    Text, Blank, \* a line that is no GET; the empty line
    Backlog,     \* connections the listening socket holds
    MaxLines,    \* bound: lines a client sends on a connection
    NoConn

ASSUME HttpAssumption ==
    /\ Outcome \in [Paths -> {"200", "404", "throws"}]
    /\ Text \notin Paths /\ Blank \notin Paths /\ Text # Blank
    /\ NoConn \notin Conns
    /\ Backlog \in Nat /\ MaxLines \in Nat

Lines == Paths \union {Text, Blank}

VARIABLES
    srv,      \* "accept", "read", "answer", "linger" or "down"
    conn,     \* the connection being served
    request,  \* the lines of its request read so far
    queue,    \* connections not yet accepted
    open,     \* open[c]: the client has connected and not hung up
    inbox,    \* inbox[c]: lines received and not yet read
    sent,     \* sent[c]: all lines the client sent
    answer    \* answer[c]: what the client got

vars == <<srv, conn, request, queue, open, inbox, sent, answer>>

None  == [code |-> "none", path |-> Text]
Error == [code |-> "500", path |-> Text]
Reset == [code |-> "reset", path |-> Text]
Answers == {None, Error, Reset} \union [code : {"200", "404"}, path : Paths]

TypeOK ==
    /\ srv \in {"accept", "read", "answer", "linger", "down"}
    /\ conn \in Conns \union {NoConn}
    /\ request \in Seq(Lines) /\ queue \in Seq(Conns)
    /\ open \in [Conns -> BOOLEAN]
    /\ inbox \in [Conns -> Seq(Lines)] /\ sent \in [Conns -> Seq(Lines)]
    /\ answer \in [Conns -> Answers]

Init ==
    /\ srv = "accept" /\ conn = NoConn /\ request = <<>> /\ queue = <<>>
    /\ open = [c \in Conns |-> FALSE]
    /\ inbox = [c \in Conns |-> <<>>] /\ sent = [c \in Conns |-> <<>>]
    /\ answer = [c \in Conns |-> None]

-----------------------------------------------------------------------------
(* The clients. *)

Pending(c) == c = conn \/ Contains(queue, c)

Connect(c) ==
    /\ ~open[c] /\ ~Pending(c)
    /\ srv # "down" /\ Len(queue) < Backlog
    /\ open' = [open EXCEPT ![c] = TRUE]
    /\ queue' = Append(queue, c)
    /\ inbox' = [inbox EXCEPT ![c] = <<>>] /\ sent' = [sent EXCEPT ![c] = <<>>]
    /\ answer' = [answer EXCEPT ![c] = None]
    /\ UNCHANGED <<srv, conn, request>>

SendLine(c) ==
    /\ open[c] /\ Len(sent[c]) < MaxLines
    /\ \E l \in Lines :
          /\ inbox' = [inbox EXCEPT ![c] = Append(@, l)]
          /\ sent' = [sent EXCEPT ![c] = Append(@, l)]
    /\ UNCHANGED <<srv, conn, request, queue, open, answer>>

HangUp(c) ==
    /\ open[c]
    /\ open' = [open EXCEPT ![c] = FALSE]
    /\ UNCHANGED <<srv, conn, request, queue, inbox, sent, answer>>

-----------------------------------------------------------------------------
(* The server: HTTPServer::process. *)

\* Mutant: the vector of lines outlives the request.
Accept_KeepsRequest ==
    /\ srv = "accept" /\ queue # <<>>
    /\ conn' = Head(queue) /\ queue' = Tail(queue)
    /\ srv' = "read"
    /\ UNCHANGED <<request, open, inbox, sent, answer>>

Accept ==
    /\ srv = "accept" /\ queue # <<>>
    /\ conn' = Head(queue) /\ queue' = Tail(queue)
    /\ request' = <<>>
    /\ srv' = "read"
    /\ UNCHANGED <<open, inbox, sent, answer>>

ReadLine ==
    /\ srv = "read" /\ inbox[conn] # <<>>
    /\ LET line == Head(inbox[conn])
       IN  IF line = Blank
           THEN srv' = "answer" /\ UNCHANGED request
           ELSE request' = Append(request, line) /\ UNCHANGED srv
    /\ inbox' = [inbox EXCEPT ![conn] = Tail(@)]
    /\ UNCHANGED <<conn, queue, open, sent, answer>>

\* Mutant: a client that is silent is waited for.
ReadEnds_AtEof ==
    /\ srv = "read" /\ inbox[conn] = <<>> /\ ~open[conn]
    /\ srv' = "answer"
    /\ UNCHANGED <<conn, request, queue, open, inbox, sent, answer>>

\* No character for a second, or the end of file, which reads as an empty line.
ReadEnds ==
    /\ srv = "read" /\ inbox[conn] = <<>>
    /\ srv' = "answer"
    /\ UNCHANGED <<conn, request, queue, open, inbox, sent, answer>>

\* The line process() looks for, 0 when there is none.
FirstGet(lines) == SelectInSeq(lines, LAMBDA l : l \in Paths)

\* No GET is an error of the server; a GET goes to the handler.
Answer ==
    /\ srv = "answer"
    /\ LET i == FirstGet(request)
           a == IF i = 0 THEN Error
                ELSE [code |-> Outcome[request[i]], path |-> request[i]]
       IN  /\ a.code # "throws"
           /\ answer' = IF open[conn] THEN [answer EXCEPT ![conn] = a] ELSE answer
    /\ srv' = "linger"
    /\ UNCHANGED <<conn, request, queue, open, inbox, sent>>

\* TCP::waitForHangup(): what still comes is read and dropped.
Linger ==
    /\ srv = "linger" /\ ~open[conn]
    /\ inbox' = [inbox EXCEPT ![conn] = <<>>]
    /\ conn' = NoConn /\ srv' = "accept"
    /\ UNCHANGED <<request, queue, open, sent, answer>>

\* The exception of the handler ends the process, and every connection with it.
Throw ==
    /\ srv = "answer"
    /\ LET i == FirstGet(request) IN i # 0 /\ Outcome[request[i]] = "throws"
    /\ answer' = [c \in Conns |-> IF Pending(c) /\ open[c] THEN Reset ELSE answer[c]]
    /\ open' = [c \in Conns |-> open[c] /\ ~Pending(c)]
    /\ inbox' = [c \in Conns |-> IF Pending(c) THEN <<>> ELSE inbox[c]]
    /\ conn' = NoConn /\ queue' = <<>> /\ request' = <<>> /\ srv' = "down"
    /\ UNCHANGED sent

\* Task::main forks the service again.
Restart ==
    /\ srv = "down"
    /\ srv' = "accept"
    /\ UNCHANGED <<conn, request, queue, open, inbox, sent, answer>>

Client(c) == Connect(c) \/ SendLine(c) \/ HangUp(c)
Server == Accept \/ ReadLine \/ ReadEnds \/ Answer \/ Linger \/ Throw \/ Restart
Next == Server \/ \E c \in Conns : Client(c)

\* The server runs; "Connection: close" makes a client that has its answer hang
\* up.  Nobody has to send anything.
Spec == Init /\ [][Next]_vars /\ WF_vars(Server)
             /\ \A c \in Conns : WF_vars(answer[c] # None /\ HangUp(c))

-----------------------------------------------------------------------------
(* Properties. *)

\* A client gets the page of the first GET it sent itself, never a page of the
\* request before, and no page when it sent no GET; also when it stalled in the
\* middle of its request, or the service died in between.
OwnPage ==
    \A c \in Conns : answer[c].code \in {"200", "404"} =>
        LET i == FirstGet(sent[c])
        IN  i # 0 /\ answer[c] = [code |-> Outcome[sent[c][i]], path |-> sent[c][i]]

\* A client that connects gets an answer, or a reset, or hangs up itself: one
\* that sends nothing, or half a request, holds up the others for a second.
EveryoneServed == \A c \in Conns : open[c] ~> (answer[c] # None \/ ~open[c])
=============================================================================
