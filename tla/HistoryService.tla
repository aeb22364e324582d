---------------------------- MODULE HistoryService ----------------------------
(***************************************************************************)
(* History::run(): the thread that answers HTTP requests is started before *)
(* the tables it looks for exist; the main thread constructs and links the *)
(* tables one by one, sets them up, polls the charge controllers until it  *)
(* is told to quit, waits for the HTTP thread and deletes the tables.      *)
(*                                                                         *)
(* The constructor links a table with two stores, under the lock of        *)
(* addRecord(); HistoryTable::get() walks the list without it, so that it  *)
(* may see either store without the other.  What addRecord() does to the   *)
(* records is the matter of the module HistoryTable: here a table holds    *)
(* some records of its window or none, and keeps them when the process     *)
(* dies.                                                                   *)
(***************************************************************************)
EXTENDS Naturals, SequencesExt

CONSTANTS
    Tables,      \* the names of the tables, in the order they are made
    Names,       \* the names requests ask for
    MaxRecords,  \* bound: records of a window
    Deadly       \* how many records make a document whose conversion ends the process

ASSUME ServiceAssumption ==
    /\ Tables \in Seq(Names) /\ IsInjective(Tables)
    /\ MaxRecords \in Nat /\ Deadly \subseteq 0..MaxRecords

\* What HTTPServerRequest() makes of a path: the name of a table, an extension,
\* and whether there is a number between the last two slashes.
Requests == [name : Names, ext : {"xml", "json", "html"}, number : BOOLEAN]

VARIABLES
    main,     \* "make", "set", "poll", "join", "delete", "returned"; "aborted" when the
              \* main thread, "dead" when the HTTP thread has ended the process
    count,    \* tables made, set up or deleted so far
    stored,   \* of the table being linked, the stores that can be seen
    http,     \* "start", "accept", "parse", "walk", "found", "ended"
    request,  \* what is being answered
    place,    \* where get() is in the list
    there,    \* the tables that were linked when get() began
    answer,   \* the last answer: code, and the entries of its document
    records,  \* records[t]: records in the window of table t
    quit      \* should_quit

serviceVars == <<main, count, stored, http, request, place, there, answer, records, quit>>

Alive == main \notin {"returned", "aborted", "dead"}
Null == 0
Wild == Len(Tables) + 1    \* what the memory of a new table held before

Linked == IF main = "make" THEN count ELSE Len(Tables)
Deleted == CASE main = "delete" -> count [] main = "returned" -> Len(Tables) [] OTHER -> 0

ServiceTypeOK ==
    /\ main \in {"make", "set", "poll", "join", "delete", "returned", "aborted", "dead"}
    /\ count \in 0..Len(Tables) /\ stored \in SUBSET {"next", "list"}
    /\ http \in {"start", "accept", "parse", "walk", "found", "ended"}
    /\ request \in Requests /\ place \in 0..Wild /\ there \in 0..Len(Tables)
    /\ answer \in [code : {0, 200, 404}, entries : 0..MaxRecords]
    /\ records \in [DOMAIN Tables -> 0..MaxRecords] /\ quit \in BOOLEAN

Born ==
    /\ main' = "make" /\ count' = 0 /\ stored' = {}
    /\ http' = "start" /\ place' = Null /\ there' = 0
    /\ quit' = FALSE

NoAnswer == [code |-> 0, entries |-> 0]

ServiceInit ==
    /\ main = "make" /\ count = 0 /\ stored = {}
    /\ http = "start" /\ request \in {r \in Requests : ~r.number /\ r.ext = "html"}
    /\ place = Null /\ there = 0 /\ answer = NoAnswer
    /\ records \in [DOMAIN Tables -> {0, MaxRecords}] /\ quit = FALSE

-----------------------------------------------------------------------------
(* The main thread. *)

\* m_next = c_list and c_list = this, in the order they become visible.
Store(what) ==
    /\ main = "make" /\ count < Len(Tables) /\ what \notin stored
    /\ IF stored = {} THEN stored' = {what} /\ UNCHANGED count
                      ELSE stored' = {} /\ count' = count + 1
    /\ UNCHANGED <<main, http, request, place, there, answer, records, quit>>

\* From one part of run() to the next, when all tables have been through it.
Goes(from, to) == main = from /\ count = Len(Tables) /\ main' = to /\ count' = 0

Made ==
    /\ Goes("make", "set")
    /\ UNCHANGED <<stored, http, request, place, there, answer, records, quit>>

\* setExpiry(), setWindow() and cascade() of a table.
SetUp ==
    /\ main = "set" /\ count < Len(Tables) /\ count' = count + 1
    /\ UNCHANGED <<main, stored, http, request, place, there, answer, records, quit>>

StartsPolling ==
    /\ Goes("set", "poll")
    /\ UNCHANGED <<stored, http, request, place, there, answer, records, quit>>

\* Records come, and leave the window.
Poll ==
    /\ main = "poll"
    /\ \E t \in DOMAIN Tables, n \in 0..MaxRecords : records' = [records EXCEPT ![t] = n]
    /\ UNCHANGED <<main, count, stored, http, request, place, there, answer, quit>>

\* An exception reply, or late bytes that look like one: transact() asserts, in the
\* thread that polls, whatever the other is at.
PollDies ==
    /\ main = "poll" /\ main' = "aborted"
    /\ UNCHANGED <<count, stored, http, request, place, there, answer, records, quit>>

StopsPolling ==
    /\ main = "poll" /\ quit /\ main' = "join"
    /\ UNCHANGED <<count, stored, http, request, place, there, answer, records, quit>>

\* Mutant: the HTTP thread is not waited for.
Join_Detached ==
    /\ main = "join" /\ main' = "delete"
    /\ UNCHANGED <<count, stored, http, request, place, there, answer, records, quit>>

Join ==
    /\ main = "join" /\ http = "ended" /\ main' = "delete"
    /\ UNCHANGED <<count, stored, http, request, place, there, answer, records, quit>>

\* Mutant: one table too many.
Delete_OneMore ==
    /\ main = "delete" /\ count <= Len(Tables) /\ count' = count + 1
    /\ UNCHANGED <<main, stored, http, request, place, there, answer, records, quit>>

\* The last table first.
Delete ==
    /\ main = "delete" /\ count < Len(Tables) /\ count' = count + 1
    /\ UNCHANGED <<main, stored, http, request, place, there, answer, records, quit>>

Returns ==
    /\ Goes("delete", "returned")
    /\ UNCHANGED <<stored, http, request, place, there, answer, records, quit>>

-----------------------------------------------------------------------------
(* The HTTP thread. *)

\* c_list and m_next as the HTTP thread finds them, at any time.
c_list == IF main = "make" /\ "list" \in stored THEN count + 1 ELSE Linked

\* Mutant: the constructor leaves m_next as it found it, in memory that was zero.
NextOf_Null(t) == Null

NextOf(t) ==
    IF main = "make" /\ t = count + 1 /\ "next" \notin stored THEN Wild ELSE t - 1

Gone(t) == t > Len(Tables) - Deleted

Dying == main' = "dead" /\ UNCHANGED <<count, stored, http, place, there, answer, records, quit, request>>

Serve ==
    /\ Alive /\ http = "start" /\ http' = "accept"
    /\ UNCHANGED <<main, count, stored, request, place, there, answer, records, quit>>

Get(r) ==
    /\ Alive /\ http = "accept" /\ ~quit
    /\ request' = r /\ http' = "parse" /\ answer' = NoAnswer
    /\ UNCHANGED <<main, count, stored, place, there, records, quit>>

\* std::stoi() throws when there is no number; get() begins at the head.
Parse ==
    /\ Alive /\ http = "parse"
    /\ IF ~request.number THEN Dying
       ELSE /\ http' = "walk" /\ place' = c_list /\ there' = Linked
            /\ UNCHANGED <<main, count, stored, request, answer, records, quit>>

Answers(a) ==
    /\ answer' = a /\ http' = "accept" /\ place' = Null /\ there' = 0
    /\ UNCHANGED <<main, count, stored, request, records, quit>>

NotFound == [code |-> 404, entries |-> 0]

\* A turn of the loop of HistoryTable::get().
WalkOn ==
    /\ Alive /\ http = "walk"
    /\ CASE place = Null -> Answers(NotFound)
         [] place = Wild -> Dying
         [] OTHER ->
              IF Tables[place] = request.name
              THEN http' = "found" /\ UNCHANGED <<main, count, stored, request, place, there, answer, records, quit>>
              ELSE place' = NextOf(place) /\ UNCHANGED <<main, count, stored, http, request, there, answer, records, quit>>

\* Until setWindow() the window is the last second.
Shown ==
    IF main = "make" \/ (main = "set" /\ place > count) THEN 0..records[place]
    ELSE {records[place]}

\* Mutant: the document is converted before the extension is looked at.
Found_ConvertsFirst ==
    /\ Alive /\ http = "found"
    /\ \E n \in Shown :
          CASE n \in Deadly -> Dying
            [] request.ext = "html" -> Answers(NotFound)
            [] OTHER -> Answers([code |-> 200, entries |-> n])

\* The document as it is, or converted, which ends the process when there are
\* no records; any other extension is not found.
Found ==
    /\ Alive /\ http = "found"
    /\ \E n \in Shown :
          CASE request.ext = "html" -> Answers(NotFound)
            [] request.ext = "json" /\ n \in Deadly -> Dying
            [] OTHER -> Answers([code |-> 200, entries |-> n])

\* Mutant: the loop of accept() does not look at should_quit.
LeavesAccept_Loops == Alive /\ http = "accept" /\ quit /\ UNCHANGED serviceVars

\* TCP::accept() sees should_quit.
LeavesAccept ==
    /\ Alive /\ http = "accept" /\ quit /\ http' = "ended"
    /\ UNCHANGED <<main, count, stored, request, place, there, answer, records, quit>>

-----------------------------------------------------------------------------
Quit ==
    /\ Alive /\ ~quit /\ quit' = TRUE
    /\ UNCHANGED <<main, count, stored, http, request, place, there, answer, records>>

\* Task::main forks the service again; the database is still there.
ServiceReborn ==
    /\ main \in {"aborted", "dead"} /\ Born
    /\ answer' = NoAnswer /\ UNCHANGED <<request, records>>

Ended == main = "returned" /\ UNCHANGED serviceVars

MainThread ==
    (\E what \in {"next", "list"} : Store(what)) \/ Made \/ SetUp \/ StartsPolling
    \/ Poll \/ PollDies \/ StopsPolling \/ Join \/ Delete \/ Returns
HttpThread == Serve \/ Parse \/ WalkOn \/ Found \/ LeavesAccept

ServiceNext ==
    MainThread \/ HttpThread \/ (\E r \in Requests : Get(r)) \/ Quit \/ ServiceReborn \/ Ended

ServiceSpec == ServiceInit /\ [][ServiceNext]_serviceVars

\* Both threads run, and a turn of the polling loop ends (Transact).
ServiceFairness ==
    /\ WF_serviceVars(MainThread) /\ WF_serviceVars(StopsPolling)
    /\ WF_serviceVars(HttpThread)

-----------------------------------------------------------------------------
(* Properties. *)

\* The HTTP thread never looks into a table that run() has deleted.
NoUseAfterFree == http \in {"walk", "found"} /\ place \in DOMAIN Tables => ~Gone(place)

\* get() comes to the end of the list only when the table it looks for was not
\* linked before it began, also while others are being linked in front.
FindsWhatIsThere ==
    http = "walk" /\ place = Null => \A t \in 1..there : Tables[t] # request.name

\* Once the service polls, a request for the XML of a table is answered with it,
\* also when the service is told to quit meanwhile, and unless the main thread ends
\* the process: the HTTP thread never does so itself.
GoodRequestServed ==
    /\ main = "poll" /\ http = "parse"
    /\ request.number /\ request.ext = "xml" /\ Contains(Tables, request.name)
    ~> answer.code = 200 \/ main = "aborted"

\* run() returns once it is told to, unless the process dies first.
QuitReturns == quit ~> ~Alive
=============================================================================
