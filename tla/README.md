# renogySolar: a formal model

renogySolar runs a handful of small services around one half-duplex RS485 bus
with Renogy charge controllers on it.  This directory models them in TLA+,
checks the models with TLC on small instances, and proves the most important
properties for every instance with TLAPS.

The reference is the C++ in `src/src/` and the client page in `src/www/`.  Every definition that stands for code
says in `PROJECT.json` ("map") which lines it stands for.

## 1. The system

| Part | Code | State | Operations |
|---|---|---|---|
| Modbus client | `ModBus.cpp` | none between calls; in a call: socket, bytes read, start time | `transact` (connect, write, read header, read rest, close), `readVariable`, `writeRawVariable` |
| Bridge | `rs485-tcp.cpp`, `SerialPort.cpp` | server socket, serial descriptor, the connection served, the kernel's tty buffer | open and flush, accept, copy client→serial and serial→client, leave on hangup |
| TCP helpers | `TCP.cpp` | none | `connect`, `accept` (300 ms poll), `createServerSocket`, `waitForHangup` |
| Supervisor | `Task.cpp` | parent, service, `should_quit` | fork, wait, sleep, fork again; SIGINT |
| History tables | `HistoryTable.cpp` | four SQLite tables, prepared statements, the static lock `c_lock` | `addRecord` (delete, insert, expire, average into the next table), `toXML` |
| History service | `history.cpp` | the table objects; a polling thread and an HTTP thread | poll each controller once a round; answer requests |
| HTTP server | `HTTPServer.cpp` | listening socket, the request being read | `process`: accept, read lines, call the handler, answer, linger |
| controller_read | `controller_read.cpp` | the report being written | set the controller's clock at start; read thirteen numbers on request |
| webserver | `webserver.cpp` | none | file of a path |
| XML2JSON, XMLParser | same names | the tree of one document | tokens, callbacks, grouping, JSON text |
| Args | `Args.cpp` | options, values, list | parse a command line, look options up |
| Log | `Log.cpp` | none that matters to another part | output |
| Pages | `src/www/subframe.html` | requests that are out, `num_processes`, counters, timers | `update`, `process`, `doneProcess`, `reload` |

How they interact:

- controller_read and history connect to the bridge for **every** transaction
  and close afterwards.  The bridge serves one connection at a time, so the TCP
  listen queue is what serialises the bus.  The bridge knows nothing of Modbus:
  it copies bytes until the client hangs up.
- history's two threads share the tables (under `c_lock`) and, without a lock,
  the static buffer of `localtime()`, whose fields are read one by one.
- history's threads share the list of tables too, which the HTTP thread walks
  without the lock, from before the first table is made.
- Browsers reach the services through `HTTPServer`, one connection at a time.  A
  page has several requests out at once, to two services.
- A service writes its answer as XML and, when asked for JSON, converts it.
- Each service is the child of a supervisor that forks it again unless it
  exited with 0.  `assert(0)` and uncaught exceptions are part of normal life:
  the supervisor is the error handling.

What is hard: timeouts that leave an answer on its way; byte streams without
framing between clients; two processes and SIGINT; two threads on one static
buffer and one list; statements that commit one by one while the process may die
between any two; blocking servers; clocks (midnight, the clock going back);
documents of shapes the converter was not tried with.

What makes each part correct:

- *client*: it ends, within a bound; a reply that is there in time is taken.
- *bridge*: each client gets its own reply; one transaction on the line at a
  time; every client gets its turn.
- *supervisor*: failures restart the service, SIGINT ends everything, a port
  taken for a while does not make a service useless for ever.
- *tables*: one record per id and second; nothing young is lost; every window
  has its average; a reader sees no half-done update; threads do not block one
  another.
- *HTTP server*: own answer for each client; nobody is held up for ever.
- *fixTime*: the clock is right afterwards, up to the tolerance and the delay.
- *reports*: a number was in its registers at one moment, unless a reply was left
  on the way before it was asked for; what was not read is not a number, and the
  answer is still a document.
- *history service*: it answers from before its tables exist until it ends, and
  never from a table that is not there yet or no more.
- *converter*: JSON that says what the XML said, for every document that has a
  form in JSON.
- *Args*: what was typed is what is understood.
- *page*: it knows what it waits for, shows nothing old over something new, and
  goes on asking.

## 2. The modules

| Module | Models | Extended / used by |
|---|---|---|
| `Transact` | one `ModBus::transact` call, to the byte and millisecond | `TransactProofs` |
| `BusService` | abstract: what the bridge promises the services | instantiated by `Rs485Bus` |
| `Rs485Bus` | clients, listen queue, bridge, serial line, controllers | `MCRs485Bus`, `Rs485BusProofs` |
| `HistoryTable` | polling thread, HTTP thread, tables, lock, `localtime()` buffer | `MCHistoryTable`, `HistoryTableProofs` |
| `HttpServer` | `HTTPServer::process` and its clients | `WebServer`, `HttpServerProofs` |
| `WebServer` | the handler of webserver, which serves files | `MCHttpServer` |
| `Args` | `Args::process`, `parseArgs`, access to options | `Supervisor` |
| `Supervisor` | `Task::main`, the life of a service, SIGINT, the port, the adapter | `MCSupervisor`, `SupervisorProofs` |
| `RtcSync` | `Controller::fixTime` | `ReportsProofs` |
| `ModBusFrame` | frames, `calc_crc`, `Value::set`, as functions | `ControllerReport` |
| `ControllerReport` | `Controller::HTTPServerRequest`, a number at a time, and what transactions leave on the way | `Reports`, `ReportsProofs` |
| `XmlToJson` | `XMLParser` and `XML2JSON`, as functions | `Reports`, `JsonReader` |
| `JsonReader` | reference: a reader of JSON, and what a document says | `Reports`, `JsonProofs` |
| `HistoryService` | `History::run`, `httpThread`, `HTTPServerRequest`, the list of tables | `Reports`, `ReportsProofs` |
| `Reports` | composition: the answers of both services and their conversion | `MCReports`, `ReportsProofs` |
| `SubFrame` | the requests of a page | `MCSubFrame`, `SubFrameProofs` |

An operator whose name has the form `Action_SomeBug` is a mutant: the action as
a plausible mistake would have it.  It is not part of `Next`; each property is
shown to fail when the mutant replaces the action.

### Transact

`pc` walks through `transact()`: connect, write, and the loop of `timedRead()`
(`loop` = its top, `poll` = inside `poll()`, `read` = before `read()`).  `stage`
tells the header's read from that of the rest.  `now`, `start`, `wake` are
`NOWms()`, `start_time` and the end of the current `poll()`.  The order of the
tests at the top of the loop (complete? too late? poll) is the code's, and so
is the argument of `poll()`: the time that *has elapsed*.  The peer sends in any
portions, closes or resets.  The operating system may delay a runnable process
up to `Slack` between two looks at the clock (`lag`).  An exception in the
header leads to `abort` (`assert(0)`).

### Rs485Bus and BusService

A reply is a sequence of *cells*; each knows whose request it answers and its
place.  The code looks at neither, so the model's guards do not either: they
exist to state `Paired`.  A client that closes leaves what is still on its way
without an owner (`Disown`), the history variable `late` counts those clients.
`Accept`, `ServeRequest`, `ServeReply`, `ServeClosed`, `ServeHungUp` are the
accept loop of `RS485TCP::main` and the branches of `SerialPort::transact`;
`Crash`/`Restart` is the supervisor forking the bridge again, with the tty flush
of `SerialPort::open`; `Quit` is SIGINT.  `Abort` covers a byte that merely
looks like an exception.  Controllers answer their own requests in order, with
a reply or an exception, or not at all.

`BusService` is the promise of the repository's README: one client on the bus at
a time, and each gets the answer to its own request or a failure.
`Rs485Bus!Service` maps the detailed state to it (`StateOf`, `BusOf`).

### HistoryTable

`ppc` is the polling thread's position between two SQL statements or two uses
of `localtime()`; `lvl` is the table of the innermost nested `addRecord()`.
Filling the static buffer of `localtime()` and formatting it are different steps,
and the HTTP thread (`hpc`) may fill it again at any moment between, and between
the reading of two of its six fields.  So `pmix` has every time the HTTP thread has
filled it with since the polling thread began to, the one it was about to format at
that moment included, and `hmix` the same in the other direction.  What is formatted
from a time and a set of others (`Mix`) is the time alone when the set adds none, and
otherwise anything whose largest field is that of one of them: the fields below may
come to whatever fields there are.  `Coarse` is that field's length; the proofs have
it arbitrary.  `raced` records that the threads have met.  `held` is the depth of the
recursive lock; a query, which never takes it twice, is one step that needs it
free.  A value is symbolic: a reading, or the set of records it is the average
of, which tells a right average from a wrong one without arithmetic.  `WindowAssumption`
says what the service's own tables and the hour of a clock change give: windows
nest, and the window that is open when the clock is set back still ends, in local
time, after its records.  `live[l]` says
whether the prepared statement of table `l` works: in a new database only the
last table's does (`Fresh`), after a restart all do.  `faults` counts failed
reads and deaths.  `ever` is a history variable: what was inserted, by the time
it is about.  `Local` is local time, set back once by `DstShift` at `DstAt`.

### HttpServer

Lines are tokens: a GET of a path, some text, the empty line.  `ReadEnds` is both
ends of `readLine()`: a second of silence and end of file.  What a handler does
with a path is the constant `Outcome`; `"throws"` is what nobody catches
(`Throw`, `Restart`): `std::stoi` on a path without a number in history, a
directory in webserver, whose handler is `WebServer!Handler`.

### Supervisor

`asked` is a command line, fixed at the start: a program, the options given to it
and the list.  `Typed` turns it into words, which may lack the last, and
`Args!process` takes them apart again; whether it has a parent follows from what it
found.  The bridge opens a device, which may be plugged in or not, and tests its
socket; an HTTP service does neither.  SIGINT goes to
the group, to the parent alone or to the service alone; the parent has no
handler and dies of it, the service has one from `signal()` on.  `deaf` is a
service whose `createServerSocket()` returned -1 and that polls that descriptor;
`tty = "hung"` is a bridge whose adapter was unplugged after it had opened it.

`Args` has words as sequences of pieces, since `stricmp()` stops comparing where
the shorter word ends, so that the search for help finds more than help.

### RtcSync

`Capture`, `Read`, `Compare`, `Write` are the four moments of `fixTime()`; both
clocks tick between them.  A failed read leaves zeros, which the code does not
tell from a date.

### ModBusFrame and ControllerReport

Frames are sequences of bytes, the register of the check sum is a set of bit
positions.  The charge controller's side (`Remainder`) computes the check sum as
the standard has it, by a division, and answers only what it accepts.
`ControllerReport` reads the thirteen numbers of a report one transaction at a time,
while the registers change and transactions fail.  `wire` has the requests the charge
controller has not answered, `stream` the bytes on their way to whoever reads next,
which is a queue of its own and outlives the transaction: one that gives up
(`GivesUp`) leaves both as they are, and the next one (`Receives`) takes as many bytes
as its reply should have, from the front, without a look at id, function or check sum.
`Stray` is a client of the bridge that left before its reply came, `Vanish` what
the bridge wrote to a socket that was closed, flushed when it started, or gave to
another client, in whole or in part; both happen between transactions, since the
bridge serves one connection at a time.  `late` counts the transactions since one
began with nothing on the way, and `own` says of a number that its transaction was
such a one.  `seen` is a history variable, all the registers have held since the
request came, and `meant` beside each frame is what `readVariable()` or
`writeRawVariable()` was called with; `Heard` is what the charge controller takes the
frame for.  An exception, or late bytes that look like one, ends the process as in
`Transact`.  What `fixTime()` sends at start is here, when it sends it is in
`RtcSync`.

### XmlToJson and JsonReader

A document is a sequence of tokens, and what `XMLParser::inner()` does with each,
the callbacks of XML2JSON included, is `Inner`; `parent` takes the place of the
recursion, and `ParseOn` is the loop over a document or a part of it.  Everything
that recurs in the code is a function that recurs over numbers here, so that it can
be proved about: `Sorted` over the items as they were made, `Inside` over the
items from the last to the first (a child is made after its parent), with `Walk` the
writing of one element and `Child` a turn of the loop over its children.  `Dead` is
the pointer that is followed to nothing.
`JsonReader` is written from what JSON is, not from the code: it reads the result
(`IsJson`), lists what it says, and compares that with what the document says
(`SaysTheSame`) and with whether it could be said (`Convertible`).  Attributes of
an element that has nothing but a text are not in the JSON; `Says` does not ask for
them.  `Hashed` is the set of names that begin with `#`, which the code writes without
quotation marks (`Labelled`).  A token is one of five kinds (`IsToken`); that no
element is called `#text`, which the tree calls its texts, is the one thing taken for
granted of a document.

### HistoryService and Reports

`main` and `http` are the positions of the two threads.  The constructor's
stores to `m_next` and `c_list` may be seen in either order (`Store`), since the
reader takes no lock; `NextOf` of a table whose `m_next` is not there yet is
`Wild`, memory of a new object.  `Shown` is what the window of a table holds, which
is one second until `setWindow()`.  What `addRecord()` does is `HistoryTable`'s.
The process may end in either thread, whatever the other is at: the polling thread
asserts when a reply is an exception, or late bytes that look like one (`PollDies`;
`main` is `"aborted"`), the HTTP thread when a request makes it (`Dying`; `"dead"`).
An answer is its code and how many entries its document has; documents of which
sizes end the process when they are converted is the constant `Deadly`, and
`Reports`, which has the converter, assumes of it that it is what the converter
says (`ConversionAssumption`, which TLC evaluates for its bound of records, and
`EmptyTablesAreDeadly` settles for every other: the set is `{0}`).
`DocumentAssumption` says what there is to ask for, that the pieces of documents are
of tokens, which of the texts the services write are numbers, and that none of their
names begins with `#`.
`Reports` puts `ControllerReport`, `HistoryService` and the converter together:
an execution is of one of the two services, whose answers are converted, or of the
parser with a document made of pieces.

### SubFrame

`out` is the requests that are out, in the order they were sent; a request is
`late` once the answer to a later one of its kind is shown.  `Load`, `Fail` and
`Break` are the three ends of a request: its handler shows the document, there was
no connection, or the handler was given none and threw.  `Reload` is the user, who
zooms or changes the mode.

## 3. The runs

| Run | What it asks | Bounds |
|---|---|---|
| `transact` | `BoundedWait`, `NoFalseTimeout`, `Returns`, `TypeOK` | header and rest of two lengths, a timeout of a few ticks, one byte more than the reply |
| `bus_quiet` | `Paired`, `HalfDuplex`, `Implements`, `Returned`, nobody leaves early | 3 clients, 2 kinds of request to 2 controllers, backlog 2 |
| `bus_late` | `OrphanBound`, one client leaves early | 2 clients, same kinds |
| `bus_unpaired` | does each transaction get its own reply then? **No** | same |
| `history_poll` | `Retained`, `Cascaded`, `UniqueRecord`, `OwnRecordsOnly` | 3 tables, windows 1, 2, 4 s, 2 ids, 1 fault anywhere, 4 seconds, clock set back in the last |
| `history_http` | `ReportsAll`, `NoneFromTheFuture`, `Answered`, `PollingGoesOn`, `TypeOK` | 2 tables, any number of requests, 2 seconds, a largest field of 2 seconds (`Coarse`), races at any place of a round, and no new round after one (`GoesOn`) |
| `history_fresh` | `Cascaded` in a database just created? **No** | 2 tables |
| `http_serve` | `OwnPage`, `EveryoneServed` | 2 clients that reconnect, 2 lines each, a page, an empty file, a directory |
| `supervisor` | `Understood`, `StopsWhenAsked`, `ReturnsOnlyAfterQuit`, `ServesUnlessDeaf`, `CarriesUnlessHung` | the four programs, two of them with every command line of up to two options and one controller, whole or not, 2 deaths |
| `rtc_sync` | `Synced` | a day of 6 s, tolerance 2 s, clocks up to three days apart, the local one across midnight |
| `reports` | `NotTorn`, `RequestsAccepted`, `FindsWhatIsThere`, `NoUseAfterFree`, `GoodRequestServed`, `QuitReturns`, `JsonWhereThereIs`, `NothingLost`, `ServicesSendJson`, `TypeOK` | 2 register files, 1 change and 1 fault in a report, 1 transaction that finds something on the way, of which 3 bytes or all may have vanished; 2 tables of 0 to 2 records, all requests; documents of up to 6 plain pieces, or 3 and an odd one, or 2 odd ones |
| `pages` | `Counts`, `ChainsBounded`, `NeverBack`, `KeepsAsking` | the limits of the page, 1 reload, 1 handler that throws |

Why the bounds are enough: on the bus every phenomenon needs at most one client
being served, one waiting and one arriving; a reply of two and one of three
cells is enough to be cut anywhere, to be longer than another's, and to straddle a
header.  In the history three tables make the average of an average, four
seconds give every table's window a boundary, and two records may fall in one second; one
fault may fall between any two statements.  Two HTTP clients make one that holds up
the other, and each may come again on the same connection name.  The numbers
of the report all differ, and carry from one half to the other; one transaction
that finds a late or a stray reply on the way, whole or cut, is enough to take it
for its own and to leave its own to nobody; two tables
make one that is found behind another, and one that is linked while the list is
walked; six pieces are enough for a group of three with something around it, for
groups that alternate, and for elements nested three deep.  One reload makes a
second chain of updates beside the first.  Where a
theorem exists (section 5) the bound does not matter.

### Fairness

- `Transact`: the process runs when it can, time goes by (`Slack` bounds the
  delay in the safety properties).  The peer owes nothing.
- `Rs485Bus`: each client returns when it can (its read has a timeout, so weak
  fairness of "return" is the timeout), the bridge's loops run, a killed bridge
  is forked again, a request does not stay on the wire for ever (it is answered
  or not heard).  No client is obliged to ask.
- `HistoryTable`: both threads run.  Strong fairness of `Query`: the lock is not
  fair, but the polling thread leaves it free whenever it talks to the bus,
  hundreds of milliseconds per round.  Nobody has to ask.
- `HttpServer`: the server runs, and a client **with its answer** hangs up, which
  `Connection: close` asks of it.  This is an assumption about browsers: a
  client that keeps its connection holds up everyone, `HTTPServer.cpp:111` has no
  timeout.
- `Supervisor`: both processes run; strong fairness of finding the port free if
  others leave it free again and again.  `ServesUnlessDeaf` and
  `CarriesUnlessHung` further assume (`LeftAlone`) that the others leave the port
  alone in the end, that nobody sends SIGINT for ever, and that the parent lives;
  the latter also that the adapter stays plugged in.
- `HistoryService`: both threads run, and a turn of the polling loop ends, which
  is `Transact!Returns`.  Nobody has to ask, nobody has to send SIGINT.
- `SubFrame`: timers fire and each request ends, which is `EveryoneServed` and the
  browser's own.  The user owes nothing.
- `RtcSync`, `ControllerReport`: none; their properties are about safety.

## 4. What the checks show

That the design holds: as long as no client leaves before its answer came, the
listen queue of a bridge that knows no protocol is enough to pair requests
with replies and to keep the line half-duplex, through exceptions, lost
requests, kills and an unplugged adapter.  An early leave puts the stream out of
step by at most one reply, and the shift is passed on, not added to.  The
delete-insert pairs keep tables without a key unique; a fault costs at most one
record, and spoils one window of each table at most.

That a service survives what it dies of, with two exceptions the properties
name (`deaf`, `hung`).  That a number of a report whose transaction began with nothing
on the way is of the right registers and of one moment, whatever failed before it.
That records whose timestamps the threads have mixed are at worst as far ahead as the
largest field goes.  That the unlocked walk of the list is harmless for what is linked
already: `get()` finds it, though it may run into a table that is half linked,
which ends the process, and the next one serves.  That the converter writes JSON
exactly where there is some to write.

Disagreements between code and documentation that TLC exhibits:

1. `rs485-tcp.cpp:63`: a client that timed out reads, with its next transaction, the
   late reply to the one it had given up (`bus_unpaired`); another client that is
   served first would read it as well.  `transact()` checks neither id, nor
   function, nor CRC.  In the same states two transactions are on the half-duplex
   line.
2. `HistoryTable.cpp:44`: in a new database the statements prepared before later
   tables were created stop working, and no averages are computed until the
   next start (`history_fresh`).

The models contain the following behaviours too; the properties above are stated
around them rather than against them:

- The consequence of the first for a report: a read of the thirteen that times out
  leaves its reply to the next one, which takes it for its own, and so on: from there
  the numbers may stand in each other's places, and the halves of a pair may come from
  two replies.  `NotTorn` is about transactions that began with nothing on the way
  (`own`).
- A reply that is an exception ends the history process in its polling thread while
  its HTTP thread answers a good request: `GoodRequestServed` excepts it
  (`"aborted"`).
- `ModBus.cpp:44`: `poll()` gets the time that has elapsed, so that a read may last
  almost twice `timeout_ms`, which `ModBus.hpp:136` has as the timeout.
  `BoundedWait` shows that it is no worse.
- `HTTPServer.cpp:29`: an HTTP service that found its port taken is deaf for ever,
  and is not restarted since it does not exit.  `ServesUnlessDeaf` excepts it.
- After the adapter hung up the bridge never opens it again; only a restart
  helps, and none comes.  `CarriesUnlessHung` excepts it.
- A bridge without its device exits with 0, and the supervisor takes that for
  its wish to finish: `ReturnsOnlyAfterQuit` excepts it (`missing`).
- A line that lacks the value of its last option kills the program, and a word
  that agrees with `-help` as far as both go is taken for it, an empty word
  included: `Understood` excepts both.
- A failed read deletes a good record of the same second (`INSERT ... nan` fails
  after the `DELETE` committed): one of the `faults` of `Retained`.
- Once the threads have raced in `localtime()` a record may carry the other's
  time, or a mix of the two, and be about a time to come, today with an hour of
  yesterday: `NoneFromTheFuture` then has its largest field only, and `Retained`,
  `Cascaded` and `ReportsAll` are stated for `Steady` states.
- In the minutes after the clock is set back the expiry deletes records as they
  are inserted: `Steady` again.
- `fixTime()` sets a clock that is right after a failed read, and when midnight
  falls between its two looks.
- `XML2JSON.cpp:95`: an element without children is a pointer to nothing.  A request
  for the JSON of a table without records in its window ends the history process.
  `Convertible` excludes it.
- A text beside elements is walked like an element without children, and ends the
  process as well (`Dead`).  Texts of signs and points that are no number (`-`), a
  group of elements of one name with nothing but a text in one of them, and elements
  whose name begins with `#` become text that is not JSON:
  `Convertible` again, which says exactly which documents these are.
- A failed read of a pair of registers is reported as 0, of a single one as nan.
- A handler of the page that throws is never counted as done: the page does not
  ask again unless the user reloads it, or a chain started by a reload goes on.
- An update the user asks for while the timer runs stays beside the timer: the
  chains of updates never become fewer (`ChainsBounded` shows how many).

## 5. What is proved

| Theorem | For every | Argument |
|---|---|---|
| `TransactProofs!TypeCorrect`, `WaitIsBounded`, `ReplyInTimeIsRead` | timeout, lengths, delay | `ClockInv` (a poll ends at most two timeouts after its read began, a runnable process adds its lag) and `BytesInv` (if the whole reply is there with bytes unread at the top of the loop, the loop has just begun or left `poll()` before the reply came) |
| `Rs485BusProofs!TypeCorrect`, `RepliesArePaired`, `LineIsHalfDuplex` | set of clients, kinds, reply lengths, backlog | `IInv`: as long as `late = 0` there is one owner of everything on its way; cells received, then cells in the tty, are one reply in order; a client waiting in the queue has received nothing |
| `Rs485BusProofs!BusIsTheService`, `BusImplementsService` | same | one lemma for each action says which step of `BusService` it is under the mapping, or that it is none; `IInv` says who owns the bus |
| `Rs485BusProofs!OrphansAreBounded` | same | every cell on its way is a token of its owner (`Due`), as many as the longest reply to a request that is still on its way; only a client that closes early, or the bridge that dies, leaves tokens to nobody. A client never has more due to it than its longest request (`DueBound`, with `Routed`: what is in a client's socket is its own or nobody's), so what it leaves is paid for by its `late` |
| `HistoryTableProofs!TypeCorrect`, `RecordsAreUnique` | number of tables, ids, readings, windows, faults, clock changes, races | `LockDepth` (the thread's position says how deep the lock is held) and `Cleared` (between DELETE and INSERT the place is empty) |
| `HistoryTableProofs!NothingFromTheFuture`, `OthersAreLeftAlone` | same, length of the largest field | `InPast`: no time a thread has in hand, nor any the polling thread's timestamp may be mixed with (`pmix`), is to come, but for the end of a window, which is never formatted into a timestamp; so the largest field of what is formatted is of a time that has come, and while the threads have not met it is one such time |
| `HistoryTableProofs!FaultsCostOneRecord` | same | `Base` (in a steady state the formatted times are the times meant, what is in a table has been recorded), and the records lost so far, with the one a failed read has counted for but not yet deleted, are no more than the faults: `HoleStep` says which steps lose a record, `DebtStep` that each has been paid for |
| `HistoryTableProofs!ReportsAreComplete` | same, the database not just created | nothing is lost without a fault; a query has the lock, so that nothing is being replaced, and its window begins when it meant |
| `HistoryTableProofs!FaultsCostOneWindow` | same, windows that nest | `Fewer` and `Good`: a window is spoilt when its average is missing and none is under way, or when it has lost a record before its last average; what is under way for a window that lost nothing is its right average; no step spoils a second window, and only steps paid for spoil one |
| `ReportsProofs!ClockTypeCorrect`, `ClockIsSynced` | day, tolerance, clocks | `Lag`: what was read, or written, is behind by at most the time since the local clock was looked at |
| `ReportsProofs!ReportTypeCorrect`, `NumbersAreNotTorn` | id, registers, changes, faults, strays, bytes that vanish | `OnWay`: whatever is on the way are requests as they are made here and bytes; and in a transaction that began with nothing there (`Undisturbed`) it is the request for the number that is wanted, or nothing, an exception, or the reply to it, with what its registers held at some moment since the client's request; that the addresses and counts survive their way through the bytes are lemmas |
| `ReportsProofs!ChecksumIsAccepted`, `RequestsAreAccepted` | sequence of bytes; id, registers, clocks, changes, faults | every request on the way is one of those made here (`OnWay`), what is heard of it is what it was made from; and by induction over the bytes, the register `calc_crc()` has after some bytes is the remainder of the division of these bytes, reflected; each bit that is shifted out is one step of the division |
| `ReportsProofs!ServiceTypeCorrect`, `NoTableIsUsedDeleted`, `LinkedIsFound` | tables, names, records, starts of the process | `NobodyLooks`: from the join on the HTTP thread has ended; `StillAhead`: a table that was linked when `get()` began, and has the name, is not behind its place in the list |
| `JsonProofs!AnswerIsJson`, `AnswerSaysTheSame`, `ConvertedDocument` | document: any number, depth, names and order of its elements, texts and attributes; whole, cut off, or with tags that do not match | see below |
| `JsonProofs!FormNeverDies` | same | a `Dead` piece stops the reader for good, so that what is JSON has none |
| `ReportsProofs!TypeCorrect`, `ServicesHold`, `AnswersAreJson`, `NothingIsLost` | registers, tables, pieces of documents, and all of the above | `IInv`: `ReportInv` and `ServiceInv` of the two services, the parser's tree is sound (`ParserOk`), and what history has answered with JSON is not what the conversion dies of (`JsonHasRecords`) |
| `ReportsProofs!ServicesAnswerInJson`, `EmptyTablesAreDeadly` | what of a report was read, whatever it was; number of records | part by part: a part of a document that is read below an open element leaves the parser there (`Part`) and adds elements that have a form, with names of their own (`Grows`); a leaf, an element around parts, and parts one after the other are such parts again |
| `SupervisorProofs!TypeCorrect`, `NoFailureFinishes` | command lines, deaths | `ZeroHasCause`: exit status 0 has been a wish to quit or a missing adapter |
| `SupervisorProofs!LinesAreUnderstood` | options, their number, order and values, the list | `parseArgs()` is what it does with one word (`Reads`); by induction from the last option to the first, what is read from where an option stands is what these options mean (`ReadsNext`); that the last option of a name is the same one in what was given and in what was read is `LatestSame` |
| `HttpServerProofs!TypeCorrect`, `PagesAreOwn` | connections, paths, handler, backlog | `Serving` (one connection is served or none, the others wait once each) and `ReadSoFar` (what has been read and what has not make what was sent); that the first GET of a beginning is the first GET of the whole is a lemma |
| `SubFrameProofs!TypeCorrect`, `ProcessesAreCounted`, `ChainsAreBounded`, `AnswersInOrder` | limits, reloads, broken handlers | `OneRound`: without reloads the requests that are out are of different kinds, since a timer runs only while nothing is out |

Where a run does not list the type invariant of its module, the theorem stands for it.

The properties alone are not inductive: that a reply in the tty is the served
client's, for instance, needs to be known to show that copying it keeps `Paired`.
`Cascaded` speaks of states with the lock free only, and of what the tables hold;
between two of them a window goes through averages that are about to be recorded
and records that have expired, which `Good` and `Fewer` follow.  Those were checked
with TLC on the instances of the runs before they were proved.

The converter is proved right in two halves.  `ParserOk` says what the parser makes:
items in the order of their tags, each below an item made before, none below a text.
`sort()` leaves the children of an element in groups of one name, each once and in
order (`Grouped`, `HoldsKids`: insertion keeps both, wherever it puts a child).  Then,
from the last item to the first, `WalkReads`: the reader of JSON, standing where the
element fits, is fed with what `walk()` writes for it and either stands behind one
value, having found exactly what the element and all below it say (`Said`), or is
stopped, the latter if and only if some element below has no form (`Good`).  For an
element this follows from the same about its children, by induction over the loop:
`AfterKid` says where the reader is after each turn, in the object with a comma, in
the array of a group, or at the end.  The two directions of "JSON if and only if"
are the two cases of `Good`.  `Place`, which numbers the elements of one name below a
parent, is shown to be the count the reader has reached in their array, so that the
paths of the two agree.

The induction is over natural numbers: `SetInduction`, that a set of numbers with 0
and the successor of each of its elements has them all, is a consequence of the
library's theorem on well-founded induction for a set, and takes the place of the
library's rule for a predicate, which the provers cannot instantiate.

The proofs use the assumptions declared with the constants, and of the theorems
three have one more.  `BusImplementsService` has `MaxLate = 0`, which `bus_quiet`
has too: a client that leaves early is what the service does not promise to
survive.  `BusIsTheService` says without it that each step is one of the service as
long as nobody has left.  `ReportsAreComplete` and `FaultsCostOneWindow` have
`~Fresh`: what the process that creates the database does is `history_fresh`'s.
`NumbersAreNotTorn`, `RequestsAreAccepted` are about `ReportSpec` and
`NoTableIsUsedDeleted`, `LinkedIsFound` about `ServiceSpec`, each service on its own;
`ServicesHold` carries them over to `Reports`, which takes their steps
(`Controller == ... /\ ReportNext ...`) and leaves their variables alone otherwise.

Every invariant and every action property of the passing runs is a theorem.

Only model-checked:

- the liveness properties (`Returns`, `Returned`, `Answered`, `PollingGoesOn`,
  `EveryoneServed`, `StopsWhenAsked`, `ServesUnlessDeaf`, `CarriesUnlessHung`,
  `GoodRequestServed`, `QuitReturns`, `KeepsAsking`), which need fairness and ENABLED,
  and the fairness of `Implements`: the theorem has the safety of the service, and
  takes its fairness for a hypothesis;
- the two disagreements of section 4, which are counterexamples.

## 6. What is not modelled

- `Log`: output that no other part reads.
- The help text of `Args`, and `atoi()` of its numeric options: a port or an id is
  what the option says.  A port above 65535 would be cut to 16 bits.
- The death of the history process in its polling thread is `PollDies` only: when an
  exception reply comes, or late bytes that look like one, is the bus's business.
- `readLine()` never looks at `should_quit`: a client that sends a request in pieces,
  each within a second of the last, holds up the HTTP thread, and with it the join that
  `QuitReturns` waits for and the exit that `StopsWhenAsked` does.  A request comes in
  one step in `HistoryService` (`Get`) and is left out of `Supervisor`.
- What `localtime()` writes into a field on the way to its value, while the other thread
  reads it: `Mix` has fields of whole fillings only, in any combination.
- An element that is called `#text`.
- Branches of `readVariable()` and `writeRawVariable()` for kinds of registers no
  caller uses; they are `assert(0)`.
- The timeout of `SerialPort::transact`, which its only caller does not use.
- Formatting of numbers and times beyond what the converter tells apart; quotation
  marks and backslashes inside XML texts, which the services do not write.
- The drawing of the pages, and `index.html`, a frame around them.
- How much of an answer `write()` takes when a signal interrupts it.
- `wait()` failing in the supervisor; `fork()` failing is modelled.
- SQLite failing for other reasons than those above (a full disk).
- The test programs, build files and scripts.

## 7. What could follow

1. Pages and services composed: a page whose history service dies of one request.
