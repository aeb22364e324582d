----------------------------- MODULE Supervisor -----------------------------
(***************************************************************************)
(* Every service runs under Task::main(): a parent that forks the service, *)
(* waits for it and, unless it exited with 0, forks it again.  The service *)
(* takes a TCP port and serves it until SIGINT has been seen.              *)
(*                                                                         *)
(* SIGINT may go to the process group (the terminal), to the parent alone  *)
(* or to the service alone.  Only the service handles it, and only from    *)
(* signal() on; the parent, and a service just forked, die of it.          *)
(***************************************************************************)
EXTENDS Args

CONSTANTS
    Asks,          \* what may be asked of Task::main() on a command line
    MaxDeaths      \* bound: times the service dies or cannot be forked

\* A program, the options given to it, each with its value, and the list; the
\* line may miss its last word.
AskKinds ==
    [program : DOMAIN Options, given : Seq(STRING \X Seq(STRING)),
     list : Seq(Seq(STRING)), whole : BOOLEAN]

ASSUME SupervisorAssumption == Asks \subseteq AskKinds /\ MaxDeaths \in Nat

VARIABLES
    asked,    \* what was asked of it
    parent,   \* "start", "fork", "wait", "sleep" or "gone"
    child,    \* "none", "boot", "open", "bind", "listen", "deaf" or "ended"
    status,   \* what wait() reports of a service that ended
    quit,     \* should_quit of the service
    port,     \* "free", "ours", or "taken" by another program
    stopped,  \* the process group has had a SIGINT
    deaths,
    device,   \* whether the serial adapter of rs485-tcp is plugged in
    tty,      \* what rs485-tcp has of it: "none", "live" or "hung"
    missing   \* the service ended because the adapter was not there

process_vars == <<asked, parent, child, status, quit, stopped, deaths>>
device_vars == <<device, tty, missing>>
vars == <<process_vars, port, device_vars>>

Bridge == asked.program = "rs485-tcp"
Own == Options[asked.program]

\* The words of the command line.
Typed(ask) ==
    LET words(g) == IF g[1] \in DOMAIN Options[ask.program]
                       /\ Options[ask.program][g[1]] # Flag
                    THEN <<<<"-", g[1]>>, g[2]>> ELSE <<<<"-", g[1]>>>>
        line == FlattenSeq([i \in DOMAIN ask.given |-> words(ask.given[i])]) \o ask.list
    IN  IF ask.whole THEN line ELSE Front(line)

Settings == process(Typed(asked), Own)
Single == IsSet(Settings, "single", Own)

Running == child \in {"boot", "open", "bind", "listen", "deaf"}
Over == parent = "gone" /\ ~Running

TypeOK ==
    /\ asked \in Asks
    /\ parent \in {"start", "fork", "wait", "sleep", "gone"}
    /\ child \in {"none", "boot", "open", "bind", "listen", "deaf", "ended"}
    /\ status \in {"zero", "error", "signal"}
    /\ quit \in BOOLEAN /\ stopped \in BOOLEAN
    /\ port \in {"free", "ours", "taken"}
    /\ deaths \in 0..MaxDeaths
    /\ device \in BOOLEAN /\ tty \in {"none", "live", "hung"} /\ missing \in BOOLEAN

Init ==
    /\ asked \in Asks
    /\ parent = "start" /\ child = "none"
    /\ status = "zero" /\ quit = FALSE
    /\ port \in {"free", "taken"}
    /\ stopped = FALSE /\ deaths = 0
    /\ device \in BOOLEAN /\ tty = "none" /\ missing = FALSE

-----------------------------------------------------------------------------
(* The parent: Task::main. *)

\* args.process(): a line that is refused, or that kills it, starts nothing;
\* with -single the process becomes the service itself.
Start ==
    /\ parent = "start"
    /\ \/ /\ Settings.rc # "run"
          /\ parent' = "gone" /\ UNCHANGED child
       \/ /\ Settings.rc = "run" /\ Single
          /\ parent' = "gone" /\ child' = "boot"
       \/ /\ Settings.rc = "run" /\ ~Single
          /\ parent' = "fork" /\ UNCHANGED child
    /\ UNCHANGED <<asked, status, quit, port, stopped, deaths, device_vars>>

\* fork(); when it fails the parent returns -1 and nothing runs any more.
Fork ==
    /\ parent = "fork"
    /\ \/ parent' = "wait" /\ child' = "boot" /\ quit' = FALSE /\ missing' = FALSE
          /\ UNCHANGED deaths
       \/ /\ deaths < MaxDeaths /\ deaths' = deaths + 1
          /\ parent' = "gone" /\ UNCHANGED <<child, quit, missing>>
    /\ UNCHANGED <<asked, status, port, stopped, device, tty>>

\* Mutant: any exit that is no signal finishes the parent.
Wait_AnyExit ==
    /\ parent = "wait" /\ child = "ended"
    /\ parent' = IF status = "signal" THEN "fork" ELSE "gone"
    /\ child' = "none"
    /\ UNCHANGED <<asked, status, quit, port, stopped, deaths, device_vars>>

\* Mutant: after a signal the parent waits again instead of forking again.
Wait_Again ==
    /\ parent = "wait" /\ child = "ended"
    /\ parent' = CASE status = "zero"   -> "gone"
                   [] status = "error"  -> "sleep"
                   [] status = "signal" -> "wait"
    /\ child' = "none"
    /\ UNCHANGED <<asked, status, quit, port, stopped, deaths, device_vars>>

\* wait(): exit status 0 finishes, any other sleeps first, a signal does not.
Wait ==
    /\ parent = "wait" /\ child = "ended"
    /\ parent' = CASE status = "zero"   -> "gone"
                   [] status = "error"  -> "sleep"
                   [] status = "signal" -> "fork"
    /\ child' = "none"
    /\ UNCHANGED <<asked, status, quit, port, stopped, deaths, device_vars>>

Wake ==
    /\ parent = "sleep"
    /\ parent' = "fork"
    /\ UNCHANGED <<asked, child, status, quit, port, stopped, deaths, device_vars>>

-----------------------------------------------------------------------------
(* The service. *)

\* signal( SIGINT, quit_handler ), then getclass(): rs485-tcp opens its serial
\* device first, the others only their port.
Boot ==
    /\ child = "boot"
    /\ child' = IF Bridge THEN "open" ELSE "bind"
    /\ UNCHANGED <<asked, parent, status, quit, port, stopped, deaths, device_vars>>

\* The process ends: wait() reports why, and its port is free (SO_REUSEADDR).
Ends(s) ==
    /\ child' = "ended" /\ status' = s
    /\ port' = IF port = "ours" THEN "free" ELSE port
    /\ tty' = "none"

\* SerialPort::open(); when it fails main returns 0.
Open ==
    /\ child = "open"
    /\ \/ /\ device
          /\ child' = "bind" /\ tty' = "live" /\ UNCHANGED <<status, port, missing>>
       \/ ~device /\ Ends("zero") /\ missing' = TRUE
    /\ UNCHANGED <<asked, parent, quit, stopped, deaths, device>>

\* Mutant: the descriptor is not tested.
Listen_Unchecked ==
    /\ child = "bind"
    /\ \/ port = "free" /\ port' = "ours" /\ child' = "listen"
       \/ port = "taken" /\ child' = "deaf" /\ UNCHANGED port
    /\ UNCHANGED <<asked, parent, status, quit, stopped, deaths, device_vars>>

\* TCP::createServerSocket(); on failure rs485-tcp returns 5, and HTTPServer
\* keeps -1 for a descriptor, which poll() passes over in silence.
Listen ==
    /\ child = "bind"
    /\ \/ /\ port = "free"
          /\ port' = "ours" /\ child' = "listen"
          /\ UNCHANGED <<status, tty>>
       \/ port = "taken" /\ Bridge /\ Ends("error")
       \/ port = "taken" /\ ~Bridge /\ child' = "deaf" /\ UNCHANGED <<status, port, tty>>
    /\ UNCHANGED <<asked, parent, quit, stopped, deaths, device, missing>>

\* Mutant: accept() goes back to its poll() without a look at should_quit.
Leave_NotDeaf ==
    /\ child = "listen" /\ quit
    /\ Ends("zero")
    /\ UNCHANGED <<asked, parent, quit, stopped, deaths, device, missing>>

\* TCP::accept() sees should_quit every 300 ms and the loop of main ends.
Leave ==
    /\ child \in {"listen", "deaf"} /\ quit
    /\ Ends("zero")
    /\ UNCHANGED <<asked, parent, quit, stopped, deaths, device, missing>>

\* An assert fails, or nobody catches what a handler throws.
Die ==
    /\ Running /\ deaths < MaxDeaths
    /\ deaths' = deaths + 1
    /\ Ends("signal")
    /\ UNCHANGED <<asked, parent, quit, stopped, device, missing>>

-----------------------------------------------------------------------------
(* SIGINT, the other users of the port, the adapter. *)

ChildSees ==
    \/ child = "boot" /\ Ends("signal") /\ UNCHANGED quit
    \/ child \in {"open", "bind", "listen", "deaf"} /\ quit' = TRUE
       /\ UNCHANGED <<child, status, port, tty>>
    \/ ~Running /\ UNCHANGED <<child, status, quit, port, tty>>

Interrupt ==
    /\ ~stopped
    /\ \/ stopped' = TRUE /\ parent' = "gone" /\ ChildSees
       \/ parent' = "gone" /\ UNCHANGED <<stopped, child, status, quit, port, tty>>
       \/ Running /\ ChildSees /\ UNCHANGED <<stopped, parent>>
    /\ UNCHANGED <<asked, deaths, device, missing>>

OthersPort ==
    /\ \/ port = "free" /\ port' = "taken"
       \/ port = "taken" /\ port' = "free"
    /\ UNCHANGED <<process_vars, device_vars>>

Plug ==
    /\ Bridge /\ ~device
    /\ device' = TRUE
    /\ UNCHANGED <<process_vars, port, tty, missing>>

\* A descriptor of the adapter is of no use any more, plugged in again or not:
\* the bridge opens the device only when it starts.
Unplug ==
    /\ Bridge /\ device
    /\ device' = FALSE
    /\ tty' = IF tty = "live" THEN "hung" ELSE tty
    /\ UNCHANGED <<process_vars, port, missing>>

Rest == Over /\ UNCHANGED vars

Parent  == Start \/ Fork \/ Wait \/ Wake
Service == Boot \/ Open \/ Listen \/ Leave
World   == Interrupt \/ OthersPort \/ Plug \/ Unplug
Next == Parent \/ Service \/ Die \/ World \/ Rest

\* The scheduler runs both processes; Listen finds the port free again and
\* again if others leave it free again and again.
Spec == Init /\ [][Next]_vars /\ WF_vars(Parent) /\ WF_vars(Service)
             /\ SF_vars(port = "free" /\ Listen)

-----------------------------------------------------------------------------
(* Properties. *)

\* A line that is complete and names only options of the program is understood
\* as it was meant: every option has the value last given, or its default, and
\* the list is the list; a value may look like an option.  Words that agree
\* with -h as far as they go are the exception.
Understood ==
    LET names == DOMAIN Own
        Latest(name) == SelectLastInSeq(asked.given, LAMBDA g : g[1] = name)
        Meant(name) ==
            CASE Own[name] = Flag -> IF Latest(name) = 0 THEN <<"0">> ELSE <<"1">>
              [] Own[name] # Flag ->
                    IF Latest(name) = 0 THEN <<Own[name]>> ELSE asked.given[Latest(name)][2]
    IN  /\ asked.whole /\ ~AsksHelp(Typed(asked))
        /\ \A i \in DOMAIN asked.given : asked.given[i][1] \in names
        /\ asked.list = <<>> \/ ~IsOption(Head(asked.list))
        => /\ Settings.rc = "run" /\ Settings.list = asked.list
           /\ \A name \in names : Value(Settings, name, Own) = Meant(name)

\* A SIGINT from the terminal ends parent and service, whatever they were
\* doing: forking, sleeping, opening a socket they cannot have, dying.
StopsWhenAsked == stopped ~> Over

\* No failure of the service finishes the program: the parent returns only
\* after a service that had been told to quit, or had missed its adapter.
ReturnsOnlyAfterQuit == [][(Wait /\ parent' = "gone") => (quit \/ missing)]_vars

\* The others leave the port alone for good, and so does whoever sends SIGINT,
\* and a parent lives.
LeftAlone ==
    <>[](port # "taken") /\ <>[][~Interrupt]_vars /\ [](parent # "gone")

\* Left alone, an HTTP service serves its port, however it died before, unless
\* it is one of those that found the port taken and never ask for it again.
ServesUnlessDeaf ==
    ~Bridge /\ LeftAlone => []<>(child = "listen") \/ <>[](child = "deaf")

\* Left alone, and with an adapter that stays, the bridge serves its port with
\* a live adapter, however it died before, unless the one it had opened was
\* unplugged meanwhile: it then serves a dead one for ever.
CarriesUnlessHung ==
    Bridge /\ LeftAlone /\ <>[]device
        => []<>(child = "listen" /\ tty = "live") \/ <>[](child = "listen" /\ tty = "hung")
=============================================================================
