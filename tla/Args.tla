-------------------------------- MODULE Args --------------------------------
(***************************************************************************)
(* The command line: Args::process() looks for a wish for help, and takes  *)
(* the words then as options, each with its value or alone, up to the      *)
(* first word without a dash, where the list of controllers begins.        *)
(*                                                                         *)
(* A word is a sequence of pieces: the dash, the letters that the search   *)
(* for help compares, and whatever else no comparison here tells apart.    *)
(***************************************************************************)
EXTENDS Naturals, Sequences, SequencesExt

Flag == "#"    \* the default of an option that has no value

\* The options of each service with their defaults, -single before all others.
Options ==
    LET With(options) == options @@ ("single" :> Flag)
        Remote == ("ra" :> "local") @@ ("rp" :> "bridge") @@ ("p" :> "default")
    IN  ("rs485-tcp" :> With(("d" :> "usb") @@ ("p" :> "default") @@ ("b" :> "115200")
                             @@ ("w" :> "750")))
     @@ ("controller_read" :> With(Remote @@ ("i" :> "1")))
     @@ ("history" :> With(Remote @@ ("f" :> "file")))
     @@ ("webserver" :> With("p" :> "default"))

Upper(c) == IF c = "h" THEN "H" ELSE c

\* Whether stricmp() returns 0: it stops comparing where the shorter word ends.
stricmp(s, t) == \A i \in DOMAIN s \intersect DOMAIN t : Upper(s[i]) = Upper(t[i])

AsksHelp(line) ==
    \E word \in Range(line), help \in {<<"-", "h">>, <<"-", "?">>, <<"-", "h", "elp">>} :
        stricmp(word, help)

IsOption(word) == word # <<>> /\ Head(word) = "-"

\* findOption(): the whole name has to match.
Known(word, options) == \E name \in DOMAIN options : Tail(word) = <<name>>

Refused == [rc |-> "refused", given |-> <<>>, list |-> <<>>]
Dies    == [rc |-> "dies", given |-> <<>>, list |-> <<>>]

\* Mutant: what looks like an option is not taken for the value of one.
Alone_NoDash(line, i, options) ==
    options[line[i][2]] = Flag \/ (i < Len(line) /\ IsOption(line[i + 1]))

\* Whether the option that is the i-th word takes no value.
Alone(line, i, options) == options[line[i][2]] = Flag

\* What the words from the i-th on amount to, when From has that for the later
\* ones.  An option at the end of the line takes argv[argc] for its value, and
\* std::string( NULL ) throws.
FromWord(From, line, options, i) ==
    LET n == Len(line)
    IN  CASE i = n + 2 -> Dies
          [] i = n + 1 -> [rc |-> "run", given |-> <<>>, list |-> <<>>]
          [] i <= n /\ ~IsOption(line[i]) ->
                [rc |-> "run", given |-> <<>>, list |-> SubSeq(line, i, n)]
          [] i <= n /\ IsOption(line[i]) /\ ~Known(line[i], options) -> Refused
          [] i <= n /\ IsOption(line[i]) /\ Known(line[i], options) ->
                LET alone == Alone(line, i, options)
                    rest  == From[IF alone THEN i + 1 ELSE i + 2]
                    value == IF alone THEN <<"1">> ELSE line[i + 1]
                IN  IF rest.rc # "run" THEN rest
                    ELSE [rest EXCEPT !.given = <<<<line[i][2], value>>>> \o @]

parseArgs(line, options) ==
    LET From[i \in 1..(Len(line) + 2)] == FromWord(From, line, options, i) IN From[1]

process(line, options) == IF AsksHelp(line) THEN Refused ELSE parseArgs(line, options)

\* getOptionAsString(): the last value given, else the default.
Value(settings, name, options) ==
    LET i == SelectLastInSeq(settings.given, LAMBDA g : g[1] = name)
    IN  IF i = 0 THEN IF options[name] = Flag THEN <<"0">> ELSE <<options[name]>>
                 ELSE settings.given[i][2]

\* getOptionAsBoolean() of a flag.
IsSet(settings, name, options) == Value(settings, name, options) = <<"1">>
=============================================================================
