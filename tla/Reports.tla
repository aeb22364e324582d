------------------------------- MODULE Reports -------------------------------
(***************************************************************************)
(* The documents the services answer with, and their form in JSON: the     *)
(* report of controller_read, the tables of history, and any document put  *)
(* together from some pieces, which the converter knows nothing about.     *)
(* The two services are programs of their own; an execution is of one of   *)
(* them, or of the parser with one of the documents.                       *)
(***************************************************************************)
EXTENDS ControllerReport, HistoryService, JsonReader

CONSTANTS
    Segments,     \* pieces of a document: sequences of tokens
    Weight,       \* Weight[s]: what a piece counts
    MaxWeight     \* bound: what the pieces of a document count together

\* There is something to ask the services for, the pieces are of tokens, and
\* what the services write is a number or has a letter in it; none of their names
\* begins with #.
ASSUME DocumentAssumption ==
    /\ ReportPaths # {} /\ RegisterFiles # {} /\ Names # {}
    /\ \A s \in Segments : s \in Seq(Range(s)) /\ \A k \in DOMAIN s : IsToken(s[k])
    /\ Weight \in [Segments -> Nat] /\ MaxWeight \in Nat
    /\ {"0", "1", "12.5"} \subseteq Numbers
    /\ {"nan", "1e+06", "noon"} \intersect Bare = {}
    /\ Hashed \intersect ({"controller", "xml", "entry", "voltage", "current"}
                           \union {f.name : f \in Range(Fields)}
                           \union {f.group : f \in Range(Fields)}) = {}

VARIABLES
    source,   \* "controller", "history" or "document"
    reader,   \* XML2JSON, when a document is read
    weight    \* of what has been read

vars == <<source, reader, weight, reportVars, serviceVars>>

TypeOK ==
    /\ source \in {"controller", "history", "document"}
    /\ reader.state \in {"reading", "dead", "error"} /\ weight \in 0..MaxWeight
    /\ ReportTypeOK /\ ServiceTypeOK

-----------------------------------------------------------------------------
(* The report of controller_read as a document. *)

\* Mutant: a failed reading is a dash.
Written_Dash(f, e) == IF e.ok THEN "12.5" ELSE "-"

\* operator<<: of a float, six digits; from 999999.5 on, that is a number of
\* 1525 * 65536 + 57548, it writes an exponent.
Written(f, e) ==
    IF f.words = 1 THEN IF e.ok THEN "12.5" ELSE "nan"
    ELSE IF e.value = <<0, 0>> THEN "0"
    ELSE IF e.value[1] > 1525 \/ (e.value[1] = 1525 /\ e.value[2] >= 57548) THEN "1e+06"
    ELSE "12.5"

Element(name, attrs, inside) == <<StartTag(name, attrs)>> \o inside \o <<EndTag>>

\* The numbers of a group are children of its element.
Group(g, entries) ==
    Element(g, <<>>, FlattenSeq([k \in DOMAIN Fields |->
        IF Fields[k].group # g THEN <<>>
        ELSE Element(Fields[k].name, <<>>, <<Text(Written(Fields[k], entries[k]))>>)]))

Document(entries) ==
    Element("controller", <<Attribute("id", "1")>>,
            Group("pv_array_rating", entries) \o Group("pv_array_now", entries)
            \o Group("battery", entries) \o Group("generation", entries))

-----------------------------------------------------------------------------
(* A table of history as a document. *)

\* toXML(): an entry for each record; v stands for the numbers.
Entry(v) ==
    Element("entry", <<Attribute("time", "noon")>>,
            Element("voltage", <<>>, <<Text(v)>>) \o Element("current", <<>>, <<Text(v)>>))

ToXml(n) == Element("xml", <<>>, FlattenSeq([k \in 1..n |-> Entry("12.5")]))

DeadlyCounts == {n \in 0..MaxRecords : Dies(Convert(ToXml(n)))}

\* What HistoryService takes for granted of the conversion is what it does.
ASSUME ConversionAssumption == Deadly = DeadlyCounts

-----------------------------------------------------------------------------
NoController ==
    /\ serving = "dead" /\ path = CHOOSE p \in ReportPaths : TRUE
    /\ wire = <<>> /\ stream = <<>> /\ late = 0 /\ report = <<>>
    /\ registers = (CHOOSE r \in RegisterFiles : TRUE) /\ seen = {}
    /\ changes = 0 /\ faults = 0

NoHistory ==
    /\ main = "returned" /\ count = 0 /\ stored = {} /\ http = "ended"
    /\ request = CHOOSE r \in Requests : TRUE
    /\ place = Null /\ there = 0 /\ answer = NoAnswer
    /\ records = [t \in DOMAIN Tables |-> 0] /\ quit = TRUE

Init ==
    /\ source \in {"controller", "history", "document"}
    /\ reader = NewReader /\ weight = 0
    /\ IF source = "controller" THEN ReportInit ELSE NoController
    /\ IF source = "history" THEN ServiceInit ELSE NoHistory

Controller ==
    /\ source = "controller" /\ ReportNext
    /\ UNCHANGED <<source, reader, weight, serviceVars>>

History ==
    /\ source = "history" /\ ServiceNext
    /\ UNCHANGED <<source, reader, weight, reportVars>>

ReadOn ==
    /\ source = "document" /\ reader.state = "reading"
    /\ \E s \in Segments :
          /\ weight' = weight + Weight[s] /\ weight' <= MaxWeight
          /\ reader' = ParseOn(reader, s)
    /\ UNCHANGED <<source, reportVars, serviceVars>>

\* As much of a document as is looked at.
DocumentEnds ==
    source = "document" /\ UNCHANGED vars

Next == Controller \/ History \/ ReadOn \/ DocumentEnds

Spec == Init /\ [][Next]_vars /\ ServiceFairness

-----------------------------------------------------------------------------
(* Properties. *)

\* What the converter has read when the whole document has been sent.
Reading ==
    CASE source = "document" -> reader
      [] source = "history" -> IF answer.code = 200 THEN ParseOn(NewReader, ToXml(answer.entries))
                                 ELSE NewReader
      [] source = "controller" ->
            IF serving = "idle" /\ ~More THEN ParseOn(NewReader, Document(report))
                                         ELSE NewReader

\* An answer is JSON exactly when its document has a form in JSON: the pages
\* read nothing else.
JsonWhereThereIs == \A p \in {Reading} : JsonIffConvertible(p)

\* The JSON says what the document says, every value under its own name.
NothingLost == \A p \in {Reading} : SaysTheSame(p)

\* The answers of the services are JSON, failed readings and numbers with an
\* exponent included, but for a table without records, which is not answered.
ServicesSendJson ==
    \/ source = "controller" /\ serving = "idle" /\ ~More
    \/ source = "history" /\ answer.code = 200 /\ request.ext = "json"
    => \A p \in {Reading} : IsJson(Result(p))
=============================================================================
