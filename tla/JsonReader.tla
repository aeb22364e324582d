------------------------------ MODULE JsonReader ------------------------------
(***************************************************************************)
(* What the pages expect of an answer: a reader of JSON, written from the  *)
(* grammar and not from XML2JSON, and what a document says, written from   *)
(* its tree.  XML2JSON is right where the two agree.                       *)
(***************************************************************************)
EXTENDS XmlToJson, FiniteSets, TLC

-----------------------------------------------------------------------------
(* JSON.  The reader keeps the stack of what is open, with the path to it  *)
(* and the place in it, and collects the members with the path to each.    *)

State(stack, after, found) == [stack |-> stack, after |-> after, found |-> found, ok |-> TRUE]
Frame(is, path, count) == [is |-> is, path |-> path, count |-> count]

Fresh == State(<<>>, "open", {})
Wrong == [Fresh EXCEPT !.ok = FALSE]

In(r, container) == r.stack # <<>> /\ Last(r.stack).is = container

\* The path of what starts here: a name in an object, the place in an array.
Here(r, name) ==
    IF r.stack = <<>> THEN <<>>
    ELSE Append(Last(r.stack).path, IF In(r, "array") THEN ToString(Last(r.stack).count) ELSE name)

\* A value may start: after a bracket or a comma, and nothing but one at the top.
Ready(r) == r.after \in {"open", "comma"}

Named(x) == "name" \in DOMAIN x

Legal(r, x) ==
    \/ /\ Named(x) /\ Ready(r) /\ In(r, "object")
       /\ x.piece = "member" => x.quoted \/ x.value \in Numbers
    \/ ~Named(x) /\ x.piece = "object" /\ Ready(r) /\ ~In(r, "object")
    \/ x.piece = "comma" /\ r.after = "value" /\ r.stack # <<>>
    \/ x.piece = "object_end" /\ In(r, "object") /\ r.after # "comma"
    \/ x.piece = "array_end" /\ In(r, "array") /\ r.after # "comma"

Finds(r, name, value) == State(r.stack, "value", r.found \union {<<Here(r, name), value>>})

OpenNext(r, container, name) ==
    State(Append(r.stack, Frame(container, Here(r, name), 1)), "open", r.found)

NextPlace(r) ==
    LET top == Last(r.stack)
    IN  State(Append(Front(r.stack), Frame(top.is, top.path, top.count + 1)), "comma", r.found)

CloseLast(r) == State(Front(r.stack), "value", r.found)

Consume(r, x) ==
    IF ~r.ok \/ ~Legal(r, x) THEN Wrong
    ELSE CASE x.piece = "member" -> Finds(r, x.name, x.value)
           [] x.piece \in {"object", "array"} -> OpenNext(r, x.piece, IF Named(x) THEN x.name ELSE "")
           [] x.piece = "comma" -> NextPlace(r)
           [] OTHER -> CloseLast(r)

Feed(r, json) ==
    LET after[k \in 0..Len(json)] == IF k = 0 THEN r ELSE Consume(after[k - 1], json[k])
    IN  after[Len(json)]

Read(json) == Feed(Fresh, json)

IsJson(json) == LET r == Read(json) IN r.ok /\ r.stack = <<>> /\ r.after = "value"

-----------------------------------------------------------------------------
(* The document: what its tree says, and whether it has a form in JSON. *)

Elements(items) == {i \in DOMAIN items : items[i].name # "#text"}

\* The elements of the tree that is walked.
InnerElements(items) ==
    LET in[i \in 0..Len(items)] == i # 0 /\ (i = Tree(items) \/ in[items[i].parent])
    IN  {i \in Elements(items) : in[i]}

Alike(items, i) ==
    {j \in Elements(items) : items[j].name = items[i].name /\ items[j].parent = items[i].parent}

\* The path of an element: its name, and its place among those of its name.
PathAfter(items, i, path) ==
    LET named == Append(path, items[i].name)
    IN  IF i = Tree(items) \/ Alike(items, i) = {i} THEN named
        ELSE Append(named, ToString(Cardinality({j \in Alike(items, i) : j <= i})))

Path(items) ==
    LET path[i \in 0..Len(items)] ==
            IF i = 0 THEN <<>> ELSE PathAfter(items, i, path[items[i].parent])
    IN  path

\* What an element says, but for what its children say.
SaysOwn(items, i) ==
    IF OnlyText(items, i) THEN {<<Path(items)[i], TextOf(items, i)>>}
    ELSE {<<Append(Path(items)[i], At(items[i].attributes[k].name)), items[i].attributes[k].value>>
          : k \in DOMAIN items[i].attributes}

Says(items) == UNION {SaysOwn(items, i) : i \in InnerElements(items)}

ValueOk(v) == v \in Bare => v \in Numbers

\* An element has children, and no # before its name; a text is an only child, and
\* its element the only one of its name; a value of nothing but digits and signs is
\* a number.
HasForm(items, i) ==
    /\ Children(items, i) # {} /\ items[i].name \notin Hashed
    /\ IF OnlyText(items, i)
       THEN ValueOk(TextOf(items, i)) /\ (i = Tree(items) \/ Alike(items, i) = {i})
       ELSE /\ \A k \in Children(items, i) : ~IsText(items, k)
            /\ \A k \in DOMAIN items[i].attributes : ValueOk(items[i].attributes[k].value)

Convertible(p) ==
    /\ Parsed(p) /\ InnerElements(p.items) # {}
    /\ \A i \in InnerElements(p.items) : HasForm(p.items, i)

\* The answer is JSON exactly for the documents that have a form in it.
JsonIffConvertible(p) == IsJson(Result(p)) <=> Convertible(p)

\* It then says what the document says, each value under the name it has there.
SaysTheSame(p) == Convertible(p) => Read(Result(p)).found = Says(p.items)
=============================================================================
