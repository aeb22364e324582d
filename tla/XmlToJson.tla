------------------------------ MODULE XmlToJson ------------------------------
(***************************************************************************)
(* XML2JSON::convert(): the services write their answers as XML and, for   *)
(* a path that ends in json, convert them.  XMLParser cuts the text into   *)
(* tokens and calls back; XML2JSON builds a tree from the calls, groups    *)
(* the children of each element by name, and writes the tree.              *)
(*                                                                         *)
(* A document is a sequence of tokens, the result a sequence of pieces of  *)
(* JSON text.  Texts are strings that are told apart only by whether they  *)
(* are quoted, and whether JSON reads them as a number when they are not;  *)
(* none has a quotation mark in it.  Names are quoted unless they begin    *)
(* with #.                                                                 *)
(***************************************************************************)
EXTENDS Naturals, Sequences, SequencesExt

CONSTANTS
    Hashed,    \* names that begin with #
    Bare,      \* texts of nothing but digits, signs and points
    Numbers    \* those of them that are numbers

ASSUME TextAssumption == Numbers \subseteq Bare

-----------------------------------------------------------------------------
(* XMLParser::next(): tokens.  Blanks between them are skipped. *)

Attribute(n, v) == [ok |-> TRUE, name |-> n, value |-> v]
Unreadable      == [ok |-> FALSE]    \* no sign, or no closing quotation mark

StartTag(n, attrs) == [kind |-> "start", name |-> n, attrs |-> attrs]
WholeTag(n, attrs) == [kind |-> "whole", name |-> n, attrs |-> attrs]
EndTag             == [kind |-> "end"]
Text(v)            == [kind |-> "text", value |-> v]
Cut                == [kind |-> "cut"]    \* a tag the document ends in

\* What a token may be.  No element is called as the items of texts are.
IsToken(tk) ==
    /\ tk.kind \in {"start", "whole", "end", "text", "cut"}
    /\ tk.kind \in {"start", "whole"} => tk.name # "#text" /\ tk.attrs \in Seq(Range(tk.attrs))

\* nextAttribute() ends at the first it cannot read.
Readable(attrs) ==
    LET bad == SelectInSeq(attrs, LAMBDA a : ~a.ok)
    IN  IF bad = 0 THEN attrs ELSE SubSeq(attrs, 1, bad - 1)

-----------------------------------------------------------------------------
(* The tree: items in the order they were made, each with its parent. *)

NewReader == [items |-> <<>>, current |-> 0, after |-> "none", state |-> "reading"]

AddItem(p, n, v, attrs) ==
    [p EXCEPT !.items = Append(@, [name |-> n, value |-> v, attributes |-> attrs,
                                   parent |-> p.current])]

OnStartTag(p, n, attrs) ==
    [AddItem(p, n, "", Readable(attrs)) EXCEPT !.current = Len(p.items) + 1]

OnText(p, v) == AddItem(p, "#text", v, <<>>)

\* Names are not compared; with nothing open the parent of NULL is asked for.
OnEndTag(p) ==
    IF p.current = 0 THEN [p EXCEPT !.state = "dead"]
    ELSE [p EXCEPT !.current = p.items[@].parent]

\* One turn of the loop of inner(), whose recursion is the chain of parents.
Inner(p, tk) ==
    IF p.state # "reading" THEN p
    ELSE [(CASE tk.kind = "text"  -> OnText(p, tk.value)
             [] tk.kind = "start" -> OnStartTag(p, tk.name, tk.attrs)
             [] tk.kind = "whole" -> OnEndTag(OnStartTag(p, tk.name, tk.attrs))
             [] tk.kind = "end"   -> OnEndTag(p)
             [] tk.kind = "cut"   -> [p EXCEPT !.state = "error"])
          EXCEPT !.after = tk.kind]

\* parse(): a text must be followed by a tag; elements may be left open.
Parsed(p) == p.state = "reading" /\ p.after # "text"

\* The loop over a document, or a part of it.
ParseOn(p, doc) ==
    LET after[k \in 0..Len(doc)] == IF k = 0 THEN p ELSE Inner(after[k - 1], doc[k])
    IN  after[Len(doc)]

-----------------------------------------------------------------------------
(* The pieces of JSON text. *)

Piece(t) == [piece |-> t]

\* What a name stands before; one that begins with # is not quoted.
Labelled(n, p) == IF n \in Hashed THEN Piece("unquoted") ELSE p
Opens(n, bracket) == Labelled(n, [piece |-> bracket, name |-> n])

Member(n, v) == [piece |-> "member", name |-> n, value |-> v, quoted |-> v \notin Bare]
At(n) == "@" \o n    \* the name of an attribute
Comma(wanted) == IF wanted THEN <<Piece("comma")>> ELSE <<>>
Dead == Piece("dead")

Children(items, i) == {k \in DOMAIN items : items[k].parent = i}

IsText(items, i) == items[i].name = "#text"
OnlyText(items, i) == \E k \in Children(items, i) : Children(items, i) = {k} /\ IsText(items, k)
TextOf(items, i) == items[CHOOSE k \in Children(items, i) : TRUE].value

\* Mutant: before the others of its name.
Insert_Before(items, seq, k) ==
    LET first == SelectInSeq(seq, LAMBDA j : items[j].name = items[k].name)
    IN  IF first = 0 THEN Append(seq, k) ELSE InsertAt(seq, first, k)

\* The place sort() gives a child: after the others of its name, or last.
Insert(items, seq, k) ==
    LET same(j) == items[j].name = items[k].name
        first == SelectInSeq(seq, same)
        past  == SelectInSubSeq(seq, first, Len(seq), LAMBDA j : ~same(j))
    IN  IF first = 0 \/ past = 0 THEN Append(seq, k) ELSE InsertAt(seq, past, k)

\* The children of an element, one after the other as they were made.
Sorted(items, i) ==
    LET kids[n \in 0..Len(items)] ==
            IF n = 0 THEN <<>>
            ELSE IF n \in Children(items, i) THEN Insert(items, kids[n - 1], n) ELSE kids[n - 1]
    IN  kids[Len(items)]

\* Mutant: no comma between the attributes and the children.
Attributes_Comma(items, i) ==
    LET attrs == items[i].attributes
    IN  FlattenSeq([k \in DOMAIN attrs |->
            <<Member(At(attrs[k].name), attrs[k].value)>> \o Comma(k < Len(attrs))])

Attributes(items, i) ==
    LET attrs == items[i].attributes
    IN  FlattenSeq([k \in DOMAIN attrs |->
            <<Member(At(attrs[k].name), attrs[k].value)>>
            \o Comma(Children(items, i) # {} \/ k < Len(attrs))])

\* walk(): an element with nothing but a text is a member; inside[i] is what the
\* brackets of any other hold.
Walk(inside, items, i, last, member) ==
    (IF OnlyText(items, i) THEN <<Labelled(items[i].name, Member(items[i].name, TextOf(items, i)))>>
     ELSE <<IF member THEN Piece("object") ELSE Opens(items[i].name, "object")>> \o inside[i] \o <<Piece("object_end")>>)
    \o Comma(~last)

\* A turn of its loop: children of one name are the members of an array.
Child(inside, items, kids, k) ==
    LET alike(j) == {j, j + 1} \subseteq DOMAIN kids
                    /\ items[kids[j]].name = items[kids[j + 1]].name
        before == alike(k - 1)
        next   == alike(k)
    IN  (IF next /\ ~before THEN <<Opens(items[kids[k]].name, "array")>> ELSE <<>>)
        \o (IF next \/ before THEN Walk(inside, items, kids[k], ~next, TRUE)
                              ELSE Walk(inside, items, kids[k], k = Len(kids), FALSE))
        \o (IF before /\ ~next THEN <<Piece("array_end")>> \o Comma(k < Len(kids)) ELSE <<>>)

\* The loop looks at the first child before it asks whether there is one.
Inside(items) ==
    LET inside[i \in DOMAIN items] ==
            LET kids == Sorted(items, i)
            IN  Attributes(items, i)
                \o (IF kids = <<>> THEN <<Dead>>
                    ELSE FlattenSeq([k \in DOMAIN kids |-> Child(inside, items, kids, k)]))
    IN  inside

\* The element convert() walks: the first that was started.
Tree(items) == SelectInSeq(items, LAMBDA it : it.name # "#text")

OnFinish(p) ==
    IF Tree(p.items) = 0 THEN <<Dead>>
    ELSE <<Piece("object")>> \o Walk(Inside(p.items), p.items, Tree(p.items), TRUE, FALSE) \o <<Piece("object_end")>>

\* What is left of a document once its last token has been read.
Result(p) ==
    IF p.state = "dead" THEN <<Dead>>
    ELSE IF Parsed(p) THEN OnFinish(p) ELSE <<Piece("#error")>>

Convert(doc) == Result(ParseOn(NewReader, doc))

\* The conversion follows a pointer to nothing, and the process ends.
Dies(json) == \E k \in DOMAIN json : json[k] = Dead
=============================================================================
