------------------------------ MODULE MCReports ------------------------------
(***************************************************************************)
(* Instances of the services' answers for TLC.  The numbers of the         *)
(* charge controller differ and carry between their halves from one file   *)
(* to the other; some have an exponent.                                    *)
(***************************************************************************)
EXTENDS Reports

Lows == {f.address : f \in {g \in Range(Fields) : g.words = 2}}

\* The high halves differ; those of the generation are written with an exponent.
High(a) == IF a > 51 * 256 + 16 THEN 60000 + (a % 1000) ELSE a % 1000

MCRegisterFiles ==
    {[a \in Registers |-> IF a \in Lows THEN 65535 - (a % 16) ELSE High(a)],
     [a \in Registers |-> IF a \in Lows THEN a % 16 ELSE High(a) + 1]}

MCClocks == {<<1, 515, 6401>>}

MCTables == <<"Recent", "Minutes">>
MCNames == {"Recent", "Minutes", "Years"}

Leaf(v) == <<StartTag("b", <<>>), Text(v), EndTag>>

\* The pieces a document is mostly made of, and the rarer ones.
Plain == {
    <<StartTag("a", <<>>)>>, <<EndTag>>, Leaf("12.5"),
    <<StartTag("b", <<Attribute("x", "0")>>)>>,
    <<StartTag("a", <<>>)>> \o Leaf("0") \o <<EndTag>> }
Odd == {
    Leaf("-"), <<Text("nan")>>, <<WholeTag("a", <<>>)>>, <<StartTag("#b", <<>>)>>, <<Cut>>,
    <<StartTag("b", <<Attribute("x", "-"), Attribute("y", "nan"), Unreadable>>)>> }

MCSegments == Plain \union Odd
MCWeight == [s \in MCSegments |-> IF s \in Plain THEN 1 ELSE 3]
=============================================================================
