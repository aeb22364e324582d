------------------------------ MODULE JsonProofs ------------------------------
(***************************************************************************)
(* Proofs about XML2JSON::convert(), for every document: the answer is     *)
(* JSON exactly when the document has a form in JSON, and then says what   *)
(* the document says.                                                      *)
(*   - sort() keeps each child once, in groups of one name: HoldsKids,     *)
(*     Grouped;                                                            *)
(*   - the reader of JSON gets over what walk() writes for an element if   *)
(*     and only if all below it have a form, and finds what they say:      *)
(*     WalkReads, by induction from the last item to the first, and        *)
(*     within an element over the loop of walk(): AfterKid;                *)
(*   - the items are such as the parser makes them: ParserOk.              *)
(***************************************************************************)
EXTENDS JsonReader, SequenceTheorems, FiniteSetTheorems, WellFoundedInduction, TLAPS

-----------------------------------------------------------------------------
(* Induction, and the functions that are defined by it. *)

\* Induction over the natural numbers, for a set.
LEMMA SetInduction ==
    ASSUME NEW S, 0 \in S, \A n \in Nat : n \in S => n + 1 \in S
    PROVE  \A n \in Nat : n \in S
<1> DEFINE T == Nat \ S
           R == OpToRel(<, Nat)
<1> SUFFICES ASSUME T # {} PROVE FALSE
  OBVIOUS
<1>1. IsWellFoundedOn(R, Nat) /\ T \subseteq Nat
  BY NatLessThanWellFounded
<1> HIDE DEF R, T
<1>2. PICK x \in T : \A y \in T : ~ (<<y, x>> \in R)
  BY <1>1, WFMin
<1>3. x \in Nat /\ x \notin S
  BY <1>2 DEF T
<1>4. x # 0 /\ x - 1 \in Nat /\ x = (x - 1) + 1
  BY <1>3
<1>5. x - 1 \notin S
  BY <1>3, <1>4
<1>6. x - 1 \in T /\ <<x - 1, x>> \in R
  BY <1>3, <1>4, <1>5 DEF T, R, OpToRel
<1> QED
  BY <1>2, <1>6

\* The states of the parser in front of the tokens.
ParseRuns(f, p, doc, n) ==
    f = [k \in 0..n |-> IF k = 0 THEN p ELSE Inner(f[k - 1], doc[k])]
CanParse(p, doc, n) == \E f : ParseRuns(f, p, doc, n)

LEMMA ParseExists ==
    ASSUME NEW p, NEW doc, NEW n \in Nat
    PROVE  CanParse(p, doc, n)
<1> DEFINE T == {m \in Nat : CanParse(p, doc, m)}
<1>1. 0 \in T
  <2> DEFINE f == [k \in 0..0 |-> p]
  <2>1. f = [k \in 0..0 |-> IF k = 0 THEN p ELSE Inner(f[k - 1], doc[k])]
    OBVIOUS
  <2> QED
    BY <2>1 DEF CanParse, ParseRuns
<1>2. ASSUME NEW m \in Nat, m \in T PROVE m + 1 \in T
  <2>1. PICK f : ParseRuns(f, p, doc, m)
    BY <1>2 DEF CanParse
  <2>2. PICK v : v = Inner(f[m], doc[m + 1])
    OBVIOUS
  <2> DEFINE g == [k \in 0..(m + 1) |-> IF k = m + 1 THEN v ELSE f[k]]
  <2>3. g[m + 1] = v /\ \A k \in 0..m : g[k] = f[k]
    OBVIOUS
  <2>4. \A k \in 0..(m + 1) : g[k] = IF k = 0 THEN p ELSE Inner(g[k - 1], doc[k])
    <3> HIDE DEF g
    <3> TAKE k \in 0..(m + 1)
    <3>1. CASE k = m + 1
      <4>1. k # 0 /\ k - 1 = m /\ m \in 0..m
        BY <3>1
      <4> QED
        BY <2>2, <2>3, <3>1, <4>1
    <3>2. CASE k # m + 1
      <4>1. k \in 0..m /\ (k # 0 => k - 1 \in 0..m)
        BY <3>2
      <4>2. f[k] = IF k = 0 THEN p ELSE Inner(f[k - 1], doc[k])
        BY <2>1, <4>1 DEF ParseRuns
      <4> QED
        BY <2>3, <4>1, <4>2
    <3> QED
      BY <3>1, <3>2
  <2>5. ParseRuns(g, p, doc, m + 1)
    <3>1. g = [k \in 0..(m + 1) |-> g[k]]
      OBVIOUS
    <3> HIDE DEF g
    <3> QED
      BY <2>4, <3>1 DEF ParseRuns
  <2> QED
    BY <2>5 DEF CanParse
<1> HIDE DEF T
<1>3. n \in T
  BY <1>1, <1>2, SetInduction
<1> QED
  BY <1>3 DEF T

LEMMA ParseSteps ==
    ASSUME NEW p, NEW doc, NEW n \in Nat, n = Len(doc)
    PROVE  \E f : f[0] = p /\ f[n] = ParseOn(p, doc)
                  /\ \A k \in 1..n : f[k] = Inner(f[k - 1], doc[k])
<1> DEFINE h == CHOOSE f : ParseRuns(f, p, doc, n)
<1>1. ParseRuns(h, p, doc, n)
  BY ParseExists DEF CanParse
<1>2. ParseOn(p, doc) = h[n]
  BY DEF ParseOn, ParseRuns
<1> HIDE DEF h
<1>3. h[0] = p
  BY <1>1 DEF ParseRuns
<1>4. ASSUME NEW k \in 1..n PROVE h[k] = Inner(h[k - 1], doc[k])
  <2>1. k \in 0..n /\ k # 0
    OBVIOUS
  <2> QED
    BY <1>1, <2>1 DEF ParseRuns
<1> QED
  BY <1>2, <1>3, <1>4
-----------------------------------------------------------------------------
(* Sequences of anything. *)

IsSeq(s) == s \in Seq(Range(s))

LEMMA SeqIsSeq == ASSUME NEW V, NEW s \in Seq(V) PROVE IsSeq(s)
  BY SeqOfRange DEF IsSeq

LEMMA MadeIsSeq ==
    ASSUME NEW n \in Nat, NEW s, s = [k \in 1..n |-> s[k]]
    PROVE  IsSeq(s) /\ Len(s) = n /\ DOMAIN s = 1..n
<1>1. s \in [1..n -> Range(s)]
  BY DEF Range
<1>2. s \in Seq(Range(s))
  BY <1>1, SeqDef
<1>3. DOMAIN s = 1..n /\ DOMAIN s = 1..Len(s) /\ Len(s) \in Nat
  BY <1>1, <1>2, LenProperties
<1> QED
  BY <1>2, <1>3 DEF IsSeq

LEMMA ShortIsSeq == IsSeq(<<>>) /\ \A x : IsSeq(<<x>>)
<1>1. <<>> \in Seq({})
  BY EmptySeq
<1>2. \A x : <<x>> \in Seq({x})
  OBVIOUS
<1> QED
  BY <1>1, <1>2, SeqIsSeq

LEMMA JoinedIsSeq ==
    ASSUME NEW s, NEW t, IsSeq(s), IsSeq(t)
    PROVE  /\ IsSeq(s \o t) /\ Len(s) \in Nat /\ Len(t) \in Nat /\ Len(s \o t) = Len(s) + Len(t)
           /\ \A k \in 1..Len(s) : (s \o t)[k] = s[k]
           /\ \A k \in 1..Len(t) : (s \o t)[Len(s) + k] = t[k]
<1> DEFINE V == Range(s) \union Range(t)
<1>1. s \in Seq(V) /\ t \in Seq(V)
  BY SeqMonotonic DEF IsSeq
<1> HIDE DEF V
<1>2. /\ s \o t \in Seq(V) /\ Len(s) \in Nat /\ Len(t) \in Nat /\ Len(s \o t) = Len(s) + Len(t)
      /\ \A i \in 1..Len(s) + Len(t) :
            (s \o t)[i] = IF i <= Len(s) THEN s[i] ELSE t[i - Len(s)]
  BY <1>1, ConcatProperties, LenProperties
<1>3. ASSUME NEW k \in 1..Len(s) PROVE (s \o t)[k] = s[k]
  BY <1>2
<1>4. ASSUME NEW k \in 1..Len(t) PROVE (s \o t)[Len(s) + k] = t[k]
  <2>1. Len(s) + k \in 1..Len(s) + Len(t) /\ ~(Len(s) + k <= Len(s)) /\ (Len(s) + k) - Len(s) = k
    BY <1>2
  <2> QED
    BY <1>2, <2>1
<1> QED
  BY <1>2, <1>3, <1>4, SeqIsSeq

LEMMA NothingJoined == ASSUME NEW s, IsSeq(s) PROVE s \o <<>> = s /\ <<>> \o s = s
  BY ConcatEmptySeq DEF IsSeq

\* The parts of FlattenSeq, joined one after the other.
Chained(F, seqs, n) ==
    /\ F[0] = <<>>
    /\ \A k \in 1..n : F[k] = F[k - 1] \o seqs[k]
    /\ \A k \in 0..n : IsSeq(F[k])

JoinRuns(F, seqs, n) ==
    F = [k \in 1..n |-> IF k = 1 THEN seqs[k] ELSE F[k - 1] \o seqs[k]]
CanJoin(seqs, n) == \E F : JoinRuns(F, seqs, n)

LEMMA JoinExists ==
    ASSUME NEW seqs, NEW n \in Nat
    PROVE  CanJoin(seqs, n)
<1> DEFINE T == {m \in Nat : CanJoin(seqs, m)}
<1>1. 0 \in T
  <2> DEFINE f == [k \in 1..0 |-> seqs[k]]
  <2>1. f = [k \in 1..0 |-> IF k = 1 THEN seqs[k] ELSE f[k - 1] \o seqs[k]]
    OBVIOUS
  <2> QED
    BY <2>1 DEF CanJoin, JoinRuns
<1>2. ASSUME NEW m \in Nat, m \in T PROVE m + 1 \in T
  <2>1. PICK f : JoinRuns(f, seqs, m)
    BY <1>2 DEF CanJoin
  <2>2. PICK v : v = IF m = 0 THEN seqs[m + 1] ELSE f[m] \o seqs[m + 1]
    OBVIOUS
  <2> DEFINE g == [k \in 1..(m + 1) |-> IF k = m + 1 THEN v ELSE f[k]]
  <2>3. g[m + 1] = v /\ \A k \in 1..m : g[k] = f[k]
    OBVIOUS
  <2>4. \A k \in 1..(m + 1) : g[k] = IF k = 1 THEN seqs[k] ELSE g[k - 1] \o seqs[k]
    <3> HIDE DEF g
    <3> TAKE k \in 1..(m + 1)
    <3>1. CASE k = m + 1
      <4>1. (m = 0 <=> k = 1) /\ k - 1 = m /\ (m # 0 => m \in 1..m)
        BY <3>1
      <4> QED
        BY <2>2, <2>3, <3>1, <4>1
    <3>2. CASE k # m + 1
      <4>1. k \in 1..m /\ (k # 1 => k - 1 \in 1..m)
        BY <3>2
      <4>2. f[k] = IF k = 1 THEN seqs[k] ELSE f[k - 1] \o seqs[k]
        BY <2>1, <4>1 DEF JoinRuns
      <4> QED
        BY <2>3, <4>1, <4>2
    <3> QED
      BY <3>1, <3>2
  <2>5. JoinRuns(g, seqs, m + 1)
    <3>1. g = [k \in 1..(m + 1) |-> g[k]]
      OBVIOUS
    <3> HIDE DEF g
    <3> QED
      BY <2>4, <3>1 DEF JoinRuns
  <2> QED
    BY <2>5 DEF CanJoin
<1> HIDE DEF T
<1>3. n \in T
  BY <1>1, <1>2, SetInduction
<1> QED
  BY <1>3 DEF T

LEMMA Flattened ==
    ASSUME NEW n \in Nat, NEW seqs, seqs = [k \in 1..n |-> seqs[k]], \A k \in 1..n : IsSeq(seqs[k])
    PROVE  \E F : Chained(F, seqs, n) /\ FlattenSeq(seqs) = F[n]
<1>0. Len(seqs) = n /\ IsSeq(seqs)
  BY MadeIsSeq
<1> DEFINE h == CHOOSE f : JoinRuns(f, seqs, n)
           F == [k \in 0..n |-> IF k = 0 THEN <<>> ELSE h[k]]
<1>1. JoinRuns(h, seqs, n)
  BY JoinExists DEF CanJoin
<1>2. n # 0 => FlattenSeq(seqs) = h[n]
  BY <1>0 DEF FlattenSeq, JoinRuns
<1>3. n = 0 => FlattenSeq(seqs) = <<>>
  <2> HAVE n = 0
  <2>1. seqs = <<>>
    BY <1>0, EmptySeq DEF IsSeq
  <2> QED
    BY <1>0, <2>1 DEF FlattenSeq
<1> HIDE DEF h
<1>4. FlattenSeq(seqs) = F[n]
  BY <1>2, <1>3
<1>5. F[0] = <<>> /\ \A k \in 1..n : F[k] = h[k]
  OBVIOUS
<1>6. \A k \in 1..n : h[k] = IF k = 1 THEN seqs[k] ELSE h[k - 1] \o seqs[k]
  BY <1>1 DEF JoinRuns
<1> HIDE DEF F
<1>7. ASSUME NEW k \in 1..n PROVE F[k] = F[k - 1] \o seqs[k]
  <2>1. CASE k = 1
    <3>1. F[k] = seqs[k] /\ F[k - 1] = <<>> /\ IsSeq(seqs[k])
      BY <1>5, <1>6, <2>1
    <3> QED
      BY <3>1, NothingJoined
  <2>2. CASE k # 1
    <3>1. k - 1 \in 1..n
      BY <2>2
    <3> QED
      BY <1>5, <1>6, <2>2, <3>1
  <2> QED
    BY <2>1, <2>2
<1> DEFINE T == {m \in Nat : m \in 0..n => IsSeq(F[m])}
<1>8. 0 \in T
  BY <1>5, ShortIsSeq
<1>9. ASSUME NEW m \in Nat, m \in T PROVE m + 1 \in T
  <2> SUFFICES ASSUME m + 1 \in 0..n PROVE IsSeq(F[m + 1])
    OBVIOUS
  <2>1. m + 1 \in 1..n /\ (m + 1) - 1 = m /\ m \in 0..n
    OBVIOUS
  <2>2. F[m + 1] = F[m] \o seqs[m + 1] /\ IsSeq(F[m]) /\ IsSeq(seqs[m + 1])
    BY <1>7, <1>9, <2>1
  <2> QED
    BY <2>2, JoinedIsSeq
<1> HIDE DEF T
<1>10. \A m \in Nat : m \in T
  BY <1>8, <1>9, SetInduction
<1>11. \A k \in 0..n : IsSeq(F[k])
  BY <1>10 DEF T
<1> QED
  BY <1>4, <1>5, <1>7, <1>11 DEF Chained

-----------------------------------------------------------------------------
(* The reader of JSON, fed with some pieces after the other. *)

FeedRuns(f, r, json, n) ==
    f = [k \in 0..n |-> IF k = 0 THEN r ELSE Consume(f[k - 1], json[k])]
CanFeed(r, json, n) == \E f : FeedRuns(f, r, json, n)

LEMMA FeedExists ==
    ASSUME NEW r, NEW json, NEW n \in Nat
    PROVE  CanFeed(r, json, n)
<1> DEFINE T == {m \in Nat : CanFeed(r, json, m)}
<1>1. 0 \in T
  <2> DEFINE f == [k \in 0..0 |-> r]
  <2>1. f = [k \in 0..0 |-> IF k = 0 THEN r ELSE Consume(f[k - 1], json[k])]
    OBVIOUS
  <2> QED
    BY <2>1 DEF CanFeed, FeedRuns
<1>2. ASSUME NEW m \in Nat, m \in T PROVE m + 1 \in T
  <2>1. PICK f : FeedRuns(f, r, json, m)
    BY <1>2 DEF CanFeed
  <2>2. PICK v : v = Consume(f[m], json[m + 1])
    OBVIOUS
  <2> DEFINE g == [k \in 0..(m + 1) |-> IF k = m + 1 THEN v ELSE f[k]]
  <2>3. g[m + 1] = v /\ \A k \in 0..m : g[k] = f[k]
    OBVIOUS
  <2>4. \A k \in 0..(m + 1) : g[k] = IF k = 0 THEN r ELSE Consume(g[k - 1], json[k])
    <3> HIDE DEF g
    <3> TAKE k \in 0..(m + 1)
    <3>1. CASE k = m + 1
      <4>1. k # 0 /\ k - 1 = m /\ m \in 0..m
        BY <3>1
      <4> QED
        BY <2>2, <2>3, <3>1, <4>1
    <3>2. CASE k # m + 1
      <4>1. k \in 0..m /\ (k # 0 => k - 1 \in 0..m)
        BY <3>2
      <4>2. f[k] = IF k = 0 THEN r ELSE Consume(f[k - 1], json[k])
        BY <2>1, <4>1 DEF FeedRuns
      <4> QED
        BY <2>3, <4>1, <4>2
    <3> QED
      BY <3>1, <3>2
  <2>5. FeedRuns(g, r, json, m + 1)
    <3>1. g = [k \in 0..(m + 1) |-> g[k]]
      OBVIOUS
    <3> HIDE DEF g
    <3> QED
      BY <2>4, <3>1 DEF FeedRuns
  <2> QED
    BY <2>5 DEF CanFeed
<1> HIDE DEF T
<1>3. n \in T
  BY <1>1, <1>2, SetInduction
<1> QED
  BY <1>3 DEF T

Steps(f, r, json, n) == f[0] = r /\ \A k \in 1..n : f[k] = Consume(f[k - 1], json[k])

LEMMA FeedSteps ==
    ASSUME NEW r, NEW json, NEW n \in Nat, n = Len(json)
    PROVE  \E f : Steps(f, r, json, n) /\ f[n] = Feed(r, json)
<1> DEFINE h == CHOOSE f : FeedRuns(f, r, json, n)
<1>1. FeedRuns(h, r, json, n)
  BY FeedExists DEF CanFeed
<1>2. Feed(r, json) = h[n]
  BY DEF Feed, FeedRuns
<1> HIDE DEF h
<1>3. h[0] = r
  BY <1>1 DEF FeedRuns
<1>4. ASSUME NEW k \in 1..n PROVE h[k] = Consume(h[k - 1], json[k])
  <2>1. k \in 0..n /\ k # 0
    OBVIOUS
  <2> QED
    BY <1>1, <2>1 DEF FeedRuns
<1> QED
  BY <1>2, <1>3, <1>4 DEF Steps

\* There is one such sequence of states.
LEMMA StepsAgree ==
    ASSUME NEW r, NEW json, NEW n \in Nat, NEW f, NEW g, Steps(f, r, json, n), Steps(g, r, json, n)
    PROVE  \A k \in 0..n : f[k] = g[k]
<1> DEFINE T == {m \in Nat : m \in 0..n => f[m] = g[m]}
<1>1. 0 \in T
  BY DEF Steps
<1>2. ASSUME NEW m \in Nat, m \in T PROVE m + 1 \in T
  <2> SUFFICES ASSUME m + 1 \in 0..n PROVE f[m + 1] = g[m + 1]
    OBVIOUS
  <2>1. m + 1 \in 1..n /\ (m + 1) - 1 = m /\ m \in 0..n
    OBVIOUS
  <2> QED
    BY <1>2, <2>1 DEF Steps
<1> HIDE DEF T
<1>3. \A m \in Nat : m \in T
  BY <1>1, <1>2, SetInduction
<1> QED
  BY <1>3 DEF T

LEMMA FeedNothing == ASSUME NEW r PROVE Feed(r, <<>>) = r
<1>1. Len(<<>>) = 0
  BY EmptySeq
<1>2. PICK f : Steps(f, r, <<>>, 0) /\ f[0] = Feed(r, <<>>)
  BY <1>1, FeedSteps
<1> QED
  BY <1>2 DEF Steps

LEMMA FeedOne == ASSUME NEW r, NEW x PROVE Feed(r, <<x>>) = Consume(r, x)
<1>1. Len(<<x>>) = 1 /\ <<x>>[1] = x
  OBVIOUS
<1>2. PICK f : Steps(f, r, <<x>>, 1) /\ f[1] = Feed(r, <<x>>)
  BY <1>1, FeedSteps
<1>3. 1 \in 1..1 /\ 1 - 1 = 0
  OBVIOUS
<1> QED
  BY <1>1, <1>2, <1>3 DEF Steps

LEMMA FeedJoined ==
    ASSUME NEW r, NEW s, NEW t, IsSeq(s), IsSeq(t)
    PROVE  Feed(r, s \o t) = Feed(Feed(r, s), t)
<1>0. /\ Len(s) \in Nat /\ Len(t) \in Nat /\ Len(s \o t) = Len(s) + Len(t)
      /\ \A k \in 1..Len(s) : (s \o t)[k] = s[k]
      /\ \A k \in 1..Len(t) : (s \o t)[Len(s) + k] = t[k]
  BY JoinedIsSeq
<1>1. PICK m \in Nat, n \in Nat : m = Len(s) /\ n = Len(t)
  BY <1>0
<1>2. PICK u : u = s \o t
  OBVIOUS
<1>3. PICK q : q = Feed(r, s)
  OBVIOUS
<1>4. PICK f : Steps(f, r, s, m) /\ f[m] = q
  BY <1>1, <1>3, FeedSteps
<1>5. PICK g : Steps(g, q, t, n) /\ g[n] = Feed(q, t)
  BY <1>1, FeedSteps
<1>6. PICK h : Steps(h, r, u, m + n) /\ h[m + n] = Feed(r, u)
  <2>1. PICK w \in Nat : w = m + n
    OBVIOUS
  <2>2. w = Len(u)
    BY <1>0, <1>1, <1>2, <2>1
  <2> QED
    BY <2>1, <2>2, FeedSteps
<1>7. /\ \A k \in 1..m : u[k] = s[k]
      /\ \A k \in 1..n : u[m + k] = t[k]
  BY <1>0, <1>1, <1>2
<1>8. Steps(h, r, s, m)
  <2>1. \A k \in 1..m : k \in 1..(m + n)
    OBVIOUS
  <2> QED
    BY <1>6, <1>7, <2>1 DEF Steps
<1>9. h[m] = q
  <2>1. m \in 0..m
    OBVIOUS
  <2> QED
    BY <1>4, <1>8, <2>1, StepsAgree
<1> DEFINE e == [k \in 0..n |-> h[m + k]]
<1>10. Steps(e, q, t, n)
  <2>1. e[0] = q
    BY <1>9
  <2>2. ASSUME NEW k \in 1..n PROVE e[k] = Consume(e[k - 1], t[k])
    <3>1. m + k \in 1..(m + n) /\ (m + k) - 1 = m + (k - 1) /\ k \in 0..n /\ k - 1 \in 0..n
      OBVIOUS
    <3>2. h[m + k] = Consume(h[m + (k - 1)], u[m + k])
      BY <1>6, <3>1 DEF Steps
    <3>3. e[k] = h[m + k] /\ e[k - 1] = h[m + (k - 1)]
      BY <3>1
    <3> QED
      BY <1>7, <3>2, <3>3
  <2> HIDE DEF e
  <2> QED
    BY <2>1, <2>2 DEF Steps
<1>11. e[n] = h[m + n]
  OBVIOUS
<1> HIDE DEF e
<1>12. e[n] = g[n]
  <2>1. n \in 0..n
    OBVIOUS
  <2> QED
    BY <1>5, <1>10, <2>1, StepsAgree
<1> QED
  BY <1>2, <1>3, <1>5, <1>6, <1>11, <1>12

-----------------------------------------------------------------------------
(* What the reader makes of each piece. *)

LEMMA Top ==
    ASSUME NEW b, NEW t, IsSeq(b)
    PROVE  /\ IsSeq(Append(b, t)) /\ Append(b, t) # <<>>
           /\ Last(Append(b, t)) = t /\ Front(Append(b, t)) = b
<1> DEFINE V == Range(b) \union {t}
<1>1. b \in Seq(V) /\ t \in V
  BY SeqMonotonic DEF IsSeq
<1> HIDE DEF V
<1>2. /\ Append(b, t) \in Seq(V) /\ Append(b, t) # <<>> /\ Len(Append(b, t)) = Len(b) + 1
      /\ \A i \in 1..Len(b) : Append(b, t)[i] = b[i]
      /\ Append(b, t)[Len(b) + 1] = t /\ Len(b) \in Nat
  BY <1>1, AppendProperties, LenProperties
<1>3. Last(Append(b, t)) = t
  BY <1>2 DEF Last
<1>4. Front(Append(b, t)) = b
  <2>1. PICK u : u = Append(b, t)
    OBVIOUS
  <2>2. PICK n \in Nat : n = Len(b)
    BY <1>2
  <2>3. n \in Int /\ 1 \in Int /\ \A i \in 1..n : u[i] \in V
    BY <1>1, <1>2, <2>1, <2>2, ElementOfSeq
  <2>4. /\ SubSeq(u, 1, n) \in Seq(V) /\ Len(SubSeq(u, 1, n)) = n
        /\ \A i \in 1..n : SubSeq(u, 1, n)[i] = u[i]
    BY <2>3, SubSeqProperties
  <2>5. SubSeq(u, 1, n) = b
    BY <1>1, <1>2, <2>1, <2>2, <2>4, SeqEqual
  <2>6. Len(u) - 1 = n
    BY <1>2, <2>1, <2>2
  <2> QED
    BY <2>1, <2>5, <2>6 DEF Front
<1> QED
  BY <1>2, <1>3, <1>4, SeqIsSeq

\* The reader with t on top of what is open.
On(b, t, a, F) == State(Append(b, t), a, F)

Has(r, b, is, path, count, a, F) ==
    /\ r.ok = TRUE /\ r.after = a /\ r.found = F /\ r.stack = Append(b, Frame(is, path, count))
    /\ r.stack # <<>> /\ Last(r.stack) = Frame(is, path, count) /\ Front(r.stack) = b
    /\ \A c : In(r, c) <=> is = c
    /\ \A n : Here(r, n) = Append(path, IF is = "array" THEN ToString(count) ELSE n)

LEMMA OnHas ==
    ASSUME NEW b, IsSeq(b), NEW is, NEW path, NEW count, NEW a, NEW F
    PROVE  Has(On(b, Frame(is, path, count), a, F), b, is, path, count, a, F)
<1>0. PICK r : r = On(b, Frame(is, path, count), a, F)
  OBVIOUS
<1>1. PICK s, t : t = Frame(is, path, count) /\ s = Append(b, t)
  OBVIOUS
<1>2. s # <<>> /\ Last(s) = t /\ Front(s) = b /\ t.is = is /\ t.path = path /\ t.count = count
  BY <1>1, Top DEF Frame
<1>3. r.ok = TRUE /\ r.stack = s /\ r.after = a /\ r.found = F
  BY <1>0, <1>1 DEF On, State
<1>4. \A c : In(r, c) <=> is = c
  BY <1>2, <1>3 DEF In
<1>5. \A n : Here(r, n) = Append(path, IF is = "array" THEN ToString(count) ELSE n)
  BY <1>2, <1>3, <1>4 DEF Here
<1> QED
  BY <1>0, <1>1, <1>2, <1>3, <1>4, <1>5 DEF Has

LEMMA PieceIsNotNamed == ASSUME NEW c PROVE ~Named(Piece(c)) /\ Piece(c).piece = c
  BY DEF Piece, Named

\* A reader that has found something wrong stays as it is.
LEMMA WrongStays == ~Wrong.ok /\ \A x : Consume(Wrong, x) = Wrong
<1>1. ~Wrong.ok
  BY DEF Wrong, Fresh, State
<1> QED
  BY <1>1 DEF Consume

LEMMA ConsumeDead == ASSUME NEW r PROVE Consume(r, Dead) = Wrong
<1>1. ~Named(Dead) /\ Dead.piece = "dead"
  BY PieceIsNotNamed DEF Dead
<1>2. ~Legal(r, Dead)
  BY <1>1 DEF Legal
<1> QED
  BY <1>2 DEF Consume

LEMMA MemberLegal ==
    ASSUME NEW b, IsSeq(b), NEW is, NEW path, NEW count, NEW a, NEW F, NEW n, NEW v,
           NEW r, r = On(b, Frame(is, path, count), a, F), NEW x, x = Member(n, v)
    PROVE  /\ Has(r, b, is, path, count, a, F)
           /\ x.piece = "member" /\ x.name = n /\ x.value = v
           /\ Legal(r, x) <=> Ready(r) /\ is = "object" /\ ValueOk(v)
<1>1. Has(r, b, is, path, count, a, F)
  BY OnHas
<1>2. Named(x) /\ x.piece = "member" /\ x.name = n /\ x.value = v /\ x.quoted = (v \notin Bare)
  BY DEF Member, Named
<1>3. Legal(r, x) <=> Ready(r) /\ is = "object" /\ ValueOk(v)
  BY <1>1, <1>2 DEF Legal, Has, ValueOk
<1> QED
  BY <1>1, <1>2, <1>3

LEMMA MemberFits ==
    ASSUME NEW b, IsSeq(b), NEW path, NEW count, NEW a \in {"open", "comma"}, NEW F, NEW n, NEW v, ValueOk(v)
    PROVE  Consume(On(b, Frame("object", path, count), a, F), Member(n, v))
             = On(b, Frame("object", path, count), "value", F \union {<<Append(path, n), v>>})
<1>1. PICK r, x : r = On(b, Frame("object", path, count), a, F) /\ x = Member(n, v)
  OBVIOUS
<1>2. Has(r, b, "object", path, count, a, F) /\ x.piece = "member" /\ x.name = n /\ x.value = v
  BY <1>1, MemberLegal
<1>3. Legal(r, x) <=> Ready(r) /\ "object" = "object" /\ ValueOk(v)
  BY <1>1, MemberLegal
<1>4. Legal(r, x) /\ Here(r, n) = Append(path, n) /\ r.ok
  BY <1>2, <1>3 DEF Has, Ready
<1>5. Consume(r, x) = Finds(r, n, v)
  BY <1>2, <1>4 DEF Consume
<1> QED
  BY <1>1, <1>2, <1>4, <1>5 DEF Finds, Has, On

LEMMA MemberWrong ==
    ASSUME NEW b, IsSeq(b), NEW is, NEW path, NEW count, NEW a, NEW F, NEW n, NEW v,
           ~ValueOk(v) \/ is = "array"
    PROVE  Consume(On(b, Frame(is, path, count), a, F), Member(n, v)) = Wrong
<1>1. PICK r, x : r = On(b, Frame(is, path, count), a, F) /\ x = Member(n, v)
  OBVIOUS
<1>2. Legal(r, x) <=> Ready(r) /\ is = "object" /\ ValueOk(v)
  BY <1>1, MemberLegal
<1>3. ~Legal(r, x)
  BY <1>2
<1>4. Consume(r, x) = Wrong
  BY <1>3 DEF Consume
<1> QED
  BY <1>1, <1>4

\* A name that is not quoted, whatever follows it.
LEMMA ConsumeUnquoted ==
    ASSUME NEW r, NEW n \in Hashed
    PROVE  /\ \A p : Consume(r, Labelled(n, p)) = Wrong
           /\ \A c : Consume(r, Opens(n, c)) = Wrong
<1>1. PICK x : x = Piece("unquoted")
  OBVIOUS
<1>2. ~Named(x) /\ x.piece = "unquoted"
  BY <1>1, PieceIsNotNamed
<1>3. ~Legal(r, x)
  BY <1>2 DEF Legal
<1>4. Consume(r, x) = Wrong
  BY <1>3 DEF Consume
<1> QED
  BY <1>1, <1>4 DEF Labelled, Opens

LEMMA ConsumeOpens ==
    ASSUME NEW b, IsSeq(b), NEW path, NEW count, NEW a \in {"open", "comma"}, NEW F,
           NEW n, n \notin Hashed, NEW c \in {"object", "array"}
    PROVE  Consume(On(b, Frame("object", path, count), a, F), Opens(n, c))
             = On(Append(b, Frame("object", path, count)), Frame(c, Append(path, n), 1), "open", F)
<1>1. PICK r : r = On(b, Frame("object", path, count), a, F)
  OBVIOUS
<1>2. Has(r, b, "object", path, count, a, F)
  BY <1>1, OnHas
<1>3. PICK x : x = Opens(n, c)
  OBVIOUS
<1>4. Named(x) /\ x.piece = c /\ x.name = n /\ x.piece # "member"
  BY <1>3 DEF Opens, Labelled, Named
<1>5. r.ok /\ Ready(r) /\ In(r, "object") /\ Here(r, n) = Append(path, n)
  BY <1>2 DEF Has, Ready
<1>6. Legal(r, x)
  BY <1>4, <1>5 DEF Legal
<1>7. Consume(r, x) = OpenNext(r, c, n)
  BY <1>4, <1>5, <1>6 DEF Consume
<1> QED
  BY <1>1, <1>2, <1>3, <1>5, <1>7 DEF OpenNext, Has, On

LEMMA ConsumeBrace ==
    ASSUME NEW b, IsSeq(b), NEW path, NEW count, NEW a \in {"open", "comma"}, NEW F
    PROVE  Consume(On(b, Frame("array", path, count), a, F), Piece("object"))
             = On(Append(b, Frame("array", path, count)), Frame("object", Append(path, ToString(count)), 1), "open", F)
<1>1. PICK r : r = On(b, Frame("array", path, count), a, F)
  OBVIOUS
<1>2. Has(r, b, "array", path, count, a, F)
  BY <1>1, OnHas
<1>3. PICK x : x = Piece("object")
  OBVIOUS
<1>4. ~Named(x) /\ x.piece = "object"
  BY <1>3, PieceIsNotNamed
<1>5. r.ok /\ Ready(r) /\ ~In(r, "object") /\ Here(r, "") = Append(path, ToString(count))
  BY <1>2 DEF Has, Ready
<1>6. Legal(r, x)
  BY <1>4, <1>5 DEF Legal
<1>7. Consume(r, x) = OpenNext(r, "object", "")
  BY <1>4, <1>5, <1>6 DEF Consume
<1> QED
  BY <1>1, <1>2, <1>3, <1>5, <1>7 DEF OpenNext, Has, On

LEMMA ConsumeFirst == Consume(Fresh, Piece("object")) = On(<<>>, Frame("object", <<>>, 1), "open", {})
<1>1. PICK r : r = Fresh
  OBVIOUS
<1>2. r.ok = TRUE /\ r.stack = <<>> /\ r.after = "open" /\ r.found = {}
  BY <1>1 DEF Fresh, State
<1>3. PICK x : x = Piece("object")
  OBVIOUS
<1>4. ~Named(x) /\ x.piece = "object"
  BY <1>3, PieceIsNotNamed
<1>5. Ready(r) /\ ~In(r, "object") /\ Here(r, "") = <<>>
  BY <1>2 DEF Ready, In, Here
<1>6. Legal(r, x)
  BY <1>4, <1>5 DEF Legal
<1>7. Consume(r, x) = OpenNext(r, "object", "")
  BY <1>2, <1>4, <1>6 DEF Consume
<1> QED
  BY <1>1, <1>2, <1>3, <1>5, <1>7 DEF OpenNext, On

LEMMA ConsumeComma ==
    ASSUME NEW b, IsSeq(b), NEW is, NEW path, NEW count, NEW F
    PROVE  Consume(On(b, Frame(is, path, count), "value", F), Piece("comma"))
             = On(b, Frame(is, path, count + 1), "comma", F)
<1>1. PICK r : r = On(b, Frame(is, path, count), "value", F)
  OBVIOUS
<1>2. Has(r, b, is, path, count, "value", F)
  BY <1>1, OnHas
<1>3. PICK x : x = Piece("comma")
  OBVIOUS
<1>4. ~Named(x) /\ x.piece = "comma"
  BY <1>3, PieceIsNotNamed
<1>5. r.ok /\ Legal(r, x)
  BY <1>2, <1>4 DEF Legal, Has
<1>6. Consume(r, x) = NextPlace(r)
  BY <1>4, <1>5 DEF Consume
<1>7. PICK t : t = Last(r.stack)
  OBVIOUS
<1>8. t.is = is /\ t.path = path /\ t.count = count
  BY <1>2, <1>7 DEF Has, Frame
<1>9. NextPlace(r) = State(Append(b, Frame(is, path, count + 1)), "comma", F)
  BY <1>2, <1>7, <1>8 DEF NextPlace, Has
<1> QED
  BY <1>1, <1>3, <1>6, <1>9 DEF On

LEMMA ConsumeClose ==
    ASSUME NEW b, IsSeq(b), NEW is, NEW path, NEW count, NEW a, a # "comma", NEW F
    PROVE  /\ is = "object" => Consume(On(b, Frame(is, path, count), a, F), Piece("object_end")) = State(b, "value", F)
           /\ is = "array" => Consume(On(b, Frame(is, path, count), a, F), Piece("array_end")) = State(b, "value", F)
<1>1. PICK r : r = On(b, Frame(is, path, count), a, F)
  OBVIOUS
<1>2. Has(r, b, is, path, count, a, F)
  BY <1>1, OnHas
<1>3. CloseLast(r) = State(b, "value", F)
  BY <1>2 DEF CloseLast, Has
<1>4. ASSUME NEW c \in {"object_end", "array_end"}, is = IF c = "object_end" THEN "object" ELSE "array"
      PROVE  Consume(r, Piece(c)) = CloseLast(r)
  <2>1. PICK x : x = Piece(c)
    OBVIOUS
  <2>2. ~Named(x) /\ x.piece = c
    BY <2>1, PieceIsNotNamed
  <2>3. r.ok /\ r.after # "comma" /\ In(r, is)
    BY <1>2 DEF Has
  <2>4. Legal(r, x)
    BY <1>4, <2>2, <2>3 DEF Legal
  <2>5. Consume(r, x) = CloseLast(r)
    BY <2>2, <2>3, <2>4 DEF Consume
  <2> QED
    BY <2>1, <2>5
<1> QED
  BY <1>1, <1>3, <1>4

LEMMA FeedWrong == ASSUME NEW json, IsSeq(json) PROVE Feed(Wrong, json) = Wrong
<1>1. PICK n \in Nat : n = Len(json)
  BY LenProperties DEF IsSeq
<1>2. PICK f : Steps(f, Wrong, json, n) /\ f[n] = Feed(Wrong, json)
  BY <1>1, FeedSteps
<1> DEFINE T == {m \in Nat : m \in 0..n => f[m] = Wrong}
<1>3. 0 \in T
  BY <1>2 DEF Steps
<1>4. ASSUME NEW m \in Nat, m \in T PROVE m + 1 \in T
  <2> SUFFICES ASSUME m + 1 \in 0..n PROVE f[m + 1] = Wrong
    OBVIOUS
  <2>1. m + 1 \in 1..n /\ (m + 1) - 1 = m /\ m \in 0..n
    OBVIOUS
  <2>2. f[m + 1] = Consume(f[m], json[m + 1]) /\ f[m] = Wrong
    BY <1>2, <1>4, <2>1 DEF Steps
  <2> QED
    BY <2>2, WrongStays
<1> HIDE DEF T
<1>5. n \in T
  BY <1>3, <1>4, SetInduction
<1> QED
  BY <1>2, <1>5 DEF T

-----------------------------------------------------------------------------
(* Attributes. *)

LEMMA FeedTwo ==
    ASSUME NEW r, NEW x, NEW y
    PROVE  IsSeq(<<x>> \o <<y>>) /\ Feed(r, <<x>> \o <<y>>) = Consume(Consume(r, x), y)
  BY ShortIsSeq, JoinedIsSeq, FeedJoined, FeedOne

\* The first k attributes at a path.
AttributesAt(attrs, path, k) ==
    {<<Append(path, At(attrs[j].name)), attrs[j].value>> : j \in 1..k}

\* The reader, in an object at a path, after k of them.
AfterAttributes(b, attrs, path, F, k) ==
    On(b, Frame("object", path, k + 1), IF k = 0 THEN "open" ELSE "comma", F \union AttributesAt(attrs, path, k))

LEMMA NextAttribute ==
    ASSUME NEW b, IsSeq(b), NEW attrs, NEW path, NEW F, NEW k \in Nat,
           NEW name, NEW v, v = attrs[k + 1].value, name = At(attrs[k + 1].name)
    PROVE  Consume(Consume(AfterAttributes(b, attrs, path, F, k), Member(name, v)), Piece("comma"))
             = IF ValueOk(v) THEN AfterAttributes(b, attrs, path, F, k + 1) ELSE Wrong
<1>1. PICK a, c, E : /\ a = IF k = 0 THEN "open" ELSE "comma"
                     /\ c = k + 1 /\ E = F \union AttributesAt(attrs, path, k)
  OBVIOUS
<1>2. a \in {"open", "comma"} /\ "object" \in {"object", "array"}
  BY <1>1
<1>3. AfterAttributes(b, attrs, path, F, k) = On(b, Frame("object", path, c), a, E)
  BY <1>1 DEF AfterAttributes
<1>4. CASE ~ValueOk(v)
  <2>1. Consume(On(b, Frame("object", path, c), a, E), Member(name, v)) = Wrong
    BY <1>2, <1>4, MemberWrong
  <2> QED
    BY <1>3, <1>4, <2>1, WrongStays
<1>5. CASE ValueOk(v)
  <2>1. PICK D : D = E \union {<<Append(path, name), v>>}
    OBVIOUS
  <2>2. Consume(On(b, Frame("object", path, c), a, E), Member(name, v)) = On(b, Frame("object", path, c), "value", D)
    BY <1>2, <1>5, <2>1, MemberFits
  <2>3. Consume(On(b, Frame("object", path, c), "value", D), Piece("comma")) = On(b, Frame("object", path, c + 1), "comma", D)
    BY ConsumeComma
  <2>4. D = F \union AttributesAt(attrs, path, k + 1)
    <3>1. \A j \in 1..(k + 1) : j \in 1..k \/ j = k + 1
      OBVIOUS
    <3>2. AttributesAt(attrs, path, k + 1)
            = AttributesAt(attrs, path, k) \union {<<Append(path, name), v>>}
      BY <3>1 DEF AttributesAt
    <3> QED
      BY <1>1, <2>1, <3>2
  <2>5. AfterAttributes(b, attrs, path, F, k + 1) = On(b, Frame("object", path, c + 1), "comma", D)
    <3>1. k + 1 # 0
      OBVIOUS
    <3> QED
      BY <1>1, <2>4, <3>1 DEF AfterAttributes
  <2> QED
    BY <1>3, <1>5, <2>2, <2>3, <2>5
<1> QED
  BY <1>4, <1>5

ValuesOk(attrs, k) == \A j \in 1..k : ValueOk(attrs[j].value)

LEMMA FeedAttributes ==
    ASSUME NEW items, NEW i, NEW attrs, attrs = items[i].attributes, IsSeq(attrs),
           NEW n, n = Len(attrs), Children(items, i) # {},
           NEW b, IsSeq(b), NEW path, NEW F
    PROVE  /\ IsSeq(Attributes(items, i))
           /\ Feed(On(b, Frame("object", path, 1), "open", F), Attributes(items, i))
                = IF ValuesOk(attrs, n) THEN AfterAttributes(b, attrs, path, F, n) ELSE Wrong
<1>1. n \in Nat /\ DOMAIN attrs = 1..n
  BY LenProperties DEF IsSeq
<1> DEFINE M(k) == Member(At(attrs[k].name), attrs[k].value)
           seqs == [k \in 1..n |-> <<M(k)>> \o <<Piece("comma")>>]
           R(k) == IF ValuesOk(attrs, k) THEN AfterAttributes(b, attrs, path, F, k) ELSE Wrong
<1>2. Attributes(items, i) = FlattenSeq(seqs)
  BY <1>1 DEF Attributes, Comma
<1>3. \A k \in 1..n : IsSeq(seqs[k]) /\ seqs[k] = <<M(k)>> \o <<Piece("comma")>>
  BY FeedTwo
<1>4. seqs = [k \in 1..n |-> seqs[k]]
  OBVIOUS
<1> HIDE DEF seqs
<1>5. PICK G : Chained(G, seqs, n) /\ FlattenSeq(seqs) = G[n]
  BY <1>1, <1>3, <1>4, Flattened
<1>6. ASSUME NEW k \in 1..n, NEW r
      PROVE  Feed(r, G[k]) = Consume(Consume(Feed(r, G[k - 1]), M(k)), Piece("comma"))
  <2>0. PICK m : m = k - 1
    OBVIOUS
  <2>1. m \in 0..n
    BY <1>1, <2>0
  <2>2. G[k] = G[m] \o seqs[k] /\ IsSeq(G[m]) /\ IsSeq(seqs[k])
    BY <1>3, <1>5, <2>0, <2>1 DEF Chained
  <2>3. Feed(r, G[k]) = Feed(Feed(r, G[m]), seqs[k])
    BY <2>2, FeedJoined
  <2>4. PICK q : q = Feed(r, G[m])
    OBVIOUS
  <2>5. Feed(q, seqs[k]) = Consume(Consume(q, M(k)), Piece("comma"))
    <3>1. PICK x : x = M(k)
      OBVIOUS
    <3>2. seqs[k] = <<x>> \o <<Piece("comma")>>
      BY <1>3, <3>1
    <3>3. Feed(q, <<x>> \o <<Piece("comma")>>) = Consume(Consume(q, x), Piece("comma"))
      BY FeedTwo
    <3> QED
      BY <3>1, <3>2, <3>3
  <2> QED
    BY <2>0, <2>3, <2>4, <2>5
<1>0. PICK r0 : r0 = On(b, Frame("object", path, 1), "open", F)
  OBVIOUS
<1> HIDE DEF M
<1> DEFINE T == {k \in Nat : k \in 0..n => Feed(r0, G[k]) = R(k)}
<1>7. 0 \in T
  <2>1. Feed(r0, G[0]) = r0
    BY <1>5, FeedNothing DEF Chained
  <2>2. AfterAttributes(b, attrs, path, F, 0) = r0
    <3>1. F \union AttributesAt(attrs, path, 0) = F
      BY DEF AttributesAt
    <3>2. 0 + 1 = 1
      OBVIOUS
    <3> QED
      BY <1>0, <3>1, <3>2 DEF AfterAttributes
  <2>3. ValuesOk(attrs, 0)
    BY DEF ValuesOk
  <2> QED
    BY <2>1, <2>2, <2>3
<1>8. ASSUME NEW k \in Nat, k \in T PROVE k + 1 \in T
  <2>0. ASSUME k + 1 \in 0..n PROVE Feed(r0, G[k + 1]) = R(k + 1)
    <3>1. k + 1 \in 1..n /\ (k + 1) - 1 = k /\ k \in 0..n
      BY <2>0
    <3>2. PICK v, name : v = attrs[k + 1].value /\ name = At(attrs[k + 1].name)
      OBVIOUS
    <3>3. Feed(r0, G[k + 1]) = Consume(Consume(R(k), Member(name, v)), Piece("comma"))
      BY <1>6, <1>8, <3>1, <3>2 DEF M
    <3>5. ValuesOk(attrs, k + 1) <=> ValuesOk(attrs, k) /\ ValueOk(v)
      BY <3>2 DEF ValuesOk
    <3>6. CASE ~ValuesOk(attrs, k)
      BY <3>3, <3>5, <3>6, WrongStays
    <3>7. CASE ValuesOk(attrs, k)
      <4>1. Feed(r0, G[k + 1])
              = Consume(Consume(AfterAttributes(b, attrs, path, F, k), Member(name, v)), Piece("comma"))
        BY <3>3, <3>7
      <4> QED
        BY <3>2, <3>5, <3>7, <4>1, NextAttribute
    <3> QED
      BY <3>6, <3>7
  <2> QED
    BY <2>0
<1> HIDE DEF T
<1>9. n \in T
  BY <1>1, <1>7, <1>8, SetInduction
<1>10. Feed(r0, Attributes(items, i)) = R(n)
  <2>1. n \in 0..n
    BY <1>1
  <2> QED
    BY <1>2, <1>5, <1>9, <2>1 DEF T
<1>11. IsSeq(Attributes(items, i))
  <2>1. n \in 0..n
    BY <1>1
  <2> QED
    BY <1>2, <1>5, <2>1 DEF Chained
<1> QED
  BY <1>0, <1>10, <1>11

-----------------------------------------------------------------------------
(* The children of an element, as sort() leaves them. *)

LEMMA HasMin ==
    ASSUME NEW I, I \subseteq Nat, I # {}
    PROVE  Min(I) \in I /\ \A j \in I : Min(I) <= j
<1> DEFINE T == {m \in Nat : \A k \in 0..m : k \notin I}
<1>1. ASSUME \A x \in I : \E y \in I : ~(x <= y) PROVE FALSE
  <2>1. 0 \in T
    <3>1. \A y \in I : 0 <= y
      OBVIOUS
    <3> QED
      BY <1>1, <3>1
  <2>2. ASSUME NEW m \in Nat, m \in T PROVE m + 1 \in T
    <3>1. m + 1 \notin I
      <4> SUFFICES ASSUME m + 1 \in I PROVE FALSE
        OBVIOUS
      <4>1. PICK y \in I : ~(m + 1 <= y)
        BY <1>1
      <4>2. y \in 0..m
        BY <4>1
      <4> QED
        BY <2>2, <4>2
    <3>2. \A k \in 0..(m + 1) : k = m + 1 \/ k \in 0..m
      OBVIOUS
    <3> QED
      BY <2>2, <3>1, <3>2
  <2> HIDE DEF T
  <2>3. \A m \in Nat : m \in T
    BY <2>1, <2>2, SetInduction
  <2>4. PICK x \in I : TRUE
    OBVIOUS
  <2>5. x \in Nat /\ x \in 0..x
    BY <2>4
  <2> QED
    BY <2>3, <2>4, <2>5 DEF T
<1>2. \E x \in I : \A y \in I : x <= y
  BY <1>1
<1> QED
  BY <1>2 DEF Min

\* t is s with e put in at p.
PutIn(s, p, e, t) ==
    /\ p \in 1..(Len(s) + 1) /\ Len(t) = Len(s) + 1
    /\ \A j \in 1..Len(s) : j < p => t[j] = s[j]
    /\ t[p] = e
    /\ \A j \in 1..Len(s) : j >= p => t[j + 1] = s[j]

LEMMA AppendPutsIn ==
    ASSUME NEW V, NEW s \in Seq(V), NEW e \in V
    PROVE  Append(s, e) \in Seq(V) /\ PutIn(s, Len(s) + 1, e, Append(s, e))
<1>1. /\ Append(s, e) \in Seq(V) /\ Len(Append(s, e)) = Len(s) + 1
      /\ \A i \in 1..Len(s) : Append(s, e)[i] = s[i]
      /\ Append(s, e)[Len(s) + 1] = e /\ Len(s) \in Nat
  BY AppendProperties, LenProperties
<1> QED
  BY <1>1 DEF PutIn

LEMMA InsertAtPutsIn ==
    ASSUME NEW V, NEW s \in Seq(V), NEW e \in V, NEW p \in 1..Len(s)
    PROVE  InsertAt(s, p, e) \in Seq(V) /\ PutIn(s, p, e, InsertAt(s, p, e))
<1>1. PICK n \in Nat : n = Len(s)
  BY LenProperties
<1>2. PICK a, z : a = SubSeq(s, 1, p - 1) /\ z = SubSeq(s, p, n)
  OBVIOUS
<1>3. \A i \in 1..n : s[i] \in V
  BY <1>1, ElementOfSeq
<1>4. p \in 1..n /\ p - 1 \in Int /\ n \in Int /\ 1 \in Int /\ p \in Int
  BY <1>1
<1>5. a \in Seq(V) /\ Len(a) = p - 1 /\ \A i \in 1..(p - 1) : a[i] = s[i]
  <2>1. \A i \in 1..(p - 1) : s[i] \in V
    BY <1>3, <1>4
  <2>2. /\ SubSeq(s, 1, p - 1) \in Seq(V)
        /\ Len(SubSeq(s, 1, p - 1)) = IF 1 <= p - 1 THEN (p - 1) - 1 + 1 ELSE 0
        /\ \A i \in 1..((p - 1) - 1 + 1) : SubSeq(s, 1, p - 1)[i] = s[1 + i - 1]
    BY <1>4, <2>1, SubSeqProperties
  <2> QED
    BY <1>2, <1>4, <2>2
<1>6. z \in Seq(V) /\ Len(z) = n - p + 1 /\ \A i \in 1..(n - p + 1) : z[i] = s[p + i - 1]
  <2>1. \A i \in p..n : s[i] \in V
    BY <1>3, <1>4
  <2>2. /\ SubSeq(s, p, n) \in Seq(V)
        /\ Len(SubSeq(s, p, n)) = IF p <= n THEN n - p + 1 ELSE 0
        /\ \A i \in 1..(n - p + 1) : SubSeq(s, p, n)[i] = s[p + i - 1]
    BY <1>4, <2>1, SubSeqProperties
  <2> QED
    BY <1>2, <1>4, <2>2
<1>7. PICK w : w = <<e>>
  OBVIOUS
<1>8. w \in Seq(V) /\ Len(w) = 1 /\ w[1] = e
  BY <1>7
<1>9. PICK u : u = a \o w
  OBVIOUS
<1>10. /\ u \in Seq(V) /\ Len(u) = p
       /\ \A i \in 1..p : u[i] = IF i <= p - 1 THEN a[i] ELSE w[i - (p - 1)]
  <2>1. /\ a \o w \in Seq(V) /\ Len(a \o w) = Len(a) + Len(w)
        /\ \A i \in 1..Len(a) + Len(w) : (a \o w)[i] = IF i <= Len(a) THEN a[i] ELSE w[i - Len(a)]
    BY <1>5, <1>8, ConcatProperties
  <2>2. Len(a) + Len(w) = p
    BY <1>4, <1>5, <1>8
  <2> QED
    BY <1>5, <1>9, <2>1, <2>2
<1>11. PICK t : t = u \o z
  OBVIOUS
<1>12. /\ t \in Seq(V) /\ Len(t) = p + (n - p + 1)
       /\ \A i \in 1..(p + (n - p + 1)) : t[i] = IF i <= p THEN u[i] ELSE z[i - p]
  <2>1. /\ u \o z \in Seq(V) /\ Len(u \o z) = Len(u) + Len(z)
        /\ \A i \in 1..Len(u) + Len(z) : (u \o z)[i] = IF i <= Len(u) THEN u[i] ELSE z[i - Len(u)]
    BY <1>6, <1>10, ConcatProperties
  <2> QED
    BY <1>6, <1>10, <1>11, <2>1
<1>13. InsertAt(s, p, e) = t
  BY <1>1, <1>2, <1>7, <1>9, <1>11 DEF InsertAt
<1>14. Len(t) = n + 1
  BY <1>4, <1>12
<1>15. ASSUME NEW j \in 1..n, j < p PROVE t[j] = s[j]
  <2>1. j \in 1..(p + (n - p + 1)) /\ j <= p /\ j \in 1..p /\ j <= p - 1 /\ j \in 1..(p - 1)
    BY <1>4, <1>15
  <2> QED
    BY <1>5, <1>10, <1>12, <2>1
<1>16. t[p] = e
  <2>1. p \in 1..(p + (n - p + 1)) /\ p <= p /\ p \in 1..p /\ ~(p <= p - 1) /\ p - (p - 1) = 1
    BY <1>4
  <2> QED
    BY <1>8, <1>10, <1>12, <2>1
<1>17. ASSUME NEW j \in 1..n, j >= p PROVE t[j + 1] = s[j]
  <2>1. /\ j + 1 \in 1..(p + (n - p + 1)) /\ ~(j + 1 <= p) /\ (j + 1) - p \in 1..(n - p + 1)
        /\ p + ((j + 1) - p) - 1 = j
    BY <1>4, <1>17
  <2>2. t[j + 1] = z[(j + 1) - p] /\ z[(j + 1) - p] = s[p + ((j + 1) - p) - 1]
    BY <1>6, <1>12, <2>1
  <2> QED
    BY <2>1, <2>2
<1> QED
  BY <1>1, <1>4, <1>12, <1>13, <1>14, <1>15, <1>16, <1>17 DEF PutIn

\* Children of one name are next to each other, in the order they were made.
Grouped(items, s) ==
    /\ \A a, b, c \in 1..Len(s) :
          a < c /\ c < b /\ items[s[a]].name = items[s[b]].name => items[s[c]].name = items[s[a]].name
    /\ \A a, b \in 1..Len(s) : a < b /\ items[s[a]].name = items[s[b]].name => s[a] < s[b]

\* Where Insert puts a child.
PlaceFor(items, s, k, p) ==
    \/ p = Len(s) + 1 /\ \A j \in 1..Len(s) : items[s[j]].name # items[k].name
    \/ /\ p > 1 /\ items[s[p - 1]].name = items[k].name
       /\ \A j \in 1..Len(s) : j >= p => items[s[j]].name # items[k].name

LEMMA InsertPuts ==
    ASSUME NEW items, NEW V, NEW s \in Seq(V), NEW k \in V, Grouped(items, s)
    PROVE  /\ Insert(items, s, k) \in Seq(V)
           /\ \E p \in 1..(Len(s) + 1) : PutIn(s, p, k, Insert(items, s, k)) /\ PlaceFor(items, s, k, p)
<1>0. PICK n \in Nat : n = Len(s)
  BY LenProperties
<1> DEFINE same(j) == items[j].name = items[k].name
           I == {j \in 1..n : same(s[j])}
           first == IF I # {} THEN Min(I) ELSE 0
           J == {j \in first..n : ~same(s[j])}
           past == IF J # {} THEN Min(J) ELSE 0
<1>1. Insert(items, s, k) = IF first = 0 \/ past = 0 THEN Append(s, k) ELSE InsertAt(s, past, k)
  BY <1>0 DEF Insert, SelectInSeq, SelectInSubSeq
<1>2. first # 0 => first \in 1..n /\ same(s[first])
  <2>0. I \subseteq Nat
    OBVIOUS
  <2>1. I # {} => Min(I) \in I
    <3> HIDE DEF I
    <3> QED
      BY <2>0, HasMin
  <2> QED
    BY <2>1
<1>3. first = 0 => \A j \in 1..n : ~same(s[j])
  <2>0. I \subseteq Nat
    OBVIOUS
  <2>1. I # {} => Min(I) \in I
    <3> HIDE DEF I
    <3> QED
      BY <2>0, HasMin
  <2>2. first = 0 => I = {}
    BY <2>1
  <2> HIDE DEF first
  <2> QED
    BY <2>2
<1>4. first # 0 => first \in Nat
  BY <1>2
<1> HIDE DEF first
<1>5. ASSUME first # 0, past # 0
      PROVE  past \in first..n /\ ~same(s[past]) /\ \A j \in first..n : ~same(s[j]) => past <= j
  <2>1. J # {} /\ past = Min(J)
    BY <1>5
  <2>2. J \subseteq Nat
    BY <1>4, <1>5
  <2>3. Min(J) \in J /\ \A j \in J : Min(J) <= j
    BY <2>1, <2>2, HasMin
  <2> QED
    BY <2>1, <2>3
<1>6. ASSUME first # 0, past = 0 PROVE \A j \in first..n : same(s[j])
  <2>1. J \subseteq Nat
    BY <1>4, <1>6
  <2>2. J # {} => Min(J) \in first..n
    BY <2>1, HasMin
  <2>3. J # {} => Min(J) # 0
    BY <1>2, <1>6, <2>2
  <2>4. J = {}
    BY <1>6, <2>3
  <2> QED
    BY <2>4
<1> HIDE DEF past, I
<1>7. CASE first = 0
  <2>1. /\ Append(s, k) \in Seq(V) /\ PutIn(s, n + 1, k, Append(s, k)) /\ n + 1 \in 1..(n + 1)
    BY <1>0, AppendPutsIn
  <2>2. PlaceFor(items, s, k, n + 1)
    BY <1>0, <1>3, <1>7 DEF PlaceFor
  <2> QED
    BY <1>0, <1>1, <1>7, <2>1, <2>2
<1>8. CASE first # 0 /\ past = 0
  <2>1. Append(s, k) \in Seq(V) /\ PutIn(s, n + 1, k, Append(s, k))
    BY <1>0, AppendPutsIn
  <2>2. n + 1 \in 1..(n + 1) /\ n + 1 > 1 /\ (n + 1) - 1 = n /\ n \in first..n /\ ~ \E j \in 1..n : j >= n + 1
    BY <1>2, <1>8
  <2>3. PlaceFor(items, s, k, n + 1)
    BY <1>0, <1>6, <1>8, <2>2 DEF PlaceFor
  <2> QED
    BY <1>0, <1>1, <1>8, <2>1, <2>2, <2>3
<1>9. CASE first # 0 /\ past # 0
  <2>1. first \in 1..n /\ past \in first..n /\ past # first
    BY <1>2, <1>5, <1>9
  <2>2. past \in 1..n /\ past \in 1..(n + 1) /\ past > 1 /\ past - 1 \in first..n /\ ~(past <= past - 1)
    BY <2>1
  <2>3. InsertAt(s, past, k) \in Seq(V) /\ PutIn(s, past, k, InsertAt(s, past, k))
    BY <1>0, <2>2, InsertAtPutsIn
  <2>4. same(s[past - 1])
    BY <1>5, <1>9, <2>2
  <2>5. ASSUME NEW j \in 1..n, j >= past, same(s[j]) PROVE FALSE
    <3>1. j # past
      BY <1>5, <1>9, <2>5
    <3>2. first < past /\ past < j
      BY <2>1, <2>5, <3>1
    <3>3. items[s[past]].name = items[s[first]].name
      BY <1>0, <1>2, <1>9, <2>2, <2>5, <3>2 DEF Grouped
    <3> QED
      BY <1>2, <1>5, <1>9, <3>3
  <2>6. PlaceFor(items, s, k, past)
    BY <1>0, <2>2, <2>4, <2>5 DEF PlaceFor
  <2> QED
    BY <1>0, <1>1, <1>9, <2>2, <2>3, <2>6
<1> QED
  BY <1>7, <1>8, <1>9

\* Where the place j of the sequence with a child put in at p was before.
Was(p, j) == IF j < p THEN j ELSE j - 1

LEMMA PutInWas ==
    ASSUME NEW s, NEW p, NEW k, NEW t, PutIn(s, p, k, t), NEW n \in Nat, n = Len(s)
    PROVE  /\ p \in 1..(n + 1) /\ Len(t) = n + 1 /\ t[p] = k
           /\ \A j \in 1..(n + 1) : j # p => Was(p, j) \in 1..n /\ t[j] = s[Was(p, j)]
<1>1. ASSUME NEW j \in 1..(n + 1), j # p PROVE Was(p, j) \in 1..n /\ t[j] = s[Was(p, j)]
  <2>0. p \in 1..(n + 1)
    BY DEF PutIn
  <2>1. CASE j < p
    <3>1. j \in 1..n
      BY <2>0, <2>1
    <3> QED
      BY <2>1, <3>1 DEF PutIn, Was
  <2>2. CASE ~(j < p)
    <3>1. j - 1 \in 1..n /\ j - 1 >= p /\ (j - 1) + 1 = j
      BY <1>1, <2>0, <2>2
    <3>2. t[(j - 1) + 1] = s[j - 1]
      BY <3>1 DEF PutIn
    <3> QED
      BY <2>2, <3>1, <3>2 DEF Was
  <2> QED
    BY <2>1, <2>2
<1> QED
  BY <1>1 DEF PutIn

LEMMA StaysGrouped ==
    ASSUME NEW items, NEW s \in Seq(Nat), NEW k \in Nat, Grouped(items, s), \A j \in 1..Len(s) : s[j] < k,
           NEW p, NEW t, PutIn(s, p, k, t), PlaceFor(items, s, k, p)
    PROVE  Grouped(items, t)
<1>0. PICK n \in Nat : n = Len(s)
  BY LenProperties
<1>1. /\ p \in 1..(n + 1) /\ Len(t) = n + 1 /\ t[p] = k
      /\ \A j \in 1..(n + 1) : j # p => Was(p, j) \in 1..n /\ t[j] = s[Was(p, j)]
  BY <1>0, PutInWas
<1> DEFINE N(j) == items[j].name
           W(j) == Was(p, j)
<1>2. /\ \A a, b, c \in 1..n : a < c /\ c < b /\ N(s[a]) = N(s[b]) => N(s[c]) = N(s[a])
      /\ \A a, b \in 1..n : a < b /\ N(s[a]) = N(s[b]) => s[a] < s[b]
  BY <1>0 DEF Grouped
<1>3. \A a, b \in 1..(n + 1) : a # p /\ b # p /\ a < b => W(a) < W(b)
  BY <1>1 DEF Was
<1>4. \A j \in 1..n : j >= p => N(s[j]) # N(k)
  BY <1>0 DEF PlaceFor
<1>5. \A j \in 1..(n + 1) : /\ j > p => W(j) >= p
                            /\ j < p => W(j) < p
  BY <1>1 DEF Was
<1>6. \A j \in 1..(n + 1) : j > p => N(t[j]) # N(k)
  BY <1>1, <1>4, <1>5
<1>7. ASSUME NEW j \in 1..n, j < p, N(s[j]) = N(k)
      PROVE  p - 1 \in 1..n /\ N(s[p - 1]) = N(k)
  <2>1. p > 1 /\ N(s[p - 1]) = N(k)
    BY <1>0, <1>7 DEF PlaceFor
  <2> QED
    BY <1>1, <2>1
<1> HIDE DEF W, N
<1>8. ASSUME NEW a \in 1..(n + 1), NEW b \in 1..(n + 1), NEW c \in 1..(n + 1), a < c, c < b, N(t[a]) = N(t[b])
      PROVE  N(t[c]) = N(t[a])
  <2>1. CASE a = p
    BY <1>1, <1>6, <1>8, <2>1
  <2>2. CASE b = p
    <3>1. a # p /\ c # p /\ a < p /\ c < p
      BY <1>8, <2>2
    <3>2. PICK d, e : d = W(a) /\ e = W(c)
      OBVIOUS
    <3>3. d \in 1..n /\ e \in 1..n /\ t[a] = s[d] /\ t[c] = s[e] /\ d < e /\ e < p
      BY <1>1, <1>3, <1>5, <1>8, <3>1, <3>2 DEF W
    <3>4. N(s[d]) = N(k) /\ d < p
      BY <1>1, <1>8, <2>2, <3>3
    <3>5. p - 1 \in 1..n /\ N(s[p - 1]) = N(k)
      BY <1>7, <3>3, <3>4
    <3>6. e = p - 1 \/ e < p - 1
      BY <3>3, <1>1
    <3> QED
      BY <1>2, <3>3, <3>4, <3>5, <3>6
  <2>3. CASE a # p /\ b # p /\ c = p
    <3>2. PICK d, e : d = W(a) /\ e = W(b)
      OBVIOUS
    <3>3. d \in 1..n /\ e \in 1..n /\ t[a] = s[d] /\ t[b] = s[e] /\ d < p /\ e >= p
      BY <1>1, <1>5, <1>8, <2>3, <3>2 DEF W
    <3>4. e \in 1..n /\ p # n + 1
      BY <3>3, <1>1
    <3>5. p > 1 /\ N(s[p - 1]) = N(k)
      BY <1>0, <3>4 DEF PlaceFor, N
    <3>6. p - 1 \in 1..n /\ (d = p - 1 \/ d < p - 1) /\ p - 1 < e
      BY <1>1, <3>3, <3>5
    <3>7. N(s[d]) = N(s[e])
      BY <1>8, <3>3
    <3>8. N(s[p - 1]) = N(s[d])
      BY <1>2, <3>3, <3>6, <3>7
    <3> QED
      BY <1>4, <3>3, <3>5, <3>7, <3>8
  <2>4. CASE a # p /\ b # p /\ c # p
    <3>1. PICK d, e, f : d = W(a) /\ e = W(b) /\ f = W(c)
      OBVIOUS
    <3>2. /\ d \in 1..n /\ e \in 1..n /\ f \in 1..n /\ t[a] = s[d] /\ t[b] = s[e] /\ t[c] = s[f]
      BY <1>1, <2>4, <3>1 DEF W
    <3>3. d < f /\ f < e
      BY <1>3, <1>8, <2>4, <3>1
    <3> QED
      BY <1>2, <1>8, <3>2, <3>3
  <2> QED
    BY <2>1, <2>2, <2>3, <2>4
<1>9. ASSUME NEW a \in 1..(n + 1), NEW b \in 1..(n + 1), a < b, N(t[a]) = N(t[b])
      PROVE  t[a] < t[b]
  <2>1. CASE a = p
    BY <1>1, <1>6, <1>9, <2>1
  <2>2. CASE b = p
    <3>1. a # p
      BY <1>9, <2>2
    <3>2. PICK d : d = W(a)
      OBVIOUS
    <3>3. d \in 1..n /\ t[a] = s[d]
      BY <1>1, <3>1, <3>2 DEF W
    <3> QED
      BY <1>0, <1>1, <2>2, <3>3
  <2>3. CASE a # p /\ b # p
    <3>1. PICK d, e : d = W(a) /\ e = W(b)
      OBVIOUS
    <3>2. d \in 1..n /\ e \in 1..n /\ t[a] = s[d] /\ t[b] = s[e]
      BY <1>1, <2>3, <3>1 DEF W
    <3>3. d < e
      BY <1>3, <1>9, <2>3, <3>1
    <3> QED
      BY <1>2, <1>9, <3>2, <3>3
  <2> QED
    BY <2>1, <2>2, <2>3
<1> QED
  BY <1>1, <1>8, <1>9 DEF Grouped, N

\* The children up to n, each once.
HoldsKids(items, i, s, n) ==
    /\ s \in Seq(Nat) /\ Grouped(items, s)
    /\ \A j \in 1..Len(s) : s[j] \in Children(items, i) /\ s[j] <= n
    /\ \A k \in Children(items, i) : k <= n => \E j \in 1..Len(s) : s[j] = k

LEMMA InsertKid ==
    ASSUME NEW items, NEW i, NEW s, NEW m \in Nat, HoldsKids(items, i, s, m), Children(items, i) \subseteq Nat,
           m + 1 \in Children(items, i)
    PROVE  HoldsKids(items, i, Insert(items, s, m + 1), m + 1)
<1>0. PICK n \in Nat : n = Len(s)
  BY LenProperties DEF HoldsKids
<1>1. PICK t, k : t = Insert(items, s, k) /\ k = m + 1 /\ k \in Nat
  OBVIOUS
<1>2. s \in Seq(Nat) /\ Grouped(items, s) /\ \A j \in 1..n : s[j] \in Children(items, i) /\ s[j] <= m
  BY <1>0 DEF HoldsKids
<1>3. \A j \in 1..Len(s) : s[j] < k
  BY <1>0, <1>1, <1>2
<1>4. t \in Seq(Nat) /\ \E p \in 1..(Len(s) + 1) : PutIn(s, p, k, t) /\ PlaceFor(items, s, k, p)
  <2>1. k \in Nat
    BY <1>1
  <2> QED
    BY <1>1, <1>2, <2>1, InsertPuts
<1>5. PICK p : PutIn(s, p, k, t) /\ PlaceFor(items, s, k, p)
  BY <1>4
<1>6. Grouped(items, t)
  <2>1. k \in Nat
    BY <1>1
  <2> QED
    BY <1>2, <1>3, <1>5, <2>1, StaysGrouped
<1>7. /\ p \in 1..(n + 1) /\ Len(t) = n + 1 /\ t[p] = k
      /\ \A j \in 1..(n + 1) : j # p => Was(p, j) \in 1..n /\ t[j] = s[Was(p, j)]
  BY <1>0, <1>5, PutInWas
<1>8. ASSUME NEW j \in 1..(n + 1) PROVE t[j] \in Children(items, i) /\ t[j] <= k
  <2>1. CASE j = p
    BY <1>1, <1>7, <2>1
  <2>2. CASE j # p
    <3>1. PICK d \in 1..n : t[j] = s[d]
      BY <1>7, <2>2
    <3>2. s[d] \in Children(items, i) /\ s[d] <= m
      BY <1>2
    <3> QED
      BY <1>1, <3>1, <3>2
  <2> QED
    BY <2>1, <2>2
<1>9. ASSUME NEW c \in Children(items, i), c <= k PROVE \E j \in 1..(n + 1) : t[j] = c
  <2>1. CASE c = k
    BY <1>7, <2>1
  <2>2. CASE c # k
    <3>1. c <= m
      BY <1>1, <1>9, <2>2
    <3>2. PICK d \in 1..n : s[d] = c
      BY <1>0, <3>1 DEF HoldsKids
    <3>3. (d < p /\ d \in 1..n) \/ (d >= p /\ d + 1 \in 1..(n + 1))
      BY <1>7
    <3>4. (d < p => t[d] = s[d]) /\ (d >= p => t[d + 1] = s[d])
      BY <1>0, <1>5 DEF PutIn
    <3> QED
      BY <3>2, <3>3, <3>4
  <2> QED
    BY <2>1, <2>2
<1> QED
  BY <1>1, <1>4, <1>6, <1>7, <1>8, <1>9 DEF HoldsKids

SortRuns(f, items, i, n) ==
    f = [m \in 0..n |-> IF m = 0 THEN <<>>
                        ELSE IF m \in Children(items, i) THEN Insert(items, f[m - 1], m) ELSE f[m - 1]]
CanSort(items, i, n) == \E f : SortRuns(f, items, i, n)

LEMMA SortExists ==
    ASSUME NEW items, NEW i, NEW n \in Nat
    PROVE  CanSort(items, i, n)
<1> DEFINE S(q, k) == IF k \in Children(items, i) THEN Insert(items, q, k) ELSE q
           T == {m \in Nat : CanSort(items, i, m)}
<1>1. 0 \in T
  <2> DEFINE f == [k \in 0..0 |-> <<>>]
  <2>1. f = [m \in 0..0 |-> IF m = 0 THEN <<>>
                            ELSE IF m \in Children(items, i) THEN Insert(items, f[m - 1], m) ELSE f[m - 1]]
    OBVIOUS
  <2> QED
    BY <2>1 DEF CanSort, SortRuns
<1>2. ASSUME NEW m \in Nat, m \in T PROVE m + 1 \in T
  <2>1. PICK f : SortRuns(f, items, i, m)
    BY <1>2 DEF CanSort
  <2>2. PICK v : v = S(f[m], m + 1)
    OBVIOUS
  <2> DEFINE g == [k \in 0..(m + 1) |-> IF k = m + 1 THEN v ELSE f[k]]
  <2>3. g[m + 1] = v /\ \A k \in 0..m : g[k] = f[k]
    OBVIOUS
  <2>4. \A k \in 0..(m + 1) : g[k] = IF k = 0 THEN <<>> ELSE S(g[k - 1], k)
    <3> HIDE DEF g
    <3> TAKE k \in 0..(m + 1)
    <3>1. CASE k = m + 1
      <4>1. k # 0 /\ k - 1 = m /\ m \in 0..m
        BY <3>1
      <4> HIDE DEF S
      <4> QED
        BY <2>2, <2>3, <3>1, <4>1
    <3>2. CASE k # m + 1
      <4>1. k \in 0..m /\ (k # 0 => k - 1 \in 0..m)
        BY <3>2
      <4>2. f[k] = IF k = 0 THEN <<>> ELSE S(f[k - 1], k)
        BY <2>1, <4>1 DEF SortRuns
      <4> HIDE DEF S
      <4> QED
        BY <2>3, <4>1, <4>2
    <3> QED
      BY <3>1, <3>2
  <2>5. SortRuns(g, items, i, m + 1)
    <3>1. g = [k \in 0..(m + 1) |-> g[k]]
      OBVIOUS
    <3> HIDE DEF g
    <3> QED
      BY <2>4, <3>1 DEF SortRuns
  <2> QED
    BY <2>5 DEF CanSort
<1> HIDE DEF T
<1>3. n \in T
  BY <1>1, <1>2, SetInduction
<1> QED
  BY <1>3 DEF T

LEMMA SortedKids ==
    ASSUME NEW items, IsSeq(items), NEW i
    PROVE  /\ HoldsKids(items, i, Sorted(items, i), Len(items))
           /\ \A k \in Children(items, i) : k \in 1..Len(items)
<1>1. PICK n \in Nat : n = Len(items) /\ DOMAIN items = 1..n
  BY LenProperties DEF IsSeq
<1>2. Children(items, i) \subseteq 1..n
  BY <1>1 DEF Children
<1> DEFINE f == CHOOSE f : SortRuns(f, items, i, n)
<1>3. SortRuns(f, items, i, n)
  BY SortExists DEF CanSort
<1>4. Sorted(items, i) = f[n]
  BY <1>1 DEF Sorted, SortRuns
<1> HIDE DEF f
<1> DEFINE T == {m \in Nat : m \in 0..n => HoldsKids(items, i, f[m], m)}
<1>5. 0 \in T
  <2>1. f[0] = <<>>
    BY <1>3 DEF SortRuns
  <2>2. <<>> \in Seq(Nat) /\ Len(<<>>) = 0
    BY EmptySeq
  <2>3. ~ \E k \in Children(items, i) : k <= 0
    BY <1>2
  <2>4. Grouped(items, <<>>)
    BY <2>2 DEF Grouped
  <2>5. HoldsKids(items, i, <<>>, 0)
    BY <2>2, <2>3, <2>4 DEF HoldsKids
  <2> QED
    BY <2>1, <2>5
<1>6. ASSUME NEW m \in Nat, m \in T PROVE m + 1 \in T
  <2>0. ASSUME m + 1 \in 0..n PROVE HoldsKids(items, i, f[m + 1], m + 1)
    <3>1. m + 1 # 0 /\ (m + 1) - 1 = m /\ m \in 0..n
      BY <2>0
    <3>2. PICK q : q = f[m]
      OBVIOUS
    <3>3. HoldsKids(items, i, q, m)
      BY <1>6, <3>1, <3>2
    <3>4. f[m + 1] = IF m + 1 \in Children(items, i) THEN Insert(items, q, m + 1) ELSE q
      BY <1>3, <2>0, <3>1, <3>2 DEF SortRuns
    <3>5. CASE m + 1 \in Children(items, i)
      <4>1. Children(items, i) \subseteq Nat
        BY <1>2
      <4> QED
        BY <3>3, <3>4, <3>5, <4>1, InsertKid
    <3>6. CASE m + 1 \notin Children(items, i)
      <4>1. \A k \in Children(items, i) : k <= m + 1 => k <= m
        BY <1>2, <3>6
      <4>2. q \in Seq(Nat) /\ \A j \in 1..Len(q) : q[j] \in Nat
        BY <3>3, ElementOfSeq DEF HoldsKids
      <4>3. \A j \in 1..Len(q) : q[j] <= m => q[j] <= m + 1
        BY <4>2
      <4> QED
        BY <3>3, <3>4, <3>6, <4>1, <4>3 DEF HoldsKids
    <3> QED
      BY <3>5, <3>6
  <2> QED
    BY <2>0
<1> HIDE DEF T
<1>7. n \in T
  BY <1>5, <1>6, SetInduction
<1>8. HoldsKids(items, i, f[n], n)
  BY <1>7 DEF T
<1> QED
  BY <1>1, <1>2, <1>4, <1>8

\* The items as the parser makes them.
Sound(items) ==
    /\ IsSeq(items)
    /\ \A i \in 1..Len(items) :
          /\ items[i].parent \in 0..(i - 1)
          /\ items[i].parent # 0 => items[items[i].parent].name # "#text"
          /\ IsSeq(items[i].attributes)

LEMMA SoundItems ==
    ASSUME NEW items, Sound(items)
    PROVE  \E n \in Nat : n = Len(items) /\ DOMAIN items = 1..n
  BY LenProperties DEF Sound, IsSeq

\* Two neighbours of one name.
Neighbours(items, s, j) == {j, j + 1} \subseteq DOMAIN s /\ items[s[j]].name = items[s[j + 1]].name

\* A place among the children of an element, and the child there.
KidAt(items, i, s, m, k) ==
    /\ m \in Nat /\ m = Len(s) /\ DOMAIN s = 1..m /\ k \in 1..m
    /\ Grouped(items, s) /\ \A j \in 1..m : s[j] \in Nat
    /\ \A j \in 1..m : s[j] \in DOMAIN items /\ items[s[j]].parent = i
    /\ \A j \in DOMAIN items : items[j].parent = i => \E l \in 1..m : s[l] = j

LEMMA KidsAt ==
    ASSUME NEW items, Sound(items), NEW i, NEW s, s = Sorted(items, i)
    PROVE  \E m \in Nat : /\ m = Len(s) /\ DOMAIN s = 1..m
                          /\ \A k \in 1..m : KidAt(items, i, s, m, k) /\ s[k] \in Children(items, i)
                          /\ \A c \in Children(items, i) : \E l \in 1..m : s[l] = c
<1>1. PICK n \in Nat : n = Len(items) /\ DOMAIN items = 1..n
  BY SoundItems
<1>2. HoldsKids(items, i, s, n) /\ \A k \in Children(items, i) : k \in 1..n
  BY <1>1, SortedKids DEF Sound
<1>3. PICK m \in Nat : m = Len(s) /\ DOMAIN s = 1..m
  BY <1>2, LenProperties DEF HoldsKids
<1>4. Grouped(items, s) /\ \A j \in 1..m : s[j] \in Children(items, i) /\ s[j] \in Nat
  BY <1>2, <1>3 DEF HoldsKids
<1>5. \A c \in Children(items, i) : \E l \in 1..m : s[l] = c
  BY <1>2, <1>3 DEF HoldsKids
<1>6. \A c : c \in Children(items, i) <=> c \in DOMAIN items /\ items[c].parent = i
  BY DEF Children
<1> QED
  BY <1>3, <1>4, <1>5, <1>6 DEF KidAt

LEMMA AlikeKids ==
    ASSUME NEW items, NEW i, NEW s, NEW m, NEW k, KidAt(items, i, s, m, k), items[s[k]].name # "#text"
    PROVE  Alike(items, s[k]) = {s[j] : j \in {l \in 1..m : items[s[l]].name = items[s[k]].name}}
<1>1. \A j \in Elements(items) : items[j].parent = i => \E l \in 1..m : s[l] = j
  BY DEF KidAt, Elements
<1>2. \A j \in 1..m : s[j] \in DOMAIN items /\ items[s[j]].parent = i
  BY DEF KidAt
<1>3. k \in 1..m
  BY DEF KidAt
<1>4. ASSUME NEW x \in Alike(items, s[k])
      PROVE  x \in {s[j] : j \in {l \in 1..m : items[s[l]].name = items[s[k]].name}}
  <2>1. x \in Elements(items) /\ items[x].name = items[s[k]].name /\ items[x].parent = i
    BY <1>2, <1>3, <1>4 DEF Alike
  <2> QED
    BY <1>1, <2>1
<1>5. ASSUME NEW j \in 1..m, items[s[j]].name = items[s[k]].name PROVE s[j] \in Alike(items, s[k])
  BY <1>2, <1>3, <1>5 DEF Alike, Elements
<1> QED
  BY <1>4, <1>5

LEMMA InGroup ==
    ASSUME NEW items, NEW i, NEW s, NEW m, NEW k, KidAt(items, i, s, m, k), NEW j \in 1..m,
           items[s[j]].name = items[s[k]].name
    PROVE  /\ j < k => k - 1 \in 1..m /\ Neighbours(items, s, k - 1) /\ s[j] < s[k]
           /\ j > k => k + 1 \in 1..m /\ Neighbours(items, s, k) /\ s[k] < s[j]
<1>1. /\ m \in Nat /\ m = Len(s) /\ DOMAIN s = 1..m /\ k \in 1..m
  BY DEF KidAt
<1>2. /\ \A a, b, c \in 1..m : a < c /\ c < b /\ items[s[a]].name = items[s[b]].name => items[s[c]].name = items[s[a]].name
      /\ \A a, b \in 1..m : a < b /\ items[s[a]].name = items[s[b]].name => s[a] < s[b]
  BY <1>1 DEF KidAt, Grouped
<1>3. CASE j < k
  <2>1. k - 1 \in 1..m /\ (j = k - 1 \/ j < k - 1) /\ k - 1 < k /\ (k - 1) + 1 = k
    BY <1>1, <1>3
  <2>2. items[s[k - 1]].name = items[s[k]].name
    BY <1>1, <1>2, <2>1
  <2> QED
    BY <1>1, <1>2, <1>3, <2>1, <2>2 DEF Neighbours
<1>4. CASE j > k
  <2>1. k + 1 \in 1..m /\ (j = k + 1 \/ k + 1 < j) /\ k < k + 1
    BY <1>1, <1>4
  <2>2. items[s[k + 1]].name = items[s[k]].name
    BY <1>1, <1>2, <2>1
  <2>3. k < j
    BY <1>1, <1>4
  <2> QED
    BY <1>1, <1>2, <1>4, <2>1, <2>2, <2>3 DEF Neighbours
<1> QED
  BY <1>1, <1>3, <1>4

LEMMA NeighbourPlace ==
    ASSUME NEW items, NEW i, NEW s, NEW m, NEW k, KidAt(items, i, s, m, k)
    PROVE  /\ Neighbours(items, s, k) => k + 1 \in 1..m /\ items[s[k + 1]].name = items[s[k]].name /\ s[k] < s[k + 1]
           /\ Neighbours(items, s, k - 1) => k - 1 \in 1..m /\ items[s[k - 1]].name = items[s[k]].name /\ s[k - 1] < s[k]
<1>1. /\ m \in Nat /\ m = Len(s) /\ DOMAIN s = 1..m /\ k \in 1..m
  BY DEF KidAt
<1>2. \A a, b \in 1..m : a < b /\ items[s[a]].name = items[s[b]].name => s[a] < s[b]
  BY <1>1 DEF KidAt, Grouped
<1>3. (k - 1) + 1 = k /\ k - 1 < k /\ k < k + 1
  BY <1>1
<1> QED
  BY <1>1, <1>2, <1>3 DEF Neighbours

\* An element is one of a group when it has a neighbour of its name.
LEMMA Alone ==
    ASSUME NEW items, NEW i, NEW s, NEW m, NEW k, KidAt(items, i, s, m, k), items[s[k]].name # "#text"
    PROVE  Alike(items, s[k]) = {s[k]} <=> ~Neighbours(items, s, k - 1) /\ ~Neighbours(items, s, k)
<1>0. m \in Nat /\ k \in 1..m /\ \A j \in 1..m : s[j] \in Nat
  BY DEF KidAt
<1>1. Alike(items, s[k]) = {s[j] : j \in {l \in 1..m : items[s[l]].name = items[s[k]].name}}
  BY AlikeKids
<1>2. ASSUME Neighbours(items, s, k) \/ Neighbours(items, s, k - 1) PROVE \E x \in Alike(items, s[k]) : x # s[k]
  <2>1. CASE Neighbours(items, s, k)
    <3>1. k + 1 \in 1..m /\ items[s[k + 1]].name = items[s[k]].name /\ s[k] < s[k + 1]
      BY <2>1, NeighbourPlace
    <3>2. s[k + 1] \in Alike(items, s[k])
      BY <1>1, <3>1
    <3> QED
      BY <1>0, <3>1, <3>2
  <2>2. CASE Neighbours(items, s, k - 1)
    <3>1. k - 1 \in 1..m /\ items[s[k - 1]].name = items[s[k]].name /\ s[k - 1] < s[k]
      BY <2>2, NeighbourPlace
    <3>2. s[k - 1] \in Alike(items, s[k])
      BY <1>1, <3>1
    <3> QED
      BY <1>0, <3>1, <3>2
  <2> QED
    BY <1>2, <2>1, <2>2
<1>3. ASSUME ~Neighbours(items, s, k), ~Neighbours(items, s, k - 1), NEW x \in Alike(items, s[k]) PROVE x = s[k]
  <2>1. PICK j \in 1..m : items[s[j]].name = items[s[k]].name /\ x = s[j]
    BY <1>1, <1>3
  <2>2. ~(j < k) /\ ~(j > k)
    BY <1>3, <2>1, InGroup
  <2>3. j = k
    BY <1>0, <2>2
  <2> QED
    BY <2>1, <2>3
<1>4. s[k] \in Alike(items, s[k])
  BY <1>0, <1>1
<1> QED
  BY <1>2, <1>3, <1>4

\* The place of an element among those of its name.
UpTo(items, i) == {j \in Alike(items, i) : j <= i}
Place(items, i) == Cardinality(UpTo(items, i))

LEMMA FirstPlace ==
    ASSUME NEW items, NEW i, NEW s, NEW m, NEW k, KidAt(items, i, s, m, k), items[s[k]].name # "#text",
           ~Neighbours(items, s, k - 1)
    PROVE  Place(items, s[k]) = 1
<1>0. m \in Nat /\ k \in 1..m /\ \A j \in 1..m : s[j] \in Nat
  BY DEF KidAt
<1>1. Alike(items, s[k]) = {s[j] : j \in {l \in 1..m : items[s[l]].name = items[s[k]].name}}
  BY AlikeKids
<1>2. ASSUME NEW x \in UpTo(items, s[k]) PROVE x = s[k]
  <2>1. PICK j \in 1..m : items[s[j]].name = items[s[k]].name /\ x = s[j]
    BY <1>1, <1>2 DEF UpTo
  <2>2. s[j] <= s[k]
    BY <1>2, <2>1 DEF UpTo
  <2>3. ~(j < k) /\ (j > k => s[k] < s[j])
    BY <2>1, InGroup
  <2>4. j = k
    BY <1>0, <2>2, <2>3
  <2> QED
    BY <2>1, <2>4
<1>3. s[k] \in UpTo(items, s[k])
  <2>1. s[k] <= s[k]
    BY <1>0
  <2> QED
    BY <1>0, <1>1, <2>1 DEF UpTo
<1>4. UpTo(items, s[k]) = {s[k]}
  BY <1>2, <1>3
<1> QED
  BY <1>4, FS_Singleton DEF Place

LEMMA PlaceAfter ==
    ASSUME NEW items, Sound(items), NEW i, NEW s, NEW m, NEW k, KidAt(items, i, s, m, k), items[s[k]].name # "#text",
           Neighbours(items, s, k)
    PROVE  Place(items, s[k]) \in Nat /\ Place(items, s[k + 1]) = Place(items, s[k]) + 1
<1>0. m \in Nat /\ k \in 1..m /\ \A j \in 1..m : s[j] \in Nat
  BY DEF KidAt
<1>1. k + 1 \in 1..m /\ items[s[k + 1]].name = items[s[k]].name /\ s[k] < s[k + 1]
  BY NeighbourPlace
<1>2. PICK N : N = {l \in 1..m : items[s[l]].name = items[s[k]].name}
  OBVIOUS
<1>3. Alike(items, s[k]) = {s[j] : j \in N}
  BY <1>2, AlikeKids
<1>4. KidAt(items, i, s, m, k + 1)
  BY <1>1 DEF KidAt
<1>5. Alike(items, s[k + 1]) = {s[j] : j \in N}
  <2>1. PICK h : h = k + 1
    OBVIOUS
  <2>2. KidAt(items, i, s, m, h) /\ items[s[h]].name # "#text" /\ items[s[h]].name = items[s[k]].name
    BY <1>1, <1>4, <2>1
  <2>3. Alike(items, s[h]) = {s[j] : j \in {l \in 1..m : items[s[l]].name = items[s[h]].name}}
    BY <2>2, AlikeKids
  <2> QED
    BY <1>2, <2>1, <2>2, <2>3
<1>6. PICK a, z : a = s[k] /\ z = s[k + 1]
  OBVIOUS
<1>7. a \in Nat /\ z \in Nat /\ a < z
  BY <1>0, <1>1, <1>6
<1>8. UpTo(items, z) \subseteq UpTo(items, a) \union {z}
  <2>1. SUFFICES ASSUME NEW x \in UpTo(items, z), x # z PROVE x \in UpTo(items, a)
    OBVIOUS
  <2>2. PICK j \in N : x = s[j]
    BY <1>5, <1>6, <2>1 DEF UpTo
  <2>3. j \in 1..m /\ items[s[j]].name = items[s[k]].name /\ items[s[j]].name = items[s[k + 1]].name
    BY <1>1, <1>2, <2>2
  <2>4. s[j] <= z /\ j # k + 1
    BY <1>6, <2>1, <2>2 DEF UpTo
  <2>5. ~(j > k + 1)
    <3>1. j > k + 1 => s[k + 1] < s[j]
      <4>1. PICK h : h = k + 1
        OBVIOUS
      <4> QED
        BY <1>4, <2>3, <4>1, InGroup
    <3> QED
      BY <1>0, <1>6, <1>7, <2>3, <2>4, <3>1
  <2>6. j = k \/ j < k
    BY <1>0, <2>3, <2>4, <2>5
  <2>7. s[j] <= a
    <3>1. j < k => s[j] < s[k]
      BY <2>3, InGroup
    <3> QED
      BY <1>0, <1>6, <1>7, <2>3, <2>6, <3>1
  <2> QED
    BY <1>3, <1>6, <2>2, <2>7 DEF UpTo
<1>9. UpTo(items, a) \union {z} \subseteq UpTo(items, z)
  <2>1. ASSUME NEW x \in UpTo(items, a) PROVE x \in UpTo(items, z)
    <3>1. PICK j \in N : x = s[j] /\ s[j] <= a
      BY <1>3, <1>6, <2>1 DEF UpTo
    <3>2. s[j] \in Nat
      BY <1>0, <1>2
    <3>3. s[j] <= z
      BY <1>7, <3>1, <3>2
    <3> QED
      BY <1>5, <1>6, <3>1, <3>3 DEF UpTo
  <2>2. z \in UpTo(items, z)
    <3>1. k + 1 \in N /\ z <= z
      BY <1>1, <1>2, <1>7
    <3> QED
      BY <1>5, <1>6, <3>1 DEF UpTo
  <2> QED
    BY <2>1, <2>2
<1>10. z \notin UpTo(items, a)
  BY <1>7 DEF UpTo
<1>11. UpTo(items, z) = UpTo(items, a) \union {z}
  BY <1>8, <1>9
<1>12. IsFiniteSet(UpTo(items, a))
  <2>1. PICK n \in Nat : n = Len(items) /\ DOMAIN items = 1..n
    BY SoundItems
  <2>2. UpTo(items, a) \in SUBSET (1..n) /\ 1 \in Int /\ n \in Int
    BY <2>1 DEF UpTo, Alike, Elements
  <2>3. IsFiniteSet(1..n)
    BY <2>2, FS_Interval
  <2> QED
    BY <2>2, <2>3, FS_Subset
<1>13. Place(items, a) \in Nat
  BY <1>12, FS_CardinalityType DEF Place
<1>14. Place(items, z) = Place(items, a) + 1
  BY <1>10, <1>11, <1>12, FS_AddElement DEF Place
<1> QED
  BY <1>6, <1>13, <1>14

\* What the brackets of an element hold, when inside tells it of its children.
Content(inside, items, i) ==
    LET kids == Sorted(items, i)
    IN  Attributes(items, i)
        \o (IF kids = <<>> THEN <<Dead>>
            ELSE FlattenSeq([k \in DOMAIN kids |-> Child(inside, items, kids, k)]))

LEMMA KidsLater ==
    ASSUME NEW items, Sound(items), NEW i \in 1..Len(items), NEW k \in Children(items, i)
    PROVE  k \in 1..Len(items) /\ k > i
<1>1. PICK n \in Nat : n = Len(items) /\ DOMAIN items = 1..n
  BY SoundItems
<1>2. k \in 1..n /\ items[k].parent = i
  BY <1>1 DEF Children
<1>3. i \in 0..(k - 1)
  BY <1>1, <1>2 DEF Sound
<1> QED
  BY <1>1, <1>2, <1>3

\* A turn of the loop is a bracket, a walk and a bracket.
Before(items, s, k) ==
    IF Neighbours(items, s, k) /\ ~Neighbours(items, s, k - 1) THEN <<Opens(items[s[k]].name, "array")>> ELSE <<>>
Middle(inside, items, s, k) ==
    IF Neighbours(items, s, k) \/ Neighbours(items, s, k - 1)
    THEN Walk(inside, items, s[k], ~Neighbours(items, s, k), TRUE)
    ELSE Walk(inside, items, s[k], k = Len(s), FALSE)
Behind(items, s, k) ==
    IF Neighbours(items, s, k - 1) /\ ~Neighbours(items, s, k) THEN <<Piece("array_end")>> \o Comma(k < Len(s)) ELSE <<>>

LEMMA ChildIs ==
    ASSUME NEW inside, NEW items, NEW s, NEW k
    PROVE  Child(inside, items, s, k) = (Before(items, s, k) \o Middle(inside, items, s, k)) \o Behind(items, s, k)
<1>1. Neighbours(items, s, k - 1) <=> {k - 1, (k - 1) + 1} \subseteq DOMAIN s /\ items[s[k - 1]].name = items[s[(k - 1) + 1]].name
  BY DEF Neighbours
<1> QED
  BY DEF Child, Before, Middle, Behind, Neighbours

LEMMA ContentDepends ==
    ASSUME NEW items, Sound(items), NEW i, NEW f, NEW g, \A k \in Children(items, i) : f[k] = g[k]
    PROVE  Content(f, items, i) = Content(g, items, i)
<1>1. PICK s : s = Sorted(items, i)
  OBVIOUS
<1>2. PICK m \in Nat : DOMAIN s = 1..m /\ \A k \in 1..m : s[k] \in Children(items, i)
  BY <1>1, KidsAt
<1>3. \A k \in DOMAIN s : Child(f, items, s, k) = Child(g, items, s, k)
  <2> SUFFICES ASSUME NEW k \in DOMAIN s PROVE Child(f, items, s, k) = Child(g, items, s, k)
    OBVIOUS
  <2>1. PICK c : c = s[k]
    OBVIOUS
  <2>2. f[c] = g[c]
    BY <1>2, <2>1
  <2>3. \A last, member : Walk(f, items, c, last, member) = Walk(g, items, c, last, member)
    BY <2>2 DEF Walk
  <2>4. Middle(f, items, s, k) = Middle(g, items, s, k)
    BY <2>1, <2>3 DEF Middle
  <2> QED
    BY <2>4, ChildIs
<1>4. [k \in DOMAIN s |-> Child(f, items, s, k)] = [k \in DOMAIN s |-> Child(g, items, s, k)]
  BY <1>3
<1> QED
  BY <1>1, <1>4 DEF Content

InsideRuns(f, items, a, n) == f = [i \in a..n |-> Content(f, items, i)]
CanInside(items, a, n) == \E f : InsideRuns(f, items, a, n)

LEMMA InsideExists ==
    ASSUME NEW items, Sound(items), NEW n \in Nat, n = Len(items)
    PROVE  CanInside(items, 1, n)
<1> DEFINE T == {d \in Nat : d \in 0..n => CanInside(items, n - d + 1, n)}
<1>1. 0 \in T
  <2> DEFINE f == [i \in (n - 0 + 1)..n |-> 0]
  <2>1. f = [i \in (n - 0 + 1)..n |-> Content(f, items, i)]
    <3>1. (n - 0 + 1)..n = {}
      OBVIOUS
    <3> QED
      BY <3>1
  <2>2. CanInside(items, n - 0 + 1, n)
    BY <2>1 DEF CanInside, InsideRuns
  <2> QED
    BY <2>2
<1>2. ASSUME NEW d \in Nat, d \in T PROVE d + 1 \in T
  <2>0. ASSUME d + 1 \in 0..n PROVE CanInside(items, n - (d + 1) + 1, n)
    <3>1. PICK e \in 1..n : e = n - d /\ n - (d + 1) + 1 = e /\ n - d + 1 = e + 1
      BY <2>0
    <3>2. CanInside(items, e + 1, n)
      BY <1>2, <2>0, <3>1
    <3>3. PICK f : InsideRuns(f, items, e + 1, n)
      BY <3>2 DEF CanInside
    <3>4. PICK v : v = Content(f, items, e)
      OBVIOUS
    <3> DEFINE g == [i \in e..n |-> IF i = e THEN v ELSE f[i]]
    <3>5. g[e] = v /\ \A i \in (e + 1)..n : g[i] = f[i]
      OBVIOUS
    <3>6. \A i \in e..n : g[i] = Content(g, items, i)
      <4> HIDE DEF g
      <4> TAKE i \in e..n
      <4>1. i \in 1..n
        OBVIOUS
      <4>2. \A k \in Children(items, i) : f[k] = g[k]
        <5> TAKE k \in Children(items, i)
        <5>1. k \in 1..n /\ k > i
          BY <4>1, KidsLater
        <5>2. k \in (e + 1)..n
          BY <5>1
        <5> QED
          BY <3>5, <5>2
      <4>3. Content(g, items, i) = Content(f, items, i)
        BY <4>2, ContentDepends
      <4>4. CASE i = e
        BY <3>4, <3>5, <4>3, <4>4
      <4>5. CASE i # e
        <5>1. i \in (e + 1)..n
          BY <4>5
        <5>2. f[i] = Content(f, items, i)
          BY <3>3, <5>1 DEF InsideRuns
        <5> QED
          BY <3>5, <4>3, <5>1, <5>2
      <4> QED
        BY <4>4, <4>5
    <3>7. InsideRuns(g, items, e, n)
      <4>1. g = [i \in e..n |-> g[i]]
        OBVIOUS
      <4> HIDE DEF g
      <4> QED
        BY <3>6, <4>1 DEF InsideRuns
    <3> QED
      BY <3>1, <3>7 DEF CanInside
  <2> QED
    BY <2>0
<1> HIDE DEF T
<1>3. n \in T
  BY <1>1, <1>2, SetInduction
<1>4. CanInside(items, n - n + 1, n)
  BY <1>3 DEF T
<1>5. n - n + 1 = 1
  OBVIOUS
<1> QED
  BY <1>4, <1>5

LEMMA InsideIs ==
    ASSUME NEW items, Sound(items)
    PROVE  \A i \in 1..Len(items) : Inside(items)[i] = Content(Inside(items), items, i)
<1>1. PICK n \in Nat : n = Len(items) /\ DOMAIN items = 1..n
  BY SoundItems
<1> DEFINE f == CHOOSE f : InsideRuns(f, items, 1, n)
<1>2. InsideRuns(f, items, 1, n)
  BY <1>1, InsideExists DEF CanInside
<1>3. Inside(items) = f
  BY <1>1 DEF Inside, InsideRuns, Content
<1> HIDE DEF f
<1>4. \A i \in 1..n : f[i] = Content(f, items, i)
  BY <1>2 DEF InsideRuns
<1> QED
  BY <1>1, <1>3, <1>4

-----------------------------------------------------------------------------
(* What is written is a sequence, and with a Dead piece in it never JSON. *)

LEMMA MemberSeq == ASSUME NEW b PROVE IsSeq(Comma(b))
  BY ShortIsSeq DEF Comma

LEMMA AttributesSeq ==
    ASSUME NEW items, Sound(items), NEW i \in 1..Len(items)
    PROVE  IsSeq(Attributes(items, i))
<1>1. PICK attrs : attrs = items[i].attributes
  OBVIOUS
<1>2. IsSeq(attrs)
  BY <1>1 DEF Sound
<1>3. PICK n \in Nat : n = Len(attrs) /\ DOMAIN attrs = 1..n
  BY <1>2, LenProperties DEF IsSeq
<1> DEFINE S(k) == <<Member(At(attrs[k].name), attrs[k].value)>> \o Comma(Children(items, i) # {} \/ k < Len(attrs))
           seqs == [k \in 1..n |-> S(k)]
<1>4. Attributes(items, i) = FlattenSeq(seqs)
  BY <1>1, <1>3 DEF Attributes
<1>5. \A k \in 1..n : IsSeq(S(k))
  BY ShortIsSeq, MemberSeq, JoinedIsSeq
<1>6. seqs = [k \in 1..n |-> seqs[k]] /\ \A k \in 1..n : seqs[k] = S(k)
  OBVIOUS
<1> HIDE DEF S, seqs
<1>7. PICK G : Chained(G, seqs, n) /\ FlattenSeq(seqs) = G[n]
  <2>1. \A k \in 1..n : IsSeq(seqs[k])
    BY <1>5, <1>6
  <2> QED
    BY <1>6, <2>1, Flattened
<1>8. n \in 0..n
  OBVIOUS
<1> QED
  BY <1>4, <1>7, <1>8 DEF Chained

LEMMA WalkSeq ==
    ASSUME NEW inside, NEW items, NEW c, IsSeq(inside[c]), NEW last, NEW member
    PROVE  IsSeq(Walk(inside, items, c, last, member))
<1>1. IsSeq(Comma(~last))
  BY MemberSeq
<1>2. IsSeq(<<IF member THEN Piece("object") ELSE Opens(items[c].name, "object")>> \o inside[c])
  BY ShortIsSeq, JoinedIsSeq
<1>3. IsSeq(<<IF member THEN Piece("object") ELSE Opens(items[c].name, "object")>> \o inside[c] \o <<Piece("object_end")>>)
  BY <1>2, ShortIsSeq, JoinedIsSeq
<1>4. IsSeq(<<Labelled(items[c].name, Member(items[c].name, TextOf(items, c)))>>)
  BY ShortIsSeq
<1> QED
  BY <1>1, <1>3, <1>4, JoinedIsSeq DEF Walk

LEMMA ChildParts ==
    ASSUME NEW inside, NEW items, NEW s, NEW k, IsSeq(inside[s[k]])
    PROVE  /\ IsSeq(Before(items, s, k)) /\ IsSeq(Middle(inside, items, s, k)) /\ IsSeq(Behind(items, s, k))
           /\ IsSeq(Before(items, s, k) \o Middle(inside, items, s, k))
           /\ Child(inside, items, s, k) = (Before(items, s, k) \o Middle(inside, items, s, k)) \o Behind(items, s, k)
           /\ IsSeq(Child(inside, items, s, k))
<1>1. IsSeq(Before(items, s, k))
  BY ShortIsSeq DEF Before
<1>2. IsSeq(Middle(inside, items, s, k))
  BY WalkSeq DEF Middle
<1>3. IsSeq(Behind(items, s, k))
  BY ShortIsSeq, MemberSeq, JoinedIsSeq DEF Behind
<1>4. IsSeq(Before(items, s, k) \o Middle(inside, items, s, k))
  BY <1>1, <1>2, JoinedIsSeq
<1>5. Child(inside, items, s, k) = (Before(items, s, k) \o Middle(inside, items, s, k)) \o Behind(items, s, k)
  BY ChildIs
<1> QED
  BY <1>1, <1>2, <1>3, <1>4, <1>5, JoinedIsSeq

LEMMA ContentSeq ==
    ASSUME NEW inside, NEW items, Sound(items), NEW i \in 1..Len(items), \A k \in Children(items, i) : IsSeq(inside[k])
    PROVE  IsSeq(Content(inside, items, i))
<1>1. PICK s : s = Sorted(items, i)
  OBVIOUS
<1>2. PICK m \in Nat : DOMAIN s = 1..m /\ \A k \in 1..m : s[k] \in Children(items, i)
  BY <1>1, KidsAt
<1> DEFINE seqs == [k \in 1..m |-> Child(inside, items, s, k)]
<1>3. \A k \in 1..m : IsSeq(Child(inside, items, s, k))
  BY <1>2, ChildParts
<1>4. seqs = [k \in 1..m |-> seqs[k]] /\ \A k \in 1..m : IsSeq(seqs[k])
  BY <1>3
<1>5. Content(inside, items, i) = Attributes(items, i) \o (IF s = <<>> THEN <<Dead>> ELSE FlattenSeq(seqs))
  BY <1>1, <1>2 DEF Content
<1> HIDE DEF seqs
<1>6. PICK G : Chained(G, seqs, m) /\ FlattenSeq(seqs) = G[m]
  BY <1>4, Flattened
<1>7. m \in 0..m
  OBVIOUS
<1>8. IsSeq(FlattenSeq(seqs))
  BY <1>6, <1>7 DEF Chained
<1> QED
  BY <1>5, <1>8, AttributesSeq, ShortIsSeq, JoinedIsSeq

LEMMA InsideSeq ==
    ASSUME NEW items, Sound(items)
    PROVE  \A i \in 1..Len(items) : IsSeq(Inside(items)[i])
<1>1. PICK n \in Nat : n = Len(items) /\ DOMAIN items = 1..n
  BY SoundItems
<1> DEFINE T == {d \in Nat : \A i \in 1..n : i > n - d => IsSeq(Inside(items)[i])}
<1>2. 0 \in T
  OBVIOUS
<1>3. ASSUME NEW d \in Nat, d \in T PROVE d + 1 \in T
  <2>1. ASSUME NEW i \in 1..n, i > n - (d + 1) PROVE IsSeq(Inside(items)[i])
    <3>1. ASSUME NEW k \in Children(items, i) PROVE IsSeq(Inside(items)[k])
      <4>1. k \in 1..n /\ k > i
        BY <1>1, KidsLater
      <4>2. k > n - d
        BY <2>1, <4>1
      <4> QED
        BY <1>3, <4>1, <4>2
    <3>2. IsSeq(Content(Inside(items), items, i))
      BY <1>1, <3>1, ContentSeq
    <3> QED
      BY <1>1, <3>2, InsideIs
  <2> QED
    BY <2>1
<1> HIDE DEF T
<1>4. n \in T
  BY <1>2, <1>3, SetInduction
<1>5. \A i \in 1..n : i > n - n
  OBVIOUS
<1> QED
  BY <1>1, <1>4, <1>5 DEF T

\* Pieces after which nothing can be JSON.
Kills(json) == IsSeq(json) /\ \A r : Feed(r, json) = Wrong

LEMMA KillsAll ==
    ASSUME NEW s, Kills(s)
    PROVE  \A t : IsSeq(t) => Kills(s \o t) /\ Kills(t \o s)
<1> SUFFICES ASSUME NEW t, IsSeq(t) PROVE Kills(s \o t) /\ Kills(t \o s)
  OBVIOUS
<1>1. IsSeq(s) /\ IsSeq(s \o t) /\ IsSeq(t \o s)
  BY JoinedIsSeq DEF Kills
<1>2. ASSUME NEW r PROVE Feed(r, s \o t) = Wrong
  <2>1. Feed(r, s \o t) = Feed(Feed(r, s), t)
    BY <1>1, FeedJoined
  <2>2. Feed(r, s) = Wrong
    BY DEF Kills
  <2>3. Feed(Wrong, t) = Wrong
    BY FeedWrong
  <2> QED
    BY <2>1, <2>2, <2>3
<1>3. ASSUME NEW r PROVE Feed(r, t \o s) = Wrong
  <2>1. Feed(r, t \o s) = Feed(Feed(r, t), s)
    BY <1>1, FeedJoined
  <2>2. PICK q : q = Feed(r, t)
    OBVIOUS
  <2>3. Feed(q, s) = Wrong
    BY DEF Kills
  <2> QED
    BY <2>1, <2>2, <2>3
<1> QED
  BY <1>1, <1>2, <1>3 DEF Kills

LEMMA DeadKills == Kills(<<Dead>>)
  BY ShortIsSeq, FeedOne, ConsumeDead DEF Kills

\* An element without children, and a text, are walked to a null pointer.
LEMMA ChildlessIs ==
    ASSUME NEW items, Sound(items), NEW i \in 1..Len(items), Children(items, i) = {}
    PROVE  Inside(items)[i] = Attributes(items, i) \o <<Dead>>
<1>1. PICK s : s = Sorted(items, i)
  OBVIOUS
<1>2. PICK m \in Nat : DOMAIN s = 1..m /\ m = Len(s) /\ \A k \in 1..m : KidAt(items, i, s, m, k) /\ s[k] \in Children(items, i)
  BY <1>1, KidsAt
<1>3. m = 0
  <2>1. 1 \notin 1..m
    BY <1>2
  <2> QED
    BY <2>1
<1>4. s = <<>>
  <2>1. s \in Seq(Nat)
    BY <1>1, SortedKids DEF HoldsKids, Sound
  <2> QED
    BY <1>2, <1>3, <2>1, EmptySeq
<1> QED
  BY <1>1, <1>4, InsideIs DEF Content

LEMMA ChildlessKills ==
    ASSUME NEW items, Sound(items), NEW i \in 1..Len(items), Children(items, i) = {}, NEW last, NEW member
    PROVE  Kills(Walk(Inside(items), items, i, last, member))
<1>1. Kills(Inside(items)[i])
  BY ChildlessIs, DeadKills, AttributesSeq, KillsAll
<1>2. ~OnlyText(items, i)
  BY DEF OnlyText
<1>3. PICK o : o = <<IF member THEN Piece("object") ELSE Opens(items[i].name, "object")>>
  OBVIOUS
<1>4. Walk(Inside(items), items, i, last, member) = o \o Inside(items)[i] \o <<Piece("object_end")>> \o Comma(~last)
  BY <1>2, <1>3 DEF Walk
<1>5. IsSeq(o)
  BY <1>3, ShortIsSeq
<1>6. Kills(o \o Inside(items)[i])
  BY <1>1, <1>5, KillsAll
<1>7. Kills(o \o Inside(items)[i] \o <<Piece("object_end")>>)
  BY <1>6, ShortIsSeq, KillsAll
<1> QED
  BY <1>4, <1>7, MemberSeq, KillsAll

-----------------------------------------------------------------------------
(* The document as a tree. *)

PathRuns(f, items, n) == f = [i \in 0..n |-> IF i = 0 THEN <<>> ELSE PathAfter(items, i, f[items[i].parent])]
CanPath(items, n) == \E f : PathRuns(f, items, n)

LEMMA PathExists ==
    ASSUME NEW items, Sound(items), NEW n \in Nat, n <= Len(items)
    PROVE  CanPath(items, n)
<1>0. \A i \in 1..Len(items) : items[i].parent \in 0..(i - 1)
  BY DEF Sound
<1>00. Len(items) \in Nat
  BY SoundItems
<1> DEFINE T == {m \in Nat : m <= n => CanPath(items, m)}
<1>1. 0 \in T
  <2> DEFINE f == [i \in 0..0 |-> <<>>]
  <2>1. f = [i \in 0..0 |-> IF i = 0 THEN <<>> ELSE PathAfter(items, i, f[items[i].parent])]
    OBVIOUS
  <2> QED
    BY <2>1 DEF CanPath, PathRuns
<1>2. ASSUME NEW m \in Nat, m \in T PROVE m + 1 \in T
  <2>0. ASSUME m + 1 <= n PROVE CanPath(items, m + 1)
    <3>1. PICK f : PathRuns(f, items, m)
      BY <1>2, <2>0 DEF CanPath
    <3>2. PICK v : v = PathAfter(items, m + 1, f[items[m + 1].parent])
      OBVIOUS
    <3> DEFINE g == [i \in 0..(m + 1) |-> IF i = m + 1 THEN v ELSE f[i]]
    <3>3. g[m + 1] = v /\ \A i \in 0..m : g[i] = f[i]
      OBVIOUS
    <3>4. \A i \in 0..(m + 1) : g[i] = IF i = 0 THEN <<>> ELSE PathAfter(items, i, g[items[i].parent])
      <4> HIDE DEF g
      <4> TAKE i \in 0..(m + 1)
      <4>1. i # 0 => items[i].parent \in 0..m
        <5> SUFFICES ASSUME i # 0 PROVE items[i].parent \in 0..m
          OBVIOUS
        <5>1. i \in 1..Len(items)
          BY <1>00, <2>0
        <5>2. items[i].parent \in 0..(i - 1)
          BY <1>0, <5>1
        <5> QED
          BY <5>2
      <4>2. CASE i = m + 1
        BY <3>2, <3>3, <4>1, <4>2
      <4>3. CASE i # m + 1
        <5>1. i \in 0..m
          BY <4>3
        <5>2. f[i] = IF i = 0 THEN <<>> ELSE PathAfter(items, i, f[items[i].parent])
          BY <3>1, <5>1 DEF PathRuns
        <5> QED
          BY <3>3, <4>1, <5>1, <5>2
      <4> QED
        BY <4>2, <4>3
    <3>5. PathRuns(g, items, m + 1)
      <4>1. g = [i \in 0..(m + 1) |-> g[i]]
        OBVIOUS
      <4> HIDE DEF g
      <4> QED
        BY <3>4, <4>1 DEF PathRuns
    <3> QED
      BY <3>5 DEF CanPath
  <2> QED
    BY <2>0
<1> HIDE DEF T
<1>3. n \in T
  BY <1>1, <1>2, SetInduction
<1> QED
  BY <1>3 DEF T

LEMMA PathIs ==
    ASSUME NEW items, Sound(items)
    PROVE  /\ Path(items)[0] = <<>>
           /\ \A i \in 1..Len(items) : Path(items)[i] = PathAfter(items, i, Path(items)[items[i].parent])
<1>1. PICK n \in Nat : n = Len(items) /\ DOMAIN items = 1..n
  BY SoundItems
<1> DEFINE f == CHOOSE f : PathRuns(f, items, n)
<1>2. PathRuns(f, items, n)
  BY <1>1, PathExists DEF CanPath
<1>3. Path(items) = f
  BY <1>1 DEF Path, PathRuns
<1> HIDE DEF f
<1>4. 0 \in 0..n /\ \A i \in 1..n : i \in 0..n /\ i # 0
  OBVIOUS
<1>5. f[0] = <<>> /\ \A i \in 1..n : f[i] = PathAfter(items, i, f[items[i].parent])
  BY <1>2, <1>4 DEF PathRuns
<1> QED
  BY <1>1, <1>3, <1>5

LEMMA TreeIs ==
    ASSUME NEW items, Sound(items), NEW top, top = Tree(items)
    PROVE  /\ top = 0 => Elements(items) = {}
           /\ top # 0 => top \in Elements(items) /\ top \in 1..Len(items) /\ items[top].parent = 0
<1>1. PICK n \in Nat : n = Len(items) /\ DOMAIN items = 1..n
  BY SoundItems
<1> DEFINE I == {j \in 1..n : items[j].name # "#text"}
<1>2. top = IF I # {} THEN Min(I) ELSE 0
  BY <1>1 DEF Tree, SelectInSeq
<1>3. I \subseteq Nat /\ I = Elements(items)
  BY <1>1 DEF Elements
<1>4. I \subseteq 1..n /\ \A j \in I : items[j].name # "#text"
  OBVIOUS
<1> HIDE DEF I
<1>5. I # {} => top \in I /\ \A j \in I : top <= j
  BY <1>2, <1>3, HasMin
<1>6. I # {} => items[top].parent = 0
  <2> SUFFICES ASSUME I # {}, items[top].parent # 0 PROVE FALSE
    OBVIOUS
  <2>1. top \in 1..n
    BY <1>4, <1>5
  <2>2. PICK q : q = items[top].parent
    OBVIOUS
  <2>3. q \in 0..(top - 1) /\ items[q].name # "#text" /\ q # 0
    BY <1>1, <2>1, <2>2 DEF Sound
  <2>4. q \in DOMAIN items /\ q < top
    BY <1>1, <2>1, <2>3
  <2>5. q \in I
    BY <1>3, <2>3, <2>4 DEF Elements
  <2> QED
    BY <1>1, <1>5, <2>1, <2>4, <2>5
<1> QED
  BY <1>1, <1>2, <1>3, <1>4, <1>5, <1>6

\* The elements from one down: the smallest set with it and its children's.
Closed(items, C) == \A k \in Elements(items) : items[k].parent \in C => k \in C
Sub(items, i) == {j \in Elements(items) : \A C \in SUBSET Elements(items) : i \in C /\ Closed(items, C) => j \in C}
Kids(items, i) == Children(items, i) \intersect Elements(items)

LEMMA SubIs ==
    ASSUME NEW items, NEW i \in Elements(items)
    PROVE  Sub(items, i) = {i} \union (UNION {Sub(items, k) : k \in Kids(items, i)})
<1>0. \A k : k \in Kids(items, i) <=> k \in Elements(items) /\ items[k].parent = i
  BY DEF Kids, Children, Elements
<1>1. i \in Sub(items, i)
  BY DEF Sub
<1>2. ASSUME NEW k \in Kids(items, i), NEW j \in Sub(items, k) PROVE j \in Sub(items, i)
  <2>1. ASSUME NEW C \in SUBSET Elements(items), i \in C, Closed(items, C) PROVE j \in C
    <3>1. k \in C
      BY <1>0, <1>2, <2>1 DEF Closed
    <3> QED
      BY <1>2, <2>1, <3>1 DEF Sub
  <2> QED
    BY <1>2, <2>1 DEF Sub
<1>3. PICK C : C = {i} \union (UNION {Sub(items, k) : k \in Kids(items, i)})
  OBVIOUS
<1>4. C \in SUBSET Elements(items) /\ i \in C
  BY <1>3 DEF Sub
<1>5. Closed(items, C)
  <2>1. ASSUME NEW k \in Elements(items), items[k].parent \in C PROVE k \in C
    <3>1. CASE items[k].parent = i
      <4>1. k \in Kids(items, i)
        BY <1>0, <2>1, <3>1
      <4>2. k \in Sub(items, k)
        BY <2>1 DEF Sub
      <4> QED
        BY <1>3, <4>1, <4>2
    <3>2. CASE items[k].parent # i
      <4>1. PICK l \in Kids(items, i) : items[k].parent \in Sub(items, l)
        BY <1>3, <2>1, <3>2
      <4>2. ASSUME NEW D \in SUBSET Elements(items), l \in D, Closed(items, D) PROVE k \in D
        <5>1. items[k].parent \in D
          BY <4>1, <4>2 DEF Sub
        <5> QED
          BY <2>1, <4>2, <5>1 DEF Closed
      <4>3. k \in Sub(items, l)
        BY <2>1, <4>2 DEF Sub
      <4> QED
        BY <1>3, <4>1, <4>3
    <3> QED
      BY <3>1, <3>2
  <2> QED
    BY <2>1 DEF Closed
<1>6. Sub(items, i) \subseteq C
  BY <1>4, <1>5 DEF Sub
<1>7. C \subseteq Sub(items, i)
  BY <1>1, <1>2, <1>3
<1> QED
  BY <1>3, <1>6, <1>7

InRuns(f, items, n) == f = [i \in 0..n |-> i # 0 /\ (i = Tree(items) \/ f[items[i].parent])]
CanBeIn(items, n) == \E f : InRuns(f, items, n)

LEMMA InExists ==
    ASSUME NEW items, Sound(items), NEW n \in Nat, n <= Len(items)
    PROVE  CanBeIn(items, n)
<1>0. \A i \in 1..Len(items) : items[i].parent \in 0..(i - 1)
  BY DEF Sound
<1>00. Len(items) \in Nat
  BY SoundItems
<1> DEFINE S(i, w) == i # 0 /\ (i = Tree(items) \/ w)
           T == {m \in Nat : m <= n => CanBeIn(items, m)}
<1>1. 0 \in T
  <2> DEFINE f == [i \in 0..0 |-> FALSE]
  <2>1. f = [i \in 0..0 |-> i # 0 /\ (i = Tree(items) \/ f[items[i].parent])]
    <3>1. ASSUME NEW i \in 0..0 PROVE (i # 0 /\ (i = Tree(items) \/ f[items[i].parent])) = FALSE
      <4>1. i = 0
        OBVIOUS
      <4> QED
        BY <4>1
    <3> QED
      BY <3>1
  <2> QED
    BY <2>1 DEF CanBeIn, InRuns
<1>2. ASSUME NEW m \in Nat, m \in T PROVE m + 1 \in T
  <2>0. ASSUME m + 1 <= n PROVE CanBeIn(items, m + 1)
    <3>1. PICK f : InRuns(f, items, m)
      BY <1>2, <2>0 DEF CanBeIn
    <3>2. PICK v : v = S(m + 1, f[items[m + 1].parent])
      OBVIOUS
    <3> DEFINE g == [i \in 0..(m + 1) |-> IF i = m + 1 THEN v ELSE f[i]]
    <3>3. g[m + 1] = v /\ \A i \in 0..m : g[i] = f[i]
      OBVIOUS
    <3>4. \A i \in 0..(m + 1) : g[i] = S(i, g[items[i].parent])
      <4> HIDE DEF g
      <4> TAKE i \in 0..(m + 1)
      <4>1. i # 0 => items[i].parent \in 0..m
        <5> SUFFICES ASSUME i # 0 PROVE items[i].parent \in 0..m
          OBVIOUS
        <5>1. i \in 1..Len(items)
          BY <1>00, <2>0
        <5>2. items[i].parent \in 0..(i - 1)
          BY <1>0, <5>1
        <5> QED
          BY <5>2
      <4>4. i # 0 => g[items[i].parent] = f[items[i].parent]
        BY <3>3, <4>1
      <4>5. S(i, g[items[i].parent]) = S(i, f[items[i].parent])
        <5>1. CASE i = 0
          BY <5>1
        <5>2. CASE i # 0
          BY <4>4, <5>2
        <5> QED
          BY <5>1, <5>2
      <4>2. CASE i = m + 1
        <5> HIDE DEF S
        <5> QED
          BY <3>2, <3>3, <4>2, <4>5
      <4>3. CASE i # m + 1
        <5>1. i \in 0..m
          BY <4>3
        <5>2. f[i] = S(i, f[items[i].parent])
          BY <3>1, <5>1 DEF InRuns
        <5> HIDE DEF S
        <5> QED
          BY <3>3, <4>5, <5>1, <5>2
      <4> QED
        BY <4>2, <4>3
    <3>5. InRuns(g, items, m + 1)
      <4>1. g = [i \in 0..(m + 1) |-> g[i]]
        OBVIOUS
      <4> HIDE DEF g
      <4>2. g = [i \in 0..(m + 1) |-> S(i, g[items[i].parent])]
        <5> HIDE DEF S
        <5> QED
          BY <3>4, <4>1
      <4> QED
        BY <4>2 DEF InRuns
    <3> QED
      BY <3>5 DEF CanBeIn
  <2> QED
    BY <2>0
<1> HIDE DEF T
<1>3. n \in T
  BY <1>1, <1>2, SetInduction
<1> QED
  BY <1>3 DEF T

LEMMA InnerIs ==
    ASSUME NEW items, Sound(items), NEW top, top = Tree(items)
    PROVE  /\ top = 0 => InnerElements(items) = {}
           /\ top # 0 => InnerElements(items) = Sub(items, top)
<1>1. PICK n \in Nat : n = Len(items) /\ DOMAIN items = 1..n
  BY SoundItems
<1> DEFINE f == CHOOSE f : InRuns(f, items, n)
<1>2. InRuns(f, items, n)
  BY <1>1, InExists DEF CanBeIn
<1>3. InnerElements(items) = {i \in Elements(items) : f[i]}
  BY <1>1 DEF InnerElements, InRuns
<1> HIDE DEF f
<1>4. 0 \in 0..n /\ (\A i \in 1..n : i \in 0..n /\ i # 0) /\ Elements(items) \subseteq 1..n
  BY <1>1 DEF Elements
<1>5. ~f[0] /\ \A i \in 1..n : f[i] <=> (i = top \/ f[items[i].parent])
  BY <1>2, <1>4 DEF InRuns
<1>6. \A i \in 1..n : items[i].parent \in 0..(i - 1) /\ (items[i].parent # 0 => items[items[i].parent].name # "#text")
  BY <1>1 DEF Sound
<1>7. CASE top = 0
  BY <1>3, <1>7, TreeIs
<1>8. CASE top # 0
  <2>1. top \in Elements(items)
    BY <1>8, TreeIs
  <2>2. PICK C : C = {i \in Elements(items) : f[i]}
    OBVIOUS
  <2>3. top \in C /\ C \in SUBSET Elements(items)
    BY <1>4, <1>5, <2>1, <2>2
  <2>4. Closed(items, C)
    BY <1>4, <1>5, <2>2 DEF Closed
  <2>5. Sub(items, top) \subseteq C
    BY <2>3, <2>4 DEF Sub
  <2> DEFINE T == {m \in Nat : \A i \in Elements(items) : i <= m /\ f[i] => i \in Sub(items, top)}
  <2>6. 0 \in T
    <3>1. \A i \in Elements(items) : ~(i <= 0)
      BY <1>4
    <3> QED
      BY <3>1
  <2>7. ASSUME NEW m \in Nat, m \in T PROVE m + 1 \in T
    <3>1. ASSUME NEW i \in Elements(items), i <= m + 1, f[i] PROVE i \in Sub(items, top)
      <4>0. i \in 1..n
        BY <1>4
      <4>1. CASE i = top
        BY <2>1, <4>1 DEF Sub
      <4>2. CASE i # top
        <5>1. PICK q : q = items[i].parent
          OBVIOUS
        <5>2. f[q] /\ q # 0
          BY <1>5, <3>1, <4>0, <4>2, <5>1
        <5>3. q \in 0..(i - 1) /\ items[q].name # "#text"
          BY <1>6, <4>0, <5>1, <5>2
        <5>4. q \in 1..n /\ q <= m
          BY <3>1, <4>0, <5>2, <5>3
        <5>5. q \in Elements(items)
          BY <1>1, <5>3, <5>4 DEF Elements
        <5>6. q \in Sub(items, top)
          BY <2>7, <5>2, <5>4, <5>5
        <5>7. ASSUME NEW D \in SUBSET Elements(items), top \in D, Closed(items, D) PROVE i \in D
          <6>1. q \in D
            BY <5>6, <5>7 DEF Sub
          <6> QED
            BY <3>1, <5>1, <5>7, <6>1 DEF Closed
        <5> QED
          BY <3>1, <5>7 DEF Sub
      <4> QED
        BY <4>1, <4>2
    <3> QED
      BY <3>1
  <2> HIDE DEF T
  <2>8. n \in T
    BY <2>6, <2>7, SetInduction
  <2>9. C \subseteq Sub(items, top)
    <3>1. \A i \in Elements(items) : i <= n
      BY <1>4
    <3> QED
      BY <2>2, <2>8, <3>1 DEF T
  <2> QED
    BY <1>3, <1>8, <2>2, <2>5, <2>9
<1> QED
  BY <1>7, <1>8

-----------------------------------------------------------------------------
(* What the reader makes of an element. *)

Good(items, i) == \A e \in Sub(items, i) : HasForm(items, e)
Said(items, i) == UNION {SaysOwn(items, e) : e \in Sub(items, i)}

\* After the last value of an object or an array, or one with more to come.
After(b, is, path, count, F, last) ==
    IF last THEN On(b, Frame(is, path, count), "value", F) ELSE On(b, Frame(is, path, count + 1), "comma", F)

\* An element is a member of an array where it is one of several of its name.
AloneIn(items, i) == i = Tree(items) \/ Alike(items, i) = {i}
Fits(items, i, is, member, path, count) ==
    \/ /\ is = "object" /\ member = FALSE /\ AloneIn(items, i)
       /\ Path(items)[i] = Append(path, items[i].name)
    \/ /\ is = "array" /\ member = TRUE /\ ~AloneIn(items, i) /\ items[i].name \notin Hashed
       /\ Path(items)[i] = Append(path, ToString(count))

\* Read where it fits, an element says what the document says of it.
Reads(items, i, is, member, path, count) ==
    \A b, F : \A last \in BOOLEAN, a \in {"open", "comma"} :
        IsSeq(b) =>
        Feed(On(b, Frame(is, path, count), a, F), Walk(Inside(items), items, i, last, member))
          = IF Good(items, i) THEN After(b, is, path, count, F \union Said(items, i), last) ELSE Wrong

WalkReads(items, i) ==
    \A is, member, path, count : Fits(items, i, is, member, path, count) => Reads(items, i, is, member, path, count)

LEMMA ReadsThen ==
    ASSUME NEW items, NEW i, NEW is, NEW member, NEW path, NEW count, Reads(items, i, is, member, path, count),
           NEW b, NEW F, NEW last \in BOOLEAN, NEW a \in {"open", "comma"}, IsSeq(b),
           NEW w, w = Walk(Inside(items), items, i, last, member)
    PROVE  Feed(On(b, Frame(is, path, count), a, F), w)
             = IF Good(items, i) THEN After(b, is, path, count, F \union Said(items, i), last) ELSE Wrong
  BY DEF Reads

LEMMA CommaAfter ==
    ASSUME NEW b, IsSeq(b), NEW is, NEW path, NEW count, NEW F, NEW last \in BOOLEAN
    PROVE  Feed(On(b, Frame(is, path, count), "value", F), Comma(~last)) = After(b, is, path, count, F, last)
<1>1. CASE last
  <2>1. Comma(~last) = <<>>
    BY <1>1 DEF Comma
  <2> QED
    BY <1>1, <2>1, FeedNothing DEF After
<1>2. CASE ~last
  <2>1. Comma(~last) = <<Piece("comma")>>
    BY <1>2 DEF Comma
  <2>2. Feed(On(b, Frame(is, path, count), "value", F), <<Piece("comma")>>)
          = Consume(On(b, Frame(is, path, count), "value", F), Piece("comma"))
    BY FeedOne
  <2> QED
    BY <1>2, <2>1, <2>2, ConsumeComma DEF After
<1> QED
  BY <1>1, <1>2

LEMMA Opening ==
    ASSUME NEW items, NEW i, NEW is, NEW member, NEW path, NEW count, Fits(items, i, is, member, path, count),
           NEW b, IsSeq(b), NEW a \in {"open", "comma"}, NEW F
    PROVE  Consume(On(b, Frame(is, path, count), a, F), IF member THEN Piece("object") ELSE Opens(items[i].name, "object"))
             = IF items[i].name \in Hashed THEN Wrong
               ELSE On(Append(b, Frame(is, path, count)), Frame("object", Path(items)[i], 1), "open", F)
<1>3. CASE is = "object" /\ member = FALSE /\ items[i].name \in Hashed
  BY <1>3, ConsumeUnquoted
<1>1. CASE is = "object" /\ member = FALSE /\ Path(items)[i] = Append(path, items[i].name) /\ items[i].name \notin Hashed
  <2>1. PICK n : n = items[i].name
    OBVIOUS
  <2>2. "object" \in {"object", "array"}
    OBVIOUS
  <2>3. Consume(On(b, Frame("object", path, count), a, F), Opens(n, "object"))
          = On(Append(b, Frame("object", path, count)), Frame("object", Append(path, n), 1), "open", F)
    BY <1>1, <2>1, <2>2, ConsumeOpens
  <2> QED
    BY <1>1, <2>1, <2>3
<1>2. CASE is = "array" /\ member = TRUE /\ Path(items)[i] = Append(path, ToString(count)) /\ items[i].name \notin Hashed
  BY <1>2, ConsumeBrace
<1> QED
  BY <1>1, <1>2, <1>3 DEF Fits

LEMMA GoodIs ==
    ASSUME NEW items, NEW i \in Elements(items)
    PROVE  /\ Good(items, i) <=> HasForm(items, i) /\ \A k \in Kids(items, i) : Good(items, k)
           /\ Said(items, i) = SaysOwn(items, i) \union (UNION {Said(items, k) : k \in Kids(items, i)})
<1>1. PICK K : K = UNION {Sub(items, k) : k \in Kids(items, i)}
  OBVIOUS
<1>2. Sub(items, i) = {i} \union K
  BY <1>1, SubIs
<1>3. Good(items, i) <=> HasForm(items, i) /\ \A k \in Kids(items, i) : Good(items, k)
  BY <1>1, <1>2 DEF Good
<1>4. UNION {Said(items, k) : k \in Kids(items, i)} = UNION {SaysOwn(items, e) : e \in K}
  BY <1>1 DEF Said
<1>5. Said(items, i) = SaysOwn(items, i) \union (UNION {SaysOwn(items, e) : e \in K})
  BY <1>2 DEF Said
<1> QED
  BY <1>3, <1>4, <1>5

\* An element with nothing but a text.
LEMMA TextReads ==
    ASSUME NEW items, NEW i \in Elements(items), OnlyText(items, i)
    PROVE  WalkReads(items, i)
<1> SUFFICES ASSUME NEW is, NEW member, NEW path, NEW count, Fits(items, i, is, member, path, count),
                    NEW b, NEW F, NEW last \in BOOLEAN, NEW a \in {"open", "comma"}, IsSeq(b)
             PROVE  Feed(On(b, Frame(is, path, count), a, F), Walk(Inside(items), items, i, last, member))
                      = IF Good(items, i) THEN After(b, is, path, count, F \union Said(items, i), last) ELSE Wrong
  BY DEF WalkReads, Reads
<1>1. PICK v, n : v = TextOf(items, i) /\ n = items[i].name
  OBVIOUS
<1>2. Kids(items, i) = {} /\ Children(items, i) # {}
  BY DEF OnlyText, Kids, Elements, IsText
<1>3. Good(items, i) <=> ValueOk(v) /\ AloneIn(items, i) /\ n \notin Hashed
  BY <1>1, <1>2, GoodIs DEF HasForm, AloneIn
<1>4. Said(items, i) = {<<Path(items)[i], v>>}
  BY <1>1, <1>2, GoodIs DEF SaysOwn
<1>5. PICK x, d : x = Labelled(n, Member(n, v)) /\ d = Comma(~last)
  OBVIOUS
<1>6. Walk(Inside(items), items, i, last, member) = <<x>> \o d
  BY <1>1, <1>5 DEF Walk
<1>7. PICK r : r = On(b, Frame(is, path, count), a, F)
  OBVIOUS
<1>8. Feed(r, <<x>> \o d) = Feed(Consume(r, x), d)
  <2>1. IsSeq(<<x>>) /\ IsSeq(d)
    BY <1>5, ShortIsSeq, MemberSeq
  <2> QED
    BY <2>1, FeedJoined, FeedOne
<1>9. CASE Good(items, i)
  <2>1. is = "object" /\ ValueOk(v) /\ Path(items)[i] = Append(path, n)
    BY <1>1, <1>3, <1>9 DEF Fits
  <2>2. PICK E : E = F \union {<<Append(path, n), v>>}
    OBVIOUS
  <2>3. Consume(On(b, Frame("object", path, count), a, F), Member(n, v)) = On(b, Frame("object", path, count), "value", E)
    BY <2>1, <2>2, MemberFits
  <2>4. Consume(r, x) = On(b, Frame(is, path, count), "value", E)
    BY <1>3, <1>5, <1>7, <1>9, <2>1, <2>3 DEF Labelled
  <2>5. Feed(On(b, Frame(is, path, count), "value", E), d) = After(b, is, path, count, E, last)
    BY <1>5, CommaAfter
  <2>6. E = F \union Said(items, i)
    BY <1>4, <2>1, <2>2
  <2> QED
    BY <1>6, <1>7, <1>8, <1>9, <2>4, <2>5, <2>6
<1>10. CASE ~Good(items, i)
  <2>1. n \in Hashed \/ ~ValueOk(v) \/ is = "array"
    BY <1>3, <1>10 DEF Fits
  <2>2. Consume(r, x) = Wrong
    <3>1. CASE n \in Hashed
      BY <1>5, <3>1, ConsumeUnquoted
    <3>2. CASE n \notin Hashed
      BY <1>5, <1>7, <2>1, <3>2, MemberWrong DEF Labelled
    <3> QED
      BY <3>1, <3>2
  <2>3. Feed(Wrong, d) = Wrong
    BY <1>5, MemberSeq, FeedWrong
  <2> QED
    BY <1>6, <1>7, <1>8, <1>10, <2>2, <2>3
<1> QED
  BY <1>9, <1>10

-----------------------------------------------------------------------------
(* The children of an element, one turn of the loop after the other. *)

\* A child of an element, with the element read as it should.
Kid(items, i, s, m, k, kid, name, P) ==
    /\ Sound(items) /\ KidAt(items, i, s, m, k) /\ s = Sorted(items, i)
    /\ kid = s[k] /\ name = items[kid].name /\ name # "#text" /\ P = Path(items)[i]
    /\ WalkReads(items, kid) /\ i # 0

LEMMA KidIsElement ==
    ASSUME NEW items, NEW i, NEW s, NEW m, NEW k, NEW kid, NEW name, NEW P, Kid(items, i, s, m, k, kid, name, P)
    PROVE  kid \in Elements(items)
<1>1. PICK n \in Nat : n = Len(items) /\ DOMAIN items = 1..n
  BY SoundItems DEF Kid
<1>2. kid \in 1..n
  BY <1>1 DEF Kid, KidAt
<1> QED
  BY <1>1, <1>2 DEF Kid, Elements

LEMMA KidFits ==
    ASSUME NEW items, NEW i, NEW s, NEW m, NEW k, NEW kid, NEW name, NEW P, Kid(items, i, s, m, k, kid, name, P)
    PROVE  /\ ~Neighbours(items, s, k) /\ ~Neighbours(items, s, k - 1)
              => \A count : Fits(items, kid, "object", FALSE, P, count)
           /\ (Neighbours(items, s, k) \/ Neighbours(items, s, k - 1)) /\ name \notin Hashed
              => Fits(items, kid, "array", TRUE, Append(P, name), Place(items, kid))
           /\ IsSeq(Inside(items)[kid])
<1>0. PICK n \in Nat : n = Len(items) /\ DOMAIN items = 1..n
  BY SoundItems DEF Kid
<1>1. kid \in 1..n /\ items[kid].parent = i
  BY <1>0 DEF Kid, KidAt
<1>2. Path(items)[kid] = PathAfter(items, kid, P)
  BY <1>0, <1>1, PathIs DEF Kid
<1>3. kid # Tree(items)
  <2>1. PICK top : top = Tree(items)
    OBVIOUS
  <2>2. top # 0 => items[top].parent = 0
    BY <2>1, TreeIs DEF Kid
  <2>3. i # 0 /\ kid # 0
    BY <1>1 DEF Kid
  <2> QED
    BY <1>1, <2>1, <2>2, <2>3
<1>4. AloneIn(items, kid) <=> ~Neighbours(items, s, k - 1) /\ ~Neighbours(items, s, k)
  BY <1>3, Alone DEF Kid, AloneIn
<1>5. Alike(items, kid) = {kid} => Path(items)[kid] = Append(P, name)
  BY <1>2 DEF PathAfter, Kid
<1>6. Alike(items, kid) # {kid} => Path(items)[kid] = Append(Append(P, name), ToString(Place(items, kid)))
  BY <1>2, <1>3 DEF PathAfter, Kid, Place, UpTo
<1>7. IsSeq(Inside(items)[kid])
  BY <1>0, <1>1, InsideSeq DEF Kid
<1>8. ASSUME ~Neighbours(items, s, k), ~Neighbours(items, s, k - 1), NEW count
      PROVE  Fits(items, kid, "object", FALSE, P, count)
  <2>1. AloneIn(items, kid)
    BY <1>4, <1>8
  <2>2. Path(items)[kid] = Append(P, items[kid].name)
    BY <1>3, <1>5, <2>1 DEF AloneIn, Kid
  <2> QED
    BY <2>1, <2>2 DEF Fits
<1>9. ASSUME Neighbours(items, s, k) \/ Neighbours(items, s, k - 1), name \notin Hashed
      PROVE  Fits(items, kid, "array", TRUE, Append(P, name), Place(items, kid))
  <2>1. ~AloneIn(items, kid)
    BY <1>4, <1>9
  <2>2. Path(items)[kid] = Append(Append(P, name), ToString(Place(items, kid)))
    BY <1>6, <2>1 DEF AloneIn
  <2>3. items[kid].name \notin Hashed
    BY <1>9 DEF Kid
  <2> QED
    BY <2>1, <2>2, <2>3 DEF Fits
<1> QED
  BY <1>7, <1>8, <1>9

\* The only child of its name.
LEMMA KidAlone ==
    ASSUME NEW items, NEW i, NEW s, NEW m, NEW k, NEW kid, NEW name, NEW P, Kid(items, i, s, m, k, kid, name, P),
           ~Neighbours(items, s, k), ~Neighbours(items, s, k - 1),
           NEW b, IsSeq(b), NEW c, NEW a \in {"open", "comma"}, NEW F, NEW last \in BOOLEAN, last <=> k = m
    PROVE  Feed(On(b, Frame("object", P, c), a, F), Child(Inside(items), items, s, k))
             = IF Good(items, kid) THEN After(b, "object", P, c, F \union Said(items, kid), last) ELSE Wrong
<1>1. Fits(items, kid, "object", FALSE, P, c) /\ IsSeq(Inside(items)[kid])
  BY KidFits
<1>2. PICK w : w = Walk(Inside(items), items, kid, last, FALSE)
  OBVIOUS
<1>3. Middle(Inside(items), items, s, k) = w
  <2>1. last = (k = Len(s))
    BY DEF Kid, KidAt
  <2> QED
    BY <1>2, <2>1 DEF Middle, Kid
<1>4. Before(items, s, k) = <<>> /\ Behind(items, s, k) = <<>>
  BY DEF Before, Behind
<1>5. IsSeq(w)
  BY <1>1, <1>2, WalkSeq
<1>6. Child(Inside(items), items, s, k) = w
  BY <1>3, <1>4, <1>5, ChildIs, NothingJoined
<1>7. Reads(items, kid, "object", FALSE, P, c)
  BY <1>1 DEF Kid, WalkReads
<1>8. Feed(On(b, Frame("object", P, c), a, F), w)
        = IF Good(items, kid) THEN After(b, "object", P, c, F \union Said(items, kid), last) ELSE Wrong
  <2>1. PICK is, member : is = "object" /\ member = FALSE
    OBVIOUS
  <2>2. Reads(items, kid, is, member, P, c) /\ w = Walk(Inside(items), items, kid, last, member)
    BY <1>2, <1>7, <2>1
  <2>3. Feed(On(b, Frame(is, P, c), a, F), w)
          = IF Good(items, kid) THEN After(b, is, P, c, F \union Said(items, kid), last) ELSE Wrong
    BY <2>2, ReadsThen
  <2> QED
    BY <2>1, <2>3
<1> QED
  BY <1>6, <1>8

\* A member of the array of its name, read in it.
LEMMA KidInArray ==
    ASSUME NEW items, NEW i, NEW s, NEW m, NEW k, NEW kid, NEW name, NEW P, Kid(items, i, s, m, k, kid, name, P),
           Neighbours(items, s, k) \/ Neighbours(items, s, k - 1), name \notin Hashed,
           NEW b, IsSeq(b), NEW a \in {"open", "comma"}, NEW F, NEW last \in BOOLEAN, last <=> ~Neighbours(items, s, k)
    PROVE  /\ Feed(On(b, Frame("array", Append(P, name), Place(items, kid)), a, F), Middle(Inside(items), items, s, k))
                = IF Good(items, kid) THEN After(b, "array", Append(P, name), Place(items, kid), F \union Said(items, kid), last)
                  ELSE Wrong
           /\ IsSeq(Middle(Inside(items), items, s, k))
<1>1. Fits(items, kid, "array", TRUE, Append(P, name), Place(items, kid)) /\ IsSeq(Inside(items)[kid])
  BY KidFits
<1>2. PICK w : w = Walk(Inside(items), items, kid, last, TRUE)
  OBVIOUS
<1>3. Middle(Inside(items), items, s, k) = w
  <2>1. last = ~Neighbours(items, s, k)
    OBVIOUS
  <2> QED
    BY <1>2, <2>1 DEF Middle, Kid
<1>5. IsSeq(w)
  BY <1>1, <1>2, WalkSeq
<1>6. PICK p, c : p = Append(P, name) /\ c = Place(items, kid)
  OBVIOUS
<1>7. Reads(items, kid, "array", TRUE, p, c)
  BY <1>1, <1>6 DEF Kid, WalkReads
<1>8. Feed(On(b, Frame("array", p, c), a, F), w)
        = IF Good(items, kid) THEN After(b, "array", p, c, F \union Said(items, kid), last) ELSE Wrong
  <2>1. PICK is, member : is = "array" /\ member = TRUE
    OBVIOUS
  <2>2. Reads(items, kid, is, member, p, c) /\ w = Walk(Inside(items), items, kid, last, member)
    BY <1>2, <1>7, <2>1
  <2>3. Feed(On(b, Frame(is, p, c), a, F), w)
          = IF Good(items, kid) THEN After(b, is, p, c, F \union Said(items, kid), last) ELSE Wrong
    BY <2>2, ReadsThen
  <2> QED
    BY <2>1, <2>3
<1> QED
  BY <1>3, <1>5, <1>6, <1>8

\* The first of several of a name, and those between the first and the last.
LEMMA KidFirst ==
    ASSUME NEW items, NEW i, NEW s, NEW m, NEW k, NEW kid, NEW name, NEW P, Kid(items, i, s, m, k, kid, name, P),
           Neighbours(items, s, k), ~Neighbours(items, s, k - 1),
           NEW b, IsSeq(b), NEW c, NEW a \in {"open", "comma"}, NEW F
    PROVE  Feed(On(b, Frame("object", P, c), a, F), Child(Inside(items), items, s, k))
             = IF Good(items, kid)
               THEN On(Append(b, Frame("object", P, c)), Frame("array", Append(P, name), Place(items, kid) + 1), "comma",
                       F \union Said(items, kid))
               ELSE Wrong
<1>1. PICK bb : bb = Append(b, Frame("object", P, c))
  OBVIOUS
<1>2. IsSeq(bb)
  BY <1>1, Top
<1>3. PICK w, last : w = Middle(Inside(items), items, s, k) /\ last = FALSE
  OBVIOUS
<1>4. last \in BOOLEAN /\ (last <=> ~Neighbours(items, s, k)) /\ "open" \in {"open", "comma"} /\ "array" \in {"object", "array"}
  BY <1>3
<1>0. IsSeq(w)
  <2>1. IsSeq(Inside(items)[kid]) /\ kid = s[k]
    BY KidFits DEF Kid
  <2> QED
    BY <1>3, <2>1, ChildParts
<1>5. ASSUME name \notin Hashed
      PROVE  Feed(On(bb, Frame("array", Append(P, name), Place(items, kid)), "open", F), w)
               = IF Good(items, kid) THEN After(bb, "array", Append(P, name), Place(items, kid), F \union Said(items, kid), last)
                 ELSE Wrong
  BY <1>2, <1>3, <1>4, <1>5, KidInArray
<1>6. Place(items, kid) = 1
  BY FirstPlace DEF Kid
<1>7. PICK o : o = Opens(name, "array")
  OBVIOUS
<1>8. Before(items, s, k) = <<o>> /\ Behind(items, s, k) = <<>>
  BY <1>7 DEF Before, Behind, Kid
<1>9. IsSeq(<<o>>) /\ IsSeq(<<o>> \o w)
  BY <1>0, ShortIsSeq, JoinedIsSeq
<1>10. Child(Inside(items), items, s, k) = <<o>> \o w
  BY <1>3, <1>8, <1>9, ChildIs, NothingJoined
<1>11. PICK r : r = On(b, Frame("object", P, c), a, F)
  OBVIOUS
<1>12. Feed(r, <<o>> \o w) = Feed(Consume(r, o), w)
  BY <1>0, <1>9, FeedJoined, FeedOne
<1>13. CASE name \notin Hashed
  <2>1. Consume(r, o) = On(bb, Frame("array", Append(P, name), 1), "open", F)
    BY <1>1, <1>4, <1>7, <1>11, <1>13, ConsumeOpens
  <2> QED
    BY <1>1, <1>3, <1>5, <1>6, <1>10, <1>11, <1>12, <1>13, <2>1 DEF After
<1>14. CASE name \in Hashed
  <2>1. Consume(r, o) = Wrong /\ Feed(Wrong, w) = Wrong
    BY <1>0, <1>7, <1>14, ConsumeUnquoted, FeedWrong
  <2>2. ~Good(items, kid)
    <3>1. kid \in Elements(items) /\ items[kid].name = name
      BY KidIsElement DEF Kid
    <3> QED
      BY <1>14, <3>1, GoodIs DEF HasForm
  <2> QED
    BY <1>10, <1>11, <1>12, <2>1, <2>2
<1> QED
  BY <1>13, <1>14

LEMMA KidBetween ==
    ASSUME NEW items, NEW i, NEW s, NEW m, NEW k, NEW kid, NEW name, NEW P, Kid(items, i, s, m, k, kid, name, P),
           Neighbours(items, s, k), Neighbours(items, s, k - 1), name \notin Hashed,
           NEW b, IsSeq(b), NEW F
    PROVE  Feed(On(b, Frame("array", Append(P, name), Place(items, kid)), "comma", F), Child(Inside(items), items, s, k))
             = IF Good(items, kid)
               THEN On(b, Frame("array", Append(P, name), Place(items, kid) + 1), "comma", F \union Said(items, kid))
               ELSE Wrong
<1>3. PICK w, last : w = Middle(Inside(items), items, s, k) /\ last = FALSE
  OBVIOUS
<1>4. last \in BOOLEAN /\ (last <=> ~Neighbours(items, s, k)) /\ "comma" \in {"open", "comma"}
  BY <1>3
<1>5. /\ Feed(On(b, Frame("array", Append(P, name), Place(items, kid)), "comma", F), w)
           = IF Good(items, kid) THEN After(b, "array", Append(P, name), Place(items, kid), F \union Said(items, kid), last)
             ELSE Wrong
      /\ IsSeq(w)
  BY <1>3, <1>4, KidInArray
<1>8. Before(items, s, k) = <<>> /\ Behind(items, s, k) = <<>>
  BY DEF Before, Behind
<1>10. Child(Inside(items), items, s, k) = w
  BY <1>3, <1>5, <1>8, ChildIs, NothingJoined
<1> QED
  BY <1>3, <1>5, <1>10 DEF After

\* The last of several of a name.
LEMMA KidLast ==
    ASSUME NEW items, NEW i, NEW s, NEW m, NEW k, NEW kid, NEW name, NEW P, Kid(items, i, s, m, k, kid, name, P),
           ~Neighbours(items, s, k), Neighbours(items, s, k - 1), name \notin Hashed,
           NEW b, IsSeq(b), NEW c, NEW F, NEW last \in BOOLEAN, last <=> k = m
    PROVE  Feed(On(Append(b, Frame("object", P, c)), Frame("array", Append(P, name), Place(items, kid)), "comma", F),
                Child(Inside(items), items, s, k))
             = IF Good(items, kid) THEN After(b, "object", P, c, F \union Said(items, kid), last) ELSE Wrong
<1>1. PICK bb, p, g : bb = Append(b, Frame("object", P, c)) /\ p = Append(P, name) /\ g = Place(items, kid)
  OBVIOUS
<1>2. IsSeq(bb)
  BY <1>1, Top
<1>3. PICK w, end : w = Middle(Inside(items), items, s, k) /\ end = TRUE
  OBVIOUS
<1>4. end \in BOOLEAN /\ (end <=> ~Neighbours(items, s, k)) /\ "comma" \in {"open", "comma"}
  BY <1>3
<1>5. /\ Feed(On(bb, Frame("array", p, g), "comma", F), w)
           = IF Good(items, kid) THEN After(bb, "array", p, g, F \union Said(items, kid), end) ELSE Wrong
      /\ IsSeq(w)
  <2>1. /\ Feed(On(bb, Frame("array", Append(P, name), Place(items, kid)), "comma", F), w)
             = IF Good(items, kid) THEN After(bb, "array", Append(P, name), Place(items, kid), F \union Said(items, kid), end)
               ELSE Wrong
        /\ IsSeq(w)
    <3>1. PICK a : a = "comma"
      OBVIOUS
    <3>2. a \in {"open", "comma"} /\ (Neighbours(items, s, k) \/ Neighbours(items, s, k - 1))
      BY <3>1
    <3>3. /\ Feed(On(bb, Frame("array", Append(P, name), Place(items, kid)), a, F), Middle(Inside(items), items, s, k))
               = IF Good(items, kid) THEN After(bb, "array", Append(P, name), Place(items, kid), F \union Said(items, kid), end)
                 ELSE Wrong
          /\ IsSeq(Middle(Inside(items), items, s, k))
      BY <1>2, <1>4, <3>2, KidInArray
    <3> QED
      BY <1>3, <3>1, <3>3
  <2> QED
    BY <1>1, <2>1
<1>6. PICK x, d : x = Piece("array_end") /\ d = Comma(~last)
  OBVIOUS
<1>7. IsSeq(<<x>>) /\ IsSeq(d) /\ IsSeq(<<x>> \o d)
  BY <1>6, ShortIsSeq, MemberSeq, JoinedIsSeq
<1>8. Before(items, s, k) = <<>> /\ Behind(items, s, k) = <<x>> \o d
  <2>1. KidAt(items, i, s, m, k)
    BY DEF Kid
  <2>2. (k < Len(s)) <=> ~last
    BY <2>1 DEF KidAt
  <2>3. Comma(k < Len(s)) = d
    BY <1>6, <2>2 DEF Comma
  <2> QED
    BY <1>6, <2>3 DEF Before, Behind
<1>9. Child(Inside(items), items, s, k) = w \o (<<x>> \o d)
  BY <1>3, <1>5, <1>8, ChildIs, NothingJoined
<1>10. PICK r, q : r = On(bb, Frame("array", p, g), "comma", F) /\ q = Feed(r, w)
  OBVIOUS
<1>11. Feed(r, w \o (<<x>> \o d)) = Feed(Consume(q, x), d)
  <2>1. Feed(r, w \o (<<x>> \o d)) = Feed(q, <<x>> \o d)
    BY <1>5, <1>7, <1>10, FeedJoined
  <2>2. Feed(q, <<x>> \o d) = Feed(Consume(q, x), d)
    BY <1>7, FeedJoined, FeedOne
  <2> QED
    BY <2>1, <2>2
<1>12. CASE ~Good(items, kid)
  <2>1. q = Wrong
    BY <1>5, <1>10, <1>12
  <2>2. Consume(q, x) = Wrong /\ Feed(Wrong, d) = Wrong
    BY <1>7, <2>1, WrongStays, FeedWrong
  <2> QED
    BY <1>1, <1>9, <1>10, <1>11, <1>12, <2>2
<1>13. CASE Good(items, kid)
  <2>1. PICK E : E = F \union Said(items, kid)
    OBVIOUS
  <2>2. q = On(bb, Frame("array", p, g), "value", E)
    BY <1>3, <1>5, <1>10, <1>13, <2>1 DEF After
  <2>3. Consume(On(bb, Frame("array", p, g), "value", E), Piece("array_end")) = State(bb, "value", E)
    BY <1>2, ConsumeClose
  <2>4. State(bb, "value", E) = On(b, Frame("object", P, c), "value", E)
    BY <1>1 DEF On
  <2>5. Feed(On(b, Frame("object", P, c), "value", E), d) = After(b, "object", P, c, E, last)
    BY <1>6, CommaAfter
  <2> QED
    BY <1>1, <1>6, <1>9, <1>10, <1>11, <1>13, <2>1, <2>2, <2>3, <2>4, <2>5
<1> QED
  BY <1>12, <1>13

\* Where the reader is after a child: in the array of its name, after a comma,
\* or after the last of them.
InObject(r, b, P, E) == \E c : \E a \in {"open", "comma"} : r = On(b, Frame("object", P, c), a, E)
InArray(r, b, P, path, place, E) ==
    \E c : r = On(Append(b, Frame("object", P, c)), Frame("array", path, place), "comma", E)
AtEnd(r, b, P, E) == \E c : r = On(b, Frame("object", P, c), "value", E)

AfterKid(r, items, s, b, P, E, k, m) ==
    /\ Neighbours(items, s, k) => /\ InArray(r, b, P, Append(P, items[s[k]].name), Place(items, s[k]) + 1, E)
                                  /\ items[s[k]].name \notin Hashed
    /\ ~Neighbours(items, s, k) /\ k # m => InObject(r, b, P, E)
    /\ k = m => AtEnd(r, b, P, E)

LEMMA AfterIsAfterKid ==
    ASSUME NEW items, NEW s, NEW b, NEW P, NEW E, NEW k, NEW m, ~Neighbours(items, s, k),
           NEW c, NEW last \in BOOLEAN, last <=> k = m, NEW q, q = After(b, "object", P, c, E, last)
    PROVE  AfterKid(q, items, s, b, P, E, k, m)
<1>1. CASE last
  <2>1. q = On(b, Frame("object", P, c), "value", E) /\ k = m
    BY <1>1 DEF After
  <2> QED
    BY <2>1 DEF AfterKid, AtEnd
<1>2. CASE ~last
  <2>1. q = On(b, Frame("object", P, c + 1), "comma", E) /\ k # m
    BY <1>2 DEF After
  <2> QED
    BY <2>1 DEF AfterKid, InObject
<1> QED
  BY <1>1, <1>2

LEMMA NextKid ==
    ASSUME NEW items, NEW i, NEW s, NEW m, NEW k, NEW kid, NEW name, NEW P, Kid(items, i, s, m, k, kid, name, P),
           NEW b, IsSeq(b), NEW E, NEW r, AfterKid(r, items, s, b, P, E, k - 1, m),
           NEW q, q = Feed(r, Child(Inside(items), items, s, k))
    PROVE  /\ ~Good(items, kid) => q = Wrong
           /\ Good(items, kid) => AfterKid(q, items, s, b, P, E \union Said(items, kid), k, m)
<1>0. KidAt(items, i, s, m, k) /\ kid = s[k] /\ name = items[kid].name
  BY DEF Kid
<1>1. m \in Nat /\ m = Len(s) /\ DOMAIN s = 1..m /\ k \in 1..m /\ k - 1 # m /\ (k - 1) + 1 = k
  BY <1>0 DEF KidAt
<1>2. PICK D : D = E \union Said(items, kid)
  OBVIOUS
<1>3. PICK last \in BOOLEAN : last <=> k = m
  OBVIOUS
<1>4. CASE Neighbours(items, s, k - 1)
  <2>1. PICK h : h = k - 1
    OBVIOUS
  <2>2. h \in 1..m /\ items[s[h]].name = name
    BY <1>0, <1>4, <2>1, NeighbourPlace
  <2>3. Place(items, kid) = Place(items, s[h]) + 1
    <3>1. KidAt(items, i, s, m, h)
      BY <1>0, <2>2 DEF KidAt
    <3>2. Sound(items) /\ items[s[h]].name # "#text" /\ Neighbours(items, s, h)
      BY <1>4, <2>1, <2>2 DEF Kid
    <3>3. Place(items, s[h + 1]) = Place(items, s[h]) + 1
      BY <3>1, <3>2, PlaceAfter
    <3>4. h + 1 = k
      BY <1>1, <2>1
    <3> QED
      BY <1>0, <3>3, <3>4
  <2>0. name \notin Hashed
    BY <1>4, <2>1, <2>2 DEF AfterKid
  <2>4. PICK c : r = On(Append(b, Frame("object", P, c)), Frame("array", Append(P, name), Place(items, kid)), "comma", E)
    BY <1>4, <2>1, <2>2, <2>3 DEF AfterKid, InArray
  <2>5. CASE Neighbours(items, s, k)
    <3>1. PICK bb : bb = Append(b, Frame("object", P, c))
      OBVIOUS
    <3>2. IsSeq(bb)
      BY <3>1, Top
    <3>3. q = IF Good(items, kid) THEN On(bb, Frame("array", Append(P, name), Place(items, kid) + 1), "comma", D) ELSE Wrong
      <4>1. Feed(On(bb, Frame("array", Append(P, name), Place(items, kid)), "comma", E), Child(Inside(items), items, s, k))
              = IF Good(items, kid)
                THEN On(bb, Frame("array", Append(P, name), Place(items, kid) + 1), "comma", E \union Said(items, kid))
                ELSE Wrong
        BY <1>4, <2>0, <2>5, <3>2, KidBetween
      <4> QED
        BY <1>2, <2>4, <3>1, <4>1
    <3>4. k # m
      BY <1>1, <2>5 DEF Neighbours
    <3> QED
      BY <1>0, <1>2, <2>0, <2>5, <3>1, <3>3, <3>4 DEF AfterKid, InArray
  <2>6. CASE ~Neighbours(items, s, k)
    <3>1. q = IF Good(items, kid) THEN After(b, "object", P, c, D, last) ELSE Wrong
      BY <1>2, <1>3, <1>4, <2>0, <2>4, <2>6, KidLast
    <3> QED
      BY <1>2, <1>3, <2>6, <3>1, AfterIsAfterKid
  <2> QED
    BY <2>5, <2>6
<1>5. CASE ~Neighbours(items, s, k - 1)
  <2>1. PICK c, a : a \in {"open", "comma"} /\ r = On(b, Frame("object", P, c), a, E)
    BY <1>1, <1>5 DEF AfterKid, InObject
  <2>2. CASE Neighbours(items, s, k)
    <3>1. PICK bb : bb = Append(b, Frame("object", P, c))
      OBVIOUS
    <3>3. q = IF Good(items, kid) THEN On(bb, Frame("array", Append(P, name), Place(items, kid) + 1), "comma", D) ELSE Wrong
      <4>1. Feed(On(b, Frame("object", P, c), a, E), Child(Inside(items), items, s, k))
              = IF Good(items, kid)
                THEN On(Append(b, Frame("object", P, c)), Frame("array", Append(P, name), Place(items, kid) + 1), "comma",
                        E \union Said(items, kid))
                ELSE Wrong
        BY <1>5, <2>1, <2>2, KidFirst
      <4> QED
        BY <1>2, <2>1, <3>1, <4>1
    <3>4. k # m
      BY <1>1, <2>2 DEF Neighbours
    <3>5. Good(items, kid) => name \notin Hashed
      BY <1>0, KidIsElement, GoodIs DEF HasForm
    <3> QED
      BY <1>0, <1>2, <2>2, <3>1, <3>3, <3>4, <3>5 DEF AfterKid, InArray
  <2>3. CASE ~Neighbours(items, s, k)
    <3>1. q = IF Good(items, kid) THEN After(b, "object", P, c, D, last) ELSE Wrong
      BY <1>2, <1>3, <1>5, <2>1, <2>3, KidAlone
    <3> QED
      BY <1>2, <1>3, <2>3, <3>1, AfterIsAfterKid
  <2> QED
    BY <2>2, <2>3
<1> QED
  BY <1>4, <1>5

\* The children from the first on.
SaidTo(items, s, F, k) == F \union (UNION {Said(items, s[j]) : j \in 1..k})
GoodTo(items, s, k) == \A j \in 1..k : Good(items, s[j])
KidsReadTo(q, items, s, b, P, F, k, m) ==
    /\ ~GoodTo(items, s, k) => q = Wrong
    /\ GoodTo(items, s, k) => AfterKid(q, items, s, b, P, SaidTo(items, s, F, k), k, m)

LEMMA KidsRead ==
    ASSUME NEW items, NEW i, NEW s, NEW m \in Nat, m > 0, NEW P,
           \A k \in 1..m : Kid(items, i, s, m, k, s[k], items[s[k]].name, P),
           NEW b, IsSeq(b), NEW F, NEW c, NEW a \in {"open", "comma"}, NEW r, r = On(b, Frame("object", P, c), a, F)
    PROVE  LET kids == FlattenSeq([k \in 1..m |-> Child(Inside(items), items, s, k)])
           IN  IsSeq(kids) /\ KidsReadTo(Feed(r, kids), items, s, b, P, F, m, m)
<1> DEFINE seqs == [k \in 1..m |-> Child(Inside(items), items, s, k)]
<1>1. seqs = [k \in 1..m |-> seqs[k]] /\ \A k \in 1..m : IsSeq(seqs[k])
  <2>1. \A k \in 1..m : IsSeq(Inside(items)[s[k]])
    BY KidFits
  <2>2. \A k \in 1..m : IsSeq(Child(Inside(items), items, s, k))
    BY <2>1, ChildParts
  <2> QED
    BY <2>2
<1>2. \A k \in 1..m : seqs[k] = Child(Inside(items), items, s, k)
  OBVIOUS
<1> HIDE DEF seqs
<1>3. PICK G : Chained(G, seqs, m) /\ FlattenSeq(seqs) = G[m]
  BY <1>1, Flattened
<1> DEFINE T == {k \in Nat : k \in 0..m => KidsReadTo(Feed(r, G[k]), items, s, b, P, F, k, m)}
<1>4. 0 \in T
  <2>1. Feed(r, G[0]) = r
    BY <1>3, FeedNothing DEF Chained
  <2>2. SaidTo(items, s, F, 0) = F
    BY DEF SaidTo
  <2>3. InObject(r, b, P, F)
    BY DEF InObject
  <2>4. ~Neighbours(items, s, 0)
    <3>1. Kid(items, i, s, m, 1, s[1], items[s[1]].name, P)
      OBVIOUS
    <3>2. DOMAIN s = 1..m
      BY <3>1 DEF Kid, KidAt
    <3> QED
      BY <3>2 DEF Neighbours
  <2>5. AfterKid(r, items, s, b, P, F, 0, m)
    BY <2>3, <2>4 DEF AfterKid
  <2>6. GoodTo(items, s, 0)
    BY DEF GoodTo
  <2> QED
    BY <2>1, <2>2, <2>5, <2>6 DEF KidsReadTo
<1>5. ASSUME NEW k \in Nat, k \in T PROVE k + 1 \in T
  <2>0. ASSUME k + 1 \in 0..m PROVE KidsReadTo(Feed(r, G[k + 1]), items, s, b, P, F, k + 1, m)
    <3>1. k + 1 \in 1..m /\ (k + 1) - 1 = k /\ k \in 0..m
      BY <2>0
    <3>2. PICK l, kid, name : l = k + 1 /\ kid = s[l] /\ name = items[kid].name
      OBVIOUS
    <3>3. Kid(items, i, s, m, l, kid, name, P) /\ l - 1 = k
      BY <3>1, <3>2
    <3>4. PICK q0, q : q0 = Feed(r, G[k]) /\ q = Feed(r, G[l])
      OBVIOUS
    <3>5. q = Feed(q0, Child(Inside(items), items, s, l)) /\ IsSeq(Child(Inside(items), items, s, l))
      <4>1. G[l] = G[k] \o seqs[l] /\ IsSeq(G[k]) /\ IsSeq(seqs[l]) /\ seqs[l] = Child(Inside(items), items, s, l)
        BY <1>1, <1>2, <1>3, <3>1, <3>2 DEF Chained
      <4>2. Feed(r, G[k] \o seqs[l]) = Feed(Feed(r, G[k]), seqs[l])
        BY <4>1, FeedJoined
      <4> QED
        BY <3>4, <4>1, <4>2
    <3>6. KidsReadTo(q0, items, s, b, P, F, k, m)
      BY <1>5, <3>1, <3>4
    <3>7. GoodTo(items, s, l) <=> GoodTo(items, s, k) /\ Good(items, kid)
      BY <3>2 DEF GoodTo
    <3>8. PICK E : E = SaidTo(items, s, F, k)
      OBVIOUS
    <3>9. SaidTo(items, s, F, l) = E \union Said(items, kid)
      <4>1. \A j \in 1..l : j \in 1..k \/ j = l
        BY <3>2
      <4>2. l \in 1..l /\ \A j \in 1..k : j \in 1..l
        BY <3>2
      <4> QED
        BY <3>2, <3>8, <4>1, <4>2 DEF SaidTo
    <3>10. CASE ~GoodTo(items, s, k)
      <4>1. q = Wrong
        BY <3>5, <3>6, <3>10, FeedWrong DEF KidsReadTo
      <4> QED
        BY <3>2, <3>4, <3>7, <3>10, <4>1 DEF KidsReadTo
    <3>11. CASE GoodTo(items, s, k)
      <4>1. AfterKid(q0, items, s, b, P, E, l - 1, m)
        BY <3>3, <3>6, <3>8, <3>11 DEF KidsReadTo
      <4>2. /\ ~Good(items, kid) => q = Wrong
            /\ Good(items, kid) => AfterKid(q, items, s, b, P, E \union Said(items, kid), l, m)
        BY <3>3, <3>5, <4>1, NextKid
      <4>3. KidsReadTo(q, items, s, b, P, F, l, m)
        BY <3>7, <3>9, <3>11, <4>2 DEF KidsReadTo
      <4> QED
        BY <3>2, <3>4, <4>3
    <3> QED
      BY <3>10, <3>11
  <2> QED
    BY <2>0
<1> HIDE DEF T
<1>6. m \in T
  BY <1>4, <1>5, SetInduction
<1>7. m \in 0..m
  OBVIOUS
<1>8. KidsReadTo(Feed(r, G[m]), items, s, b, P, F, m, m) /\ IsSeq(G[m])
  BY <1>3, <1>6, <1>7 DEF T, Chained
<1> QED
  BY <1>3, <1>8 DEF seqs

LEMMA InsideKills ==
    ASSUME NEW items, NEW i, Kills(Inside(items)[i]), ~OnlyText(items, i), NEW last, NEW member
    PROVE  Kills(Walk(Inside(items), items, i, last, member))
<1>1. PICK o, e : o = <<IF member THEN Piece("object") ELSE Opens(items[i].name, "object")>> /\ e = <<Piece("object_end")>>
  OBVIOUS
<1>2. Walk(Inside(items), items, i, last, member) = o \o Inside(items)[i] \o e \o Comma(~last)
  BY <1>1 DEF Walk
<1>3. IsSeq(o) /\ IsSeq(e) /\ IsSeq(Comma(~last))
  BY <1>1, ShortIsSeq, MemberSeq
<1>4. Kills(o \o Inside(items)[i])
  BY <1>3, KillsAll
<1>5. Kills(o \o Inside(items)[i] \o e)
  BY <1>3, <1>4, KillsAll
<1> QED
  BY <1>2, <1>3, <1>5, KillsAll

LEMMA PartKills ==
    ASSUME NEW n \in Nat, NEW seqs, NEW G, Chained(G, seqs, n), \A k \in 1..n : IsSeq(seqs[k]),
           NEW k \in 1..n, Kills(seqs[k])
    PROVE  Kills(G[n])
<1> DEFINE T == {j \in Nat : j \in k..n => Kills(G[j])}
<1>1. 0 \in T
  OBVIOUS
<1>2. ASSUME NEW j \in Nat, j \in T PROVE j + 1 \in T
  <2>0. ASSUME j + 1 \in k..n PROVE Kills(G[j + 1])
    <3>1. j + 1 \in 1..n /\ (j + 1) - 1 = j /\ j \in 0..n
      BY <2>0
    <3>2. G[j + 1] = G[j] \o seqs[j + 1] /\ IsSeq(G[j]) /\ IsSeq(seqs[j + 1])
      BY <3>1 DEF Chained
    <3>3. CASE j + 1 = k
      BY <3>2, <3>3, KillsAll
    <3>4. CASE j + 1 # k
      <4>1. j \in k..n
        BY <2>0, <3>4
      <4>2. Kills(G[j])
        BY <1>2, <4>1
      <4> QED
        BY <3>2, <4>2, KillsAll
    <3> QED
      BY <3>3, <3>4
  <2> QED
    BY <2>0
<1> HIDE DEF T
<1>3. n \in T
  BY <1>1, <1>2, SetInduction
<1>4. n \in k..n
  OBVIOUS
<1> QED
  BY <1>3, <1>4 DEF T

\* What the brackets of an element with children hold.
LEMMA InsideKids ==
    ASSUME NEW items, Sound(items), NEW i \in 1..Len(items), Children(items, i) # {},
           NEW s, s = Sorted(items, i), NEW m \in Nat, m = Len(s), DOMAIN s = 1..m
    PROVE  m > 0 /\ Inside(items)[i] = Attributes(items, i) \o FlattenSeq([k \in 1..m |-> Child(Inside(items), items, s, k)])
<1>1. \A c \in Children(items, i) : \E l \in 1..m : s[l] = c
  BY KidsAt
<1>2. m > 0
  BY <1>1
<1>3. s # <<>>
  BY <1>2, EmptySeq
<1>4. Inside(items)[i] = Content(Inside(items), items, i)
  BY InsideIs
<1> QED
  BY <1>2, <1>3, <1>4 DEF Content

\* A text beside other children is walked as an element without children.
LEMMA MixedKills ==
    ASSUME NEW items, Sound(items), NEW i \in 1..Len(items), ~OnlyText(items, i), NEW kid \in Children(items, i),
           IsText(items, kid), NEW last, NEW member
    PROVE  Kills(Walk(Inside(items), items, i, last, member))
<1>0. PICK n \in Nat : n = Len(items) /\ DOMAIN items = 1..n
  BY SoundItems
<1>1. PICK s : s = Sorted(items, i)
  OBVIOUS
<1>2. PICK m \in Nat : /\ m = Len(s) /\ DOMAIN s = 1..m /\ \A k \in 1..m : s[k] \in Children(items, i)
                       /\ \A c \in Children(items, i) : \E l \in 1..m : s[l] = c
  BY <1>1, KidsAt
<1>3. PICK k \in 1..m : s[k] = kid
  BY <1>2
<1>4. kid \in 1..n /\ \A c \in Children(items, i) : c \in 1..n /\ IsSeq(Inside(items)[c])
  BY <1>0, KidsLater, InsideSeq
<1>5. Children(items, kid) = {}
  <2>1. ASSUME NEW c \in Children(items, kid) PROVE FALSE
    <3>1. c \in 1..n /\ items[c].parent = kid
      BY <1>0, <2>1 DEF Children
    <3>2. kid # 0
      BY <1>4
    <3>3. items[kid].name # "#text"
      BY <1>0, <3>1, <3>2 DEF Sound
    <3> QED
      BY <3>3 DEF IsText
  <2> QED
    BY <2>1
<1> DEFINE seqs == [j \in 1..m |-> Child(Inside(items), items, s, j)]
<1>6. Kills(Middle(Inside(items), items, s, k))
  <2>1. \A l, mb : Kills(Walk(Inside(items), items, kid, l, mb))
    BY <1>0, <1>4, <1>5, ChildlessKills
  <2> QED
    BY <1>3, <2>1 DEF Middle
<1>7. Kills(Child(Inside(items), items, s, k))
  <2>1. IsSeq(Inside(items)[s[k]])
    BY <1>3, <1>4
  <2>2. IsSeq(Before(items, s, k)) /\ IsSeq(Behind(items, s, k))
    BY <2>1, ChildParts
  <2>3. Kills(Before(items, s, k) \o Middle(Inside(items), items, s, k))
    BY <1>6, <2>2, KillsAll
  <2>4. Kills((Before(items, s, k) \o Middle(Inside(items), items, s, k)) \o Behind(items, s, k))
    BY <2>2, <2>3, KillsAll
  <2> QED
    BY <2>4, ChildIs
<1>8. \A j \in 1..m : IsSeq(Child(Inside(items), items, s, j))
  BY <1>2, <1>4, ChildParts
<1>9. seqs = [j \in 1..m |-> seqs[j]] /\ (\A j \in 1..m : IsSeq(seqs[j])) /\ Kills(seqs[k])
  BY <1>7, <1>8
<1>10. Inside(items)[i] = Attributes(items, i) \o FlattenSeq(seqs)
  BY SMTT(30), <1>1, <1>2, InsideKids
<1> HIDE DEF seqs
<1>11. PICK G : Chained(G, seqs, m) /\ FlattenSeq(seqs) = G[m]
  BY <1>9, Flattened
<1>12. Kills(FlattenSeq(seqs))
  BY <1>9, <1>11, PartKills
<1>13. Kills(Inside(items)[i])
  BY <1>10, <1>12, AttributesSeq, KillsAll
<1> QED
  BY <1>13, InsideKills

\* An element whose children are elements, when they are read as they should be.
LEMMA BracketsRead ==
    ASSUME NEW items, Sound(items), NEW i \in Elements(items), Children(items, i) # {}, items[i].name \notin Hashed,
           \A k \in Children(items, i) : ~IsText(items, k) /\ WalkReads(items, k),
           NEW b, IsSeq(b), NEW F, NEW P, P = Path(items)[i],
           NEW r, r = On(b, Frame("object", P, 1), "open", F)
    PROVE  /\ ~Good(items, i) => Feed(r, Inside(items)[i]) = Wrong
           /\ Good(items, i) => AtEnd(Feed(r, Inside(items)[i]), b, P, F \union Said(items, i))
<1>0. PICK n \in Nat : n = Len(items) /\ DOMAIN items = 1..n
  BY SoundItems
<1>1. i \in 1..n /\ i # 0
  BY <1>0 DEF Elements
<1>2. PICK s : s = Sorted(items, i)
  OBVIOUS
<1>3. PICK m \in Nat : /\ m = Len(s) /\ DOMAIN s = 1..m /\ \A k \in 1..m : KidAt(items, i, s, m, k) /\ s[k] \in Children(items, i)
                       /\ \A c \in Children(items, i) : \E l \in 1..m : s[l] = c
  BY <1>2, KidsAt
<1> DEFINE ks == FlattenSeq([k \in 1..m |-> Child(Inside(items), items, s, k)])
<1>4. m > 0 /\ Inside(items)[i] = Attributes(items, i) \o ks
  BY SMTT(30), <1>0, <1>1, <1>2, <1>3, InsideKids
<1>5. ASSUME NEW k \in 1..m PROVE Kid(items, i, s, m, k, s[k], items[s[k]].name, P)
  <2>1. s[k] \in Children(items, i) /\ KidAt(items, i, s, m, k)
    BY <1>3
  <2>2. items[s[k]].name # "#text" /\ WalkReads(items, s[k])
    BY <2>1 DEF IsText
  <2> QED
    BY <1>1, <1>2, <2>1, <2>2 DEF Kid
<1>6. PICK attrs : attrs = items[i].attributes
  OBVIOUS
<1>7. IsSeq(attrs)
  BY <1>0, <1>1, <1>6 DEF Sound
<1>8. PICK h \in Nat : h = Len(attrs) /\ DOMAIN attrs = 1..h
  BY <1>7, LenProperties DEF IsSeq
<1>9. /\ IsSeq(Attributes(items, i))
      /\ Feed(r, Attributes(items, i)) = IF ValuesOk(attrs, h) THEN AfterAttributes(b, attrs, P, F, h) ELSE Wrong
  BY <1>6, <1>7, <1>8, FeedAttributes
<1>10. ~OnlyText(items, i)
  BY DEF OnlyText
<1>11. Kids(items, i) = Children(items, i)
  BY DEF Kids, Elements, IsText, Children
<1>12. Good(items, i) <=> ValuesOk(attrs, h) /\ GoodTo(items, s, m)
  <2>1. Good(items, i) <=> HasForm(items, i) /\ \A k \in Children(items, i) : Good(items, k)
    BY <1>11, GoodIs
  <2>2. HasForm(items, i) <=> ValuesOk(attrs, h)
    BY <1>6, <1>8, <1>10 DEF HasForm, ValuesOk
  <2>3. (\A k \in Children(items, i) : Good(items, k)) <=> GoodTo(items, s, m)
    BY <1>3 DEF GoodTo
  <2> QED
    BY <2>1, <2>2, <2>3
<1>13. PICK E, a, c : /\ E = F \union AttributesAt(attrs, P, h) /\ c = h + 1
                      /\ a = IF h = 0 THEN "open" ELSE "comma"
  OBVIOUS
<1>14. PICK q : q = On(b, Frame("object", P, c), a, E)
  OBVIOUS
<1>15. q = AfterAttributes(b, attrs, P, F, h) /\ a \in {"open", "comma"}
  BY <1>13, <1>14 DEF AfterAttributes
<1>16. IsSeq(ks) /\ KidsReadTo(Feed(q, ks), items, s, b, P, E, m, m)
  BY <1>4, <1>5, <1>14, <1>15, KidsRead
<1>17. SaidTo(items, s, E, m) = F \union Said(items, i)
  <2>1. Said(items, i) = SaysOwn(items, i) \union (UNION {Said(items, k) : k \in Children(items, i)})
    BY <1>11, GoodIs
  <2>2. SaysOwn(items, i) = AttributesAt(attrs, P, h)
    BY <1>6, <1>8, <1>10 DEF SaysOwn, AttributesAt
  <2>3. UNION {Said(items, k) : k \in Children(items, i)} = UNION {Said(items, s[j]) : j \in 1..m}
    BY <1>3
  <2> QED
    BY <1>13, <2>1, <2>2, <2>3 DEF SaidTo
<1> HIDE DEF ks
<1>18. Feed(r, Inside(items)[i]) = Feed(Feed(r, Attributes(items, i)), ks)
  BY <1>4, <1>9, <1>16, FeedJoined
<1>19. CASE ~ValuesOk(attrs, h)
  <2>1. Feed(r, Inside(items)[i]) = Wrong
    BY <1>9, <1>16, <1>18, <1>19, FeedWrong
  <2> QED
    BY <1>12, <1>19, <2>1
<1>20. CASE ValuesOk(attrs, h)
  <2>1. Feed(r, Inside(items)[i]) = Feed(q, ks)
    BY <1>9, <1>15, <1>18, <1>20
  <2>2. GoodTo(items, s, m) => AtEnd(Feed(q, ks), b, P, F \union Said(items, i))
    BY <1>16, <1>17 DEF KidsReadTo, AfterKid
  <2>3. ~GoodTo(items, s, m) => Feed(q, ks) = Wrong
    BY <1>16 DEF KidsReadTo
  <2> QED
    BY <1>12, <1>20, <2>1, <2>2, <2>3
<1> QED
  BY <1>19, <1>20

LEMMA ElementReads ==
    ASSUME NEW items, Sound(items), NEW i \in Elements(items), ~OnlyText(items, i), Children(items, i) # {},
           \A k \in Children(items, i) : ~IsText(items, k) /\ WalkReads(items, k)
    PROVE  WalkReads(items, i)
<1> SUFFICES ASSUME NEW is, NEW member, NEW path, NEW count, Fits(items, i, is, member, path, count),
                    NEW b, NEW F, NEW last \in BOOLEAN, NEW a \in {"open", "comma"}, IsSeq(b)
             PROVE  Feed(On(b, Frame(is, path, count), a, F), Walk(Inside(items), items, i, last, member))
                      = IF Good(items, i) THEN After(b, is, path, count, F \union Said(items, i), last) ELSE Wrong
  BY DEF WalkReads, Reads
<1>1. PICK o, e, d, x : /\ o = (IF member THEN Piece("object") ELSE Opens(items[i].name, "object")) /\ e = Piece("object_end")
                        /\ d = Comma(~last) /\ x = Inside(items)[i]
  OBVIOUS
<1>2. Walk(Inside(items), items, i, last, member) = <<o>> \o x \o <<e>> \o d
  BY <1>1 DEF Walk
<1>3. IsSeq(<<o>>) /\ IsSeq(<<e>>) /\ IsSeq(d) /\ IsSeq(x)
  <2>1. i \in 1..Len(items)
    BY SoundItems DEF Elements
  <2> QED
    BY <1>1, <2>1, ShortIsSeq, MemberSeq, InsideSeq
<1>4. IsSeq(<<o>> \o x) /\ IsSeq(<<o>> \o x \o <<e>>)
  BY <1>3, JoinedIsSeq
<1>5. PICK r, bb, P : r = On(b, Frame(is, path, count), a, F) /\ bb = Append(b, Frame(is, path, count)) /\ P = Path(items)[i]
  OBVIOUS
<1>6. PICK q : q = On(bb, Frame("object", P, 1), "open", F)
  OBVIOUS
<1>12. CASE items[i].name \in Hashed
  <2>1. Consume(r, o) = Wrong
    BY <1>1, <1>5, <1>12, Opening
  <2>2. Feed(r, <<o>>) = Wrong
    BY <2>1, FeedOne
  <2>3. Feed(r, <<o>> \o x) = Wrong
    BY <1>3, <2>2, FeedJoined, FeedWrong
  <2>4. Feed(r, <<o>> \o x \o <<e>>) = Wrong
    BY <1>3, <1>4, <2>3, FeedJoined, FeedWrong
  <2>5. Feed(r, <<o>> \o x \o <<e>> \o d) = Wrong
    BY <1>3, <1>4, <2>4, FeedJoined, FeedWrong
  <2>6. ~Good(items, i)
    BY <1>12, GoodIs DEF HasForm
  <2> QED
    BY <1>2, <1>5, <2>5, <2>6
<1>13. SUFFICES ASSUME items[i].name \notin Hashed
                PROVE  Feed(On(b, Frame(is, path, count), a, F), Walk(Inside(items), items, i, last, member))
                         = IF Good(items, i) THEN After(b, is, path, count, F \union Said(items, i), last) ELSE Wrong
  BY <1>12
<1>7. Consume(r, o) = q /\ IsSeq(bb)
  BY <1>1, <1>5, <1>6, <1>13, Opening, Top
<1>8. Feed(r, <<o>> \o x \o <<e>> \o d) = Feed(Consume(Feed(q, x), e), d)
  <2>1. Feed(r, <<o>> \o x) = Feed(q, x)
    BY <1>3, <1>7, FeedJoined, FeedOne
  <2>2. Feed(r, <<o>> \o x \o <<e>>) = Feed(Feed(q, x), <<e>>)
    BY <1>3, <1>4, <2>1, FeedJoined
  <2>3. Feed(r, <<o>> \o x \o <<e>> \o d) = Feed(Feed(Feed(q, x), <<e>>), d)
    BY <1>3, <1>4, <2>2, FeedJoined
  <2> QED
    BY <2>3, FeedOne
<1>9. /\ ~Good(items, i) => Feed(q, x) = Wrong
      /\ Good(items, i) => AtEnd(Feed(q, x), bb, P, F \union Said(items, i))
  BY <1>1, <1>5, <1>6, <1>7, <1>13, BracketsRead
<1>10. CASE ~Good(items, i)
  <2>1. Consume(Feed(q, x), e) = Wrong /\ Feed(Wrong, d) = Wrong
    BY <1>3, <1>9, <1>10, WrongStays, FeedWrong
  <2> QED
    BY <1>2, <1>5, <1>8, <1>10, <2>1
<1>11. CASE Good(items, i)
  <2>1. PICK E : E = F \union Said(items, i)
    OBVIOUS
  <2>2. PICK c : Feed(q, x) = On(bb, Frame("object", P, c), "value", E)
    BY <1>9, <1>11, <2>1 DEF AtEnd
  <2>3. Consume(On(bb, Frame("object", P, c), "value", E), Piece("object_end")) = State(bb, "value", E)
    BY <1>7, ConsumeClose
  <2>4. State(bb, "value", E) = On(b, Frame(is, path, count), "value", E)
    BY <1>5 DEF On
  <2>5. Feed(On(b, Frame(is, path, count), "value", E), d) = After(b, is, path, count, E, last)
    BY <1>1, CommaAfter
  <2> QED
    BY <1>1, <1>2, <1>5, <1>8, <1>11, <2>1, <2>2, <2>3, <2>4, <2>5
<1> QED
  BY <1>10, <1>11

\* The element converts into nothing a reader of JSON could read.
LEMMA WrongReads ==
    ASSUME NEW items, NEW i, ~Good(items, i), \A last, member : Kills(Walk(Inside(items), items, i, last, member))
    PROVE  WalkReads(items, i)
<1> SUFFICES ASSUME NEW is, NEW member, NEW path, NEW count, Fits(items, i, is, member, path, count),
                    NEW b, NEW F, NEW last \in BOOLEAN, NEW a \in {"open", "comma"}, IsSeq(b)
             PROVE  Feed(On(b, Frame(is, path, count), a, F), Walk(Inside(items), items, i, last, member))
                      = IF Good(items, i) THEN After(b, is, path, count, F \union Said(items, i), last) ELSE Wrong
  BY DEF WalkReads, Reads
<1>1. PICK w, r : w = Walk(Inside(items), items, i, last, member) /\ r = On(b, Frame(is, path, count), a, F)
  OBVIOUS
<1>2. Feed(r, w) = Wrong
  BY <1>1 DEF Kills
<1> QED
  BY <1>1, <1>2

LEMMA AllRead ==
    ASSUME NEW items, Sound(items)
    PROVE  \A i \in Elements(items) : WalkReads(items, i)
<1>0. PICK n \in Nat : n = Len(items) /\ DOMAIN items = 1..n
  BY SoundItems
<1>00. \A i \in Elements(items) : i \in 1..n
  BY <1>0 DEF Elements
<1> DEFINE T == {d \in Nat : \A i \in Elements(items) : i > n - d => WalkReads(items, i)}
<1>1. 0 \in T
  BY <1>00
<1>2. ASSUME NEW d \in Nat, d \in T PROVE d + 1 \in T
  <2>0. ASSUME NEW i \in Elements(items), i > n - (d + 1) PROVE WalkReads(items, i)
    <3>0. i \in 1..n
      BY <1>00
    <3>1. ASSUME NEW k \in Children(items, i), ~IsText(items, k) PROVE WalkReads(items, k)
      <4>1. k \in 1..n /\ k > i
        BY <1>0, <3>0, KidsLater
      <4>2. k \in Elements(items) /\ k > n - d
        BY <1>0, <2>0, <3>0, <3>1, <4>1 DEF Elements, IsText
      <4> QED
        BY <1>2, <4>2
    <3>2. CASE Children(items, i) = {}
      <4>1. ~Good(items, i)
        BY <3>2, GoodIs DEF HasForm
      <4>2. \A last, member : Kills(Walk(Inside(items), items, i, last, member))
        BY <1>0, <3>0, <3>2, ChildlessKills
      <4> QED
        BY <4>1, <4>2, WrongReads
    <3>3. CASE OnlyText(items, i)
      BY <3>3, TextReads
    <3>4. CASE ~OnlyText(items, i) /\ \E k \in Children(items, i) : IsText(items, k)
      <4>1. ~Good(items, i)
        BY <3>4, GoodIs DEF HasForm
      <4>2. \A last, member : Kills(Walk(Inside(items), items, i, last, member))
        BY <1>0, <3>0, <3>4, MixedKills
      <4> QED
        BY <4>1, <4>2, WrongReads
    <3>5. CASE ~OnlyText(items, i) /\ Children(items, i) # {} /\ \A k \in Children(items, i) : ~IsText(items, k)
      BY <3>1, <3>5, ElementReads
    <3> QED
      BY <3>2, <3>3, <3>4, <3>5
  <2> QED
    BY <2>0
<1> HIDE DEF T
<1>3. n \in T
  BY <1>1, <1>2, SetInduction
<1>4. \A i \in Elements(items) : i > n - n
  BY <1>00
<1> QED
  BY <1>3, <1>4 DEF T

-----------------------------------------------------------------------------
(* The items are made as the proofs take them to be. *)

\* A document is a sequence of tokens.
Tokens(doc) == \E n \in Nat : n = Len(doc) /\ \A k \in 1..n : IsToken(doc[k])

Parser(items, current, after, state) ==
    [items |-> items, current |-> current, after |-> after, state |-> state]

ParserOk(p) ==
    /\ p = Parser(p.items, p.current, p.after, p.state) /\ p.state \in {"reading", "dead", "error"}
    /\ Sound(p.items) /\ p.current \in 0..Len(p.items)
    /\ p.current # 0 => p.items[p.current].name # "#text"

LEMMA ReadableSeq == ASSUME NEW attrs, IsSeq(attrs) PROVE IsSeq(Readable(attrs))
<1>1. PICK n \in Nat : n = Len(attrs) /\ DOMAIN attrs = 1..n
  BY LenProperties DEF IsSeq
<1> DEFINE I == {j \in 1..n : ~attrs[j].ok}
           bad == IF I # {} THEN Min(I) ELSE 0
<1>2. Readable(attrs) = IF bad = 0 THEN attrs ELSE SubSeq(attrs, 1, bad - 1)
  BY <1>1 DEF Readable, SelectInSeq
<1>3. I \subseteq 1..n
  OBVIOUS
<1> HIDE DEF I
<1>4. bad # 0 => bad \in 1..n
  <2>1. I # {} => Min(I) \in I
    <3>1. I \subseteq Nat
      BY <1>3
    <3> QED
      BY <3>1, HasMin
  <2> QED
    BY <1>3, <2>1
<1> HIDE DEF bad
<1>5. CASE bad = 0
  BY <1>2, <1>5
<1>6. CASE bad # 0
  <2>1. bad - 1 \in Int /\ 1 \in Int /\ \A j \in 1..(bad - 1) : attrs[j] \in Range(attrs)
    <3>1. \A j \in 1..(bad - 1) : j \in DOMAIN attrs
      BY <1>1, <1>4, <1>6
    <3> QED
      BY <1>4, <1>6, <3>1 DEF Range
  <2>2. SubSeq(attrs, 1, bad - 1) \in Seq(Range(attrs))
    BY <2>1, SubSeqProperties
  <2> QED
    BY <1>2, <1>6, <2>2, SeqIsSeq
<1> QED
  BY <1>5, <1>6

LEMMA Appended ==
    ASSUME NEW s, IsSeq(s), NEW e, NEW n \in Nat, n = Len(s)
    PROVE  /\ IsSeq(Append(s, e)) /\ Len(Append(s, e)) = n + 1 /\ Append(s, e)[n + 1] = e
           /\ \A j \in 1..n : Append(s, e)[j] = s[j]
<1>1. PICK V : V = Range(s) \union {e}
  OBVIOUS
<1>2. s \in Seq(V) /\ e \in V
  BY <1>1, SeqMonotonic DEF IsSeq
<1>3. /\ Append(s, e) \in Seq(V) /\ Len(Append(s, e)) = Len(s) + 1
      /\ \A j \in 1..Len(s) : Append(s, e)[j] = s[j]
      /\ Append(s, e)[Len(s) + 1] = e
  BY <1>2, AppendProperties
<1> QED
  BY <1>3, SeqIsSeq

\* An item for the parent that is open, and the items with it.
IsItem(items, it, n) ==
    /\ n \in Nat /\ n = Len(items) /\ it.parent \in 0..n /\ IsSeq(it.attributes)
    /\ it.parent # 0 => items[it.parent].name # "#text"
WithItem(t, items, it, n) ==
    Sound(t) /\ Len(t) = n + 1 /\ t[n + 1] = it /\ \A j \in 1..n : t[j] = items[j]

LEMMA SoundAppended ==
    ASSUME NEW items, Sound(items), NEW n, NEW it, IsItem(items, it, n), NEW t, t = Append(items, it)
    PROVE  WithItem(t, items, it, n)
<1>0. PICK c : c = it.parent
  OBVIOUS
<1>00. n \in Nat /\ n = Len(items) /\ c \in 0..n /\ (c # 0 => items[c].name # "#text") /\ IsSeq(it.attributes)
  BY <1>0 DEF IsItem
<1>1. IsSeq(t) /\ Len(t) = n + 1 /\ t[n + 1] = it /\ \A j \in 1..n : t[j] = items[j]
  BY <1>00, Appended DEF Sound
<1>2. ASSUME NEW i \in 1..(n + 1)
      PROVE  /\ t[i].parent \in 0..(i - 1)
             /\ t[i].parent # 0 => t[t[i].parent].name # "#text"
             /\ IsSeq(t[i].attributes)
  <2>1. CASE i = n + 1
    <3>1. c # 0 => c \in 1..n
      BY <1>00
    <3>2. c \in 0..(i - 1)
      BY <1>00, <2>1
    <3> QED
      BY <1>0, <1>00, <1>1, <2>1, <3>1, <3>2
  <2>2. CASE i # n + 1
    <3>1. i \in 1..n
      BY <1>00, <2>2
    <3>2. PICK q : q = items[i].parent
      OBVIOUS
    <3>3. q \in 0..(i - 1) /\ (q # 0 => items[q].name # "#text") /\ IsSeq(items[i].attributes)
      BY <1>00, <3>1, <3>2 DEF Sound
    <3>4. q # 0 => q \in 1..n
      BY <1>00, <3>1, <3>3
    <3> QED
      BY <1>1, <3>1, <3>2, <3>3, <3>4
  <2> QED
    BY <2>1, <2>2
<1> QED
  BY <1>1, <1>2 DEF Sound, WithItem

Added(p, q, n) ==
    /\ ParserOk(q) /\ Len(q.items) = Len(p.items) + 1 /\ q.items[Len(p.items) + 1].name = n

LEMMA AddItemOk ==
    ASSUME NEW p, ParserOk(p), NEW n, NEW v, NEW attrs, IsSeq(attrs), NEW q, q = AddItem(p, n, v, attrs)
    PROVE  Added(p, q, n)
<1>0. PICK m \in Nat : m = Len(p.items)
  BY SoundItems DEF ParserOk
<1>1. PICK it : it = [name |-> n, value |-> v, attributes |-> attrs, parent |-> p.current]
  OBVIOUS
<1>2. PICK t : t = Append(p.items, it)
  OBVIOUS
<1>3. q = Parser(t, p.current, p.after, p.state)
  BY <1>1, <1>2 DEF AddItem, ParserOk, Parser
<1>4. it.parent = p.current /\ it.attributes = attrs /\ it.name = n
  BY <1>1
<1>5. PICK c \in 0..m : c = p.current
  BY <1>0 DEF ParserOk
<1>6. Sound(p.items) /\ (c # 0 => p.items[c].name # "#text")
  BY <1>5 DEF ParserOk
<1>7. Sound(t) /\ Len(t) = m + 1 /\ t[m + 1] = it /\ \A j \in 1..m : t[j] = p.items[j]
  <2>1. PICK items : items = p.items
    OBVIOUS
  <2>2. Sound(items) /\ m = Len(items) /\ (c # 0 => items[c].name # "#text") /\ t = Append(items, it)
    BY <1>0, <1>2, <1>6, <2>1
  <2>3. IsItem(items, it, m)
    BY <1>4, <1>5, <2>2 DEF IsItem
  <2>4. WithItem(t, items, it, m)
    BY <2>2, <2>3, SoundAppended
  <2> QED
    BY <2>1, <2>4 DEF WithItem
<1>8. q.items = t /\ q.current = c /\ q.after = p.after /\ q.state = p.state
  BY <1>3, <1>5 DEF Parser
<1>9. c # 0 => c \in 1..m
  OBVIOUS
<1>10. c \in 0..(m + 1)
  OBVIOUS
<1>11. ParserOk(q)
  BY <1>3, <1>5, <1>6, <1>7, <1>8, <1>9, <1>10 DEF ParserOk
<1> QED
  BY <1>0, <1>4, <1>5, <1>7, <1>8, <1>11 DEF Added

LEMMA OnStartTagOk ==
    ASSUME NEW p, ParserOk(p), NEW n, n # "#text", NEW attrs, IsSeq(attrs)
    PROVE  ParserOk(OnStartTag(p, n, attrs))
<1>1. PICK m \in Nat : m = Len(p.items)
  BY SoundItems DEF ParserOk
<1>2. PICK a : a = Readable(attrs)
  OBVIOUS
<1>3. PICK v, q : v = "" /\ q = AddItem(p, n, v, a)
  OBVIOUS
<1>4. ParserOk(q) /\ Len(q.items) = m + 1 /\ q.items[m + 1].name = n
  <2>1. IsSeq(a)
    BY <1>2, ReadableSeq
  <2>2. Added(p, q, n)
    BY <1>3, <2>1, AddItemOk
  <2> QED
    BY <1>1, <2>2 DEF Added
<1>5. OnStartTag(p, n, attrs) = Parser(q.items, m + 1, q.after, q.state)
  <2>1. q = Parser(q.items, q.current, q.after, q.state)
    BY <1>4 DEF ParserOk
  <2>2. OnStartTag(p, n, attrs) = [q EXCEPT !.current = m + 1]
    BY <1>1, <1>2, <1>3 DEF OnStartTag
  <2> QED
    BY <2>1, <2>2 DEF Parser
<1>6. PICK t : t = Parser(q.items, m + 1, q.after, q.state)
  OBVIOUS
<1>7. t.items = q.items /\ t.current = m + 1 /\ t.after = q.after /\ t.state = q.state
  BY <1>6 DEF Parser
<1>8. m + 1 \in 0..(m + 1)
  OBVIOUS
<1>9. ParserOk(t)
  BY <1>4, <1>6, <1>7, <1>8 DEF ParserOk
<1> QED
  BY <1>5, <1>6, <1>9

LEMMA OnEndTagOk ==
    ASSUME NEW p, ParserOk(p)
    PROVE  ParserOk(OnEndTag(p))
<1>1. PICK m \in Nat : m = Len(p.items)
  BY SoundItems DEF ParserOk
<1>2. PICK q : q = OnEndTag(p)
  OBVIOUS
<1>3. CASE p.current = 0
  <2>1. q = Parser(p.items, p.current, p.after, "dead")
    BY <1>2, <1>3 DEF OnEndTag, ParserOk, Parser
  <2>2. q.items = p.items /\ q.current = p.current /\ q.after = p.after /\ q.state = "dead"
    BY <2>1 DEF Parser
  <2>3. ParserOk(q)
    BY <2>1, <2>2 DEF ParserOk
  <2> QED
    BY <1>2, <2>3
<1>4. CASE p.current # 0
  <2>1. PICK c : c = p.items[p.current].parent
    OBVIOUS
  <2>2. q = Parser(p.items, c, p.after, p.state)
    BY <1>2, <1>4, <2>1 DEF OnEndTag, ParserOk, Parser
  <2>3. q.items = p.items /\ q.current = c /\ q.after = p.after /\ q.state = p.state
    BY <2>2 DEF Parser
  <2>4. PICK i \in 1..m : i = p.current
    BY <1>1, <1>4 DEF ParserOk
  <2>5. c \in 0..(i - 1) /\ (c # 0 => p.items[c].name # "#text")
    BY <1>1, <2>1, <2>4 DEF ParserOk, Sound
  <2>6. c \in 0..m
    BY <2>4, <2>5
  <2>7. ParserOk(q)
    BY <1>1, <2>2, <2>3, <2>5, <2>6 DEF ParserOk
  <2> QED
    BY <1>2, <2>7
<1> QED
  BY <1>3, <1>4

LEMMA InnerOk ==
    ASSUME NEW p, ParserOk(p), NEW tk, IsToken(tk)
    PROVE  ParserOk(Inner(p, tk))
<1>0. ASSUME NEW q, ParserOk(q), NEW kind PROVE ParserOk([q EXCEPT !.after = kind])
  <2>1. PICK t : t = [q EXCEPT !.after = kind]
    OBVIOUS
  <2>2. t = Parser(q.items, q.current, kind, q.state)
    BY <1>0, <2>1 DEF ParserOk, Parser
  <2>3. t.items = q.items /\ t.current = q.current /\ t.after = kind /\ t.state = q.state
    BY <2>2 DEF Parser
  <2>4. ParserOk(t)
    BY <1>0, <2>2, <2>3 DEF ParserOk
  <2> QED
    BY <2>1, <2>4
<1>1. CASE p.state # "reading"
  BY <1>1 DEF Inner
<1>2. CASE p.state = "reading"
  <2> DEFINE turned == CASE tk.kind = "text"  -> OnText(p, tk.value)
                         [] tk.kind = "start" -> OnStartTag(p, tk.name, tk.attrs)
                         [] tk.kind = "whole" -> OnEndTag(OnStartTag(p, tk.name, tk.attrs))
                         [] tk.kind = "end"   -> OnEndTag(p)
                         [] tk.kind = "cut"   -> [p EXCEPT !.state = "error"]
  <2>1. Inner(p, tk) = [turned EXCEPT !.after = tk.kind]
    BY <1>2 DEF Inner
  <2>2. ParserOk(turned)
    <3>1. CASE tk.kind = "text"
      <4>1. turned = OnText(p, tk.value)
        BY <3>1
      <4>3. PICK n, v, q : n = "#text" /\ v = tk.value /\ q = AddItem(p, n, v, <<>>)
        OBVIOUS
      <4>4. ParserOk(q)
        BY <4>3, ShortIsSeq, AddItemOk DEF Added
      <4>5. OnText(p, tk.value) = q
        BY <4>3 DEF OnText
      <4> HIDE DEF turned
      <4> QED
        BY <4>1, <4>4, <4>5
    <3>2. CASE tk.kind = "start"
      <4>1. turned = OnStartTag(p, tk.name, tk.attrs)
        BY <3>2
      <4> HIDE DEF turned
      <4> QED
        BY <3>2, <4>1, OnStartTagOk DEF IsToken, IsSeq
    <3>3. CASE tk.kind = "whole"
      <4>1. turned = OnEndTag(OnStartTag(p, tk.name, tk.attrs))
        BY <3>3
      <4>2. PICK q : q = OnStartTag(p, tk.name, tk.attrs)
        OBVIOUS
      <4>3. ParserOk(q)
        BY <3>3, <4>2, OnStartTagOk DEF IsToken, IsSeq
      <4> HIDE DEF turned
      <4> QED
        BY <4>1, <4>2, <4>3, OnEndTagOk
    <3>4. CASE tk.kind = "end"
      <4>1. turned = OnEndTag(p)
        BY <3>4
      <4> HIDE DEF turned
      <4> QED
        BY <4>1, OnEndTagOk
    <3>5. CASE tk.kind = "cut"
      <4>1. turned = [p EXCEPT !.state = "error"]
        BY <3>5
      <4>2. PICK q : q = [p EXCEPT !.state = "error"]
        OBVIOUS
      <4>3. q = Parser(p.items, p.current, p.after, "error")
        BY <4>2 DEF ParserOk, Parser
      <4>4. q.items = p.items /\ q.current = p.current /\ q.after = p.after /\ q.state = "error"
        BY <4>3 DEF Parser
      <4>5. ParserOk(q)
        BY <4>3, <4>4 DEF ParserOk
      <4> HIDE DEF turned
      <4> QED
        BY <4>1, <4>2, <4>5
    <3> QED
      BY <3>1, <3>2, <3>3, <3>4, <3>5 DEF IsToken
  <2> HIDE DEF turned
  <2> QED
    BY SMTT(30), <1>0, <2>1, <2>2
<1> QED
  BY <1>1, <1>2

\* Whatever is read, the items are as they should be.
LEMMA ParseOnOk ==
    ASSUME NEW p, ParserOk(p), NEW doc, Tokens(doc)
    PROVE  ParserOk(ParseOn(p, doc))
<1>1. PICK n \in Nat : n = Len(doc) /\ \A k \in 1..n : IsToken(doc[k])
  BY DEF Tokens
<1>2. PICK f : f[0] = p /\ f[n] = ParseOn(p, doc) /\ \A k \in 1..n : f[k] = Inner(f[k - 1], doc[k])
  <2>1. n = Len(doc)
    BY <1>1
  <2> QED
    BY <2>1, ParseSteps
<1> DEFINE T == {k \in Nat : k \in 0..n => ParserOk(f[k])}
<1>3. 0 \in T
  BY <1>2
<1>4. ASSUME NEW k \in Nat, k \in T PROVE k + 1 \in T
  <2>0. ASSUME k + 1 \in 0..n PROVE ParserOk(f[k + 1])
    <3>1. k + 1 \in 1..n /\ (k + 1) - 1 = k /\ k \in 0..n
      BY <2>0
    <3>2. f[k + 1] = Inner(f[k], doc[k + 1]) /\ IsToken(doc[k + 1]) /\ ParserOk(f[k])
      BY <1>1, <1>2, <1>4, <3>1
    <3> QED
      BY <3>2, InnerOk
  <2> QED
    BY <2>0
<1> HIDE DEF T
<1>5. n \in T
  BY <1>3, <1>4, SetInduction
<1>6. n \in 0..n
  OBVIOUS
<1> QED
  BY <1>2, <1>5, <1>6 DEF T

LEMMA NewReaderOk == ParserOk(NewReader)
<1>1. NewReader = Parser(<<>>, 0, "none", "reading")
  BY DEF NewReader, Parser
<1>2. NewReader.items = <<>> /\ NewReader.current = 0 /\ NewReader.after = "none" /\ NewReader.state = "reading"
  BY <1>1 DEF Parser
<1>3. Sound(<<>>) /\ Len(<<>>) = 0
  <2>1. Len(<<>>) = 0 /\ 1..0 = {}
    BY EmptySeq
  <2> QED
    BY <2>1, ShortIsSeq DEF Sound
<1> QED
  BY <1>1, <1>2, <1>3 DEF ParserOk

-----------------------------------------------------------------------------
(* The answer. *)

LEMMA NothingRead ==
    /\ Read(<<Dead>>) = Wrong /\ Read(<<Piece("#error")>>) = Wrong
    /\ \A json : Read(json) = Wrong => ~IsJson(json)
<1>1. Read(<<Dead>>) = Wrong
  BY FeedOne, ConsumeDead DEF Read
<1>2. PICK x : x = Piece("#error")
  OBVIOUS
<1>3. ~Named(x) /\ x.piece = "#error"
  BY <1>2, PieceIsNotNamed
<1>4. ~Legal(Fresh, x)
  BY <1>3 DEF Legal
<1>5. Consume(Fresh, x) = Wrong
  BY <1>4 DEF Consume
<1>6. Read(<<x>>) = Wrong
  BY <1>5, FeedOne DEF Read
<1>7. \A json : Read(json) = Wrong => ~IsJson(json)
  BY WrongStays DEF IsJson
<1> QED
  BY <1>1, <1>2, <1>6, <1>7

\* The document convert() has read to its end.
LEMMA FinishRead ==
    ASSUME NEW items, Sound(items), NEW p, p.items = items
    PROVE  /\ InnerElements(items) = {} \/ (\E i \in InnerElements(items) : ~HasForm(items, i))
                => Read(OnFinish(p)) = Wrong
           /\ InnerElements(items) # {} /\ (\A i \in InnerElements(items) : HasForm(items, i))
                => Read(OnFinish(p)) = State(<<>>, "value", Says(items))
<1>1. PICK top : top = Tree(items)
  OBVIOUS
<1>2. CASE top = 0
  <2>1. InnerElements(items) = {}
    BY <1>1, <1>2, InnerIs
  <2>2. OnFinish(p) = <<Dead>>
    BY <1>1, <1>2 DEF OnFinish
  <2> QED
    BY <2>1, <2>2, NothingRead
<1>3. CASE top # 0
  <2>1. top \in Elements(items) /\ top \in 1..Len(items) /\ items[top].parent = 0
    BY <1>1, <1>3, TreeIs
  <2>2. InnerElements(items) = Sub(items, top) /\ top \in Sub(items, top)
    BY <1>1, <1>3, <2>1, InnerIs, SubIs
  <2>3. Good(items, top) <=> \A i \in InnerElements(items) : HasForm(items, i)
    BY <2>2 DEF Good
  <2>4. Said(items, top) = Says(items)
    BY <2>2 DEF Said, Says
  <2>5. PICK n, P : n = items[top].name /\ P = <<>>
    OBVIOUS
  <2>6. Path(items)[top] = Append(P, n)
    BY <1>1, <2>1, <2>5, PathIs DEF PathAfter
  <2>7. PICK is, member, last, count, a, b, F : /\ is = "object" /\ member = FALSE /\ last = TRUE /\ count = 1
                                                /\ a = "open" /\ b = <<>> /\ F = {}
    OBVIOUS
  <2>8. Fits(items, top, is, member, P, count)
    BY <1>1, <2>5, <2>6, <2>7 DEF Fits, AloneIn
  <2>9. Reads(items, top, is, member, P, count)
    BY <2>1, <2>8, AllRead DEF WalkReads
  <2>10. last \in BOOLEAN /\ a \in {"open", "comma"} /\ IsSeq(b)
    BY <2>7, ShortIsSeq
  <2>11. PICK w : w = Walk(Inside(items), items, top, last, member)
    OBVIOUS
  <2>12. Feed(On(b, Frame(is, P, count), a, F), w)
           = IF Good(items, top) THEN After(b, is, P, count, F \union Said(items, top), last) ELSE Wrong
    BY <2>9, <2>10, <2>11, ReadsThen
  <2>13. PICK o, e : o = Piece("object") /\ e = Piece("object_end")
    OBVIOUS
  <2>14. OnFinish(p) = <<o>> \o w \o <<e>>
    BY <1>1, <1>3, <2>7, <2>11, <2>13 DEF OnFinish
  <2>15. IsSeq(<<o>>) /\ IsSeq(<<e>>) /\ IsSeq(w)
    BY <2>1, <2>11, ShortIsSeq, InsideSeq, WalkSeq
  <2>16. IsSeq(<<o>> \o w)
    BY <2>15, JoinedIsSeq
  <2>17. PICK r : r = On(b, Frame(is, P, count), a, F)
    OBVIOUS
  <2>18. Consume(Fresh, o) = r
    BY <2>5, <2>7, <2>13, <2>17, ConsumeFirst
  <2>19. Read(OnFinish(p)) = Consume(Feed(r, w), e)
    <3>1. Feed(Fresh, <<o>> \o w) = Feed(r, w)
      BY <2>15, <2>18, FeedJoined, FeedOne
    <3>2. Feed(Fresh, <<o>> \o w \o <<e>>) = Feed(Feed(r, w), <<e>>)
      BY <2>15, <2>16, <3>1, FeedJoined
    <3> QED
      BY <2>14, <3>2, FeedOne DEF Read
  <2>20. CASE ~Good(items, top)
    <3>1. Read(OnFinish(p)) = Wrong
      BY <2>12, <2>17, <2>19, <2>20, WrongStays
    <3> QED
      BY <2>3, <2>20, <3>1
  <2>21. CASE Good(items, top)
    <3>1. PICK E : E = Says(items)
      OBVIOUS
    <3>2. Feed(r, w) = On(b, Frame(is, P, count), "value", E)
      BY <2>4, <2>7, <2>12, <2>17, <2>21, <3>1 DEF After
    <3>3. Consume(On(b, Frame(is, P, count), "value", E), Piece("object_end")) = State(b, "value", E)
      BY <2>7, <2>10, ConsumeClose
    <3>4. Read(OnFinish(p)) = State(<<>>, "value", Says(items))
      BY <2>7, <2>13, <2>19, <3>1, <3>2, <3>3
    <3> QED
      BY <2>2, <2>3, <2>21, <3>4
  <2> QED
    BY <2>20, <2>21
<1> QED
  BY <1>2, <1>3

\* XML2JSON::convert(): whatever document has been read, the answer is JSON
\* exactly when the document has a form in JSON.
THEOREM AnswerIsJson ==
    ASSUME NEW p, ParserOk(p)
    PROVE  JsonIffConvertible(p)
<1>1. CASE ~Parsed(p)
  <2>1. Result(p) = <<Dead>> \/ Result(p) = <<Piece("#error")>>
    BY <1>1 DEF Result
  <2>2. ~IsJson(Result(p))
    BY <2>1, NothingRead
  <2> QED
    BY <1>1, <2>2 DEF JsonIffConvertible, Convertible
<1>2. CASE Parsed(p)
  <2>1. Result(p) = OnFinish(p)
    BY <1>2 DEF Result, Parsed
  <2>2. PICK items : items = p.items /\ Sound(items)
    BY DEF ParserOk
  <2>3. CASE InnerElements(items) = {} \/ \E i \in InnerElements(items) : ~HasForm(items, i)
    <3>1. Read(OnFinish(p)) = Wrong
      BY <2>2, <2>3, FinishRead
    <3> QED
      BY <2>1, <2>2, <2>3, <3>1, NothingRead DEF JsonIffConvertible, Convertible
  <2>4. CASE InnerElements(items) # {} /\ \A i \in InnerElements(items) : HasForm(items, i)
    <3>1. Read(OnFinish(p)) = State(<<>>, "value", Says(items))
      BY <2>2, <2>4, FinishRead
    <3>2. IsJson(Result(p))
      BY <2>1, <3>1 DEF IsJson, State
    <3> QED
      BY <1>2, <2>2, <2>4, <3>2 DEF JsonIffConvertible, Convertible
  <2> QED
    BY <2>3, <2>4
<1> QED
  BY <1>1, <1>2

\* XML2JSON::convert(): no value of a document that has a form is lost, made up
\* or found under another name.
THEOREM AnswerSaysTheSame ==
    ASSUME NEW p, ParserOk(p)
    PROVE  SaysTheSame(p)
<1> SUFFICES ASSUME Convertible(p) PROVE Read(Result(p)).found = Says(p.items)
  BY DEF SaysTheSame
<1>1. Result(p) = OnFinish(p)
  BY DEF Result, Parsed, Convertible
<1>2. Sound(p.items)
  BY DEF ParserOk
<1>3. Read(OnFinish(p)) = State(<<>>, "value", Says(p.items))
  BY <1>2, FinishRead DEF Convertible
<1> QED
  BY <1>1, <1>3 DEF State

\* The two for a document as it is sent: in one piece, from its first token.
THEOREM ConvertedDocument ==
    ASSUME NEW doc, Tokens(doc), NEW p, p = ParseOn(NewReader, doc)
    PROVE  /\ IsJson(Convert(doc)) <=> Convertible(p)
           /\ Convertible(p) => Read(Convert(doc)).found = Says(p.items)
<1>1. ParserOk(p)
  BY NewReaderOk, ParseOnOk
<1>2. Convert(doc) = Result(p)
  BY DEF Convert
<1> QED
  BY <1>1, <1>2, AnswerIsJson, AnswerSaysTheSame DEF JsonIffConvertible, SaysTheSame

\* Where the conversion dies it sends no JSON.
LEMMA DeadIsNoJson == ASSUME NEW json, IsSeq(json), Dies(json) PROVE ~IsJson(json)
<1>1. PICK n \in Nat : n = Len(json) /\ DOMAIN json = 1..n
  BY LenProperties DEF IsSeq
<1>2. PICK d \in 1..n : json[d] = Dead
  BY <1>1 DEF Dies
<1>3. PICK f : Steps(f, Fresh, json, n) /\ f[n] = Feed(Fresh, json)
  BY <1>1, FeedSteps
<1> DEFINE T == {k \in Nat : k \in d..n => f[k] = Wrong}
<1>4. 0 \in T
  OBVIOUS
<1>5. ASSUME NEW k \in Nat, k \in T PROVE k + 1 \in T
  <2> SUFFICES ASSUME k + 1 \in d..n PROVE f[k + 1] = Wrong
    OBVIOUS
  <2>1. k + 1 \in 1..n /\ (k + 1) - 1 = k
    OBVIOUS
  <2>2. f[k + 1] = Consume(f[k], json[k + 1])
    BY <1>3, <2>1 DEF Steps
  <2>3. CASE k + 1 = d
    BY <1>2, <2>2, <2>3, ConsumeDead
  <2>4. CASE k + 1 # d
    <3>1. k \in d..n
      BY <2>4
    <3>2. f[k] = Wrong
      BY <1>5, <3>1
    <3> QED
      BY <2>2, <3>2, WrongStays
  <2> QED
    BY <2>3, <2>4
<1> HIDE DEF T
<1>6. n \in T /\ n \in d..n
  BY <1>4, <1>5, SetInduction
<1>7. Read(json) = Wrong
  BY <1>3, <1>6 DEF T, Read
<1> QED
  BY <1>7, NothingRead

LEMMA ResultSeq == ASSUME NEW p, ParserOk(p) PROVE IsSeq(Result(p))
<1>1. CASE ~Parsed(p) \/ Tree(p.items) = 0
  BY <1>1, ShortIsSeq DEF Result, OnFinish
<1>2. CASE Parsed(p) /\ Tree(p.items) # 0
  <2>1. PICK items, top : items = p.items /\ top = Tree(items)
    OBVIOUS
  <2>2. Sound(items) /\ top \in 1..Len(items)
    BY <1>2, <2>1, TreeIs DEF ParserOk
  <2>3. PICK w : w = Walk(Inside(items), items, top, TRUE, FALSE)
    OBVIOUS
  <2>4. IsSeq(w)
    BY <2>2, <2>3, InsideSeq, WalkSeq
  <2>5. PICK o, c : o = <<Piece("object")>> /\ c = <<Piece("object_end")>>
    OBVIOUS
  <2>6. IsSeq(o \o w) /\ IsSeq(c)
    BY <2>4, <2>5, ShortIsSeq, JoinedIsSeq
  <2>7. IsSeq(o \o w \o c)
    BY <2>6, JoinedIsSeq
  <2>8. Result(p) = o \o w \o c
    BY <1>2, <2>1, <2>3, <2>5 DEF Result, OnFinish, Parsed
  <2> QED
    BY <2>7, <2>8
<1> QED
  BY <1>1, <1>2

\* A document that has a form in JSON never ends the process.
THEOREM FormNeverDies == ASSUME NEW p, ParserOk(p), Convertible(p) PROVE ~Dies(Result(p))
  BY ResultSeq, DeadIsNoJson, AnswerIsJson DEF JsonIffConvertible
=============================================================================
