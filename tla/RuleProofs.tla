----------------------------- MODULE RuleProofs -----------------------------
(***************************************************************************)
(* Proof that the handlers' actions, applied one after the other, make of  *)
(* a request or a response what RuleMeaning says they mean together: for   *)
(* all typed actions and messages, one action more changes each field as   *)
(* its definition in RuleMeaning does (RequestStep and ResponseStep).      *)
(***************************************************************************)
EXTENDS RuleMeaning, IntervalProofs, SequenceTheorems

----------------------------------------------------------------------------
(* Lists put together.                                                     *)

\* g[i] is what the first i lists give together.
Flattens(g, lists, n) ==
  \A i \in 1 .. n : g[i] = IF i = 1 THEN lists[i] ELSE g[i - 1] \o lists[i]

\* There is such a g for every list of lists.
LEMMA FlattenExists ==
  ASSUME NEW S, NEW lists \in Seq(Seq(S))
  PROVE  \E g \in [1 .. Len(lists) -> Seq(S)] : Flattens(g, lists, Len(lists))
<1> DEFINE Good == {n \in Nat : n <= Len(lists) =>
                      \E g \in [1 .. n -> Seq(S)] : Flattens(g, lists, n)}
<1>1. 0 \in Good
  <2> DEFINE g == [i \in 1 .. 0 |-> <<>>]
  <2>1. g \in [1 .. 0 -> Seq(S)] /\ Flattens(g, lists, 0)
    BY DEF Flattens
  <2> QED
    BY <2>1
<1>2. ASSUME NEW n \in Nat, n \in Good PROVE n + 1 \in Good
  <2> SUFFICES ASSUME n + 1 <= Len(lists)
               PROVE  \E g \in [1 .. n + 1 -> Seq(S)] : Flattens(g, lists, n + 1)
    OBVIOUS
  <2>1. PICK g \in [1 .. n -> Seq(S)] : Flattens(g, lists, n)
    BY <1>2
  <2> DEFINE new == IF n + 1 = 1 THEN lists[n + 1] ELSE g[n] \o lists[n + 1]
             h   == [i \in 1 .. n + 1 |-> IF i = n + 1 THEN new ELSE g[i]]
  <2>2. lists[n + 1] \in Seq(S)
    OBVIOUS
  <2>3. new \in Seq(S)
    <3>1. CASE n = 0
      BY <2>2, <3>1
    <3>2. CASE n # 0
      <4>1. g[n] \in Seq(S)
        BY <3>2
      <4> QED
        BY <2>2, <3>2, <4>1, ConcatProperties
    <3> QED
      BY <3>1, <3>2
  <2> HIDE DEF new
  <2>4. h \in [1 .. n + 1 -> Seq(S)]
    BY <2>3
  <2>5. ASSUME NEW i \in 1 .. n + 1
        PROVE  h[i] = IF i = 1 THEN lists[i] ELSE h[i - 1] \o lists[i]
    <3>1. CASE i = n + 1
      BY <3>1 DEF new
    <3>2. CASE i # n + 1
      <4>1. i \in 1 .. n
        BY <3>2
      <4>2. g[i] = IF i = 1 THEN lists[i] ELSE g[i - 1] \o lists[i]
        BY <2>1, <4>1 DEF Flattens
      <4>3. i # 1 => i - 1 \in 1 .. n + 1 /\ i - 1 # n + 1
        BY <4>1
      <4>4. i # 1 => h[i - 1] = g[i - 1]
        BY <4>3
      <4> QED
        BY <3>2, <4>2, <4>4
    <3> QED
      BY <3>1, <3>2
  <2>6. Flattens(h, lists, n + 1)
    <3> HIDE DEF h
    <3> QED
      BY <2>4, <2>5 DEF Flattens
  <2> QED
    BY <2>4, <2>6
<1>3. Len(lists) \in Nat
  OBVIOUS
<1> HIDE DEF Good
<1>4. Len(lists) \in Good
  BY <1>1, <1>2, <1>3, SetInduction
<1> QED
  BY <1>4 DEF Good

\* What the first lists give together does not depend on those that follow.
LEMMA FlattenAgrees ==
  ASSUME NEW s, NEW t, NEW g, NEW h, NEW m \in Nat, NEW n \in Nat, m <= n,
         Flattens(g, s, m), Flattens(h, t, n), \A i \in 1 .. m : s[i] = t[i]
  PROVE  \A i \in 1 .. m : g[i] = h[i]
<1> DEFINE Same == {i \in Nat : i \in 1 .. m => g[i] = h[i]}
<1>1. 0 \in Same
  OBVIOUS
<1>2. ASSUME NEW i \in Nat, i \in Same PROVE i + 1 \in Same
  <2> SUFFICES ASSUME i + 1 \in 1 .. m PROVE g[i + 1] = h[i + 1]
    OBVIOUS
  <2>1. i + 1 \in 1 .. n
    OBVIOUS
  <2>2. g[i + 1] = IF i + 1 = 1 THEN s[i + 1] ELSE g[i + 1 - 1] \o s[i + 1]
    BY DEF Flattens
  <2>3. h[i + 1] = IF i + 1 = 1 THEN t[i + 1] ELSE h[i + 1 - 1] \o t[i + 1]
    BY <2>1 DEF Flattens
  <2>4. i + 1 - 1 = i
    OBVIOUS
  <2>5. i + 1 # 1 => g[i] = h[i]
    BY <1>2
  <2> QED
    BY <2>2, <2>3, <2>4, <2>5
<1> HIDE DEF Same
<1>3. \A i \in Nat : i \in Same
  BY <1>1, <1>2, SetInduction
<1> QED
  BY <1>3 DEF Same

\* FlattenSeq, as such a g gives it.
LEMMA FlattenValue ==
  ASSUME NEW S, NEW lists \in Seq(Seq(S)), lists # <<>>
  PROVE  \E g : /\ Flattens(g, lists, Len(lists)) /\ FlattenSeq(lists) = g[Len(lists)]
                /\ g[Len(lists)] \in Seq(S)
<1> DEFINE n == Len(lists)
           h == CHOOSE g : g = [i \in 1 .. n |-> IF i = 1 THEN lists[i] ELSE g[i - 1] \o lists[i]]
<1>1. n \in Nat /\ n # 0
  OBVIOUS
<1>2. FlattenSeq(lists) = h[n]
  BY <1>1 DEF FlattenSeq
<1>3. PICK g \in [1 .. n -> Seq(S)] : Flattens(g, lists, n)
  BY FlattenExists
<1>4. Flattens(h, lists, n)
  <2>1. g = [i \in 1 .. n |-> IF i = 1 THEN lists[i] ELSE g[i - 1] \o lists[i]]
    BY <1>3 DEF Flattens
  <2>2. h = [i \in 1 .. n |-> IF i = 1 THEN lists[i] ELSE h[i - 1] \o lists[i]]
    BY <2>1, Zenon
  <2> HIDE DEF h
  <2> QED
    BY <2>2, Zenon DEF Flattens
<1> HIDE DEF h
<1>5. \A i \in 1 .. n : g[i] = h[i]
  BY <1>1, <1>3, <1>4, FlattenAgrees
<1>6. g[n] = h[n]
  BY <1>1, <1>5
<1> QED
  <2>1. g[n] \in Seq(S)
    <3>1. n \in 1 .. n
      BY <1>1
    <3> HIDE DEF n
    <3> QED
      BY <1>3, <3>1
  <2> QED
    BY <1>2, <1>3, <1>6, <2>1

LEMMA FlattenType ==
  ASSUME NEW S, NEW lists \in Seq(Seq(S))
  PROVE  FlattenSeq(lists) \in Seq(S)
<1>1. CASE lists = <<>>
  BY <1>1 DEF FlattenSeq
<1>2. CASE lists # <<>>
  <2>1. Len(lists) \in 1 .. Len(lists)
    BY <1>2
  <2> QED
    BY <1>2, <2>1, FlattenValue
<1> QED
  BY <1>1, <1>2

LEMMA FlattenEmpty == FlattenSeq(<<>>) = <<>>
BY DEF FlattenSeq

\* One list more.
LEMMA FlattenMore ==
  ASSUME NEW S, NEW lists \in Seq(Seq(S)), NEW more \in Seq(Seq(S)), NEW n \in Nat,
         Len(lists) = n, Len(more) = n + 1, \A i \in 1 .. n : lists[i] = more[i]
  PROVE  FlattenSeq(more) = FlattenSeq(lists) \o more[n + 1]
<1>1. more # <<>> /\ more[n + 1] \in Seq(S)
  OBVIOUS
<1>2. PICK h : Flattens(h, more, n + 1) /\ FlattenSeq(more) = h[n + 1]
  BY <1>1, FlattenValue
<1>3. h[n + 1] = IF n + 1 = 1 THEN more[n + 1] ELSE h[n] \o more[n + 1]
  <2>1. Flattens(h, more, n + 1)
    BY <1>2
  <2>2. n + 1 \in 1 .. n + 1 /\ n + 1 - 1 = n
    OBVIOUS
  <2> QED
    BY <2>1, <2>2 DEF Flattens
<1>4. CASE n = 0
  <2>1. lists = <<>>
    BY <1>4
  <2> QED
    BY <1>1, <1>2, <1>3, <1>4, <2>1, FlattenEmpty, ConcatEmptySeq
<1>5. CASE n # 0
  <2>1. PICK g : Flattens(g, lists, n) /\ FlattenSeq(lists) = g[n]
    <3>1. lists # <<>>
      BY <1>5
    <3> QED
      BY <3>1, FlattenValue
  <2>2. n <= n + 1 /\ n + 1 \in Nat /\ n \in 1 .. n
    BY <1>5
  <2>3. Flattens(h, more, n + 1) /\ Flattens(g, lists, n)
    BY <1>2, <2>1
  <2>4. g[n] = h[n]
    BY <2>2, <2>3, FlattenAgrees
  <2>5. n + 1 # 1
    BY <1>5
  <2> QED
    BY <1>2, <1>3, <2>5, <2>1, <2>4, Zenon
<1> QED
  BY <1>4, <1>5

\* The same, of a list that is appended to.
LEMMA FlattenAppend ==
  ASSUME NEW S, NEW lists \in Seq(Seq(S)), NEW s \in Seq(S)
  PROVE  FlattenSeq(Append(lists, s)) = FlattenSeq(lists) \o s
<1> DEFINE n == Len(lists)
           more == Append(lists, s)
<1>1. /\ n \in Nat /\ more \in Seq(Seq(S)) /\ Len(more) = n + 1
      /\ more[n + 1] = s /\ \A i \in 1 .. n : lists[i] = more[i]
  BY AppendProperties
<1> HIDE DEF more
<1>2. FlattenSeq(more) = FlattenSeq(lists) \o more[n + 1]
  BY <1>1, FlattenMore
<1> QED
  BY <1>1, <1>2 DEF more

----------------------------------------------------------------------------
(* Options.                                                                *)

\* An Option holds one value or none.
LEMMA TheOf == \A x : The({x}) = x
BY DEF The

LEMMA OptionIs ==
  ASSUME NEW S, NEW o \in Option(S), o # {}
  PROVE  \E x \in S : o = {x} /\ The(o) = x
<1>1. PICK x \in o : TRUE
  OBVIOUS
<1>2. x \in S /\ o = {x}
  BY <1>1 DEF Option
<1> QED
  BY <1>2, TheOf

LEMMA SingleOption == \A S : {} \in Option(S) /\ \A x \in S : {x} \in Option(S)
BY DEF Option

\* The fields of a replacement and of a patch, when there is one and when not.
LEMMA ReplaceFields ==
  ASSUME NEW a, NEW r, a.replace = {r}
  PROVE  /\ NewMethod(a) = r.method /\ NewCode(a) = r.code /\ NewBody(a) = r.body
         /\ NewPath(a) = {IF p = EmptyPath THEN RootPath ELSE p : p \in r.path}
         /\ NewQueries(a) = r.queries
         /\ \A n : NewHeader(a, n) = {LastOnly(h[n]) : h \in {x \in r.headers : x[n] # <<>>}}
BY DEF NewMethod, NewCode, NewBody, NewPath, NewQueries, NewHeader, Field

LEMMA NoReplaceFields ==
  ASSUME NEW a, a.replace = {}
  PROVE  /\ NewMethod(a) = {} /\ NewCode(a) = {} /\ NewBody(a) = {} /\ NewPath(a) = {}
         /\ NewQueries(a) = {} /\ \A n : NewHeader(a, n) = {} /\ NewQuery(a, n) = {}
BY DEF NewMethod, NewCode, NewBody, NewPath, NewQueries, NewHeader, NewQuery, Field

LEMMA PatchFields ==
  ASSUME NEW a, NEW p, a.patch = {p}
  PROVE  /\ BodyDiff(a) = p.body
         /\ \A n : AddedHeader(a, n) = IF p.headers = {} THEN <<>> ELSE The(p.headers)[n]
         /\ \A n : AddedQuery(a, n) = IF p.queries = {} THEN <<>> ELSE ValuesOf(The(p.queries), n)
BY DEF BodyDiff, AddedHeader, AddedQuery, Field

LEMMA NoPatchFields ==
  ASSUME NEW a, a.patch = {}
  PROVE  BodyDiff(a) = {} /\ \A n : AddedHeader(a, n) = <<>> /\ AddedQuery(a, n) = <<>>
BY DEF BodyDiff, AddedHeader, AddedQuery, Field

----------------------------------------------------------------------------
(* What a list of Options gives.                                           *)

\* LastAt is the place of an Option that is not None, and None follow it.
LEMMA LastAtIs ==
  ASSUME NEW S, NEW options \in Seq(S)
  PROVE  /\ LastAt(options) \in 0 .. Len(options)
         /\ LastAt(options) # 0 => options[LastAt(options)] # {}
         /\ \A i \in DOMAIN options : i > LastAt(options) => options[i] = {}
<1> DEFINE P == {0} \cup {i \in DOMAIN options : options[i] # {}}
<1>1. Len(options) \in Nat /\ P \in SUBSET (0 .. Len(options)) /\ P # {}
  OBVIOUS
<1> HIDE DEF P
<1>2. \E x \in P : \A y \in P : x >= y
  BY <1>1, GreatestElement
<1>3. LastAt(options) \in P /\ \A y \in P : LastAt(options) >= y
  <2>1. LastAt(options) = CHOOSE x \in P : \A y \in P : x >= y
    BY DEF LastAt, Max, P
  <2> QED
    BY <1>2, <2>1
<1>4. LastAt(options) \in 0 .. Len(options)
  BY <1>1, <1>3
<1> QED
  BY <1>3, <1>4 DEF P

\* No other place is.
LEMMA LastAtUnique ==
  ASSUME NEW S, NEW options \in Seq(S), NEW k \in 0 .. Len(options),
         k # 0 => options[k] # {}, \A i \in DOMAIN options : i > k => options[i] = {}
  PROVE  LastAt(options) = k
<1>1. /\ LastAt(options) \in 0 .. Len(options)
      /\ LastAt(options) # 0 => options[LastAt(options)] # {}
      /\ \A i \in DOMAIN options : i > LastAt(options) => options[i] = {}
  BY LastAtIs
<1> QED
  BY <1>1

\* One Option more: if it says something, it is the last that does.
LEMMA LastAtAppend ==
  ASSUME NEW S, NEW options \in Seq(S), NEW o \in S
  PROVE  /\ o = {} => LastAt(Append(options, o)) = LastAt(options)
         /\ o # {} => LastAt(Append(options, o)) = Len(options) + 1
<1> DEFINE more == Append(options, o)
<1>1. /\ Len(options) \in Nat /\ more \in Seq(S) /\ Len(more) = Len(options) + 1
      /\ more[Len(options) + 1] = o /\ \A i \in 1 .. Len(options) : more[i] = options[i]
  BY AppendProperties
<1> HIDE DEF more
<1>2. /\ LastAt(options) \in 0 .. Len(options)
      /\ LastAt(options) # 0 => options[LastAt(options)] # {}
      /\ \A i \in DOMAIN options : i > LastAt(options) => options[i] = {}
  BY LastAtIs
<1>3. CASE o = {}
  <2>1. \A i \in DOMAIN more : i > LastAt(options) => more[i] = {}
    BY <1>1, <1>2, <1>3
  <2>2. LastAt(options) \in 0 .. Len(more) /\ (LastAt(options) # 0 => more[LastAt(options)] # {})
    BY <1>1, <1>2
  <2>3. LastAt(more) = LastAt(options)
    BY <1>1, <2>1, <2>2, LastAtUnique
  <2> QED
    BY <1>3, <2>3 DEF more
<1>4. CASE o # {}
  <2>1. Len(options) + 1 \in 0 .. Len(more) /\ more[Len(options) + 1] # {}
        /\ \A i \in DOMAIN more : i > Len(options) + 1 => more[i] = {}
    BY <1>1, <1>4
  <2>2. LastAt(more) = Len(options) + 1
    BY <1>1, <2>1, LastAtUnique
  <2> QED
    BY <1>4, <2>2 DEF more
<1> QED
  BY <1>3, <1>4

LEMMA LastGivenEmpty == LastAt(<<>>) = 0 /\ \A d : LastGiven(<<>>, d) = d
<1>1. <<>> \in Seq({}) /\ Len(<<>>) = 0
  OBVIOUS
<1>2. LastAt(<<>>) \in 0 .. 0
  BY <1>1, LastAtIs
<1> QED
  BY <1>2 DEF LastGiven

\* What is given last is what the last Option says, or else what was given before it.
LEMMA LastGivenAppend ==
  ASSUME NEW S, NEW options \in Seq(S), NEW o \in S, NEW d
  PROVE  LastGiven(Append(options, o), d) = IF o = {} THEN LastGiven(options, d) ELSE The(o)
<1> DEFINE more == Append(options, o)
<1>1. /\ Len(options) \in Nat
      /\ more[Len(options) + 1] = o /\ \A i \in 1 .. Len(options) : more[i] = options[i]
  BY AppendProperties
<1>2. LastAt(options) \in 0 .. Len(options)
  BY LastAtIs
<1>3. /\ o = {} => LastAt(more) = LastAt(options)
      /\ o # {} => LastAt(more) = Len(options) + 1
  BY LastAtAppend
<1> HIDE DEF more
<1> QED
  BY <1>1, <1>2, <1>3 DEF LastGiven, more

\* What lists give from a place on.
Lists(lists, S) == lists \in Seq(Seq(S))

\* One list more is put at the end, from whatever place the lists are counted.
LEMMA FromAppend ==
  ASSUME NEW S, NEW lists, Lists(lists, S), NEW s \in Seq(S), NEW i \in 0 .. Len(lists) + 1
  PROVE  /\ From(Append(lists, s), i) = From(lists, i) \o s
         /\ From(lists, i) \in Seq(S)
         /\ i = Len(lists) + 1 => From(Append(lists, s), i) = s
<1> DEFINE k == IF i = 0 THEN 1 ELSE i
           n == Len(lists)
           more == Append(lists, s)
           rest == SubSeq(lists, k, n)
<1>0. lists \in Seq(Seq(S))
  BY DEF Lists
<1>1. n \in Nat /\ k \in 1 .. n + 1
  BY <1>0
<1>2. Max({1, i}) = k
  <2>1. k \in {1, i} /\ \A y \in {1, i} : k >= y
    OBVIOUS
  <2>2. \A x \in {1, i} : (\A y \in {1, i} : x >= y) => x = k
    OBVIOUS
  <2> HIDE DEF k
  <2> QED
    BY <2>1, <2>2 DEF Max
<1>3. /\ more \in Seq(Seq(S)) /\ Len(more) = n + 1
      /\ more[n + 1] = s /\ \A j \in 1 .. n : more[j] = lists[j]
  BY <1>0, AppendProperties
<1> HIDE DEF more, k
<1>4. rest \in Seq(Seq(S))
  BY <1>0, <1>1
<1>5. SubSeq(more, k, n + 1) = Append(rest, s)
  <2> DEFINE left == SubSeq(more, k, n + 1)
             right == Append(rest, s)
  <2>1. /\ left \in Seq(Seq(S)) /\ Len(left) = n + 1 - k + 1
        /\ \A j \in 1 .. n + 1 - k + 1 : left[j] = more[k + j - 1]
    BY <1>1, <1>3, SubSeqProperties
  <2>2. /\ Len(rest) = n - k + 1
        /\ \A j \in 1 .. n - k + 1 : rest[j] = lists[k + j - 1]
    BY <1>0, <1>1, SubSeqProperties
  <2>3. /\ right \in Seq(Seq(S)) /\ Len(right) = n - k + 2 /\ right[n - k + 2] = s
        /\ \A j \in 1 .. n - k + 1 : right[j] = rest[j]
    BY <1>1, <1>4, <2>2, AppendProperties
  <2> HIDE DEF left, right, rest, n
  <2>4. ASSUME NEW j \in 1 .. Len(left) PROVE left[j] = right[j]
    <3>1. j \in 1 .. n - k + 2 /\ n + 1 - k + 1 = n - k + 2 /\ n \in Int /\ k \in Int
      BY <1>1, <2>1
    <3>2. CASE j = n - k + 2
      <4>1. k + j - 1 = n + 1
        BY <3>1, <3>2
      <4> QED
        BY <1>3, <2>1, <2>3, <3>1, <3>2, <4>1
    <3>3. CASE j # n - k + 2
      <4>1. j \in 1 .. n - k + 1 /\ k + j - 1 \in 1 .. n
        BY <1>1, <3>1, <3>3
      <4> QED
        BY <1>3, <2>1, <2>2, <2>3, <3>1, <4>1
    <3> QED
      BY <3>2, <3>3
  <2> QED
    <3>1. Len(left) = Len(right)
      BY <1>1, <2>1, <2>3
    <3>2. left = right
      BY <2>1, <2>3, <2>4, <3>1, SeqEqual
    <3> QED
      BY <3>2 DEF left, right
<1>6. From(more, i) = FlattenSeq(Append(rest, s)) /\ From(lists, i) = FlattenSeq(rest)
  BY <1>2, <1>3, <1>5 DEF From
<1>7. i = n + 1 => rest = <<>>
  <2>1. i = n + 1 => k = n + 1
    BY <1>1 DEF k
  <2> QED
    BY <1>1, <2>1, SubSeqEmpty
<1> HIDE DEF rest, n
<1>8. FlattenSeq(Append(rest, s)) = FlattenSeq(rest) \o s /\ FlattenSeq(rest) \in Seq(S)
  BY <1>4, FlattenAppend, FlattenType
<1>9. <<>> \o s = s
  BY ConcatEmptySeq
<1> QED
  BY <1>6, <1>7, <1>8, <1>9, FlattenEmpty DEF more, n

----------------------------------------------------------------------------
(* Types.                                                                  *)

\* The values of a name are values.
LEMMA ValuesOfType ==
  ASSUME NEW N, NEW pairs \in Seq(N \X Values), NEW n
  PROVE  ValuesOf(pairs, n) \in Seq(Values)
<1> DEFINE lists == [i \in DOMAIN pairs |-> IF pairs[i][1] = n THEN <<pairs[i][2]>> ELSE <<>>]
<1>1. ASSUME NEW i \in DOMAIN pairs
      PROVE  (IF pairs[i][1] = n THEN <<pairs[i][2]>> ELSE <<>>) \in Seq(Values)
  <2>1. pairs[i] \in N \X Values
    OBVIOUS
  <2>2. pairs[i][2] \in Values
    BY <2>1
  <2>3. <<pairs[i][2]>> \in Seq(Values) /\ <<>> \in Seq(Values)
    BY <2>2
  <2> QED
    BY <2>3
<1>2. Len(pairs) \in Nat /\ DOMAIN pairs = 1 .. Len(pairs)
  OBVIOUS
<1>3. lists \in Seq(Seq(Values))
  <2>1. lists \in [1 .. Len(pairs) -> Seq(Values)]
    BY <1>1, <1>2, Zenon
  <2> HIDE DEF lists
  <2> QED
    BY <1>2, <2>1
<1> HIDE DEF lists
<1>4. FlattenSeq(lists) \in Seq(Values)
  BY <1>3, FlattenType
<1> QED
  BY <1>4 DEF ValuesOf, lists

\* What is left of values is one of them, if there are any.
LEMMA LastOnlyType ==
  ASSUME NEW S, NEW values \in Seq(S)
  PROVE  /\ LastOnly(values) \in Seq(S)
         /\ LastOnly(LastOnly(values)) = LastOnly(values)
         /\ values = <<>> <=> LastOnly(values) = <<>>
<1>1. CASE values = <<>>
  BY <1>1 DEF LastOnly
<1>2. CASE values # <<>>
  <2>1. Last(values) \in S
    BY <1>2 DEF Last
  <2>2. LastOnly(values) = <<Last(values)>>
    BY <1>2 DEF LastOnly
  <2>3. ASSUME NEW v \in S PROVE LastOnly(<<v>>) = <<v>> /\ <<v>> \in Seq(S) /\ <<v>> # <<>>
    BY DEF LastOnly, Last
  <2> QED
    BY <1>2, <2>1, <2>2, <2>3
<1> QED
  BY <1>1, <1>2

\* Of lists put together, what is left is that of the last that is not empty.
LEMMA LastOnlyConcat ==
  ASSUME NEW S, NEW s \in Seq(S), NEW t \in Seq(S)
  PROVE  LastOnly(s \o t) = IF t = <<>> THEN LastOnly(s) ELSE LastOnly(t)
<1>1. CASE t = <<>>
  BY <1>1, ConcatEmptySeq
<1>2. CASE t # <<>>
  <2>1. Len(s) \in Nat /\ Len(t) \in Nat /\ Len(t) # 0
    BY <1>2
  <2>2. /\ Len(s \o t) = Len(s) + Len(t) /\ s \o t \in Seq(S)
        /\ \A i \in 1 .. Len(s) + Len(t) : (s \o t)[i] = IF i <= Len(s) THEN s[i] ELSE t[i - Len(s)]
    BY ConcatProperties
  <2>3. (s \o t)[Len(s) + Len(t)] = t[Len(t)]
    BY <2>1, <2>2
  <2>4. s \o t # <<>>
    BY <2>1, <2>2
  <2> QED
    BY <1>2, <2>2, <2>3, <2>4 DEF LastOnly, Last
<1> QED
  BY <1>1, <1>2

\* A replacement and a patch that are there.
LEMMA ReplacementOf ==
  ASSUME NEW a \in ActionsType, a.replace # {}
  PROVE  \E r \in ReplaceType : a.replace = {r} /\ The(a.replace) = r
<1>1. a.replace \in Option(ReplaceType)
  BY DEF ActionsType
<1> QED
  BY <1>1, OptionIs

LEMMA PatchOf ==
  ASSUME NEW a \in ActionsType, a.patch # {}
  PROVE  \E p \in PatchType(HeadersType) : a.patch = {p} /\ The(a.patch) = p
<1>1. a.patch \in Option(PatchType(HeadersType))
  BY DEF ActionsType
<1> QED
  BY <1>1, OptionIs

\* What an action says of the fields of a message is of their types.
LEMMA ReplaceTypes ==
  ASSUME NEW a \in ActionsType
  PROVE  /\ NewMethod(a) \in Option(Methods) /\ NewCode(a) \in Option(Codes)
         /\ NewBody(a) \in Option(BodyType) /\ NewPath(a) \in Option(Paths)
         /\ \A n \in HeaderNames : NewHeader(a, n) \in Option(Seq(Values))
         /\ \A n \in QueryNames : NewQuery(a, n) \in Option(Seq(Values))
<1>1. CASE a.replace = {}
  BY <1>1, NoReplaceFields, SingleOption
<1>2. CASE a.replace # {}
  <2>1. PICK r \in ReplaceType : a.replace = {r}
    BY <1>2, ReplacementOf
  <2>2. /\ r.method \in Option(Methods) /\ r.code \in Option(Codes) /\ r.body \in Option(BodyType)
        /\ r.path \in Option(Paths) /\ r.headers \in Option(HeadersType)
        /\ r.queries \in Option(UNION {[N -> Values] : N \in SUBSET QueryNames})
    BY DEF ReplaceType
  <2>3. NewPath(a) \in Option(Paths)
    <3>1. NewPath(a) = {IF p = EmptyPath THEN RootPath ELSE p : p \in r.path}
      BY <2>1, ReplaceFields
    <3>2. CASE r.path = {}
      BY <3>1, <3>2, SingleOption
    <3>3. CASE r.path # {}
      <4>1. PICK p \in Paths : r.path = {p}
        BY <2>2, <3>3, OptionIs
      <4>2. NewPath(a) = {IF p = EmptyPath THEN RootPath ELSE p}
        BY <3>1, <4>1
      <4> QED
        BY <4>2, SingleOption, RulesAssumption
    <3> QED
      BY <3>2, <3>3
  <2>4. ASSUME NEW n \in HeaderNames PROVE NewHeader(a, n) \in Option(Seq(Values))
    <3>1. NewHeader(a, n) = {LastOnly(h[n]) : h \in {x \in r.headers : x[n] # <<>>}}
      BY <2>1, ReplaceFields
    <3>2. CASE NewHeader(a, n) = {}
      BY <3>2, SingleOption
    <3>3. CASE NewHeader(a, n) # {}
      <4>1. PICK h \in HeadersType : r.headers = {h}
        BY <2>2, <3>1, <3>3, OptionIs
      <4>2. NewHeader(a, n) = {LastOnly(h[n])}
        BY <3>1, <3>3, <4>1
      <4>3. LastOnly(h[n]) \in Seq(Values)
        BY LastOnlyType DEF HeadersType
      <4> QED
        BY <4>2, <4>3, SingleOption
    <3> QED
      BY <3>2, <3>3
  <2>5. ASSUME NEW n \in QueryNames PROVE NewQuery(a, n) \in Option(Seq(Values))
    <3>1. NewQuery(a, n) = {<<q[n]>> : q \in {x \in r.queries : n \in DOMAIN x}}
      BY <2>1, ReplaceFields DEF NewQuery
    <3>2. CASE NewQuery(a, n) = {}
      BY <3>2, SingleOption
    <3>3. CASE NewQuery(a, n) # {}
      <4>1. PICK q \in UNION {[N -> Values] : N \in SUBSET QueryNames} : r.queries = {q}
        BY <2>2, <3>1, <3>3, OptionIs
      <4>2. n \in DOMAIN q /\ NewQuery(a, n) = {<<q[n]>>}
        BY <3>1, <3>3, <4>1
      <4>3. q[n] \in Values
        BY <4>1, <4>2
      <4>4. <<q[n]>> \in Seq(Values)
        BY <4>3
      <4> QED
        BY <4>2, <4>4, SingleOption, Zenon
    <3> QED
      BY <3>2, <3>3
  <2> QED
    BY <2>1, <2>2, <2>3, <2>4, <2>5, ReplaceFields
<1> QED
  BY <1>1, <1>2

LEMMA PatchTypes ==
  ASSUME NEW a \in ActionsType
  PROVE  /\ BodyDiff(a) \in Option([Keys -> Values \cup {Absent, Null}])
         /\ \A n \in HeaderNames : AddedHeader(a, n) \in Seq(Values)
         /\ \A n \in QueryNames : AddedQuery(a, n) \in Seq(Values)
<1>1. CASE a.patch = {}
  <2>1. BodyDiff(a) = {} /\ \A n : AddedHeader(a, n) = <<>> /\ AddedQuery(a, n) = <<>>
    BY <1>1, NoPatchFields
  <2>2. <<>> \in Seq(Values)
    OBVIOUS
  <2> QED
    BY <2>1, <2>2, SingleOption, Zenon
<1>2. CASE a.patch # {}
  <2>1. PICK p \in PatchType(HeadersType) : a.patch = {p}
    BY <1>2, PatchOf
  <2>2. /\ p.body \in Option([Keys -> Values \cup {Absent, Null}])
        /\ p.headers \in Option(HeadersType) /\ p.queries \in Option(Seq(QueryNames \X Values))
    BY DEF PatchType
  <2>3. ASSUME NEW n \in HeaderNames PROVE AddedHeader(a, n) \in Seq(Values)
    <3>1. p.headers # {} => The(p.headers) \in HeadersType
      BY <2>2, OptionIs
    <3>2. p.headers # {} => The(p.headers)[n] \in Seq(Values)
      BY <3>1 DEF HeadersType
    <3>3. <<>> \in Seq(Values)
      OBVIOUS
    <3>4. AddedHeader(a, n) = IF p.headers = {} THEN <<>> ELSE The(p.headers)[n]
      BY <2>1, PatchFields
    <3> QED
      BY <3>2, <3>3, <3>4, Zenon
  <2>4. ASSUME NEW n \in QueryNames PROVE AddedQuery(a, n) \in Seq(Values)
    <3>1. p.queries # {} => The(p.queries) \in Seq(QueryNames \X Values)
      BY <2>2, OptionIs
    <3>2. p.queries # {} => ValuesOf(The(p.queries), n) \in Seq(Values)
      BY <3>1, ValuesOfType
    <3>3. <<>> \in Seq(Values)
      OBVIOUS
    <3>4. AddedQuery(a, n) = IF p.queries = {} THEN <<>> ELSE ValuesOf(The(p.queries), n)
      BY <2>1, PatchFields
    <3> QED
      BY <3>2, <3>3, <3>4, Zenon
  <2> QED
    BY <2>1, <2>2, <2>3, <2>4, PatchFields
<1> QED
  BY <1>1, <1>2

LEMMA LastQueryType ==
  ASSUME NEW a \in ActionsType, NEW n \in QueryNames
  PROVE  LastQuery(a, n) \in Option(Seq(Values))
<1>1. AddedQuery(a, n) \in Seq(Values) /\ NewQuery(a, n) \in Option(Seq(Values))
  BY ReplaceTypes, PatchTypes
<1>2. LastOnly(AddedQuery(a, n)) \in Seq(Values)
  BY <1>1, LastOnlyType
<1> QED
  BY <1>1, <1>2, SingleOption DEF LastQuery

----------------------------------------------------------------------------
(* Lists of actions.                                                       *)

\* Each, with a function in place of the operator.
Along(acts, f) == [i \in DOMAIN acts |-> f[acts[i]]]

\* f is a function from S to T.
Maps(f, S, T) == f \in [S -> T]

\* A list with an element appended, as facts the provers need again and again.
LEMMA OneMore ==
  ASSUME NEW S, NEW acts \in Seq(S), NEW a \in S
  PROVE  /\ Append(acts, a) \in Seq(S) /\ Len(acts) \in Nat /\ Len(Append(acts, a)) = Len(acts) + 1
         /\ DOMAIN acts = 1 .. Len(acts) /\ DOMAIN Append(acts, a) = 1 .. Len(acts) + 1
         /\ \A i \in DOMAIN acts : Append(acts, a)[i] = acts[i]
         /\ Append(acts, a)[Len(acts) + 1] = a
<1> DEFINE more == Append(acts, a)
<1>1. /\ more \in Seq(S) /\ Len(more) = Len(acts) + 1 /\ more[Len(acts) + 1] = a
      /\ \A i \in 1 .. Len(acts) : more[i] = acts[i]
  BY AppendProperties
<1> HIDE DEF more
<1>2. Len(acts) \in Nat /\ DOMAIN acts = 1 .. Len(acts) /\ DOMAIN more = 1 .. Len(acts) + 1
  BY <1>1
<1> QED
  BY <1>1, <1>2 DEF more

\* The first k elements.
LEMMA PrefixType ==
  ASSUME NEW S, NEW s \in Seq(S), NEW k \in 0 .. Len(s)
  PROVE  /\ SubSeq(s, 1, k) \in Seq(S) /\ Len(SubSeq(s, 1, k)) = k
         /\ DOMAIN SubSeq(s, 1, k) = 1 .. k
         /\ \A i \in 1 .. k : SubSeq(s, 1, k)[i] = s[i]
<1> DEFINE t == SubSeq(s, 1, k)
<1>1. k \in Nat /\ \A i \in 1 .. k : s[i] \in S
  OBVIOUS
<1>2. t \in Seq(S) /\ Len(t) = (IF 1 <= k THEN k - 1 + 1 ELSE 0)
      /\ \A i \in 1 .. k - 1 + 1 : t[i] = s[1 + i - 1]
  BY <1>1, SubSeqProperties
<1> HIDE DEF t
<1>3. t \in Seq(S) /\ Len(t) = k
  BY <1>1, <1>2
<1>4. \A i \in 1 .. k : t[i] = s[i]
  BY <1>1, <1>2
<1> QED
  BY <1>3, <1>4 DEF t

\* Along and Append, Along and the first elements.
LEMMA AlongProperties ==
  ASSUME NEW S, NEW T, NEW f, Maps(f, S, T)
  PROVE  /\ \A acts \in Seq(S) : Along(acts, f) \in Seq(T) /\ Len(Along(acts, f)) = Len(acts)
         /\ \A acts \in Seq(S) : \A i \in 1 .. Len(acts) : Along(acts, f)[i] = f[acts[i]]
         /\ \A acts \in Seq(S) : \A a \in S : Along(Append(acts, a), f) = Append(Along(acts, f), f[a])
         /\ \A acts \in Seq(S) : \A k \in 0 .. Len(acts) :
              Along(SubSeq(acts, 1, k), f) = SubSeq(Along(acts, f), 1, k)
<1>0. f \in [S -> T]
  BY DEF Maps
<1>1. ASSUME NEW acts \in Seq(S)
      PROVE  /\ Along(acts, f) \in Seq(T) /\ Len(Along(acts, f)) = Len(acts)
             /\ \A i \in 1 .. Len(acts) : Along(acts, f)[i] = f[acts[i]]
  <2> DEFINE E == Along(acts, f)
  <2>1. Len(acts) \in Nat /\ DOMAIN acts = 1 .. Len(acts) /\ \A i \in DOMAIN acts : acts[i] \in S
    OBVIOUS
  <2>2. E \in [1 .. Len(acts) -> T]
    BY <1>0, <2>1 DEF Along
  <2>3. \A i \in 1 .. Len(acts) : E[i] = f[acts[i]]
    BY <2>1 DEF Along
  <2> HIDE DEF E
  <2>4. E \in Seq(T) /\ Len(E) = Len(acts)
    BY <2>1, <2>2
  <2> QED
    BY <2>3, <2>4 DEF E
<1>2. ASSUME NEW acts \in Seq(S), NEW a \in S
      PROVE  Along(Append(acts, a), f) = Append(Along(acts, f), f[a])
  <2> DEFINE n == Len(acts)
             more == Append(acts, a)
             E == Along(acts, f)
             F == Along(more, f)
             G == Append(E, f[a])
  <2>1. /\ n \in Nat /\ DOMAIN acts = 1 .. n /\ DOMAIN more = 1 .. n + 1
        /\ more \in Seq(S) /\ Len(more) = n + 1 /\ more[n + 1] = a
        /\ \A i \in 1 .. n : more[i] = acts[i]
    BY OneMore
  <2> HIDE DEF more
  <2>2. E \in Seq(T) /\ Len(E) = n /\ \A i \in 1 .. n : E[i] = f[acts[i]]
    BY <1>1
  <2>3. F \in Seq(T) /\ Len(F) = n + 1 /\ \A i \in 1 .. n + 1 : F[i] = f[more[i]]
    BY <1>1, <2>1
  <2> HIDE DEF E, F, n
  <2>4. f[a] \in T
    BY <1>0
  <2>5. /\ G \in Seq(T) /\ Len(G) = n + 1 /\ G[n + 1] = f[a]
        /\ \A i \in 1 .. n : G[i] = E[i]
    BY <2>2, <2>4, AppendProperties
  <2> HIDE DEF G
  <2>6. ASSUME NEW i \in 1 .. n + 1 PROVE G[i] = F[i]
    <3>1. CASE i = n + 1
      BY <2>1, <2>3, <2>5, <3>1
    <3>2. CASE i # n + 1
      <4>1. i \in 1 .. n
        BY <2>1, <3>2
      <4> QED
        BY <2>1, <2>2, <2>3, <2>5, <4>1
    <3> QED
      BY <3>1, <3>2
  <2>7. F = G
    BY <2>3, <2>5, <2>6, SeqEqual
  <2> QED
    BY <2>7 DEF F, G, E, more
<1>3. ASSUME NEW acts \in Seq(S), NEW k \in 0 .. Len(acts)
      PROVE  Along(SubSeq(acts, 1, k), f) = SubSeq(Along(acts, f), 1, k)
  <2>1. /\ SubSeq(acts, 1, k) \in Seq(S) /\ Len(SubSeq(acts, 1, k)) = k
        /\ \A i \in 1 .. k : SubSeq(acts, 1, k)[i] = acts[i]
    BY PrefixType
  <2> DEFINE part == SubSeq(acts, 1, k)
             E == Along(acts, f)
             F == Along(part, f)
             G == SubSeq(E, 1, k)
  <2>2. E \in Seq(T) /\ Len(E) = Len(acts) /\ \A i \in 1 .. Len(acts) : E[i] = f[acts[i]]
    BY <1>1, Zenon
  <2>3. F \in Seq(T) /\ Len(F) = k /\ \A i \in 1 .. k : F[i] = f[part[i]]
    BY <1>1, <2>1, Zenon
  <2> HIDE DEF E, F
  <2>4. G \in Seq(T) /\ Len(G) = k /\ \A i \in 1 .. k : G[i] = E[i]
    BY <2>2, PrefixType
  <2>5. k \in Nat /\ k <= Len(acts) /\ Len(acts) \in Nat
    OBVIOUS
  <2> HIDE DEF G, part
  <2>6. \A i \in 1 .. k : part[i] = acts[i]
    BY <2>1 DEF part
  <2>7. \A i \in 1 .. k : F[i] = G[i]
    BY <2>2, <2>3, <2>4, <2>5, <2>6
  <2>8. F = G
    BY <2>3, <2>4, <2>7, SeqEqual
  <2> QED
    BY <2>8 DEF F, G, E, part
<1> QED
  BY <1>1, <1>2, <1>3, Zenon

\* A list with one more element, and the first ones of a list.
More(s, a)   == Append(s, a)
Prefix(s, k) == SubSeq(s, 1, k)

LEMMA AlongMore ==
  ASSUME NEW S, NEW T, NEW f, Maps(f, S, T), NEW s \in Seq(S)
  PROVE  /\ Along(s, f) \in Seq(T) /\ Len(Along(s, f)) = Len(s)
         /\ \A i \in 1 .. Len(s) : Along(s, f)[i] = f[s[i]]
         /\ \A a \in S : Along(More(s, a), f) = More(Along(s, f), f[a])
         /\ \A k \in 0 .. Len(s) : Along(Prefix(s, k), f) = Prefix(Along(s, f), k)
BY AlongProperties DEF More, Prefix

\* What actions say of each thing, as functions.
MethodOf    == [a \in ActionsType |-> NewMethod(a)]
CodeOf      == [a \in ActionsType |-> NewCode(a)]
PathOf      == [a \in ActionsType |-> NewPath(a)]
BodyOf      == [a \in ActionsType |-> NewBody(a)]
ValueOf(k)  == [a \in ActionsType |-> NewValue(a, k)]
HeaderOf(n) == [a \in ActionsType |-> NewHeader(a, n)]
MoreOf(n)   == [a \in ActionsType |-> AddedHeader(a, n)]
QueriesOf   == [a \in ActionsType |-> NewQueries(a)]
LastOf(n)   == [a \in ActionsType |-> LastQuery(a, n)]
ExtraOf(n)  == [a \in ActionsType |-> AddedQuery(a, n)]

\* Each thing RuleMeaning asks of a list of actions is one of these functions along it.
LEMMA EachIsAlong ==
  ASSUME NEW acts \in Seq(ActionsType)
  PROVE  /\ Each(acts, NewMethod) = Along(acts, MethodOf) /\ Each(acts, NewCode) = Along(acts, CodeOf)
         /\ Each(acts, NewPath) = Along(acts, PathOf) /\ Each(acts, NewBody) = Along(acts, BodyOf)
         /\ Each(acts, NewQueries) = Along(acts, QueriesOf)
         /\ \A k : Each(acts, LAMBDA a : NewValue(a, k)) = Along(acts, ValueOf(k))
         /\ \A n : /\ Each(acts, LAMBDA a : NewHeader(a, n)) = Along(acts, HeaderOf(n))
                   /\ Each(acts, LAMBDA a : AddedHeader(a, n)) = Along(acts, MoreOf(n))
                   /\ Each(acts, LAMBDA a : LastQuery(a, n)) = Along(acts, LastOf(n))
                   /\ Each(acts, LAMBDA a : AddedQuery(a, n)) = Along(acts, ExtraOf(n))
<1>1. \A i \in DOMAIN acts : acts[i] \in ActionsType
  OBVIOUS
<1>2. Each(acts, NewMethod) = Along(acts, MethodOf) /\ Each(acts, NewCode) = Along(acts, CodeOf)
  BY <1>1, Zenon DEF Each, Along, MethodOf, CodeOf
<1>3. Each(acts, NewPath) = Along(acts, PathOf) /\ Each(acts, NewBody) = Along(acts, BodyOf)
  BY <1>1, Zenon DEF Each, Along, PathOf, BodyOf
<1>4. Each(acts, NewQueries) = Along(acts, QueriesOf)
  BY <1>1, Zenon DEF Each, Along, QueriesOf
<1>5. \A k : Each(acts, LAMBDA a : NewValue(a, k)) = Along(acts, ValueOf(k))
  BY <1>1, Zenon DEF Each, Along, ValueOf
<1>6. \A n : Each(acts, LAMBDA a : NewHeader(a, n)) = Along(acts, HeaderOf(n))
  BY <1>1, Zenon DEF Each, Along, HeaderOf
<1>7. \A n : Each(acts, LAMBDA a : AddedHeader(a, n)) = Along(acts, MoreOf(n))
  BY <1>1, Zenon DEF Each, Along, MoreOf
<1>8. \A n : Each(acts, LAMBDA a : LastQuery(a, n)) = Along(acts, LastOf(n))
  BY <1>1, Zenon DEF Each, Along, LastOf
<1>9. \A n : Each(acts, LAMBDA a : AddedQuery(a, n)) = Along(acts, ExtraOf(n))
  BY <1>1, Zenon DEF Each, Along, ExtraOf
<1> QED
  BY <1>2, <1>3, <1>4, <1>5, <1>6, <1>7, <1>8, <1>9

\* Their types.
LEMMA AlongTypes ==
  /\ Maps(MethodOf, ActionsType, Option(Methods)) /\ Maps(CodeOf, ActionsType, Option(Codes))
  /\ Maps(PathOf, ActionsType, Option(Paths)) /\ Maps(BodyOf, ActionsType, Option(BodyType))
  /\ \A n \in HeaderNames : /\ Maps(HeaderOf(n), ActionsType, Option(Seq(Values)))
                            /\ Maps(MoreOf(n), ActionsType, Seq(Values))
  /\ \A n \in QueryNames : /\ Maps(LastOf(n), ActionsType, Option(Seq(Values)))
                           /\ Maps(ExtraOf(n), ActionsType, Seq(Values))
<1>1. Maps(MethodOf, ActionsType, Option(Methods)) /\ Maps(CodeOf, ActionsType, Option(Codes))
  BY ReplaceTypes DEF Maps, MethodOf, CodeOf
<1>2. Maps(PathOf, ActionsType, Option(Paths)) /\ Maps(BodyOf, ActionsType, Option(BodyType))
  BY ReplaceTypes DEF Maps, PathOf, BodyOf
<1>3. ASSUME NEW n \in HeaderNames
      PROVE  /\ Maps(HeaderOf(n), ActionsType, Option(Seq(Values)))
             /\ Maps(MoreOf(n), ActionsType, Seq(Values))
  BY ReplaceTypes, PatchTypes DEF Maps, HeaderOf, MoreOf
<1>4. ASSUME NEW n \in QueryNames
      PROVE  /\ Maps(LastOf(n), ActionsType, Option(Seq(Values)))
             /\ Maps(ExtraOf(n), ActionsType, Seq(Values))
  BY LastQueryType, PatchTypes DEF Maps, LastOf, ExtraOf
<1> QED
  BY <1>1, <1>2, <1>3, <1>4

\* The last place and the last value along a list, with one action more.
LEMMA LastAlong ==
  ASSUME NEW S, NEW T, NEW f, Maps(f, S, T), NEW s \in Seq(S)
  PROVE  /\ LastAt(Along(s, f)) \in 0 .. Len(s)
         /\ LastAt(Along(s, f)) # 0 => f[s[LastAt(Along(s, f))]] # {}
         /\ \A a \in S :
              /\ LastAt(Along(More(s, a), f)) = IF f[a] = {} THEN LastAt(Along(s, f)) ELSE Len(s) + 1
              /\ \A d : LastGiven(Along(More(s, a), f), d)
                          = IF f[a] = {} THEN LastGiven(Along(s, f), d) ELSE The(f[a])
<1> DEFINE E == Along(s, f)
<1>1. E \in Seq(T) /\ Len(E) = Len(s) /\ \A i \in 1 .. Len(s) : E[i] = f[s[i]]
  BY AlongMore
<1>2. \A a \in S : Along(More(s, a), f) = More(E, f[a]) /\ f[a] \in T
  <2>1. \A a \in S : f[a] \in T
    BY DEF Maps
  <2> QED
    BY <2>1, AlongMore
<1>3. Len(s) \in Nat
  OBVIOUS
<1> HIDE DEF E
<1>4. LastAt(E) \in 0 .. Len(E) /\ (LastAt(E) # 0 => E[LastAt(E)] # {})
  BY <1>1, LastAtIs
<1>5. LastAt(E) # 0 => f[s[LastAt(E)]] # {}
  BY <1>1, <1>3, <1>4
<1>6. ASSUME NEW a \in S
      PROVE  /\ LastAt(More(E, f[a])) = IF f[a] = {} THEN LastAt(E) ELSE Len(E) + 1
             /\ \A d : LastGiven(More(E, f[a]), d) = IF f[a] = {} THEN LastGiven(E, d) ELSE The(f[a])
  BY <1>1, <1>2, LastAtAppend, LastGivenAppend DEF More
<1> QED
  BY <1>1, <1>2, <1>4, <1>5, <1>6 DEF E

\* The parameters the next lemma is about, together.
FromCase(S, V, f, s, a, i) ==
  Maps(f, S, Seq(V)) /\ s \in Seq(S) /\ a \in S /\ i \in 0 .. Len(s) + 1

LEMMA FromMore ==
  ASSUME NEW S, NEW V, NEW f, NEW s, NEW a, NEW i, FromCase(S, V, f, s, a, i)
  PROVE  /\ From(Along(s, f), i) \in Seq(V)
         /\ From(Along(More(s, a), f), i) = From(Along(s, f), i) \o f[a]
         /\ i = Len(s) + 1 => From(Along(More(s, a), f), i) = f[a]
<1> DEFINE E == Along(s, f)
           x == f[a]
<1>0. Maps(f, S, Seq(V)) /\ s \in Seq(S) /\ a \in S /\ i \in 0 .. Len(s) + 1
  BY DEF FromCase
<1>1. E \in Seq(Seq(V)) /\ Len(E) = Len(s)
  BY <1>0, AlongMore
<1>2. x \in Seq(V)
  BY <1>0 DEF Maps
<1>3. Along(More(s, a), f) = More(E, x)
  BY <1>0, AlongMore
<1> HIDE DEF E, x
<1>4. Lists(E, V) /\ i \in 0 .. Len(E) + 1
  BY <1>0, <1>1 DEF Lists
<1>5. /\ From(More(E, x), i) = From(E, i) \o x /\ From(E, i) \in Seq(V)
      /\ i = Len(E) + 1 => From(More(E, x), i) = x
  BY <1>2, <1>4, FromAppend DEF More
<1> QED
  BY <1>1, <1>3, <1>5 DEF E, x

----------------------------------------------------------------------------
(* The meaning of one action more, field by field.                         *)

\* Of method, code, path and body the last one given counts.
LEMMA FieldsAppend ==
  ASSUME NEW s \in Seq(ActionsType), NEW a \in ActionsType, NEW d
  PROVE  /\ LastGiven(Each(More(s, a), NewMethod), d)
              = IF NewMethod(a) = {} THEN LastGiven(Each(s, NewMethod), d) ELSE The(NewMethod(a))
         /\ LastGiven(Each(More(s, a), NewCode), d)
              = IF NewCode(a) = {} THEN LastGiven(Each(s, NewCode), d) ELSE The(NewCode(a))
         /\ LastGiven(Each(More(s, a), NewPath), d)
              = IF NewPath(a) = {} THEN LastGiven(Each(s, NewPath), d) ELSE The(NewPath(a))
         /\ LastGiven(Each(More(s, a), NewBody), d)
              = IF NewBody(a) = {} THEN LastGiven(Each(s, NewBody), d) ELSE The(NewBody(a))
<1>1. More(s, a) \in Seq(ActionsType)
  BY OneMore DEF More
<1>2. /\ MethodOf[a] = NewMethod(a) /\ CodeOf[a] = NewCode(a)
      /\ PathOf[a] = NewPath(a) /\ BodyOf[a] = NewBody(a)
  BY DEF MethodOf, CodeOf, PathOf, BodyOf
<1>3. LastGiven(Each(More(s, a), NewMethod), d)
        = IF NewMethod(a) = {} THEN LastGiven(Each(s, NewMethod), d) ELSE The(NewMethod(a))
  <2>1. Maps(MethodOf, ActionsType, Option(Methods))
    BY AlongTypes
  <2>2. LastGiven(Along(More(s, a), MethodOf), d)
          = IF MethodOf[a] = {} THEN LastGiven(Along(s, MethodOf), d) ELSE The(MethodOf[a])
    BY <2>1, LastAlong
  <2> QED
    BY <1>1, <1>2, <2>2, EachIsAlong
<1>4. LastGiven(Each(More(s, a), NewCode), d)
        = IF NewCode(a) = {} THEN LastGiven(Each(s, NewCode), d) ELSE The(NewCode(a))
  <2>1. Maps(CodeOf, ActionsType, Option(Codes))
    BY AlongTypes
  <2>2. LastGiven(Along(More(s, a), CodeOf), d)
          = IF CodeOf[a] = {} THEN LastGiven(Along(s, CodeOf), d) ELSE The(CodeOf[a])
    BY <2>1, LastAlong
  <2> QED
    BY <1>1, <1>2, <2>2, EachIsAlong
<1>5. LastGiven(Each(More(s, a), NewPath), d)
        = IF NewPath(a) = {} THEN LastGiven(Each(s, NewPath), d) ELSE The(NewPath(a))
  <2>1. Maps(PathOf, ActionsType, Option(Paths))
    BY AlongTypes
  <2>2. LastGiven(Along(More(s, a), PathOf), d)
          = IF PathOf[a] = {} THEN LastGiven(Along(s, PathOf), d) ELSE The(PathOf[a])
    BY <2>1, LastAlong
  <2> QED
    BY <1>1, <1>2, <2>2, EachIsAlong
<1>6. LastGiven(Each(More(s, a), NewBody), d)
        = IF NewBody(a) = {} THEN LastGiven(Each(s, NewBody), d) ELSE The(NewBody(a))
  <2>1. Maps(BodyOf, ActionsType, Option(BodyType))
    BY AlongTypes
  <2>2. LastGiven(Along(More(s, a), BodyOf), d)
          = IF BodyOf[a] = {} THEN LastGiven(Along(s, BodyOf), d) ELSE The(BodyOf[a])
    BY <2>1, LastAlong
  <2> QED
    BY <1>1, <1>2, <2>2, EachIsAlong
<1> QED
  BY <1>3, <1>4, <1>5, <1>6

\* What is given last has the type of what may be given.
LEMMA LastAlongType ==
  ASSUME NEW S, NEW T, NEW f, Maps(f, S, Option(T)), NEW s \in Seq(S), NEW d \in T
  PROVE  LastGiven(Along(s, f), d) \in T
<1> DEFINE E == Along(s, f)
           i == LastAt(E)
<1>1. E \in Seq(Option(T)) /\ Len(E) = Len(s) /\ Len(s) \in Nat
  BY AlongMore
<1> HIDE DEF E
<1>2. i \in 0 .. Len(E) /\ (i # 0 => E[i] # {})
  BY <1>1, LastAtIs
<1>3. CASE i = 0
  BY <1>3 DEF LastGiven, E
<1>4. CASE i # 0
  <2>1. E[i] \in Option(T) /\ E[i] # {}
    BY <1>1, <1>2, <1>4
  <2>2. The(E[i]) \in T
    BY <2>1, OptionIs
  <2> QED
    BY <1>4, <2>2 DEF LastGiven, E
<1> QED
  BY <1>3, <1>4

\* Of the other two no type is needed but that they are functions.
LEMMA OtherTypes ==
  /\ \A k : Maps(ValueOf(k), ActionsType, {NewValue(a, k) : a \in ActionsType})
  /\ Maps(QueriesOf, ActionsType, {NewQueries(a) : a \in ActionsType})
BY DEF Maps, ValueOf, QueriesOf

\* Concatenation is associative.
LEMMA ThreeLists ==
  ASSUME NEW x \in Seq(Values), NEW y \in Seq(Values), NEW z \in Seq(Values)
  PROVE  x \o (y \o z) = (x \o y) \o z
<1>1. (x \o y) \o z = x \o (y \o z)
  BY ConcatAssociative
<1> QED
  BY <1>1

\* What is appended to a header from place k on.
LEMMA AddedAppend ==
  ASSUME NEW s \in Seq(ActionsType), NEW a \in ActionsType, NEW n \in HeaderNames,
         NEW k \in 0 .. Len(s) + 1
  PROVE  /\ From(Along(More(s, a), MoreOf(n)), k) = From(Along(s, MoreOf(n)), k) \o AddedHeader(a, n)
         /\ From(Along(s, MoreOf(n)), k) \in Seq(Values)
         /\ k = Len(s) + 1 => From(Along(More(s, a), MoreOf(n)), k) = AddedHeader(a, n)
<1>1. MoreOf(n)[a] = AddedHeader(a, n)
  BY DEF MoreOf
<1>2. FromCase(ActionsType, Values, MoreOf(n), s, a, k)
  BY AlongTypes DEF FromCase
<1> QED
  BY <1>1, <1>2, FromMore

\* A header: an action replaces what was meant so far, if it says so, and appends.
LEMMA HeaderAppend ==
  ASSUME NEW s \in Seq(ActionsType), NEW a \in ActionsType, NEW n \in HeaderNames,
         NEW values \in Seq(Values)
  PROVE  MeantHeader(More(s, a), n, values)
           = (IF NewHeader(a, n) = {} THEN MeantHeader(s, n, values) ELSE The(NewHeader(a, n)))
               \o AddedHeader(a, n)
<1> DEFINE more  == More(s, a)
           i     == LastAt(Along(s, HeaderOf(n)))
           j     == LastAt(Along(more, HeaderOf(n)))
           given == LastGiven(Along(s, HeaderOf(n)), values)
<1>1. /\ more \in Seq(ActionsType) /\ Len(s) \in Nat
      /\ HeaderOf(n)[a] = NewHeader(a, n) /\ MoreOf(n)[a] = AddedHeader(a, n)
  BY OneMore DEF More, HeaderOf, MoreOf
<1>2. /\ Maps(HeaderOf(n), ActionsType, Option(Seq(Values)))
      /\ Maps(MoreOf(n), ActionsType, Seq(Values))
  BY AlongTypes
<1>3. /\ MeantHeader(s, n, values) = given \o From(Along(s, MoreOf(n)), i)
      /\ MeantHeader(more, n, values)
           = LastGiven(Along(more, HeaderOf(n)), values) \o From(Along(more, MoreOf(n)), j)
  BY <1>1, EachIsAlong, Zenon DEF MeantHeader
<1>4. /\ i \in 0 .. Len(s) /\ j = IF NewHeader(a, n) = {} THEN i ELSE Len(s) + 1
      /\ LastGiven(Along(more, HeaderOf(n)), values)
           = IF NewHeader(a, n) = {} THEN given ELSE The(NewHeader(a, n))
  BY <1>1, <1>2, LastAlong
<1>5. given \in Seq(Values)
  BY <1>2, LastAlongType
<1>6. AddedHeader(a, n) \in Seq(Values)
  BY PatchTypes
<1>9. ASSUME NEW k \in 0 .. Len(s) + 1
      PROVE  /\ From(Along(more, MoreOf(n)), k) = From(Along(s, MoreOf(n)), k) \o AddedHeader(a, n)
             /\ From(Along(s, MoreOf(n)), k) \in Seq(Values)
             /\ k = Len(s) + 1 => From(Along(more, MoreOf(n)), k) = AddedHeader(a, n)
  BY AddedAppend
<1> HIDE DEF more, i, j, given
<1>7. CASE NewHeader(a, n) = {}
  <2>1. i \in 0 .. Len(s) + 1
    BY <1>1, <1>4
  <2>2. /\ From(Along(more, MoreOf(n)), i) = From(Along(s, MoreOf(n)), i) \o AddedHeader(a, n)
        /\ From(Along(s, MoreOf(n)), i) \in Seq(Values)
    BY <1>9, <2>1, Zenon
  <2>3. MeantHeader(more, n, values)
          = given \o (From(Along(s, MoreOf(n)), i) \o AddedHeader(a, n))
    BY <1>3, <1>4, <1>7, <2>2
  <2> DEFINE rest == From(Along(s, MoreOf(n)), i)
             added == AddedHeader(a, n)
  <2>4. rest \in Seq(Values) /\ added \in Seq(Values)
    BY <1>6, <2>2
  <2> HIDE DEF rest, added
  <2>5. given \o (rest \o added) = (given \o rest) \o added
    BY <1>5, <2>4, ThreeLists
  <2>6. MeantHeader(more, n, values) = MeantHeader(s, n, values) \o AddedHeader(a, n)
    BY <1>3, <2>3, <2>5 DEF rest, added
  <2> QED
    BY <1>7, <2>6 DEF more
<1>8. CASE NewHeader(a, n) # {}
  <2>1. Len(s) + 1 \in 0 .. Len(s) + 1
    BY <1>1
  <2>2. From(Along(more, MoreOf(n)), Len(s) + 1) = AddedHeader(a, n)
    BY <1>9, <2>1
  <2> QED
    BY <1>3, <1>4, <1>8, <2>2 DEF more
<1> QED
  BY <1>7, <1>8

\* Of all the values of a parameter, the last one is the last that was given.
LastParameter(s, n, values) ==
  LastOnly(MeantParameter(s, n, values))
    = LastGiven(Each(s, LAMBDA a : LastQuery(a, n)), LastOnly(values))

\* What is appended to a parameter from place k on.
LEMMA ExtraAppend ==
  ASSUME NEW s \in Seq(ActionsType), NEW a \in ActionsType, NEW n \in QueryNames,
         NEW k \in 0 .. Len(s) + 1
  PROVE  /\ From(Along(More(s, a), ExtraOf(n)), k) = From(Along(s, ExtraOf(n)), k) \o AddedQuery(a, n)
         /\ From(Along(s, ExtraOf(n)), k) \in Seq(Values)
         /\ k = Len(s) + 1 => From(Along(More(s, a), ExtraOf(n)), k) = AddedQuery(a, n)
<1>1. ExtraOf(n)[a] = AddedQuery(a, n)
  BY DEF ExtraOf
<1>2. FromCase(ActionsType, Values, ExtraOf(n), s, a, k)
  BY AlongTypes DEF FromCase
<1> QED
  BY <1>1, <1>2, FromMore

\* A parameter: an action that replaces queries leaves the value it gives, or the
\* last one there is; then it appends.
LEMMA ParameterAppend ==
  ASSUME NEW s \in Seq(ActionsType), NEW a \in ActionsType, NEW n \in QueryNames,
         NEW values \in Seq(Values), LastParameter(s, n, values)
  PROVE  /\ MeantParameter(More(s, a), n, values)
              = (IF NewQueries(a) = {} THEN MeantParameter(s, n, values)
                 ELSE IF NewQuery(a, n) # {} THEN The(NewQuery(a, n))
                 ELSE LastOnly(MeantParameter(s, n, values))) \o AddedQuery(a, n)
         /\ LastParameter(More(s, a), n, values)
<1> DEFINE more == More(s, a)
           i    == LastAt(Along(s, QueriesOf))
           j    == LastAt(Along(more, QueriesOf))
           LastBefore(t, k) == LastGiven(Prefix(Along(t, LastOf(n)), k - 1), LastOnly(values))
           Start(t, k) == IF k = 0 THEN values
                          ELSE IF NewQuery(t[k], n) # {} THEN The(NewQuery(t[k], n))
                          ELSE LastBefore(t, k)
           cur  == MeantParameter(s, n, values)
           last == LastGiven(Along(s, LastOf(n)), LastOnly(values))
           new  == IF NewQueries(a) = {} THEN cur
                   ELSE IF NewQuery(a, n) # {} THEN The(NewQuery(a, n)) ELSE LastOnly(cur)
<1>1. /\ more \in Seq(ActionsType) /\ Len(s) \in Nat /\ Len(more) = Len(s) + 1
      /\ more[Len(s) + 1] = a /\ \A k \in 1 .. Len(s) : more[k] = s[k] /\ s[k] \in ActionsType
  BY OneMore DEF More
<1>2. /\ QueriesOf[a] = NewQueries(a) /\ LastOf(n)[a] = LastQuery(a, n)
      /\ ExtraOf(n)[a] = AddedQuery(a, n)
  BY DEF QueriesOf, LastOf, ExtraOf
<1>3. /\ Maps(QueriesOf, ActionsType, {NewQueries(b) : b \in ActionsType})
      /\ Maps(LastOf(n), ActionsType, Option(Seq(Values)))
      /\ Maps(ExtraOf(n), ActionsType, Seq(Values))
  BY AlongTypes, OtherTypes
<1>4. /\ cur = Start(s, i) \o From(Along(s, ExtraOf(n)), i)
      /\ MeantParameter(more, n, values) = Start(more, j) \o From(Along(more, ExtraOf(n)), j)
  BY <1>1, EachIsAlong, Zenon DEF MeantParameter, Prefix
<1>5. i \in 0 .. Len(s) /\ j = IF NewQueries(a) = {} THEN i ELSE Len(s) + 1
  BY <1>2, <1>3, LastAlong
<1>6. LastOnly(cur) = last
  BY EachIsAlong DEF LastParameter
<1>7. /\ LastGiven(Along(more, LastOf(n)), LastOnly(values))
           = IF LastQuery(a, n) = {} THEN last ELSE The(LastQuery(a, n))
  BY <1>2, <1>3, LastAlong
<1>8. /\ Along(more, LastOf(n)) = More(Along(s, LastOf(n)), LastQuery(a, n))
      /\ Along(s, LastOf(n)) \in Seq(Option(Seq(Values))) /\ Len(Along(s, LastOf(n))) = Len(s)
  <2>1. Along(More(s, a), LastOf(n)) = More(Along(s, LastOf(n)), LastOf(n)[a])
    BY <1>3, AlongMore
  <2> QED
    BY <1>2, <1>3, <2>1, AlongMore
<1>9. LastQuery(a, n) \in Option(Seq(Values)) /\ LastOnly(values) \in Seq(Values)
  BY LastQueryType, LastOnlyType
<1>10. ASSUME NEW k \in 0 .. Len(s) + 1
       PROVE  /\ From(Along(more, ExtraOf(n)), k) = From(Along(s, ExtraOf(n)), k) \o AddedQuery(a, n)
              /\ From(Along(s, ExtraOf(n)), k) \in Seq(Values)
              /\ k = Len(s) + 1 => From(Along(more, ExtraOf(n)), k) = AddedQuery(a, n)
  BY ExtraAppend
<1>11. AddedQuery(a, n) \in Seq(Values)
  BY PatchTypes
<1> HIDE DEF i, j, more
<1>12. Start(s, i) \in Seq(Values)
  <2>1. CASE i = 0
    BY <2>1
  <2>2. CASE i # 0
    <3>1. i \in 1 .. Len(s) /\ s[i] \in ActionsType
      BY <1>1, <1>5, <2>2
    <3>2. NewQuery(s[i], n) # {} => The(NewQuery(s[i], n)) \in Seq(Values)
      <4>1. NewQuery(s[i], n) \in Option(Seq(Values))
        BY <3>1, ReplaceTypes
      <4> QED
        BY <4>1, OptionIs
    <3>3. LastBefore(s, i) \in Seq(Values)
      <4> DEFINE part == Prefix(s, i - 1)
      <4>1. part \in Seq(ActionsType) /\ Prefix(Along(s, LastOf(n)), i - 1) = Along(part, LastOf(n))
        <5>1. i - 1 \in 0 .. Len(s)
          BY <3>1, <1>1
        <5> QED
          <6>1. Along(Prefix(s, i - 1), LastOf(n)) = Prefix(Along(s, LastOf(n)), i - 1)
            BY <1>3, <5>1, AlongMore
          <6>2. Prefix(s, i - 1) \in Seq(ActionsType)
            BY <5>1, PrefixType DEF Prefix
          <6> QED
            BY <6>1, <6>2
      <4> HIDE DEF part
      <4>2. LastGiven(Along(part, LastOf(n)), LastOnly(values)) \in Seq(Values)
        BY <1>3, <1>9, <4>1, LastAlongType
      <4> QED
        BY <4>1, <4>2
    <3> QED
      BY <2>2, <3>2, <3>3
  <2> QED
    BY <2>1, <2>2
<1>13. cur \in Seq(Values)
  BY <1>1, <1>4, <1>5, <1>10, <1>12, ConcatProperties
<1>14. new \in Seq(Values)
  <2>1. LastOnly(cur) \in Seq(Values)
    BY <1>13, LastOnlyType
  <2>2. NewQuery(a, n) # {} => The(NewQuery(a, n)) \in Seq(Values)
    BY ReplaceTypes, OptionIs
  <2> QED
    BY <1>13, <2>1, <2>2
<1>15. MeantParameter(more, n, values) = new \o AddedQuery(a, n)
  <2>1. CASE NewQueries(a) = {}
    <3>1. Start(more, i) = Start(s, i)
      <4>1. CASE i = 0
        BY <4>1
      <4>2. CASE i # 0
        <5>1. i \in 1 .. Len(s) /\ i - 1 \in 0 .. Len(s) /\ more[i] = s[i]
          BY <1>1, <1>5, <4>2
        <5>2. LastBefore(more, i) = LastBefore(s, i)
          <6> DEFINE E == Along(s, LastOf(n))
                     x == LastQuery(a, n)
          <6>1. Prefix(More(E, x), i - 1) = Prefix(E, i - 1)
            <7>1. E \in Seq(Option(Seq(Values))) /\ Len(E) = Len(s)
              BY <1>8
            <7> HIDE DEF E, x
            <7> QED
              BY <1>9, <5>1, <7>1 DEF Prefix, More
          <6> QED
            BY <1>8, <6>1
        <5> QED
          BY <4>2, <5>1, <5>2
      <4> QED
        BY <4>1, <4>2
    <3> DEFINE start == Start(s, i)
               rest  == From(Along(s, ExtraOf(n)), i)
               added == AddedQuery(a, n)
    <3>4. i \in 0 .. Len(s) + 1 /\ i = j
      BY <1>1, <1>5, <2>1
    <3>5. start \in Seq(Values) /\ rest \in Seq(Values) /\ added \in Seq(Values)
      BY <1>10, <1>11, <1>12, <3>4
    <3>6. From(Along(more, ExtraOf(n)), i) = rest \o added
      BY <1>10, <3>4
    <3>7. cur = start \o rest
      BY <1>4
    <3>8. MeantParameter(more, n, values) = start \o From(Along(more, ExtraOf(n)), i)
      BY <1>4, <3>1, <3>4
    <3> HIDE DEF start, rest, added, cur
    <3>3. start \o (rest \o added) = (start \o rest) \o added
      BY <3>5, ThreeLists
    <3> QED
      BY <2>1, <3>3, <3>6, <3>7, <3>8 DEF added
  <2>2. CASE NewQueries(a) # {}
    <3>0. j = Len(s) + 1 /\ j \in 0 .. Len(s) + 1 /\ j # 0 /\ j - 1 = Len(s)
      BY <1>1, <1>5, <2>2
    <3>1. From(Along(more, ExtraOf(n)), j) = AddedQuery(a, n)
      BY <1>10, <3>0
    <3>2. Start(more, j) = new
      <4>1. LastBefore(more, j) = LastOnly(cur)
        <5> DEFINE E == Along(s, LastOf(n))
                   x == LastQuery(a, n)
        <5>1. Prefix(More(E, x), Len(s)) = E
          <6>1. E \in Seq(Option(Seq(Values))) /\ Len(E) = Len(s)
            BY <1>8
          <6> HIDE DEF E, x
          <6> QED
            BY <1>1, <1>9, <6>1 DEF Prefix, More
        <5> QED
          BY <1>6, <1>8, <3>0, <5>1
      <4> QED
        BY <1>1, <2>2, <3>0, <4>1
    <3> QED
      BY <1>4, <3>1, <3>2
  <2> QED
    BY <2>1, <2>2
<1>16. LastParameter(more, n, values)
  <2> DEFINE added == AddedQuery(a, n)
  <2>1. LastOnly(new \o added) = IF added = <<>> THEN LastOnly(new) ELSE LastOnly(added)
    BY <1>11, <1>14, LastOnlyConcat
  <2>2. LastOnly(new) = IF NewQuery(a, n) = {} THEN last ELSE The(NewQuery(a, n))
    <3>1. CASE NewQuery(a, n) = {}
      <4>1. LastOnly(LastOnly(cur)) = LastOnly(cur)
        BY <1>13, LastOnlyType
      <4>2. new = cur \/ new = LastOnly(cur)
        BY <3>1
      <4> HIDE DEF new, cur, last
      <4>3. LastOnly(new) = last
        BY <1>6, <4>1, <4>2
      <4> QED
        BY <3>1, <4>3
    <3>2. CASE NewQuery(a, n) # {}
      <4>1. NewQueries(a) # {}
        BY <3>2 DEF NewQuery
      <4>2. new = The(NewQuery(a, n))
        BY <3>2, <4>1
      <4>3. new \in NewQuery(a, n)
        BY <3>2, <4>2, ReplaceTypes, OptionIs
      <4> HIDE DEF new, last
      <4>4. PICK v : new = <<v>>
        BY <4>3 DEF NewQuery
      <4>5. LastOnly(<<v>>) = <<v>>
        BY DEF LastOnly, Last
      <4> QED
        BY <3>2, <4>2, <4>4, <4>5
    <3> QED
      BY <3>1, <3>2
  <2>3. LastOnly(new \o added) = IF LastQuery(a, n) = {} THEN last ELSE The(LastQuery(a, n))
    BY <2>1, <2>2, TheOf DEF LastQuery
  <2> QED
    BY <1>1, <1>7, <1>15, <2>3, EachIsAlong DEF LastParameter
<1> QED
  BY <1>15, <1>16 DEF more

----------------------------------------------------------------------------
(* Bodies.                                                                 *)

\* The last body given, and the last value given to a key.
BodyGiven(s, body)     == LastGiven(Each(s, NewBody), body)
ValueGiven(s, body, k) == LastGiven(Each(s, LAMBDA a : NewValue(a, k)), Value(body, k))

\* The body meant, in these words.
LEMMA MeantBodyIs ==
  ASSUME NEW s, NEW body
  PROVE  MeantBody(s, body) = IF BodyGiven(s, body) = Text THEN Text
                              ELSE [k \in Keys |-> ValueGiven(s, body, k)]
BY Zenon DEF MeantBody, BodyGiven, ValueGiven

\* With one action more, the last body and the last value of a key it gives.
LEMMA GivenAppend ==
  ASSUME NEW s \in Seq(ActionsType), NEW a \in ActionsType, NEW body
  PROVE  /\ BodyGiven(More(s, a), body)
              = IF NewBody(a) = {} THEN BodyGiven(s, body) ELSE The(NewBody(a))
         /\ \A k : ValueGiven(More(s, a), body, k)
              = IF NewValue(a, k) = {} THEN ValueGiven(s, body, k) ELSE The(NewValue(a, k))
<1>1. BodyGiven(More(s, a), body)
        = IF NewBody(a) = {} THEN BodyGiven(s, body) ELSE The(NewBody(a))
  BY FieldsAppend DEF BodyGiven
<1>2. ASSUME NEW k
      PROVE  ValueGiven(More(s, a), body, k)
               = IF NewValue(a, k) = {} THEN ValueGiven(s, body, k) ELSE The(NewValue(a, k))
  <2>1. Maps(ValueOf(k), ActionsType, {NewValue(b, k) : b \in ActionsType})
    BY OtherTypes
  <2>2. ValueOf(k)[a] = NewValue(a, k) /\ More(s, a) \in Seq(ActionsType)
    BY OneMore DEF ValueOf, More
  <2>3. LastGiven(Along(More(s, a), ValueOf(k)), Value(body, k))
          = IF ValueOf(k)[a] = {} THEN LastGiven(Along(s, ValueOf(k)), Value(body, k))
            ELSE The(ValueOf(k)[a])
    BY <2>1, LastAlong
  <2> QED
    BY <2>2, <2>3, EachIsAlong DEF ValueGiven
<1> QED
  BY <1>1, <1>2

\* What one action says of a key.
LEMMA NewValueIs ==
  ASSUME NEW a, NEW k
  PROVE  /\ BodyDiff(a) = {} /\ NewBody(a) = {} => NewValue(a, k) = {}
         /\ \A b : BodyDiff(a) = {} /\ NewBody(a) = {b} => NewValue(a, k) = {Value(b, k)}
         /\ \A d : BodyDiff(a) = {d} /\ d[k] # Absent
                     => NewValue(a, k) = {IF d[k] = Null THEN Absent ELSE d[k]}
         /\ \A d : BodyDiff(a) = {d} /\ d[k] = Absent /\ NewBody(a) = {} => NewValue(a, k) = {}
         /\ \A d, b : BodyDiff(a) = {d} /\ d[k] = Absent /\ NewBody(a) = {b}
                        => NewValue(a, k) = {Value(b, k)}
<1>1. BodyDiff(a) = {} => Merged(a, k) = {}
  BY DEF Merged
<1>2. \A d : BodyDiff(a) = {d} /\ d[k] = Absent => Merged(a, k) = {}
  BY DEF Merged
<1>3. ASSUME NEW d, BodyDiff(a) = {d}, d[k] # Absent
      PROVE  Merged(a, k) = {IF d[k] = Null THEN Absent ELSE d[k]}
  <2>1. {x \in BodyDiff(a) : x[k] # Absent} = {d}
    BY <1>3
  <2> QED
    BY <2>1 DEF Merged
<1>4. NewBody(a) = {} => {Value(b, k) : b \in NewBody(a)} = {}
  OBVIOUS
<1>5. \A b : NewBody(a) = {b} => {Value(c, k) : c \in NewBody(a)} = {Value(b, k)}
  OBVIOUS
<1> QED
  BY <1>1, <1>2, <1>3, <1>4, <1>5 DEF NewValue

\* A merge of objects is an object.
LEMMA MergeType ==
  ASSUME NEW doc \in ObjectType, NEW patch \in [Keys -> Values \cup {Absent, Null}]
  PROVE  Merge(doc, patch) \in ObjectType
<1>1. ASSUME NEW k \in Keys
      PROVE  (IF patch[k] = Absent THEN doc[k] ELSE IF patch[k] = Null THEN Absent ELSE patch[k])
               \in Values \cup {Absent}
  BY DEF ObjectType
<1> QED
  BY <1>1 DEF Merge, ObjectType

\* The body an action leaves, where it leaves one.
Rebodied(a, body) ==
  LET new == IF NewBody(a) = {} THEN body ELSE The(NewBody(a))
  IN IF BodyDiff(a) = {} THEN new ELSE Merge(new, The(BodyDiff(a)))

\* The last body given tells which bodies are objects.
BodySays(s, body, now) ==
  /\ now \in BodyType /\ now = MeantBody(s, body)
  /\ now = Text <=> BodyGiven(s, body) = Text

\* The body after the replacement of one action more.
LEMMA NewBodyAppend ==
  ASSUME NEW s \in Seq(ActionsType), NEW a \in ActionsType, NEW body, NEW now,
         BodySays(s, body, now)
  PROVE  LET new == IF NewBody(a) = {} THEN now ELSE The(NewBody(a))
         IN /\ new \in BodyType
            /\ new = Text <=> BodyGiven(More(s, a), body) = Text
            /\ new # Text => \A k \in Keys :
                 (IF NewBody(a) = {} THEN ValueGiven(s, body, k) ELSE Value(The(NewBody(a)), k)) = new[k]
<1> DEFINE new == IF NewBody(a) = {} THEN now ELSE The(NewBody(a))
<1>1. BodyGiven(More(s, a), body) = IF NewBody(a) = {} THEN BodyGiven(s, body) ELSE The(NewBody(a))
  BY GivenAppend
<1>2. CASE NewBody(a) = {}
  <2>1. new = now
    BY <1>2
  <2>2. new # Text => new = [k \in Keys |-> ValueGiven(s, body, k)]
    BY <2>1, MeantBodyIs DEF BodySays
  <2>3. new # Text => \A k \in Keys : ValueGiven(s, body, k) = new[k]
    BY <2>2
  <2> QED
    BY <1>1, <1>2, <2>1, <2>3 DEF BodySays
<1>3. CASE NewBody(a) # {}
  <2>1. PICK b \in BodyType : NewBody(a) = {b} /\ The(NewBody(a)) = b
    BY <1>3, ReplaceTypes, OptionIs
  <2>2. new = b
    BY <2>1
  <2>3. new # Text => \A k \in Keys : Value(b, k) = new[k]
    BY <2>2 DEF Value
  <2> QED
    BY <1>1, <1>3, <2>1, <2>2, <2>3
<1> QED
  BY <1>2, <1>3

\* The body after one action more that does not fail.
LEMMA BodyAppend ==
  ASSUME NEW s \in Seq(ActionsType), NEW a \in ActionsType, NEW body, NEW now,
         BodySays(s, body, now),
         BodyDiff(a) # {} => BodyGiven(More(s, a), body) # Text
  PROVE  BodySays(More(s, a), body, Rebodied(a, now))
<1> DEFINE new == IF NewBody(a) = {} THEN now ELSE The(NewBody(a))
           more == More(s, a)
           kept(k) == IF NewBody(a) = {} THEN ValueGiven(s, body, k) ELSE Value(The(NewBody(a)), k)
<1>1. /\ new \in BodyType
      /\ new = Text <=> BodyGiven(more, body) = Text
      /\ new # Text => \A k \in Keys : kept(k) = new[k]
  BY NewBodyAppend
<1>2. \A k : ValueGiven(more, body, k)
               = IF NewValue(a, k) = {} THEN ValueGiven(s, body, k) ELSE The(NewValue(a, k))
  BY GivenAppend
<1>3. MeantBody(more, body) = IF BodyGiven(more, body) = Text THEN Text
                              ELSE [k \in Keys |-> ValueGiven(more, body, k)]
  BY MeantBodyIs
<1>4. Rebodied(a, now) = IF BodyDiff(a) = {} THEN new ELSE Merge(new, The(BodyDiff(a)))
  BY DEF Rebodied
<1>5. NewBody(a) # {} => NewBody(a) = {The(NewBody(a))}
  BY ReplaceTypes, OptionIs
<1>6. ASSUME NEW k,
             \/ NewBody(a) = {} /\ NewValue(a, k) = {}
             \/ NewBody(a) # {} /\ NewValue(a, k) = {Value(The(NewBody(a)), k)}
      PROVE  ValueGiven(more, body, k) = kept(k)
  <2>1. The({Value(The(NewBody(a)), k)}) = Value(The(NewBody(a)), k)
    BY TheOf
  <2> QED
    BY <1>2, <1>6, <2>1
<1> HIDE DEF new, more, kept
<1>7. new # Text => new \in ObjectType
  BY <1>1 DEF BodyType
<1>8. CASE BodyDiff(a) = {}
  <2>1. ASSUME NEW k PROVE ValueGiven(more, body, k) = kept(k)
    <3>1. \/ NewBody(a) = {} /\ NewValue(a, k) = {}
          \/ NewBody(a) # {} /\ NewValue(a, k) = {Value(The(NewBody(a)), k)}
      BY <1>5, <1>8, NewValueIs
    <3> QED
      BY <1>6, <3>1
  <2>2. new # Text => MeantBody(more, body) = new
    <3>1. SUFFICES ASSUME new # Text PROVE MeantBody(more, body) = new
      OBVIOUS
    <3>2. [k \in Keys |-> ValueGiven(more, body, k)] = [k \in Keys |-> new[k]]
      BY <1>1, <2>1, <3>1
    <3>3. [k \in Keys |-> new[k]] = new
      BY <1>7, <3>1 DEF ObjectType
    <3> QED
      BY <1>1, <1>3, <3>1, <3>2, <3>3
  <2>3. Rebodied(a, now) = new
    BY <1>4, <1>8
  <2> QED
    BY <1>1, <1>3, <2>2, <2>3 DEF BodySays, more
<1>9. CASE BodyDiff(a) # {}
  <2>1. PICK d \in [Keys -> Values \cup {Absent, Null}] : BodyDiff(a) = {d} /\ The(BodyDiff(a)) = d
    BY <1>9, PatchTypes, OptionIs
  <2>2. new # Text /\ new \in ObjectType /\ BodyGiven(more, body) # Text
    BY <1>1, <1>7, <1>9 DEF more
  <2>3. Rebodied(a, now) = Merge(new, d) /\ Merge(new, d) \in ObjectType
    BY <1>4, <1>9, <2>1, <2>2, MergeType
  <2>4. ASSUME NEW k \in Keys
        PROVE  ValueGiven(more, body, k)
                 = IF d[k] = Absent THEN new[k] ELSE IF d[k] = Null THEN Absent ELSE d[k]
    <3>1. CASE d[k] = Absent
      <4>1. ValueGiven(more, body, k) = kept(k)
        <5>1. \/ NewBody(a) = {} /\ NewValue(a, k) = {}
              \/ NewBody(a) # {} /\ NewValue(a, k) = {Value(The(NewBody(a)), k)}
          BY <1>5, <2>1, <3>1, NewValueIs
        <5> QED
          BY <1>6, <5>1
      <4> QED
        BY <1>1, <2>2, <3>1, <4>1
    <3>2. CASE d[k] # Absent
      <4>1. NewValue(a, k) = {IF d[k] = Null THEN Absent ELSE d[k]}
        BY <2>1, <3>2, NewValueIs
      <4>2. The(NewValue(a, k)) = IF d[k] = Null THEN Absent ELSE d[k]
        BY <4>1, TheOf, Zenon
      <4> QED
        BY <1>2, <3>2, <4>1, <4>2
    <3> QED
      BY <3>1, <3>2
  <2>5. MeantBody(more, body) = Merge(new, d)
    <3>1. [k \in Keys |-> ValueGiven(more, body, k)]
            = [k \in Keys |-> IF d[k] = Absent THEN new[k]
                              ELSE IF d[k] = Null THEN Absent ELSE d[k]]
      BY <2>4
    <3> QED
      BY <1>3, <2>2, <3>1 DEF Merge
  <2>6. Merge(new, d) # Text /\ Merge(new, d) \in BodyType
    BY <2>3, RulesAssumption DEF BodyType
  <2> QED
    BY <2>2, <2>3, <2>5, <2>6 DEF BodySays, more
<1> QED
  BY <1>8, <1>9

\* The Content-Length a message came with is lost with its body.
LEMMA LengthAppend ==
  ASSUME NEW s \in Seq(ActionsType), NEW a \in ActionsType, NEW length
  PROVE  MeantLength(More(s, a), length)
           = IF NewBody(a) # {} \/ BodyDiff(a) # {} THEN {} ELSE MeantLength(s, length)
<1> DEFINE more == More(s, a)
           Touches(b) == NewBody(b) # {} \/ BodyDiff(b) # {}
<1>1. /\ Len(s) \in Nat /\ DOMAIN more = 1 .. Len(s) + 1 /\ DOMAIN s = 1 .. Len(s)
      /\ more[Len(s) + 1] = a /\ \A i \in 1 .. Len(s) : more[i] = s[i]
  BY OneMore DEF More
<1> HIDE DEF more
<1>2. (\E i \in DOMAIN more : Touches(more[i])) <=> Touches(a) \/ \E i \in DOMAIN s : Touches(s[i])
  <2> HIDE DEF Touches
  <2> QED
    BY <1>1
<1> QED
  BY <1>2, Zenon DEF MeantLength, more

----------------------------------------------------------------------------
(* Failures.                                                               *)

\* First elements of first elements.
LEMMA PrefixOf ==
  ASSUME NEW S, NEW s \in Seq(S), NEW k \in 0 .. Len(s), NEW i \in 0 .. k
  PROVE  Prefix(Prefix(s, k), i) = Prefix(s, i)
<1> DEFINE p == Prefix(s, k)
           q == Prefix(p, i)
           r == Prefix(s, i)
<1>1. p \in Seq(S) /\ Len(p) = k /\ \A j \in 1 .. k : p[j] = s[j]
  BY PrefixType DEF Prefix
<1>2. i \in 0 .. Len(s)
  OBVIOUS
<1>3. r \in Seq(S) /\ Len(r) = i /\ \A j \in 1 .. i : r[j] = s[j]
  BY <1>2, PrefixType DEF Prefix
<1> HIDE DEF p, r
<1>4. q \in Seq(S) /\ Len(q) = i /\ \A j \in 1 .. i : q[j] = p[j]
  BY <1>1, PrefixType DEF Prefix
<1> HIDE DEF q
<1>5. \A j \in 1 .. i : q[j] = r[j]
  BY <1>1, <1>3, <1>4
<1>6. q = r
  BY <1>3, <1>4, <1>5, SeqEqual
<1> QED
  BY <1>6 DEF p, q, r

\* The first elements of a list with one more.
LEMMA PrefixOfMore ==
  ASSUME NEW S, NEW s \in Seq(S), NEW x \in S
  PROVE  Prefix(More(s, x), Len(s)) = s
<1> DEFINE p == Prefix(More(s, x), Len(s))
<1>1. /\ More(s, x) \in Seq(S) /\ Len(More(s, x)) = Len(s) + 1 /\ Len(s) \in Nat
      /\ \A j \in 1 .. Len(s) : More(s, x)[j] = s[j]
  BY OneMore DEF More
<1>2. Len(s) \in 0 .. Len(More(s, x))
  BY <1>1
<1>3. p \in Seq(S) /\ Len(p) = Len(s) /\ \A j \in 1 .. Len(s) : p[j] = More(s, x)[j]
  BY <1>1, <1>2, PrefixType DEF Prefix
<1> HIDE DEF p
<1>4. p = s
  BY <1>1, <1>3, SeqEqual
<1> QED
  BY <1>4 DEF p

\* The first k + 1 elements.
LEMMA PrefixMore ==
  ASSUME NEW S, NEW s \in Seq(S), NEW k \in 0 .. Len(s), k # Len(s)
  PROVE  Prefix(s, k + 1) = More(Prefix(s, k), s[k + 1]) /\ s[k + 1] \in S
<1> DEFINE p == Prefix(s, k)
           q == Prefix(s, k + 1)
           r == More(p, s[k + 1])
<1>1. p \in Seq(S) /\ Len(p) = k /\ \A j \in 1 .. k : p[j] = s[j]
  BY PrefixType DEF Prefix
<1>2. k + 1 \in 0 .. Len(s) /\ k \in Nat /\ s[k + 1] \in S
  OBVIOUS
<1>3. q \in Seq(S) /\ Len(q) = k + 1 /\ \A j \in 1 .. k + 1 : q[j] = s[j]
  BY <1>2, PrefixType DEF Prefix
<1> HIDE DEF p, q
<1>4. r \in Seq(S) /\ Len(r) = k + 1 /\ r[k + 1] = s[k + 1] /\ \A j \in 1 .. k : r[j] = p[j]
  BY <1>1, <1>2, OneMore DEF More
<1> HIDE DEF r
<1>5. \A j \in 1 .. k + 1 : q[j] = r[j]
  <2> TAKE j \in 1 .. k + 1
  <2>1. CASE j = k + 1
    BY <1>3, <1>4, <2>1
  <2>2. CASE j # k + 1
    <3>1. j \in 1 .. k
      BY <1>2, <2>2
    <3> QED
      BY <1>1, <1>3, <1>4, <3>1
  <2> QED
    BY <2>1, <2>2
<1>6. q = r
  BY <1>3, <1>4, <1>5, SeqEqual
<1> QED
  BY <1>2, <1>6 DEF p, q, r

\* Whether an action fails depends on those before it only.
LEMMA FailsAtPrefix ==
  ASSUME NEW s \in Seq(ActionsType), NEW k \in 0 .. Len(s), NEW i \in 1 .. k, NEW body
  PROVE  FailsAt(Prefix(s, k), body, i) <=> FailsAt(s, body, i)
<1> DEFINE p == Prefix(s, k)
           E == Along(s, BodyOf)
<1>1. p \in Seq(ActionsType) /\ p[i] = s[i]
  BY PrefixType DEF Prefix
<1>2. Maps(BodyOf, ActionsType, Option(BodyType))
  BY AlongTypes
<1>3. Along(p, BodyOf) = Prefix(E, k)
  BY <1>2, AlongMore
<1>4. E \in Seq(Option(BodyType)) /\ Len(E) = Len(s) /\ i \in 0 .. k
  BY <1>2, AlongMore
<1> HIDE DEF E, p
<1>5. Prefix(Prefix(E, k), i) = Prefix(E, i)
  BY <1>4, PrefixOf
<1>6. SubSeq(Each(p, NewBody), 1, i) = SubSeq(Each(s, NewBody), 1, i)
  BY <1>1, <1>3, <1>5, EachIsAlong DEF Prefix, E
<1>7. FailsAt(p, body, i) <=> FailsAt(s, body, i)
  BY <1>1, <1>6, Zenon DEF FailsAt
<1> QED
  BY <1>7 DEF p

\* What fails goes on failing.
LEMMA FailsPrefix ==
  ASSUME NEW s \in Seq(ActionsType), NEW k \in 0 .. Len(s), NEW body
  PROVE  /\ Fails(Prefix(s, k), body) => Fails(s, body)
         /\ FailsRequest(Prefix(s, k), body) => FailsRequest(s, body)
<1> DEFINE p == Prefix(s, k)
<1>1. DOMAIN p = 1 .. k /\ \A i \in 1 .. k : p[i] = s[i] /\ i \in DOMAIN s
  BY PrefixType DEF Prefix
<1>2. \A i \in 1 .. k : FailsAt(p, body, i) => FailsAt(s, body, i)
  BY FailsAtPrefix
<1> HIDE DEF p
<1>3. Fails(p, body) => Fails(s, body)
  BY <1>1, <1>2 DEF Fails
<1>4. (\E i \in DOMAIN p : BadPath \in NewPath(p[i])) => \E i \in DOMAIN s : BadPath \in NewPath(s[i])
  BY <1>1
<1> QED
  BY <1>3, <1>4 DEF FailsRequest, p

\* One action more fails by itself, or on the body meant up to it.
LEMMA FailsAppend ==
  ASSUME NEW s \in Seq(ActionsType), NEW a \in ActionsType, NEW body
  PROVE  /\ Fails(More(s, a), body)
              <=> \/ Fails(s, body) \/ a.abort
                  \/ BodyDiff(a) # {} /\ BodyGiven(More(s, a), body) = Text
         /\ FailsRequest(More(s, a), body)
              <=> \/ FailsRequest(s, body) \/ a.abort \/ BadPath \in NewPath(a)
                  \/ BodyDiff(a) # {} /\ BodyGiven(More(s, a), body) = Text
<1> DEFINE more == More(s, a)
           n == Len(s)
<1>1. /\ more \in Seq(ActionsType) /\ n \in Nat /\ Len(more) = n + 1 /\ DOMAIN more = 1 .. n + 1
      /\ DOMAIN s = 1 .. n /\ more[n + 1] = a /\ \A i \in 1 .. n : more[i] = s[i]
  BY OneMore DEF More
<1>2. Prefix(more, n) = s
  BY PrefixOfMore
<1> HIDE DEF more
<1>3. n \in 0 .. Len(more)
  BY <1>1
<1>4. \A i \in 1 .. n : FailsAt(Prefix(more, n), body, i) <=> FailsAt(more, body, i)
  BY <1>1, <1>3, FailsAtPrefix
<1>5. FailsAt(more, body, n + 1) <=> a.abort \/ (BodyDiff(a) # {} /\ BodyGiven(more, body) = Text)
  <2> DEFINE E == Along(more, BodyOf)
  <2>1. Maps(BodyOf, ActionsType, Option(BodyType))
    BY AlongTypes
  <2>2. E \in Seq(Option(BodyType)) /\ Len(E) = n + 1
    BY <1>1, <2>1, AlongMore
  <2>3. Each(more, NewBody) = E
    BY <1>1, EachIsAlong
  <2> HIDE DEF E
  <2>4. SubSeq(E, 1, n + 1) = E
    <3> DEFINE q == SubSeq(E, 1, n + 1)
    <3>1. n + 1 \in 0 .. Len(E)
      BY <1>1, <2>2
    <3>2. q \in Seq(Option(BodyType)) /\ Len(q) = n + 1 /\ \A j \in 1 .. n + 1 : q[j] = E[j]
      BY <2>2, <3>1, PrefixType
    <3> HIDE DEF q
    <3>3. q = E
      BY <2>2, <3>2, SeqEqual
    <3> QED
      BY <3>3 DEF q
  <2>5. LastGiven(SubSeq(Each(more, NewBody), 1, n + 1), body) = BodyGiven(more, body)
    BY <2>3, <2>4 DEF BodyGiven
  <2> QED
    BY <1>1, <2>5, Zenon DEF FailsAt
<1>6. Fails(more, body) <=> Fails(s, body) \/ FailsAt(more, body, n + 1)
  <2>1. Fails(more, body) <=> (\E i \in 1 .. n : FailsAt(more, body, i)) \/ FailsAt(more, body, n + 1)
    BY <1>1 DEF Fails
  <2>2. (\E i \in 1 .. n : FailsAt(more, body, i)) <=> Fails(s, body)
    BY <1>1, <1>2, <1>4, Zenon DEF Fails
  <2> QED
    BY <2>1, <2>2
<1>7. (\E i \in DOMAIN more : BadPath \in NewPath(more[i]))
        <=> (\E i \in DOMAIN s : BadPath \in NewPath(s[i])) \/ BadPath \in NewPath(a)
  BY <1>1
<1>8. FailsRequest(more, body) <=> Fails(more, body) \/ \E i \in DOMAIN more : BadPath \in NewPath(more[i])
  BY DEF FailsRequest
<1>9. FailsRequest(s, body) <=> Fails(s, body) \/ \E i \in DOMAIN s : BadPath \in NewPath(s[i])
  BY DEF FailsRequest
<1> QED
  BY <1>5, <1>6, <1>7, <1>8, <1>9, Zenon DEF more

----------------------------------------------------------------------------
(* One action, field by field.                                             *)

\* What an action leaves of a header, a parameter, the Content-Length and the body
\* before its merge.
HeaderAfter(a, n, values) ==
  (IF NewHeader(a, n) = {} THEN values ELSE The(NewHeader(a, n))) \o AddedHeader(a, n)

ParameterAfter(a, n, values) ==
  (IF NewQueries(a) = {} THEN values
   ELSE IF NewQuery(a, n) # {} THEN The(NewQuery(a, n))
   ELSE LastOnly(values)) \o AddedQuery(a, n)

LengthAfter(a, length) == IF NewBody(a) # {} \/ BodyDiff(a) # {} THEN {} ELSE length

NewBodyOf(a, body) == IF NewBody(a) = {} THEN body ELSE The(NewBody(a))

\* Headers that are appended.
LEMMA AppendedHeaders ==
  ASSUME NEW H \in HeadersType, NEW option \in Option(HeadersType)
  PROVE  LET new == IF option = {} THEN H ELSE AppendAll(H, The(option))
         IN /\ new \in HeadersType
            /\ \A n \in HeaderNames :
                 new[n] = H[n] \o (IF option = {} THEN <<>> ELSE The(option)[n])
<1>1. \A n \in HeaderNames : H[n] \in Seq(Values)
  BY DEF HeadersType
<1>2. CASE option = {}
  <2>1. \A n \in HeaderNames : H[n] \o <<>> = H[n]
    BY <1>1, ConcatEmptySeq
  <2> QED
    BY <1>2, <2>1
<1>3. CASE option # {}
  <2>1. PICK h \in HeadersType : option = {h} /\ The(option) = h
    BY <1>3, OptionIs
  <2>2. \A n \in HeaderNames : h[n] \in Seq(Values)
    BY DEF HeadersType
  <2>3. AppendAll(H, h) = [n \in HeaderNames |-> H[n] \o h[n]]
    BY DEF AppendAll, HeadersType
  <2>4. \A n \in HeaderNames : H[n] \o h[n] \in Seq(Values)
    BY <1>1, <2>2, ConcatProperties
  <2> QED
    BY <1>3, <2>1, <2>3, <2>4 DEF HeadersType
<1> QED
  BY <1>2, <1>3

\* Messages are records of their fields.
LEMMA RequestFields ==
  ASSUME NEW m \in RequestType
  PROVE  /\ m.method \in Methods /\ m.path \in Paths /\ m.query \in [QueryNames -> Seq(Values)]
         /\ m.headers \in HeadersType /\ m.body \in BodyType /\ m.length \in SUBSET BodyType
         /\ m = [method |-> m.method, path |-> m.path, query |-> m.query,
                 headers |-> m.headers, body |-> m.body, length |-> m.length]
BY DEF RequestType

LEMMA ResponseFields ==
  ASSUME NEW m \in ResponseType
  PROVE  /\ m.code \in Codes
         /\ m.headers \in HeadersType /\ m.body \in BodyType /\ m.length \in SUBSET BodyType
         /\ m = [code |-> m.code, headers |-> m.headers, body |-> m.body, length |-> m.length]
BY DEF ResponseType

\* A request from its fields, as a function of them.
Request(method, path, query, headers, body, length) ==
  [method |-> method, path |-> path, query |-> query,
   headers |-> headers, body |-> body, length |-> length]

Response(code, headers, body, length) ==
  [code |-> code, headers |-> headers, body |-> body, length |-> length]

\* The fields of such a request, and the request with another body.
LEMMA RequestGet ==
  ASSUME NEW method, NEW path, NEW query, NEW headers, NEW body, NEW length
  PROVE  /\ Request(method, path, query, headers, body, length).method = method
         /\ Request(method, path, query, headers, body, length).path = path
         /\ Request(method, path, query, headers, body, length).query = query
         /\ Request(method, path, query, headers, body, length).headers = headers
         /\ Request(method, path, query, headers, body, length).body = body
         /\ Request(method, path, query, headers, body, length).length = length
BY DEF Request

LEMMA RequestWithBody ==
  ASSUME NEW method, NEW path, NEW query, NEW headers, NEW body, NEW length, NEW x
  PROVE  WithBody(Request(method, path, query, headers, body, length), x)
           = Request(method, path, query, headers, x, {})
<1> DEFINE m == Request(method, path, query, headers, body, length)
           n == Request(method, path, query, headers, x, length)
<1>1. [m EXCEPT !.body = x] = n
  BY DEF Request
<1>2. [n EXCEPT !.length = {}] = Request(method, path, query, headers, x, {})
  BY DEF Request
<1>3. WithBody(m, x) = [[m EXCEPT !.body = x] EXCEPT !.length = {}]
  <2> HIDE DEF m
  <2> QED
    BY DEF WithBody
<1> QED
  BY <1>1, <1>2, <1>3

\* The fields of such a response, and the response with another body.
LEMMA ResponseGet ==
  ASSUME NEW code, NEW headers, NEW body, NEW length
  PROVE  /\ Response(code, headers, body, length).code = code
         /\ Response(code, headers, body, length).headers = headers
         /\ Response(code, headers, body, length).body = body
         /\ Response(code, headers, body, length).length = length
BY DEF Response

LEMMA ResponseWithBody ==
  ASSUME NEW code, NEW headers, NEW body, NEW length, NEW x
  PROVE  WithBody(Response(code, headers, body, length), x)
           = Response(code, headers, x, {})
<1> DEFINE m == Response(code, headers, body, length)
           n == Response(code, headers, x, length)
<1>1. [m EXCEPT !.body = x] = n
  BY DEF Response
<1>2. [n EXCEPT !.length = {}] = Response(code, headers, x, {})
  BY DEF Response
<1>3. WithBody(m, x) = [[m EXCEPT !.body = x] EXCEPT !.length = {}]
  <2> HIDE DEF m
  <2> QED
    BY DEF WithBody
<1> QED
  BY <1>1, <1>2, <1>3

\* The query with the parameters a replacement has.
QueryWith(query, queries) ==
  IF queries = {} THEN query
  ELSE [n \in QueryNames |->
          IF n \in DOMAIN The(queries) THEN <<The(queries)[n]>> ELSE LastOnly(query[n])]

\* replace, field by field.
LEMMA ReplacedRequest ==
  ASSUME NEW method, NEW path, NEW query, NEW headers, NEW body, NEW length, NEW r,
         BadPath \notin r.path
  PROVE  ReplaceRequest(Request(method, path, query, headers, body, length), r)
           = Request(UnwrapOr(r.method, method),
                     IF r.path = {} THEN path
                     ELSE IF The(r.path) = EmptyPath THEN RootPath ELSE The(r.path),
                     QueryWith(query, r.queries),
                     IF r.headers = {} THEN headers ELSE InsertAll(headers, The(r.headers)),
                     IF r.body = {} THEN body ELSE The(r.body),
                     IF r.body = {} THEN length ELSE {})
<1> DEFINE m  == Request(method, path, query, headers, body, length)
           path1 == IF r.path = {} THEN path
                    ELSE IF The(r.path) = EmptyPath THEN RootPath ELSE The(r.path)
           method1 == UnwrapOr(r.method, method)
           query1 == QueryWith(query, r.queries)
           headers1 == IF r.headers = {} THEN headers ELSE InsertAll(headers, The(r.headers))
           body1 == IF r.body = {} THEN body ELSE The(r.body)
           length1 == IF r.body = {} THEN length ELSE {}
           m1 == Request(method, path1, query, headers, body, length)
           m2 == Request(method1, path1, query, headers, body, length)
           m3 == Request(method1, path1, query, headers, body1, length1)
           m4 == Request(method1, path1, query1, headers, body1, length1)
           m5 == Request(method1, path1, query1, headers1, body1, length1)
<1>1. ReplacePath(m, r.path) = m1
  <2>1. [m EXCEPT !.path = IF The(r.path) = EmptyPath THEN RootPath ELSE The(r.path)]
          = Request(method, IF The(r.path) = EmptyPath THEN RootPath ELSE The(r.path),
                    query, headers, body, length)
    BY DEF Request
  <2> QED
    BY <2>1, Zenon DEF ReplacePath
<1>2. [m1 EXCEPT !.method = UnwrapOr(r.method, @)] = m2
  <2> HIDE DEF path1
  <2>1. m1.method = method
    BY RequestGet
  <2>2. [m1 EXCEPT !.method = method1] = m2
    BY DEF Request
  <2> QED
    BY <2>1, <2>2 DEF Request
<1>3. ReplaceBody(m2, r.body) = m3
  <2> HIDE DEF path1, method1
  <2>1. WithBody(m2, The(r.body)) = Request(method1, path1, query, headers, The(r.body), {})
    BY RequestWithBody
  <2> QED
    BY <2>1, Zenon DEF ReplaceBody
<1>4. ReplaceQueries(m3, r.queries) = m4
  <2> HIDE DEF path1, method1, body1, length1
  <2>1. m3.query = query
    BY RequestGet
  <2>2. r.queries # {} => [m3 EXCEPT !.query = query1] = m4
    BY DEF Request
  <2>3. CASE r.queries = {}
    BY <2>3 DEF ReplaceQueries, QueryWith, query1
  <2>4. CASE r.queries # {}
    <3>1. ReplaceQueries(m3, r.queries)
            = [m3 EXCEPT !.query = [n \in QueryNames |->
                 IF n \in DOMAIN The(r.queries) THEN <<The(r.queries)[n]>>
                 ELSE LastOnly(m3.query[n])]]
      BY <2>4 DEF ReplaceQueries, Request
    <3> QED
      BY <2>1, <2>2, <2>4, <3>1 DEF QueryWith, query1
  <2> QED
    BY <2>3, <2>4
<1>5. ReplaceHeaders(m4, r.headers) = m5
  <2> HIDE DEF path1, method1, body1, length1, query1
  <2>1. m4.headers = headers
    BY RequestGet
  <2>2. [m4 EXCEPT !.headers = headers1] = m5
    BY DEF Request
  <2>3. CASE r.headers = {}
    BY <2>3 DEF ReplaceHeaders
  <2>4. CASE r.headers # {}
    <3>1. ReplaceHeaders(m4, r.headers) = [m4 EXCEPT !.headers = InsertAll(m4.headers, The(r.headers))]
      BY <2>4 DEF ReplaceHeaders, Request
    <3> QED
      BY <2>1, <2>2, <2>4, <3>1
  <2> QED
    BY <2>3, <2>4
<1> HIDE DEF m1, m2, m3, m4
<1>6. ReplaceRequest(m, r) = m5
  BY <1>1, <1>2, <1>3, <1>4, <1>5, Zenon DEF ReplaceRequest
<1> QED
  BY <1>6

\* The query a replacement leaves, parameter by parameter.
Renewed(a, old, new) ==
  \A n \in QueryNames :
    new[n] = IF NewQueries(a) = {} THEN old[n]
             ELSE IF NewQuery(a, n) # {} THEN The(NewQuery(a, n)) ELSE LastOnly(old[n])

LEMMA ReplacedQuery ==
  ASSUME NEW a \in ActionsType, NEW r \in ReplaceType, a.replace = {r},
         NEW query \in [QueryNames -> Seq(Values)]
  PROVE  /\ QueryWith(query, r.queries) \in [QueryNames -> Seq(Values)]
         /\ Renewed(a, query, QueryWith(query, r.queries))
<1> USE DEF Renewed
<1>1. NewQueries(a) = r.queries
  BY ReplaceFields
<1>2. \A n \in QueryNames : query[n] \in Seq(Values) /\ LastOnly(query[n]) \in Seq(Values)
  BY LastOnlyType
<1>3. CASE r.queries = {}
  BY <1>1, <1>3 DEF QueryWith
<1>4. CASE r.queries # {}
  <2>1. PICK q \in UNION {[N -> Values] : N \in SUBSET QueryNames} : r.queries = {q} /\ The(r.queries) = q
    BY <1>4, OptionIs DEF ReplaceType
  <2>2. \A n \in DOMAIN q : q[n] \in Values
    BY <2>1
  <2>3. \A n \in DOMAIN q : <<q[n]>> \in Seq(Values)
    BY <2>2
  <2>4. \A n \in DOMAIN q : NewQuery(a, n) = {<<q[n]>>} /\ The(NewQuery(a, n)) = <<q[n]>>
    <3> TAKE n \in DOMAIN q
    <3>1. NewQuery(a, n) = {<<q[n]>>}
      BY <1>1, <2>1 DEF NewQuery
    <3> QED
      BY <3>1, TheOf, Zenon
  <2>5. \A n : n \notin DOMAIN q => NewQuery(a, n) = {}
    BY <1>1, <2>1 DEF NewQuery
  <2> DEFINE new == [n \in QueryNames |-> IF n \in DOMAIN q THEN <<q[n]>> ELSE LastOnly(query[n])]
  <2>6. new \in [QueryNames -> Seq(Values)]
    BY <1>2, <2>3
  <2>7. ASSUME NEW n \in QueryNames
        PROVE  new[n] = IF NewQuery(a, n) # {} THEN The(NewQuery(a, n)) ELSE LastOnly(query[n])
    <3>1. CASE n \in DOMAIN q
      BY <2>4, <3>1
    <3>2. CASE n \notin DOMAIN q
      BY <2>5, <3>2
    <3> QED
      BY <3>1, <3>2
  <2> HIDE DEF new
  <2>8. NewQueries(a) # {}
    BY <1>1, <1>4
  <2>9. QueryWith(query, r.queries) = new
    BY <1>4, <2>1 DEF new, QueryWith
  <2> QED
    BY <2>6, <2>7, <2>8, <2>9
<1> QED
  BY <1>3, <1>4

\* The headers a replacement leaves, header by header.
LEMMA ReplacedHeaders ==
  ASSUME NEW a \in ActionsType, NEW r \in ReplaceType, a.replace = {r}, NEW H \in HeadersType
  PROVE  LET new == IF r.headers = {} THEN H ELSE InsertAll(H, The(r.headers))
         IN /\ new \in HeadersType
            /\ \A n \in HeaderNames :
                 new[n] = IF NewHeader(a, n) = {} THEN H[n] ELSE The(NewHeader(a, n))
<1>1. \A n : NewHeader(a, n) = {LastOnly(h[n]) : h \in {x \in r.headers : x[n] # <<>>}}
  BY ReplaceFields
<1>2. CASE r.headers = {}
  <2>1. \A n : NewHeader(a, n) = {}
    BY <1>1, <1>2
  <2> QED
    BY <1>2, <2>1
<1>3. CASE r.headers # {}
  <2>1. PICK h \in HeadersType : r.headers = {h} /\ The(r.headers) = h
    BY <1>3, OptionIs DEF ReplaceType
  <2>2. \A n \in HeaderNames : H[n] \in Seq(Values) /\ LastOnly(h[n]) \in Seq(Values)
    BY LastOnlyType DEF HeadersType
  <2>3. InsertAll(H, h) = [n \in HeaderNames |-> IF h[n] = <<>> THEN H[n] ELSE LastOnly(h[n])]
    BY DEF InsertAll, HeadersType
  <2>4. InsertAll(H, h) \in HeadersType
    BY <2>2, <2>3 DEF HeadersType
  <2>5. ASSUME NEW n \in HeaderNames
        PROVE  InsertAll(H, h)[n] = IF NewHeader(a, n) = {} THEN H[n] ELSE The(NewHeader(a, n))
    <3>1. CASE h[n] = <<>>
      <4>1. NewHeader(a, n) = {}
        BY <1>1, <2>1, <3>1
      <4> QED
        BY <2>3, <3>1, <4>1
    <3>2. CASE h[n] # <<>>
      <4>1. NewHeader(a, n) = {LastOnly(h[n])}
        BY <1>1, <2>1, <3>2
      <4>2. InsertAll(H, h)[n] = LastOnly(h[n]) /\ The({LastOnly(h[n])}) = LastOnly(h[n])
        BY <2>3, <3>2, TheOf
      <4> QED
        BY <4>1, <4>2
    <3> QED
      BY <3>1, <3>2
  <2> QED
    BY <1>3, <2>1, <2>4, <2>5
<1> QED
  BY <1>2, <1>3

\* The path a replacement leaves, or that it does not parse.
LEMMA NewPathIs ==
  ASSUME NEW a \in ActionsType, NEW r \in ReplaceType, a.replace = {r}, NEW path
  PROVE  /\ BadPath \in NewPath(a) <=> BadPath \in r.path
         /\ UnwrapOr(NewPath(a), path)
              = IF r.path = {} THEN path ELSE IF The(r.path) = EmptyPath THEN RootPath ELSE The(r.path)
<1>1. NewPath(a) = {IF p = EmptyPath THEN RootPath ELSE p : p \in r.path}
  BY ReplaceFields
<1>2. CASE r.path = {}
  BY <1>1, <1>2 DEF UnwrapOr
<1>3. CASE r.path # {}
  <2>1. PICK p \in Paths : r.path = {p} /\ The(r.path) = p
    BY <1>3, OptionIs DEF ReplaceType
  <2> DEFINE q == IF p = EmptyPath THEN RootPath ELSE p
  <2>2. NewPath(a) = {q}
    BY <1>1, <2>1
  <2>3. The(NewPath(a)) = q
    BY <2>2, TheOf, Zenon
  <2>4. BadPath = q <=> BadPath = p
    BY RulesAssumption
  <2> QED
    BY <1>3, <2>1, <2>2, <2>3, <2>4 DEF UnwrapOr
<1> QED
  BY <1>2, <1>3

\* What an action's replacement leaves of a request.
LEMMA RequestReplaced ==
  ASSUME NEW m \in RequestType, NEW a \in ActionsType
  PROVE  LET replaced == IF a.replace = {} THEN m ELSE ReplaceRequest(m, The(a.replace))
         IN /\ BadPath \in NewPath(a) => replaced = Err
            /\ BadPath \notin NewPath(a) =>
                 \E query \in [QueryNames -> Seq(Values)], headers \in HeadersType :
                   /\ replaced = Request(UnwrapOr(NewMethod(a), m.method), UnwrapOr(NewPath(a), m.path),
                                         query, headers, NewBodyOf(a, m.body),
                                         IF NewBody(a) = {} THEN m.length ELSE {})
                   /\ \A n \in QueryNames :
                        query[n] = IF NewQueries(a) = {} THEN m.query[n]
                                   ELSE IF NewQuery(a, n) # {} THEN The(NewQuery(a, n))
                                   ELSE LastOnly(m.query[n])
                   /\ \A n \in HeaderNames :
                        headers[n] = IF NewHeader(a, n) = {} THEN m.headers[n] ELSE The(NewHeader(a, n))
<1>1. /\ m.query \in [QueryNames -> Seq(Values)] /\ m.headers \in HeadersType
      /\ m = Request(m.method, m.path, m.query, m.headers, m.body, m.length)
  BY RequestFields DEF Request
<1>2. CASE a.replace = {}
  <2>1. /\ NewMethod(a) = {} /\ NewBody(a) = {} /\ NewPath(a) = {} /\ NewQueries(a) = {}
        /\ \A n : NewHeader(a, n) = {}
    BY <1>2, NoReplaceFields
  <2>2. m = Request(UnwrapOr(NewMethod(a), m.method), UnwrapOr(NewPath(a), m.path), m.query, m.headers,
                    NewBodyOf(a, m.body), IF NewBody(a) = {} THEN m.length ELSE {})
    BY <1>1, <2>1 DEF UnwrapOr, NewBodyOf
  <2>3. /\ BadPath \notin NewPath(a)
        /\ \A n \in QueryNames :
             m.query[n] = IF NewQueries(a) = {} THEN m.query[n]
                          ELSE IF NewQuery(a, n) # {} THEN The(NewQuery(a, n)) ELSE LastOnly(m.query[n])
        /\ \A n \in HeaderNames :
             m.headers[n] = IF NewHeader(a, n) = {} THEN m.headers[n] ELSE The(NewHeader(a, n))
    BY <2>1
  <2>4. (IF a.replace = {} THEN m ELSE ReplaceRequest(m, The(a.replace))) = m
    BY <1>2
  <2> QED
    BY <1>1, <2>2, <2>3, <2>4
<1>3. CASE a.replace # {}
  <2>1. PICK r \in ReplaceType : a.replace = {r} /\ The(a.replace) = r
    BY <1>3, ReplacementOf
  <2>2. NewMethod(a) = r.method /\ NewBody(a) = r.body
    BY <2>1, ReplaceFields
  <2>3. BadPath \in NewPath(a) <=> BadPath \in r.path
    BY <2>1, NewPathIs
  <2>4. BadPath \in r.path => ReplaceRequest(m, r) = Err
    BY DEF ReplaceRequest
  <2> DEFINE query == QueryWith(m.query, r.queries)
             headers == IF r.headers = {} THEN m.headers ELSE InsertAll(m.headers, The(r.headers))
  <2>5. /\ query \in [QueryNames -> Seq(Values)]
        /\ \A n \in QueryNames : query[n] = IF NewQueries(a) = {} THEN m.query[n]
                                            ELSE IF NewQuery(a, n) # {} THEN The(NewQuery(a, n))
                                            ELSE LastOnly(m.query[n])
    <3> DEFINE old == m.query
    <3>1. old \in [QueryNames -> Seq(Values)]
      BY <1>1
    <3> HIDE DEF old
    <3>2. /\ QueryWith(old, r.queries) \in [QueryNames -> Seq(Values)]
          /\ Renewed(a, old, QueryWith(old, r.queries))
      BY <2>1, <3>1, ReplacedQuery
    <3> QED
      BY <3>2 DEF old, Renewed
  <2>6. headers \in HeadersType /\ \A n \in HeaderNames :
          headers[n] = IF NewHeader(a, n) = {} THEN m.headers[n] ELSE The(NewHeader(a, n))
    BY <1>1, <2>1, ReplacedHeaders
  <2>7. BadPath \notin r.path =>
          ReplaceRequest(m, r)
            = Request(UnwrapOr(r.method, m.method),
                      IF r.path = {} THEN m.path
                      ELSE IF The(r.path) = EmptyPath THEN RootPath ELSE The(r.path),
                      query, headers, IF r.body = {} THEN m.body ELSE The(r.body),
                      IF r.body = {} THEN m.length ELSE {})
    BY <1>1, ReplacedRequest
  <2> HIDE DEF query, headers
  <2>8. UnwrapOr(NewPath(a), m.path)
          = IF r.path = {} THEN m.path ELSE IF The(r.path) = EmptyPath THEN RootPath ELSE The(r.path)
    BY <2>1, NewPathIs
  <2>9. NewBodyOf(a, m.body) = IF r.body = {} THEN m.body ELSE The(r.body)
    BY <2>2 DEF NewBodyOf
  <2>10. BadPath \notin NewPath(a) =>
           ReplaceRequest(m, r)
             = Request(UnwrapOr(NewMethod(a), m.method), UnwrapOr(NewPath(a), m.path), query, headers,
                       NewBodyOf(a, m.body), IF NewBody(a) = {} THEN m.length ELSE {})
    BY <2>2, <2>3, <2>7, <2>8, <2>9, Zenon
  <2> QED
    BY <1>3, <2>1, <2>3, <2>4, <2>5, <2>6, <2>10
<1> QED
  BY <1>2, <1>3

\* The query and the headers a patch leaves.
Extend(query, queries) ==
  IF queries = {} THEN query ELSE [n \in QueryNames |-> query[n] \o ValuesOf(The(queries), n)]
ExtendBy(query, a) == [n \in QueryNames |-> query[n] \o AddedQuery(a, n)]

LEMMA ExtendedQuery ==
  ASSUME NEW a \in ActionsType, NEW p \in PatchType(HeadersType), a.patch = {p},
         NEW query \in [QueryNames -> Seq(Values)]
  PROVE  Extend(query, p.queries) = ExtendBy(query, a)
<1>1. \A n : AddedQuery(a, n) = IF p.queries = {} THEN <<>> ELSE ValuesOf(The(p.queries), n)
  BY PatchFields
<1>2. \A n \in QueryNames : query[n] \o <<>> = query[n]
  BY ConcatEmptySeq
<1> QED
  BY <1>1, <1>2 DEF Extend, ExtendBy

LEMMA ExtendedHeaders ==
  ASSUME NEW a \in ActionsType, NEW p \in PatchType(HeadersType), a.patch = {p},
         NEW headers \in HeadersType
  PROVE  (IF p.headers = {} THEN headers ELSE AppendAll(headers, The(p.headers)))
           = [n \in HeaderNames |-> headers[n] \o AddedHeader(a, n)]
<1> DEFINE new == IF p.headers = {} THEN headers ELSE AppendAll(headers, The(p.headers))
<1>1. \A n : AddedHeader(a, n) = IF p.headers = {} THEN <<>> ELSE The(p.headers)[n]
  BY PatchFields
<1>2. p.headers \in Option(HeadersType)
  BY DEF PatchType
<1>3. new \in HeadersType /\ \A n \in HeaderNames :
        new[n] = headers[n] \o (IF p.headers = {} THEN <<>> ELSE The(p.headers)[n])
  BY <1>2, AppendedHeaders
<1> HIDE DEF new
<1>4. new = [n \in HeaderNames |-> headers[n] \o AddedHeader(a, n)]
  BY <1>1, <1>3 DEF HeadersType
<1> QED
  BY <1>4 DEF new

\* What an action's patch leaves of a request, if it does not fail.
LEMMA RequestPatched ==
  ASSUME NEW a \in ActionsType, NEW method \in Methods, NEW path \in Paths,
         NEW query \in [QueryNames -> Seq(Values)], NEW headers \in HeadersType,
         NEW body \in BodyType, NEW length \in SUBSET BodyType
  PROVE  LET m == Request(method, path, query, headers, body, length)
         IN (IF a.patch = {} THEN m ELSE PatchRequest(m, The(a.patch)))
              = IF BodyDiff(a) # {} /\ body = Text THEN Err
                ELSE Request(method, path,
                             [n \in QueryNames |-> query[n] \o AddedQuery(a, n)],
                             [n \in HeaderNames |-> headers[n] \o AddedHeader(a, n)],
                             IF BodyDiff(a) = {} THEN body ELSE Merge(body, The(BodyDiff(a))),
                             IF BodyDiff(a) = {} THEN length ELSE {})
<1> DEFINE m == Request(method, path, query, headers, body, length)
           query1 == [n \in QueryNames |-> query[n] \o AddedQuery(a, n)]
           headers1 == [n \in HeaderNames |-> headers[n] \o AddedHeader(a, n)]
           body1 == IF BodyDiff(a) = {} THEN body ELSE Merge(body, The(BodyDiff(a)))
           length1 == IF BodyDiff(a) = {} THEN length ELSE {}
           m1 == Request(method, path, query1, headers, body, length)
           m2 == Request(method, path, query1, headers, body1, length1)
           m3 == Request(method, path, query1, headers1, body1, length1)
<1>1. CASE a.patch = {}
  <2>1. BodyDiff(a) = {} /\ \A n : AddedHeader(a, n) = <<>> /\ AddedQuery(a, n) = <<>>
    BY <1>1, NoPatchFields
  <2>2. query1 = query
    <3>1. \A n \in QueryNames : query[n] \o <<>> = query[n]
      BY ConcatEmptySeq
    <3> QED
      BY <2>1, <3>1
  <2>3. headers1 = headers
    <3>1. \A n \in HeaderNames : headers[n] \o <<>> = headers[n]
      BY ConcatEmptySeq DEF HeadersType
    <3>2. \A n \in HeaderNames : headers[n] \o AddedHeader(a, n) = headers[n]
      BY <2>1, <3>1
    <3> QED
      BY <3>2 DEF HeadersType
  <2> HIDE DEF query1, headers1
  <2>4. m = m3
    BY <2>1, <2>2, <2>3
  <2> QED
    BY <1>1, <2>1, <2>4 DEF query1, headers1
<1>2. CASE a.patch # {}
  <2>1. PICK p \in PatchType(HeadersType) : a.patch = {p} /\ The(a.patch) = p
    BY <1>2, PatchOf
  <2>2. BodyDiff(a) = p.body
    BY <2>1, PatchFields
  <2>3. AppendQueries(m, p.queries) = m1
    <3>1. Extend(query, p.queries) = query1
      <4>1. Extend(query, p.queries) = ExtendBy(query, a)
        BY <2>1, ExtendedQuery
      <4> QED
        BY <4>1 DEF ExtendBy
    <3> HIDE DEF query1
    <3>2. m.query = query /\ [m EXCEPT !.query = query1] = m1
      BY DEF Request
    <3>3. CASE p.queries = {}
      BY <3>1, <3>3 DEF AppendQueries, Extend
    <3>4. CASE p.queries # {}
      <4>1. AppendQueries(m, p.queries)
              = [m EXCEPT !.query = [n \in QueryNames |-> m.query[n] \o ValuesOf(The(p.queries), n)]]
        BY <3>4 DEF AppendQueries, Request
      <4> QED
        BY <3>1, <3>2, <3>4, <4>1 DEF Extend
    <3> QED
      BY <3>3, <3>4
  <2>4. PatchBody(m1, p.body) = IF p.body # {} /\ body = Text THEN Err ELSE m2
    <3> HIDE DEF query1
    <3>1. m1.body = body
      BY RequestGet
    <3>2. WithBody(m1, Merge(body, The(p.body)))
            = Request(method, path, query1, headers, Merge(body, The(p.body)), {})
      BY RequestWithBody
    <3>3. CASE p.body = {}
      BY <2>2, <3>3 DEF PatchBody
    <3>4. CASE p.body # {}
      <4>1. PatchBody(m1, p.body) = IF body = Text THEN Err ELSE WithBody(m1, Merge(body, The(p.body)))
        <5> HIDE DEF m1
        <5> QED
          BY <3>1, <3>4 DEF PatchBody
      <4>2. body1 = Merge(body, The(p.body)) /\ length1 = {}
        BY <2>2, <3>4
      <4> HIDE DEF body1, length1, m1
      <4>3. m2 = WithBody(m1, Merge(body, The(p.body)))
        BY <3>2, <4>2
      <4> HIDE DEF m2
      <4> QED
        BY <3>4, <4>1, <4>3
    <3> QED
      BY <3>3, <3>4
  <2>5. (p.body # {} /\ body = Text) \/ m2 # Err
    <3>1. SUFFICES ASSUME ~(p.body # {} /\ body = Text) PROVE m2 \in RequestType
      BY RulesAssumption
    <3>2. query1 \in [QueryNames -> Seq(Values)]
      <4>1. \A n \in QueryNames : query[n] \o AddedQuery(a, n) \in Seq(Values)
        BY PatchTypes, ConcatProperties
      <4> QED
        BY <4>1
    <3>3. body1 \in BodyType
      <4>1. CASE p.body = {}
        BY <2>2, <4>1
      <4>2. CASE p.body # {}
        <5>1. The(p.body) \in [Keys -> Values \cup {Absent, Null}]
          BY <4>2, OptionIs DEF PatchType
        <5>2. body \in ObjectType
          BY <3>1, <4>2 DEF BodyType
        <5>3. Merge(body, The(p.body)) \in ObjectType
          BY <5>1, <5>2, MergeType
        <5> QED
          BY <2>2, <4>2, <5>3 DEF BodyType
      <4> QED
        BY <4>1, <4>2
    <3>4. length1 \in SUBSET BodyType
      OBVIOUS
    <3> HIDE DEF query1, body1, length1
    <3> QED
      BY <3>2, <3>3, <3>4 DEF RequestType, Request
  <2>6. PatchHeaders(m2, p.headers) = IF m2 = Err THEN m2 ELSE m3
    <3>1. (IF p.headers = {} THEN headers ELSE AppendAll(headers, The(p.headers))) = headers1
      BY <2>1, ExtendedHeaders
    <3> HIDE DEF query1, headers1, body1, length1
    <3>2. m2.headers = headers /\ [m2 EXCEPT !.headers = headers1] = m3
      BY DEF Request
    <3>3. CASE p.headers = {}
      BY <3>1, <3>3 DEF PatchHeaders
    <3>4. CASE p.headers # {}
      <4>1. m2 # Err =>
              PatchHeaders(m2, p.headers) = [m2 EXCEPT !.headers = AppendAll(m2.headers, The(p.headers))]
        BY <3>4 DEF PatchHeaders, Request
      <4>2. m2 = Err => PatchHeaders(m2, p.headers) = m2
        BY DEF PatchHeaders
      <4> QED
        BY <3>1, <3>2, <3>4, <4>1, <4>2
    <3> QED
      BY <3>3, <3>4
  <2>7. PatchHeaders(Err, p.headers) = Err
    BY DEF PatchHeaders
  <2> HIDE DEF m, m1, m2, m3
  <2>8. PatchRequest(m, p) = IF p.body # {} /\ body = Text THEN Err ELSE m3
    BY <2>3, <2>4, <2>5, <2>6, <2>7, Zenon DEF PatchRequest
  <2> QED
    BY <1>2, <2>1, <2>2, <2>8 DEF m, m3
<1> QED
  BY <1>1, <1>2

\* Bodies stay bodies.
LEMMA NewBodyType ==
  ASSUME NEW a \in ActionsType, NEW body \in BodyType
  PROVE  /\ NewBodyOf(a, body) \in BodyType
         /\ ~(BodyDiff(a) # {} /\ NewBodyOf(a, body) = Text) => Rebodied(a, body) \in BodyType
<1> DEFINE new == NewBodyOf(a, body)
<1>1. new \in BodyType
  <2>1. NewBody(a) # {} => The(NewBody(a)) \in BodyType
    BY ReplaceTypes, OptionIs
  <2> QED
    BY <2>1 DEF NewBodyOf
<1>2. Rebodied(a, body) = IF BodyDiff(a) = {} THEN new ELSE Merge(new, The(BodyDiff(a)))
  BY DEF Rebodied, NewBodyOf
<1> HIDE DEF new
<1>3. ASSUME BodyDiff(a) # {}, new # Text PROVE Merge(new, The(BodyDiff(a))) \in BodyType
  <2>1. The(BodyDiff(a)) \in [Keys -> Values \cup {Absent, Null}]
    BY <1>3, PatchTypes, OptionIs
  <2>2. new \in ObjectType
    BY <1>1, <1>3 DEF BodyType
  <2> QED
    BY <2>1, <2>2, MergeType DEF BodyType
<1> QED
  BY <1>1, <1>2, <1>3 DEF new

\* unwrap_or keeps the type.
LEMMA UnwrapType ==
  ASSUME NEW S, NEW option \in Option(S), NEW x \in S
  PROVE  UnwrapOr(option, x) \in S
BY OptionIs DEF UnwrapOr

\* The request an action leaves, if it leaves one.
RequestAfter(a, m) ==
  Request(UnwrapOr(NewMethod(a), m.method), UnwrapOr(NewPath(a), m.path),
          [n \in QueryNames |-> ParameterAfter(a, n, m.query[n])],
          [n \in HeaderNames |-> HeaderAfter(a, n, m.headers[n])],
          Rebodied(a, m.body), LengthAfter(a, m.length))

\* An action fails of itself or on this body.
BodyFails(a, body) == a.abort \/ (BodyDiff(a) # {} /\ NewBodyOf(a, body) = Text)

\* apply_request_action: it fails as RuleMeaning says, or leaves this request.
LEMMA RequestAction ==
  ASSUME NEW m \in RequestType, NEW a \in ActionsType
  PROVE  IF BodyFails(a, m.body) \/ BadPath \in NewPath(a)
         THEN ApplyRequestAction(m, a) = Err
         ELSE ApplyRequestAction(m, a) = RequestAfter(a, m) /\ RequestAfter(a, m) \in RequestType
<1> DEFINE replaced == IF a.replace = {} THEN m ELSE ReplaceRequest(m, The(a.replace))
           Patched(x) == IF a.patch = {} THEN x ELSE PatchRequest(x, The(a.patch))
           method == UnwrapOr(NewMethod(a), m.method)
           path   == UnwrapOr(NewPath(a), m.path)
           body   == NewBodyOf(a, m.body)
           length == IF NewBody(a) = {} THEN m.length ELSE {}
<1>1. ApplyRequestAction(m, a) = IF a.abort \/ replaced = Err THEN Err ELSE Patched(replaced)
  BY DEF ApplyRequestAction
<1>2. BadPath \in NewPath(a) => replaced = Err
  BY RequestReplaced
<1>3. CASE a.abort \/ BadPath \in NewPath(a)
  BY <1>1, <1>2, <1>3 DEF BodyFails
<1>4. CASE ~a.abort /\ BadPath \notin NewPath(a)
  <2>1. PICK query \in [QueryNames -> Seq(Values)], headers \in HeadersType :
          /\ replaced = Request(method, path, query, headers, body, length)
          /\ \A n \in QueryNames :
               query[n] = IF NewQueries(a) = {} THEN m.query[n]
                          ELSE IF NewQuery(a, n) # {} THEN The(NewQuery(a, n)) ELSE LastOnly(m.query[n])
          /\ \A n \in HeaderNames :
               headers[n] = IF NewHeader(a, n) = {} THEN m.headers[n] ELSE The(NewHeader(a, n))
    BY <1>4, RequestReplaced
  <2>2. /\ method \in Methods /\ path \in Paths /\ body \in BodyType /\ length \in SUBSET BodyType
    <3>1. m.method \in Methods /\ m.path \in Paths /\ m.body \in BodyType /\ m.length \in SUBSET BodyType
      BY RequestFields
    <3> QED
      BY <3>1, ReplaceTypes, UnwrapType, NewBodyType
  <2> HIDE DEF method, path, body, length, replaced
  <2>3. replaced \in RequestType /\ replaced # Err
    BY <2>1, <2>2, RulesAssumption DEF RequestType, Request
  <2> DEFINE query1 == [n \in QueryNames |-> query[n] \o AddedQuery(a, n)]
             headers1 == [n \in HeaderNames |-> headers[n] \o AddedHeader(a, n)]
             body1 == IF BodyDiff(a) = {} THEN body ELSE Merge(body, The(BodyDiff(a)))
             length1 == IF BodyDiff(a) = {} THEN length ELSE {}
             after == Request(method, path, query1, headers1, body1, length1)
  <2>4. Patched(Request(method, path, query, headers, body, length))
          = IF BodyDiff(a) # {} /\ body = Text THEN Err ELSE after
    BY <2>2, RequestPatched
  <2>5. query1 = [n \in QueryNames |-> ParameterAfter(a, n, m.query[n])]
    BY <2>1 DEF ParameterAfter
  <2>6. headers1 = [n \in HeaderNames |-> HeaderAfter(a, n, m.headers[n])]
    BY <2>1 DEF HeaderAfter
  <2>7. body1 = Rebodied(a, m.body)
    BY DEF Rebodied, body, NewBodyOf
  <2>8. length1 = LengthAfter(a, m.length)
    BY DEF LengthAfter, length
  <2>9. query1 \in [QueryNames -> Seq(Values)]
    <3>1. \A n \in QueryNames : query[n] \o AddedQuery(a, n) \in Seq(Values)
      BY PatchTypes, ConcatProperties
    <3> QED
      BY <3>1
  <2>10. headers1 \in HeadersType
    <3>1. \A n \in HeaderNames : headers[n] \o AddedHeader(a, n) \in Seq(Values)
      BY PatchTypes, ConcatProperties DEF HeadersType
    <3> QED
      BY <3>1 DEF HeadersType
  <2>11. length1 \in SUBSET BodyType
    BY <2>2
  <2>12. ~(BodyDiff(a) # {} /\ body = Text) => body1 \in BodyType
    <3>1. m.body \in BodyType
      BY RequestFields
    <3> QED
      BY <2>7, <3>1, NewBodyType DEF body
  <2> HIDE DEF query1, headers1, body1, length1
  <2>13. RequestAfter(a, m) = after
    BY <2>5, <2>6, <2>7, <2>8 DEF RequestAfter, method, path
  <2>14. ~(BodyDiff(a) # {} /\ body = Text) => after \in RequestType
    BY <2>2, <2>9, <2>10, <2>11, <2>12 DEF RequestType, Request
  <2>15. BodyFails(a, m.body) <=> BodyDiff(a) # {} /\ body = Text
    BY <1>4, Zenon DEF BodyFails, body
  <2> HIDE DEF after, Patched
  <2> QED
    BY <1>1, <1>4, <2>1, <2>3, <2>4, <2>13, <2>14, <2>15
<1> QED
  BY <1>3, <1>4

----------------------------------------------------------------------------
(* The same of responses.                                                  *)

\* What an action's replacement leaves of a response.
LEMMA ResponseReplaced ==
  ASSUME NEW m \in ResponseType, NEW a \in ActionsType
  PROVE  LET replaced == IF a.replace = {} THEN m ELSE ReplaceResponse(m, The(a.replace))
         IN \E headers \in HeadersType :
              /\ replaced = Response(UnwrapOr(NewCode(a), m.code), headers, NewBodyOf(a, m.body),
                                     IF NewBody(a) = {} THEN m.length ELSE {})
              /\ \A n \in HeaderNames :
                   headers[n] = IF NewHeader(a, n) = {} THEN m.headers[n] ELSE The(NewHeader(a, n))
<1>1. /\ m.headers \in HeadersType
      /\ m = Response(m.code, m.headers, m.body, m.length)
  BY ResponseFields DEF Response
<1>2. CASE a.replace = {}
  <2>1. NewCode(a) = {} /\ NewBody(a) = {} /\ \A n : NewHeader(a, n) = {}
    BY <1>2, NoReplaceFields
  <2>2. m = Response(UnwrapOr(NewCode(a), m.code), m.headers,
                     NewBodyOf(a, m.body), IF NewBody(a) = {} THEN m.length ELSE {})
    BY <1>1, <2>1 DEF UnwrapOr, NewBodyOf
  <2> QED
    BY <1>1, <1>2, <2>1, <2>2
<1>3. CASE a.replace # {}
  <2>1. PICK r \in ReplaceType : a.replace = {r} /\ The(a.replace) = r
    BY <1>3, ReplacementOf
  <2>2. NewCode(a) = r.code /\ NewBody(a) = r.body
    BY <2>1, ReplaceFields
  <2> DEFINE code == UnwrapOr(NewCode(a), m.code)
             headers == IF r.headers = {} THEN m.headers ELSE InsertAll(m.headers, The(r.headers))
             body == NewBodyOf(a, m.body)
             length == IF NewBody(a) = {} THEN m.length ELSE {}
             m1 == Response(code, m.headers, m.body, m.length)
             m2 == Response(code, m.headers, body, length)
             m3 == Response(code, headers, body, length)
  <2>3. headers \in HeadersType /\ \A n \in HeaderNames :
          headers[n] = IF NewHeader(a, n) = {} THEN m.headers[n] ELSE The(NewHeader(a, n))
    BY <1>1, <2>1, ReplacedHeaders
  <2>4. [m EXCEPT !.code = UnwrapOr(r.code, @)] = m1
    BY <1>1, <2>2 DEF Response
  <2>5. ReplaceBody(m1, r.body) = m2
    <3> HIDE DEF code
    <3>1. WithBody(m1, The(r.body)) = Response(code, m.headers, The(r.body), {})
      BY ResponseWithBody
    <3>2. CASE r.body = {}
      <4>1. body = m.body /\ length = m.length
        BY <2>2, <3>2 DEF NewBodyOf
      <4> HIDE DEF body, length
      <4>2. m2 = m1
        BY <4>1
      <4> QED
        BY <3>2, <4>2 DEF ReplaceBody
    <3>3. CASE r.body # {}
      <4>1. body = The(r.body) /\ length = {}
        BY <2>2, <3>3 DEF NewBodyOf
      <4> HIDE DEF body, length, m1
      <4> QED
        BY <3>1, <3>3, <4>1 DEF ReplaceBody
    <3> QED
      BY <3>2, <3>3
  <2>6. ReplaceHeaders(m2, r.headers) = m3
    <3> HIDE DEF code, body, length
    <3>1. m2.headers = m.headers
      BY ResponseGet
    <3>2. [m2 EXCEPT !.headers = headers] = m3
      <4> HIDE DEF headers
      <4> QED
        BY DEF Response
    <3>3. CASE r.headers = {}
      BY <3>3 DEF ReplaceHeaders
    <3>4. CASE r.headers # {}
      <4>1. ReplaceHeaders(m2, r.headers) = [m2 EXCEPT !.headers = InsertAll(m2.headers, The(r.headers))]
        BY <3>4 DEF ReplaceHeaders, Response
      <4> QED
        BY <3>1, <3>2, <3>4, <4>1
    <3> QED
      BY <3>3, <3>4
  <2> HIDE DEF m1, m2
  <2>7. ReplaceResponse(m, r) = m3
    BY <2>4, <2>5, <2>6, Zenon DEF ReplaceResponse
  <2> QED
    BY <1>3, <2>1, <2>3, <2>7
<1> QED
  BY <1>2, <1>3

\* What an action's patch leaves of a response, if it does not fail.
LEMMA ResponsePatched ==
  ASSUME NEW a \in ActionsType, NEW code \in Codes, NEW headers \in HeadersType,
         NEW body \in BodyType, NEW length \in SUBSET BodyType
  PROVE  LET m == Response(code, headers, body, length)
         IN (IF a.patch = {} THEN m ELSE PatchResponse(m, The(a.patch)))
              = IF BodyDiff(a) # {} /\ body = Text THEN Err
                ELSE Response(code,
                              [n \in HeaderNames |-> headers[n] \o AddedHeader(a, n)],
                              IF BodyDiff(a) = {} THEN body ELSE Merge(body, The(BodyDiff(a))),
                              IF BodyDiff(a) = {} THEN length ELSE {})
<1> DEFINE m == Response(code, headers, body, length)
           headers1 == [n \in HeaderNames |-> headers[n] \o AddedHeader(a, n)]
           body1 == IF BodyDiff(a) = {} THEN body ELSE Merge(body, The(BodyDiff(a)))
           length1 == IF BodyDiff(a) = {} THEN length ELSE {}
           m2 == Response(code, headers, body1, length1)
           m3 == Response(code, headers1, body1, length1)
<1>1. CASE a.patch = {}
  <2>1. BodyDiff(a) = {} /\ \A n : AddedHeader(a, n) = <<>> /\ AddedQuery(a, n) = <<>>
    BY <1>1, NoPatchFields
  <2>3. headers1 = headers
    <3>1. \A n \in HeaderNames : headers[n] \o <<>> = headers[n]
      BY ConcatEmptySeq DEF HeadersType
    <3>2. \A n \in HeaderNames : headers[n] \o AddedHeader(a, n) = headers[n]
      BY <2>1, <3>1
    <3> QED
      BY <3>2 DEF HeadersType
  <2> HIDE DEF headers1
  <2>4. m = m3
    BY <2>1, <2>3
  <2> QED
    BY <1>1, <2>1, <2>4 DEF headers1
<1>2. CASE a.patch # {}
  <2>1. PICK p \in PatchType(HeadersType) : a.patch = {p} /\ The(a.patch) = p
    BY <1>2, PatchOf
  <2>2. BodyDiff(a) = p.body
    BY <2>1, PatchFields
  <2>4. PatchBody(m, p.body) = IF p.body # {} /\ body = Text THEN Err ELSE m2
    <3>1. m.body = body
      BY ResponseGet
    <3>2. WithBody(m, Merge(body, The(p.body)))
            = Response(code, headers, Merge(body, The(p.body)), {})
      BY ResponseWithBody
    <3>3. CASE p.body = {}
      BY <2>2, <3>3 DEF PatchBody
    <3>4. CASE p.body # {}
      <4>1. PatchBody(m, p.body) = IF body = Text THEN Err ELSE WithBody(m, Merge(body, The(p.body)))
        <5> HIDE DEF m
        <5> QED
          BY <3>1, <3>4 DEF PatchBody
      <4>2. body1 = Merge(body, The(p.body)) /\ length1 = {}
        BY <2>2, <3>4
      <4> HIDE DEF body1, length1, m
      <4>3. m2 = WithBody(m, Merge(body, The(p.body)))
        BY <3>2, <4>2
      <4> HIDE DEF m2
      <4> QED
        BY <3>4, <4>1, <4>3
    <3> QED
      BY <3>3, <3>4
  <2>5. (p.body # {} /\ body = Text) \/ m2 # Err
    <3>1. SUFFICES ASSUME ~(p.body # {} /\ body = Text) PROVE m2 \in ResponseType
      BY RulesAssumption
    <3>3. body1 \in BodyType
      <4>1. CASE p.body = {}
        BY <2>2, <4>1
      <4>2. CASE p.body # {}
        <5>1. The(p.body) \in [Keys -> Values \cup {Absent, Null}]
          BY <4>2, OptionIs DEF PatchType
        <5>2. body \in ObjectType
          BY <3>1, <4>2 DEF BodyType
        <5>3. Merge(body, The(p.body)) \in ObjectType
          BY <5>1, <5>2, MergeType
        <5> QED
          BY <2>2, <4>2, <5>3 DEF BodyType
      <4> QED
        BY <4>1, <4>2
    <3>4. length1 \in SUBSET BodyType
      OBVIOUS
    <3> HIDE DEF body1, length1
    <3> QED
      BY <3>3, <3>4 DEF ResponseType, Response
  <2>6. PatchHeaders(m2, p.headers) = IF m2 = Err THEN m2 ELSE m3
    <3>1. (IF p.headers = {} THEN headers ELSE AppendAll(headers, The(p.headers))) = headers1
      BY <2>1, ExtendedHeaders
    <3> HIDE DEF headers1, body1, length1
    <3>2. m2.headers = headers /\ [m2 EXCEPT !.headers = headers1] = m3
      BY DEF Response
    <3>3. CASE p.headers = {}
      BY <3>1, <3>3 DEF PatchHeaders
    <3>4. CASE p.headers # {}
      <4>1. m2 # Err =>
              PatchHeaders(m2, p.headers) = [m2 EXCEPT !.headers = AppendAll(m2.headers, The(p.headers))]
        BY <3>4 DEF PatchHeaders, Response
      <4>2. m2 = Err => PatchHeaders(m2, p.headers) = m2
        BY DEF PatchHeaders
      <4> QED
        BY <3>1, <3>2, <3>4, <4>1, <4>2
    <3> QED
      BY <3>3, <3>4
  <2>7. PatchHeaders(Err, p.headers) = Err
    BY DEF PatchHeaders
  <2> HIDE DEF m, m2, m3
  <2>8. PatchResponse(m, p) = IF p.body # {} /\ body = Text THEN Err ELSE m3
    BY <2>4, <2>5, <2>6, <2>7, Zenon DEF PatchResponse
  <2> QED
    BY <1>2, <2>1, <2>2, <2>8 DEF m, m3
<1> QED
  BY <1>1, <1>2

\* The response an action leaves, if it leaves one.
ResponseAfter(a, m) ==
  Response(UnwrapOr(NewCode(a), m.code),
           [n \in HeaderNames |-> HeaderAfter(a, n, m.headers[n])],
           Rebodied(a, m.body), LengthAfter(a, m.length))

\* apply_response_action: it fails as RuleMeaning says, or leaves this response.
LEMMA ResponseAction ==
  ASSUME NEW m \in ResponseType, NEW a \in ActionsType
  PROVE  IF BodyFails(a, m.body)
         THEN ApplyResponseAction(m, a) = Err
         ELSE ApplyResponseAction(m, a) = ResponseAfter(a, m) /\ ResponseAfter(a, m) \in ResponseType
<1> DEFINE replaced == IF a.replace = {} THEN m ELSE ReplaceResponse(m, The(a.replace))
           Patched(x) == IF a.patch = {} THEN x ELSE PatchResponse(x, The(a.patch))
           code   == UnwrapOr(NewCode(a), m.code)
           body   == NewBodyOf(a, m.body)
           length == IF NewBody(a) = {} THEN m.length ELSE {}
<1>1. ApplyResponseAction(m, a) = IF a.abort THEN Err ELSE Patched(replaced)
  BY DEF ApplyResponseAction
<1>2. PICK headers \in HeadersType :
        /\ replaced = Response(code, headers, body, length)
        /\ \A n \in HeaderNames :
             headers[n] = IF NewHeader(a, n) = {} THEN m.headers[n] ELSE The(NewHeader(a, n))
  BY ResponseReplaced
<1>3. m.code \in Codes /\ m.body \in BodyType /\ m.length \in SUBSET BodyType
  BY ResponseFields
<1>4. code \in Codes /\ body \in BodyType /\ length \in SUBSET BodyType
  BY <1>3, ReplaceTypes, UnwrapType, NewBodyType
<1> HIDE DEF code, body, length, replaced
<1> DEFINE headers1 == [n \in HeaderNames |-> headers[n] \o AddedHeader(a, n)]
           body1 == IF BodyDiff(a) = {} THEN body ELSE Merge(body, The(BodyDiff(a)))
           length1 == IF BodyDiff(a) = {} THEN length ELSE {}
           after == Response(code, headers1, body1, length1)
<1>5. Patched(Response(code, headers, body, length))
        = IF BodyDiff(a) # {} /\ body = Text THEN Err ELSE after
  BY <1>4, ResponsePatched
<1>6. headers1 = [n \in HeaderNames |-> HeaderAfter(a, n, m.headers[n])]
  BY <1>2 DEF HeaderAfter
<1>7. body1 = Rebodied(a, m.body) /\ length1 = LengthAfter(a, m.length)
  BY DEF Rebodied, body, NewBodyOf, LengthAfter, length
<1>8. headers1 \in HeadersType
  <2>1. \A n \in HeaderNames : headers[n] \o AddedHeader(a, n) \in Seq(Values)
    BY PatchTypes, ConcatProperties DEF HeadersType
  <2> QED
    BY <2>1 DEF HeadersType
<1>9. length1 \in SUBSET BodyType
  BY <1>4
<1>10. ~(BodyDiff(a) # {} /\ body = Text) => body1 \in BodyType
  BY <1>3, <1>7, NewBodyType DEF body
<1> HIDE DEF headers1, body1, length1
<1>11. ResponseAfter(a, m) = after
  BY <1>6, <1>7 DEF ResponseAfter, code
<1>12. ~(BodyDiff(a) # {} /\ body = Text) => after \in ResponseType
  BY <1>4, <1>8, <1>9, <1>10 DEF ResponseType, Response
<1>13. BodyFails(a, m.body) <=> a.abort \/ (BodyDiff(a) # {} /\ body = Text)
  BY Zenon DEF BodyFails, body
<1> HIDE DEF after, Patched
<1> QED
  BY <1>1, <1>2, <1>5, <1>11, <1>12, <1>13

----------------------------------------------------------------------------
(* The meaning of no action.                                               *)

\* No action says nothing.
LEMMA NothingGiven ==
  /\ \A d : LastGiven(Each(<<>>, NewMethod), d) = d /\ LastGiven(Each(<<>>, NewCode), d) = d
  /\ \A d : LastGiven(Each(<<>>, NewPath), d) = d
  /\ \A body : BodyGiven(<<>>, body) = body
  /\ \A body, k : ValueGiven(<<>>, body, k) = Value(body, k)
  /\ \A length : MeantLength(<<>>, length) = length
  /\ \A body : ~Fails(<<>>, body) /\ ~FailsRequest(<<>>, body)
<1>1. Each(<<>>, NewMethod) = <<>> /\ Each(<<>>, NewCode) = <<>> /\ Each(<<>>, NewPath) = <<>>
  BY DEF Each
<1>2. Each(<<>>, NewBody) = <<>> /\ \A k : Each(<<>>, LAMBDA a : NewValue(a, k)) = <<>>
  BY DEF Each
<1>3. DOMAIN <<>> = {}
  OBVIOUS
<1>4. \A d : LastGiven(Each(<<>>, NewMethod), d) = d /\ LastGiven(Each(<<>>, NewCode), d) = d
  BY <1>1, LastGivenEmpty
<1>5. \A d : LastGiven(Each(<<>>, NewPath), d) = d
  BY <1>1, LastGivenEmpty
<1>6. \A body : BodyGiven(<<>>, body) = body
  BY <1>2, LastGivenEmpty DEF BodyGiven
<1>7. ASSUME NEW body, NEW k PROVE ValueGiven(<<>>, body, k) = Value(body, k)
  <2> DEFINE none == Each(<<>>, LAMBDA a : NewValue(a, k))
  <2>1. none = <<>>
    BY DEF Each
  <2> HIDE DEF none
  <2>2. LastGiven(none, Value(body, k)) = Value(body, k)
    BY <2>1, LastGivenEmpty
  <2> QED
    BY <2>2 DEF ValueGiven, none
<1>8. \A length : MeantLength(<<>>, length) = length
  BY <1>3 DEF MeantLength
<1>9. \A body : ~Fails(<<>>, body) /\ ~FailsRequest(<<>>, body)
  BY <1>3 DEF Fails, FailsRequest
<1> QED
  BY <1>4, <1>5, <1>6, <1>7, <1>8, <1>9

\* No action leaves the values of a header and of a parameter as they are.
LEMMA NothingAdded ==
  ASSUME NEW values \in Seq(Values), NEW n
  PROVE  /\ MeantHeader(<<>>, n, values) = values /\ MeantParameter(<<>>, n, values) = values
         /\ LastParameter(<<>>, n, values)
<1>1. /\ Each(<<>>, LAMBDA a : NewHeader(a, n)) = <<>> /\ Each(<<>>, LAMBDA a : AddedHeader(a, n)) = <<>>
      /\ Each(<<>>, LAMBDA a : AddedQuery(a, n)) = <<>> /\ Each(<<>>, NewQueries) = <<>>
      /\ Each(<<>>, LAMBDA a : LastQuery(a, n)) = <<>>
  BY DEF Each
<1>2. LastAt(<<>>) = 0 /\ \A d : LastGiven(<<>>, d) = d
  BY LastGivenEmpty
<1>3. From(<<>>, 0) = <<>>
  <2>1. Lists(<<>>, Values) /\ <<>> \in Seq(Values) /\ 0 \in 0 .. Len(<<>>) + 1
    BY DEF Lists
  <2>2. SubSeq(<<>>, Max({1, 0}), Len(<<>>)) = <<>>
    <3>1. Max({1, 0}) = 1
      <4>1. \A x \in {1, 0} : (\A y \in {1, 0} : x >= y) <=> x = 1
        OBVIOUS
      <4> QED
        BY <4>1 DEF Max
    <3> QED
      BY <3>1
  <2> QED
    BY <2>2, FlattenEmpty DEF From
<1>4. values \o <<>> = values
  BY ConcatEmptySeq
<1>5. MeantHeader(<<>>, n, values) = values
  BY <1>1, <1>2, <1>3, <1>4 DEF MeantHeader
<1>6. MeantParameter(<<>>, n, values) = values
  BY <1>1, <1>2, <1>3, <1>4 DEF MeantParameter
<1> QED
  BY <1>1, <1>2, <1>5, <1>6 DEF LastParameter

\* No action leaves the body as it is.
LEMMA NoBodyGiven ==
  ASSUME NEW body \in BodyType
  PROVE  BodySays(<<>>, body, body)
<1>1. MeantBody(<<>>, body) = IF body = Text THEN Text ELSE [k \in Keys |-> Value(body, k)]
  BY MeantBodyIs, NothingGiven
<1>2. body # Text => [k \in Keys |-> Value(body, k)] = body
  BY DEF Value, BodyType, ObjectType
<1> QED
  BY <1>1, <1>2, NothingGiven DEF BodySays

----------------------------------------------------------------------------
(* A request and the actions that have been applied to it.                 *)

\* m is what the actions s, which fail nowhere, mean for r.
AppliedRequest(m, s, r) ==
  /\ m \in RequestType /\ ~FailsRequest(s, r.body) /\ m = MeantRequest(s, r)
  /\ BodySays(s, r.body, m.body)
  /\ \A n \in QueryNames : LastParameter(s, n, r.query[n])

AppliedResponse(m, s, r) ==
  /\ m \in ResponseType /\ ~Fails(s, r.body) /\ m = MeantResponse(s, r)
  /\ BodySays(s, r.body, m.body)

\* Before the first action.
LEMMA RequestStart ==
  ASSUME NEW r \in RequestType
  PROVE  AppliedRequest(r, <<>>, r)
<1>1. /\ r.query \in [QueryNames -> Seq(Values)] /\ r.headers \in HeadersType /\ r.body \in BodyType
      /\ r = [method |-> r.method, path |-> r.path, query |-> r.query,
              headers |-> r.headers, body |-> r.body, length |-> r.length]
  BY RequestFields
<1>2. MeantQuery(<<>>, r.query) = r.query
  <2>1. \A n \in QueryNames : MeantParameter(<<>>, n, r.query[n]) = r.query[n]
    BY <1>1, NothingAdded
  <2> QED
    BY <1>1, <2>1 DEF MeantQuery
<1>3. MeantHeaders(<<>>, r.headers) = r.headers
  <2>1. \A n \in HeaderNames : MeantHeader(<<>>, n, r.headers[n]) = r.headers[n]
    BY <1>1, NothingAdded DEF HeadersType
  <2> QED
    BY <1>1, <2>1 DEF MeantHeaders, HeadersType
<1>4. BodySays(<<>>, r.body, r.body)
  BY <1>1, NoBodyGiven
<1>5. MeantBody(<<>>, r.body) = r.body
  BY <1>4 DEF BodySays
<1>6. ~FailsRequest(<<>>, r.body)
  BY NothingGiven
<1>7. /\ LastGiven(Each(<<>>, NewMethod), r.method) = r.method
      /\ LastGiven(Each(<<>>, NewPath), r.path) = r.path
  BY NothingGiven
<1>8. MeantLength(<<>>, r.length) = r.length
  BY NothingGiven
<1>9. MeantRequest(<<>>, r) = [method |-> r.method, path |-> r.path, query |-> r.query,
                               headers |-> r.headers, body |-> r.body, length |-> r.length]
  BY <1>2, <1>3, <1>5, <1>6, <1>7, <1>8, Zenon DEF MeantRequest
<1>10. \A n \in QueryNames : LastParameter(<<>>, n, r.query[n])
  BY <1>1, NothingAdded
<1> QED
  BY <1>1, <1>4, <1>6, <1>9, <1>10 DEF AppliedRequest

LEMMA ResponseStart ==
  ASSUME NEW r \in ResponseType
  PROVE  AppliedResponse(r, <<>>, r)
<1>1. /\ r.headers \in HeadersType /\ r.body \in BodyType
      /\ r = [code |-> r.code, headers |-> r.headers, body |-> r.body, length |-> r.length]
  BY ResponseFields
<1>3. MeantHeaders(<<>>, r.headers) = r.headers
  <2>1. \A n \in HeaderNames : MeantHeader(<<>>, n, r.headers[n]) = r.headers[n]
    BY <1>1, NothingAdded DEF HeadersType
  <2> QED
    BY <1>1, <2>1 DEF MeantHeaders, HeadersType
<1>4. BodySays(<<>>, r.body, r.body)
  BY <1>1, NoBodyGiven
<1>5. MeantBody(<<>>, r.body) = r.body
  BY <1>4 DEF BodySays
<1>6. ~Fails(<<>>, r.body)
  BY NothingGiven
<1>7. LastGiven(Each(<<>>, NewCode), r.code) = r.code
  BY NothingGiven
<1>8. MeantLength(<<>>, r.length) = r.length
  BY NothingGiven
<1>9. MeantResponse(<<>>, r)
        = [code |-> r.code, headers |-> r.headers, body |-> r.body, length |-> r.length]
  BY <1>3, <1>5, <1>6, <1>7, <1>8, Zenon DEF MeantResponse
<1> QED
  BY <1>1, <1>4, <1>6, <1>9 DEF AppliedResponse

\* All headers, with one action more.
LEMMA MeantHeadersAppend ==
  ASSUME NEW s \in Seq(ActionsType), NEW a \in ActionsType, NEW headers \in HeadersType,
         NEW now, now = MeantHeaders(s, headers)
  PROVE  MeantHeaders(More(s, a), headers) = [n \in HeaderNames |-> HeaderAfter(a, n, now[n])]
<1>1. ASSUME NEW n \in HeaderNames
      PROVE  MeantHeader(More(s, a), n, headers[n]) = HeaderAfter(a, n, now[n])
  <2>1. headers[n] \in Seq(Values)
    BY DEF HeadersType
  <2>2. now[n] = MeantHeader(s, n, headers[n])
    BY DEF MeantHeaders
  <2>3. MeantHeader(More(s, a), n, headers[n])
          = (IF NewHeader(a, n) = {} THEN MeantHeader(s, n, headers[n]) ELSE The(NewHeader(a, n)))
              \o AddedHeader(a, n)
    BY <2>1, HeaderAppend
  <2> QED
    BY <2>2, <2>3, Zenon DEF HeaderAfter
<1> QED
  BY <1>1 DEF MeantHeaders

\* All parameters, with one action more.
LEMMA MeantQueryAppend ==
  ASSUME NEW s \in Seq(ActionsType), NEW a \in ActionsType,
         NEW query \in [QueryNames -> Seq(Values)], NEW now, now = MeantQuery(s, query),
         \A n \in QueryNames : LastParameter(s, n, query[n])
  PROVE  /\ MeantQuery(More(s, a), query) = [n \in QueryNames |-> ParameterAfter(a, n, now[n])]
         /\ \A n \in QueryNames : LastParameter(More(s, a), n, query[n])
<1>1. ASSUME NEW n \in QueryNames
      PROVE  /\ MeantParameter(More(s, a), n, query[n]) = ParameterAfter(a, n, now[n])
             /\ LastParameter(More(s, a), n, query[n])
  <2>1. query[n] \in Seq(Values) /\ LastParameter(s, n, query[n])
    OBVIOUS
  <2>2. now[n] = MeantParameter(s, n, query[n])
    BY DEF MeantQuery
  <2>3. /\ MeantParameter(More(s, a), n, query[n])
             = (IF NewQueries(a) = {} THEN MeantParameter(s, n, query[n])
                ELSE IF NewQuery(a, n) # {} THEN The(NewQuery(a, n))
                ELSE LastOnly(MeantParameter(s, n, query[n]))) \o AddedQuery(a, n)
        /\ LastParameter(More(s, a), n, query[n])
    BY <2>1, ParameterAppend
  <2> QED
    BY <2>2, <2>3, Zenon DEF ParameterAfter
<1> QED
  BY <1>1 DEF MeantQuery

\* One action more fails on the body as it is if and only if it does as RuleMeaning says.
LEMMA BodyFailsAppend ==
  ASSUME NEW s \in Seq(ActionsType), NEW a \in ActionsType, NEW body, NEW now,
         BodySays(s, body, now)
  PROVE  /\ BodyFails(a, now)
              <=> a.abort \/ (BodyDiff(a) # {} /\ BodyGiven(More(s, a), body) = Text)
         /\ ~BodyFails(a, now) => BodySays(More(s, a), body, Rebodied(a, now))
<1>1. NewBodyOf(a, now) = Text <=> BodyGiven(More(s, a), body) = Text
  BY NewBodyAppend DEF NewBodyOf
<1>2. BodyFails(a, now) <=> a.abort \/ (BodyDiff(a) # {} /\ BodyGiven(More(s, a), body) = Text)
  BY <1>1, Zenon DEF BodyFails
<1>3. ASSUME ~BodyFails(a, now) PROVE BodySays(More(s, a), body, Rebodied(a, now))
  BY <1>2, <1>3, BodyAppend
<1> QED
  BY <1>2, <1>3

\* An action more: if apply_request_action fails, so do the actions together, and
\* otherwise the request it leaves is what they mean together.
LEMMA RequestStep ==
  ASSUME NEW r \in RequestType, NEW s \in Seq(ActionsType), NEW a \in ActionsType, NEW m,
         AppliedRequest(m, s, r)
  PROVE  /\ ApplyRequestAction(m, a) = Err => FailsRequest(More(s, a), r.body)
         /\ ApplyRequestAction(m, a) # Err => AppliedRequest(ApplyRequestAction(m, a), More(s, a), r)
<1> DEFINE more == More(s, a)
           fails == BodyFails(a, m.body) \/ BadPath \in NewPath(a)
           after == RequestAfter(a, m)
<1>1. /\ m \in RequestType /\ ~FailsRequest(s, r.body) /\ m = MeantRequest(s, r)
      /\ BodySays(s, r.body, m.body) /\ \A n \in QueryNames : LastParameter(s, n, r.query[n])
  BY DEF AppliedRequest
<1>2. FailsRequest(more, r.body) <=> fails
  <2>1. FailsRequest(more, r.body)
          <=> \/ FailsRequest(s, r.body) \/ a.abort \/ BadPath \in NewPath(a)
              \/ BodyDiff(a) # {} /\ BodyGiven(more, r.body) = Text
    BY FailsAppend
  <2>2. BodyFails(a, m.body) <=> a.abort \/ (BodyDiff(a) # {} /\ BodyGiven(more, r.body) = Text)
    BY <1>1, BodyFailsAppend
  <2> QED
    BY <1>1, <2>1, <2>2, Zenon
<1>3. /\ fails => ApplyRequestAction(m, a) = Err
      /\ ~fails => ApplyRequestAction(m, a) = after /\ after \in RequestType
  BY <1>1, RequestAction
<1>4. r.query \in [QueryNames -> Seq(Values)] /\ r.headers \in HeadersType
  BY RequestFields
<1>5. MeantRequest(s, r)
        = [method  |-> LastGiven(Each(s, NewMethod), r.method),
           path    |-> LastGiven(Each(s, NewPath), r.path),
           query   |-> MeantQuery(s, r.query), headers |-> MeantHeaders(s, r.headers),
           body    |-> MeantBody(s, r.body), length  |-> MeantLength(s, r.length)]
  BY <1>1, Zenon DEF MeantRequest
<1>6. /\ m.method = LastGiven(Each(s, NewMethod), r.method)
      /\ m.path = LastGiven(Each(s, NewPath), r.path)
      /\ m.query = MeantQuery(s, r.query) /\ m.headers = MeantHeaders(s, r.headers)
      /\ m.length = MeantLength(s, r.length)
  BY <1>1, <1>5
<1>7. SUFFICES ASSUME ~fails PROVE AppliedRequest(after, more, r)
  BY <1>2, <1>3, RulesAssumption
<1>8. LastGiven(Each(more, NewMethod), r.method) = UnwrapOr(NewMethod(a), m.method)
  BY <1>6, FieldsAppend DEF UnwrapOr
<1>9. LastGiven(Each(more, NewPath), r.path) = UnwrapOr(NewPath(a), m.path)
  BY <1>6, FieldsAppend DEF UnwrapOr
<1>10. /\ MeantQuery(more, r.query) = [n \in QueryNames |-> ParameterAfter(a, n, m.query[n])]
       /\ \A n \in QueryNames : LastParameter(more, n, r.query[n])
  BY <1>1, <1>4, <1>6, MeantQueryAppend
<1>11. MeantHeaders(more, r.headers) = [n \in HeaderNames |-> HeaderAfter(a, n, m.headers[n])]
  BY <1>4, <1>6, MeantHeadersAppend
<1>12. BodySays(more, r.body, Rebodied(a, m.body))
  BY <1>1, <1>7, BodyFailsAppend
<1>13. MeantLength(more, r.length) = LengthAfter(a, m.length)
  BY <1>6, LengthAppend DEF LengthAfter
<1>14. MeantBody(more, r.body) = Rebodied(a, m.body)
  BY <1>12 DEF BodySays
<1>15. ~FailsRequest(more, r.body)
  BY <1>2, <1>7
<1> HIDE DEF more, fails
<1>16. MeantRequest(more, r) = after
  <2>1. MeantRequest(more, r)
          = [method  |-> LastGiven(Each(more, NewMethod), r.method),
             path    |-> LastGiven(Each(more, NewPath), r.path),
             query   |-> MeantQuery(more, r.query), headers |-> MeantHeaders(more, r.headers),
             body    |-> MeantBody(more, r.body), length  |-> MeantLength(more, r.length)]
    BY <1>15, Zenon DEF MeantRequest
  <2> QED
    BY <1>8, <1>9, <1>10, <1>11, <1>13, <1>14, <2>1, Zenon DEF RequestAfter, Request
<1>17. after.body = Rebodied(a, m.body)
  BY RequestGet DEF RequestAfter
<1>18. after \in RequestType
  BY <1>3, <1>7 DEF fails
<1> HIDE DEF after
<1> QED
  BY <1>10, <1>12, <1>15, <1>16, <1>17, <1>18 DEF AppliedRequest

\* The same of apply_response_action.
LEMMA ResponseStep ==
  ASSUME NEW r \in ResponseType, NEW s \in Seq(ActionsType), NEW a \in ActionsType, NEW m,
         AppliedResponse(m, s, r)
  PROVE  /\ ApplyResponseAction(m, a) = Err => Fails(More(s, a), r.body)
         /\ ApplyResponseAction(m, a) # Err
              => AppliedResponse(ApplyResponseAction(m, a), More(s, a), r)
<1> DEFINE more == More(s, a)
           fails == BodyFails(a, m.body)
           after == ResponseAfter(a, m)
<1>1. /\ m \in ResponseType /\ ~Fails(s, r.body) /\ m = MeantResponse(s, r)
      /\ BodySays(s, r.body, m.body)
  BY DEF AppliedResponse
<1>2. Fails(more, r.body) <=> fails
  <2>1. Fails(more, r.body)
          <=> \/ Fails(s, r.body) \/ a.abort
              \/ BodyDiff(a) # {} /\ BodyGiven(more, r.body) = Text
    BY FailsAppend
  <2>2. BodyFails(a, m.body) <=> a.abort \/ (BodyDiff(a) # {} /\ BodyGiven(more, r.body) = Text)
    BY <1>1, BodyFailsAppend
  <2> QED
    BY <1>1, <2>1, <2>2, Zenon
<1>3. /\ fails => ApplyResponseAction(m, a) = Err
      /\ ~fails => ApplyResponseAction(m, a) = after /\ after \in ResponseType
  BY <1>1, ResponseAction
<1>4. r.headers \in HeadersType
  BY ResponseFields
<1>5. MeantResponse(s, r)
        = [code    |-> LastGiven(Each(s, NewCode), r.code), headers |-> MeantHeaders(s, r.headers),
           body    |-> MeantBody(s, r.body), length  |-> MeantLength(s, r.length)]
  BY <1>1, Zenon DEF MeantResponse
<1>6. /\ m.code = LastGiven(Each(s, NewCode), r.code) /\ m.headers = MeantHeaders(s, r.headers)
      /\ m.length = MeantLength(s, r.length)
  BY <1>1, <1>5
<1>7. SUFFICES ASSUME ~fails PROVE AppliedResponse(after, more, r)
  BY <1>2, <1>3, RulesAssumption
<1>8. LastGiven(Each(more, NewCode), r.code) = UnwrapOr(NewCode(a), m.code)
  BY <1>6, FieldsAppend DEF UnwrapOr
<1>11. MeantHeaders(more, r.headers) = [n \in HeaderNames |-> HeaderAfter(a, n, m.headers[n])]
  BY <1>4, <1>6, MeantHeadersAppend
<1>12. BodySays(more, r.body, Rebodied(a, m.body))
  BY <1>1, <1>7, BodyFailsAppend
<1>13. MeantLength(more, r.length) = LengthAfter(a, m.length)
  BY <1>6, LengthAppend DEF LengthAfter
<1>14. MeantBody(more, r.body) = Rebodied(a, m.body)
  BY <1>12 DEF BodySays
<1>15. ~Fails(more, r.body)
  BY <1>2, <1>7
<1> HIDE DEF more, fails
<1>16. MeantResponse(more, r) = after
  <2>1. MeantResponse(more, r)
          = [code    |-> LastGiven(Each(more, NewCode), r.code), headers |-> MeantHeaders(more, r.headers),
             body    |-> MeantBody(more, r.body), length  |-> MeantLength(more, r.length)]
    BY <1>15, Zenon DEF MeantResponse
  <2> QED
    BY <1>8, <1>11, <1>13, <1>14, <2>1, Zenon DEF ResponseAfter, Response
<1>17. after.body = Rebodied(a, m.body)
  BY ResponseGet DEF ResponseAfter
<1>18. after \in ResponseType
  BY <1>3, <1>7 DEF fails
<1> HIDE DEF after
<1> QED
  BY <1>12, <1>15, <1>16, <1>17, <1>18 DEF AppliedResponse
=============================================================================
