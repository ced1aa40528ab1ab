--------------------------- MODULE IntervalProofs ---------------------------
(***************************************************************************)
(* That the naturals and their intervals are well ordered: get_free_port   *)
(* looks for the first free port, get_default_interface for the first      *)
(* interface with an address, and a list of rules is worked off one by one.*)
(***************************************************************************)
EXTENDS Integers, FiniteSetTheorems, WellFoundedInduction, TLAPS

\* A set of numbers from an interval has a least element: the one whose initial
\* segment is minimal.
LEMMA LeastElement ==
  ASSUME NEW n \in Nat, NEW S \in SUBSET (1 .. n), S # {}
  PROVE  \E x \in S : \A y \in S : x <= y
<1> DEFINE Segments == {1 .. x : x \in S}
           Less     == StrictSubsetOrdering(1 .. n)
<1>1. IsFiniteSet(1 .. n)
  BY FS_Interval
<1>2. IsWellFoundedOn(Less, SUBSET (1 .. n))
  BY <1>1, FS_StrictSubsetOrderingWellFounded, FS_FiniteSubsetsOfFinite
<1>3. Segments \subseteq SUBSET (1 .. n) /\ Segments # {}
  <2>1. ASSUME NEW x \in S PROVE 1 .. x \in SUBSET (1 .. n)
    <3>1. x \in Nat /\ x <= n
      OBVIOUS
    <3> QED
      BY <3>1
  <2>2. PICK x \in S : TRUE
    OBVIOUS
  <2>3. 1 .. x \in Segments
    OBVIOUS
  <2> QED
    BY <2>1, <2>3
<1>4. PICK X \in Segments : \A Y \in Segments : <<Y, X>> \notin Less
  <2> HIDE DEF Segments, Less
  <2> QED
    BY <1>2, <1>3, WFMin
<1>5. PICK x \in S : X = 1 .. x
  OBVIOUS
<1>6. ASSUME NEW y \in S, y < x PROVE FALSE
  <2>1. 1 .. y \in Segments
    OBVIOUS
  <2>2. 1 .. y \subseteq 1 .. x /\ 1 .. y # 1 .. x
    <3>1. x \in 1 .. x /\ x \notin 1 .. y
      BY <1>6
    <3> QED
      BY <1>6, <3>1
  <2>3. <<1 .. y, 1 .. x>> \in Less
    BY <2>2, <1>3, <1>5, <2>1 DEF StrictSubsetOrdering
  <2> QED
    BY <1>4, <1>5, <2>1, <2>3
<1> QED
  BY <1>6

\* Induction, stated of a set instead of a predicate.
LEMMA SetInduction ==
  ASSUME NEW S, 0 \in S, \A n \in Nat : n \in S => n + 1 \in S
  PROVE  \A n \in Nat : n \in S
<1> DEFINE Rest == {n \in Nat : n \notin S}
<1> SUFFICES ASSUME NEW n \in Nat, n \notin S PROVE FALSE
  OBVIOUS
<1>1. PICK x \in Rest : \A y \in Rest : <<y, x>> \notin OpToRel(<, Nat)
  <2>1. n \in Rest /\ Rest \subseteq Nat
    OBVIOUS
  <2> HIDE DEF Rest
  <2> QED
    BY <2>1, NatLessThanWellFounded, WFMin
<1>2. x \in Nat /\ x # 0
  OBVIOUS
<1>3. x - 1 \in Nat /\ (x - 1) + 1 = x
  BY <1>2
<1>4. x - 1 \in Rest
  BY <1>3
<1>5. <<x - 1, x>> \in OpToRel(<, Nat)
  BY <1>2, <1>3 DEF OpToRel
<1> QED
  BY <1>1, <1>4, <1>5

\* A set of numbers up to n has a greatest element.
LEMMA GreatestElement ==
  ASSUME NEW n \in Nat, NEW S \in SUBSET (0 .. n), S # {}
  PROVE  \E x \in S : \A y \in S : x >= y
<1> DEFINE Mirror == {n + 1 - x : x \in S}
<1>1. Mirror \in SUBSET (1 .. n + 1) /\ Mirror # {}
  <2>1. ASSUME NEW x \in S PROVE n + 1 - x \in 1 .. n + 1
    <3>1. x \in 0 .. n
      OBVIOUS
    <3> QED
      BY <3>1
  <2>2. PICK x \in S : TRUE
    OBVIOUS
  <2>3. n + 1 - x \in Mirror
    OBVIOUS
  <2> QED
    BY <2>1, <2>3
<1>2. PICK m \in Mirror : \A k \in Mirror : m <= k
  <2> HIDE DEF Mirror
  <2> QED
    BY <1>1, LeastElement
<1>3. PICK x \in S : m = n + 1 - x
  OBVIOUS
<1>4. ASSUME NEW y \in S PROVE x >= y
  <2>1. n + 1 - y \in Mirror
    OBVIOUS
  <2>2. m <= n + 1 - y
    BY <1>2, <2>1
  <2>3. x \in Int /\ y \in Int
    OBVIOUS
  <2> QED
    BY <1>3, <2>2, <2>3
<1> QED
  BY <1>4
=============================================================================
