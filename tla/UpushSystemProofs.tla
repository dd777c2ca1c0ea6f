---------------------------- MODULE UpushSystemProofs ---------------------------
(***************************************************************************)
(* Proofs about UpushSystem for every set of processes, nicks, ports and   *)
(* lines: the types, that each datagram parses to the words its handler    *)
(* reads, that nobody is shown what was not typed for its nick, and that   *)
(* what the one owner of a nick typed is shown in order and once, for      *)
(* those that no late answer to a lookup has misled.                       *)
(*                                                                         *)
(* The first part is about the texts: what parse_message makes of every    *)
(* text, of a line and of each kind of datagram.  The last one is about    *)
(* the order.                                                              *)
(***************************************************************************)
EXTENDS UpushSystem, SequenceTheorems, FunctionTheorems, FiniteSetTheorems, TLAPS

-----------------------------------------------------------------------------
(* Smallest elements.                                                      *)

LEMMA SmallestExists ==
  ASSUME NEW S \in SUBSET Nat, S # {}
  PROVE  Min(S) \in S /\ \A y \in S : Min(S) <= y
<1> DEFINE T == {1 .. x : x \in S}
<1>1. T \subseteq FiniteSubsetsOf(Nat) /\ T # {}
  <2>1. \A x \in S : IsFiniteSet(1 .. x) /\ 1 .. x \subseteq Nat
    BY FS_Interval
  <2> QED
    BY <2>1 DEF FiniteSubsetsOf
<1>2. \E X \in T : \A Y \in T : ~ (<<Y, X>> \in StrictSubsetOrdering(Nat))
  <2> HIDE DEF T
  <2> QED
    BY <1>1, FS_StrictSubsetOrderingWellFounded, WFMin
<1>3. PICK x \in S : \A y \in S : ~ (<<1 .. y, 1 .. x>> \in StrictSubsetOrdering(Nat))
  BY <1>2
<1>4. ASSUME NEW y \in S, y < x PROVE FALSE
  <2>1. 1 .. y \subseteq 1 .. x /\ 1 .. y # 1 .. x /\ 1 .. x \subseteq Nat
    <3>1. x \in 1 .. x /\ x \notin 1 .. y
      BY <1>4
    <3> QED
      BY <1>4, <3>1
  <2> QED
    BY <1>3, <2>1 DEF StrictSubsetOrdering
<1>5. \A y \in S : x <= y
  BY <1>4
<1> QED
  BY <1>5 DEF Min

LEMMA SmallerOfTwo ==
  ASSUME NEW a \in Nat, NEW b \in Nat
  PROVE  Min({a, b}) = IF a <= b THEN a ELSE b
<1>1. Min({a, b}) \in {a, b} /\ \A y \in {a, b} : Min({a, b}) <= y
  BY SmallestExists
<1> QED
  BY <1>1

-----------------------------------------------------------------------------
(* Where the words of a text are.                                          *)

LEMMA OddOrEven ==
  ASSUME NEW i \in Nat, i > 0
  PROVE  \E j \in 1 .. i : i = 2 * j - 1 \/ i = 2 * j
<1>1. CASE i % 2 = 1
  <2>1. (i + 1) \div 2 \in 1 .. i /\ i = 2 * ((i + 1) \div 2) - 1
    BY <1>1
  <2> QED
    BY <2>1
<1>2. CASE i % 2 = 0
  <2>1. i \div 2 \in 1 .. i /\ i = 2 * (i \div 2)
    BY <1>2
  <2> QED
    BY <2>1
<1> QED
  BY <1>1, <1>2

\* The first n words of t, with one space between them.
Leads(t, n) ==
  /\ n \in Nat /\ 2 * n - 1 <= Len(t)
  /\ \A k \in 1 .. n : t[2 * k - 1] # SP
  /\ \A k \in 1 .. n - 1 : t[2 * k] = SP

LEMMA OddPlaces ==
  ASSUME NEW S, NEW t \in Seq(S), NEW n, Leads(t, n), NEW k \in 1 .. n
  PROVE  /\ WordPlaces(t) \cap 1 .. 2 * k - 1 = {2 * j - 1 : j \in 1 .. k}
         /\ Cardinality(WordPlaces(t) \cap 1 .. 2 * k - 1) = k
<1> DEFINE A == WordPlaces(t) \cap 1 .. 2 * k - 1
           B == {2 * j - 1 : j \in 1 .. k}
           f == [j \in 1 .. k |-> 2 * j - 1]
<1>1. n \in Nat /\ DOMAIN t = 1 .. Len(t) /\ Len(t) \in Nat /\ 2 * k - 1 <= Len(t)
  BY DEF Leads
<1>2. B \subseteq A
  BY <1>1 DEF WordPlaces, Leads
<1>3. ASSUME NEW i \in A PROVE i \in B
  <2>1. i \in Nat /\ i > 0 /\ i <= 2 * k - 1 /\ t[i] # SP
    BY DEF WordPlaces
  <2>2. PICK j \in 1 .. i : i = 2 * j - 1 \/ i = 2 * j
    BY <2>1, OddOrEven
  <2>3. i # 2 * j
    <3>1. SUFFICES ASSUME i = 2 * j PROVE FALSE
      OBVIOUS
    <3>2. j \in 1 .. n - 1
      BY <1>1, <2>1, <3>1
    <3> QED
      BY <2>1, <3>1, <3>2 DEF Leads
  <2>4. i = 2 * j - 1 /\ j \in 1 .. k
    BY <2>1, <2>2, <2>3
  <2> QED
    BY <2>4
<1>4. A = B
  BY <1>2, <1>3
<1>5. f \in Bijection(1 .. k, B)
  <2>1. f \in [1 .. k -> B] /\ \A a, b \in 1 .. k : f[a] = f[b] => a = b
    OBVIOUS
  <2>2. \A b \in B : \E a \in 1 .. k : f[a] = b
    OBVIOUS
  <2> HIDE DEF f, B
  <2> QED
    BY <2>1, <2>2, Fun_IsBij
<1>6. ExistsBijection(1 .. k, B)
  BY <1>5 DEF ExistsBijection
<1>7. Cardinality(B) = k
  BY <1>1, <1>6, FS_CountingElements
<1> QED
  BY <1>4, <1>7

LEMMA PlacesAreFinite ==
  ASSUME NEW S, NEW t \in Seq(S), NEW i \in Nat
  PROVE  /\ IsFiniteSet(WordPlaces(t)) /\ WordPlaces(t) \subseteq 1 .. Len(t)
         /\ IsFiniteSet(WordPlaces(t) \cap 1 .. i)
         /\ Cardinality(WordPlaces(t)) \in Nat
<1>1. Len(t) \in Nat /\ WordPlaces(t) \subseteq 1 .. Len(t)
  BY DEF WordPlaces
<1>2. IsFiniteSet(1 .. Len(t))
  BY <1>1, FS_Interval
<1>3. IsFiniteSet(WordPlaces(t))
  BY <1>1, <1>2, FS_Subset
<1> QED
  BY <1>1, <1>3, FS_Subset, FS_CardinalityType

LEMMA LeadingPlaces ==
  ASSUME NEW S, NEW t \in Seq(S), NEW n, Leads(t, n)
  PROVE  /\ \A k \in 1 .. n : Place(WordPlaces(t), k) = 2 * k - 1
         /\ Cardinality(WordPlaces(t)) \in Nat /\ Cardinality(WordPlaces(t)) >= n
         /\ Len(t) = 2 * n - 1 => Cardinality(WordPlaces(t)) = n
<1> DEFINE W == WordPlaces(t)
<1>1. /\ n \in Nat /\ Len(t) \in Nat /\ DOMAIN t = 1 .. Len(t)
      /\ IsFiniteSet(W) /\ W \subseteq 1 .. Len(t) /\ Cardinality(W) \in Nat
      /\ \A i \in Nat : IsFiniteSet(W \cap 1 .. i)
  <2>1. n \in Nat /\ Len(t) \in Nat /\ DOMAIN t = 1 .. Len(t) /\ 0 \in Nat
    BY DEF Leads
  <2>2. \A i \in Nat :
          /\ IsFiniteSet(W) /\ W \subseteq 1 .. Len(t)
          /\ IsFiniteSet(W \cap 1 .. i) /\ Cardinality(W) \in Nat
    BY PlacesAreFinite
  <2> QED
    BY <2>1, <2>2
<1>2. \A k \in 1 .. n : 2 * k - 1 \in W
  BY <1>1 DEF Leads, WordPlaces
<1>3. \A k \in 1 .. n : Cardinality(W \cap 1 .. 2 * k - 1) = k
  BY OddPlaces
<1>4. ASSUME NEW k \in 1 .. n PROVE Place(W, k) = 2 * k - 1
  <2>1. ASSUME NEW i \in W, Cardinality(W \cap 1 .. i) = k, i < 2 * k - 1 PROVE FALSE
    <3>1. /\ W \cap 1 .. i \subseteq W \cap 1 .. 2 * k - 1
          /\ 2 * k - 1 \in W \cap 1 .. 2 * k - 1 /\ 2 * k - 1 \notin 1 .. i
      BY <1>1, <1>2, <2>1
    <3>2. IsFiniteSet(W \cap 1 .. 2 * k - 1)
      BY <1>1
    <3>3. W \cap 1 .. i = W \cap 1 .. 2 * k - 1
      BY <1>3, <2>1, <3>1, <3>2, FS_Subset
    <3> QED
      BY <3>1, <3>3
  <2>2. ASSUME NEW i \in W, Cardinality(W \cap 1 .. i) = k, i > 2 * k - 1 PROVE FALSE
    <3>1. /\ W \cap 1 .. 2 * k - 1 \subseteq W \cap 1 .. i
          /\ i \in W \cap 1 .. i /\ i \notin 1 .. 2 * k - 1
      BY <1>1, <2>2
    <3>2. IsFiniteSet(W \cap 1 .. i)
      BY <1>1
    <3>3. W \cap 1 .. i = W \cap 1 .. 2 * k - 1
      BY <1>3, <2>2, <3>1, <3>2, FS_Subset
    <3> QED
      BY <3>1, <3>3
  <2>3. \A i \in W : Cardinality(W \cap 1 .. i) = k => i = 2 * k - 1
    BY <1>1, <2>1, <2>2
  <2> HIDE DEF W
  <2> QED
    BY <1>2, <1>3, <2>3 DEF Place
<1>5. Cardinality(W) >= n /\ (Len(t) = 2 * n - 1 => Cardinality(W) = n)
  <2>1. CASE n = 0
    BY <1>1, <2>1
  <2>2. CASE n > 0
    <3>1. n \in 1 .. n /\ W \cap 1 .. 2 * n - 1 \subseteq W
      BY <1>1, <2>2
    <3>2. Len(t) = 2 * n - 1 => W \cap 1 .. 2 * n - 1 = W
      BY <1>1
    <3>3. Cardinality(W \cap 1 .. 2 * n - 1) <= Cardinality(W)
      BY <1>1, <3>1, FS_Subset
    <3> QED
      BY <1>1, <1>3, <3>1, <3>2, <3>3
  <2> QED
    BY <1>1, <2>1, <2>2
<1> QED
  BY <1>1, <1>4, <1>5

-----------------------------------------------------------------------------
(* What parse_message makes of leading words.                              *)

LEMMA TextOfWords ==
  ASSUME NEW S, NEW ws \in Seq(S \ {SP}), ws # <<>>
  PROVE  /\ Text(ws) \in Seq(S \cup {SP}) /\ Len(Text(ws)) = 2 * Len(ws) - 1
         /\ \A k \in 1 .. Len(ws) : Text(ws)[2 * k - 1] = ws[k]
         /\ Leads(Text(ws), Len(ws)) /\ IsText(Text(ws))
<1> DEFINE n == Len(ws)
           t == Text(ws)
<1>1. n \in Nat /\ n > 0 /\ \A k \in 1 .. n : ws[k] \in S /\ ws[k] # SP
  OBVIOUS
<1>2. \A i \in 1 .. 2 * n - 1 : i % 2 = 1 => (i + 1) \div 2 \in 1 .. n
  BY <1>1
<1>3. t = [i \in 1 .. 2 * n - 1 |-> IF i % 2 = 1 THEN ws[(i + 1) \div 2] ELSE SP]
  BY DEF Text
<1> HIDE DEF n, t
<1>4. t \in [1 .. 2 * n - 1 -> S \cup {SP}]
  BY <1>1, <1>2, <1>3
<1>5. t \in Seq(S \cup {SP}) /\ Len(t) = 2 * n - 1
  BY <1>1, <1>4
<1>6. ASSUME NEW k \in 1 .. n PROVE t[2 * k - 1] = ws[k]
  <2>1. (2 * k - 1) % 2 = 1 /\ (2 * k - 1 + 1) \div 2 = k /\ 2 * k - 1 \in 1 .. 2 * n - 1
    BY <1>1
  <2> QED
    BY <1>3, <2>1
<1>7. ASSUME NEW k \in 1 .. n - 1 PROVE t[2 * k] = SP
  <2>1. (2 * k) % 2 = 0 /\ 2 * k \in 1 .. 2 * n - 1
    BY <1>1
  <2> QED
    BY <1>3, <2>1
<1>8. Leads(t, n)
  <2>1. \A k \in 1 .. n : t[2 * k - 1] # SP
    BY <1>1, <1>6
  <2>2. \A k \in 1 .. n - 1 : t[2 * k] = SP
    BY <1>7
  <2> QED
    BY <1>1, <1>5, <2>1, <2>2 DEF Leads
<1>9. IsText(t)
  <2>1. SUFFICES ASSUME NEW i \in 1 .. Len(t) - 1 PROVE t[i] = SP \/ t[i + 1] = SP
    BY DEF IsText
  <2>2. i \in 1 .. 2 * n - 2
    BY <1>1, <1>5, <2>1
  <2>3. i % 2 = 1 => (i + 1) % 2 = 0
    BY <2>2
  <2> QED
    BY <1>1, <1>3, <2>2, <2>3
<1> QED
  BY <1>5, <1>6, <1>8, <1>9 DEF n, t

LEMMA RemainderIs ==
  ASSUME NEW S, NEW t \in Seq(S), NEW i \in Nat
  PROVE  /\ Remainder(t, i) \in Seq(S)
         /\ Len(Remainder(t, i)) = IF i + 2 <= Len(t) THEN Len(t) - i - 1 ELSE 0
         /\ \A j \in 1 .. Len(t) - i - 1 : Remainder(t, i)[j] = t[i + 1 + j]
         /\ IsText(t) => IsText(Remainder(t, i))
<1> DEFINE r == Remainder(t, i)
<1>1. Len(t) \in Nat /\ \A j \in i + 2 .. Len(t) : t[j] \in S
  OBVIOUS
<1>2. /\ r \in Seq(S)
      /\ Len(r) = IF i + 2 <= Len(t) THEN Len(t) - (i + 2) + 1 ELSE 0
      /\ \A j \in 1 .. Len(t) - (i + 2) + 1 : r[j] = t[i + 2 + j - 1]
  BY <1>1, SubSeqProperties, i + 2 \in Int, Len(t) \in Int DEF Remainder
<1> HIDE DEF r
<1>3. /\ r \in Seq(S)
      /\ Len(r) = IF i + 2 <= Len(t) THEN Len(t) - i - 1 ELSE 0
      /\ \A j \in 1 .. Len(t) - i - 1 : r[j] = t[i + 1 + j]
  BY <1>1, <1>2
<1>4. ASSUME IsText(t), NEW j \in 1 .. Len(r) - 1 PROVE r[j] = SP \/ r[j + 1] = SP
  <2>1. /\ j \in 1 .. Len(t) - i - 1 /\ j + 1 \in 1 .. Len(t) - i - 1
        /\ i + 1 + j \in 1 .. Len(t) - 1
    BY <1>1, <1>3, <1>4
  <2>2. r[j] = t[i + 1 + j] /\ r[j + 1] = t[(i + 1 + j) + 1]
    BY <1>3, <2>1
  <2> QED
    BY <1>4, <2>1, <2>2 DEF IsText
<1> QED
  BY <1>3, <1>4 DEF r, IsText

LEMMA OneElement ==
  ASSUME NEW S, NEW s \in Seq(S), Len(s) = 1
  PROVE  s = <<s[1]>> /\ s # <<>>
<1> DEFINE r == <<s[1]>>
<1>1. s[1] \in S
  OBVIOUS
<1>2. r \in Seq(S) /\ Len(r) = 1 /\ r[1] = s[1]
  BY <1>1
<1> HIDE DEF r
<1>3. \A i \in 1 .. 1 : i = 1
  OBVIOUS
<1>4. s = r
  BY <1>2, <1>3, SeqEqual
<1>5. s # <<>>
  OBVIOUS
<1> QED
  BY <1>4, <1>5 DEF r

LEMMA Appended ==
  ASSUME NEW S, NEW s \in Seq(S), NEW e \in S
  PROVE  /\ Append(s, e) \in Seq(S) /\ Len(Append(s, e)) = Len(s) + 1
         /\ Append(s, e)[Len(s) + 1] = e
         /\ \A i \in 1 .. Len(s) : Append(s, e)[i] = s[i]
<1>1. Append(s, e)[Len(s) + 1] = e
  OBVIOUS
<1>2. Append(s, e) \in Seq(S) /\ Len(Append(s, e)) = Len(s) + 1
  OBVIOUS
<1>3. \A i \in 1 .. Len(s) : Append(s, e)[i] = s[i]
  OBVIOUS
<1> QED
  BY <1>1, <1>2, <1>3

LEMMA TwoElements ==
  ASSUME NEW S, NEW s \in Seq(S), NEW e \in S
  PROVE  Len(s) = 1 =>
           Len(Append(s, e)) = 2 /\ Append(s, e)[1] = s[1] /\ Append(s, e)[2] = e
<1> DEFINE a == Append(s, e)
<1>1. /\ Len(a) = Len(s) + 1 /\ a[Len(s) + 1] = e
      /\ \A i \in 1 .. Len(s) : a[i] = s[i]
  BY Appended
<1> HIDE DEF a
<1>2. Len(s) = 1 => Len(s) + 1 = 2 /\ 1 \in 1 .. Len(s)
  OBVIOUS
<1>3. Len(s) = 1 => Len(a) = 2 /\ a[2] = e /\ a[1] = s[1]
  BY <1>1, <1>2
<1> QED
  BY <1>3 DEF a

LEMMA OneMore ==
  ASSUME NEW S, NEW t \in Seq(S), NEW n \in Nat, NEW e \in Seq(S), NEW s,
         \A k \in 1 .. n : 2 * k - 1 \in 1 .. Len(t),
         s = [k \in 1 .. n |-> <<t[2 * k - 1]>>]
  PROVE  /\ Len(Append(s, e)) = n + 1 /\ Append(s, e)[n + 1] = e
         /\ \A k \in 1 .. n : Append(s, e)[k] = <<t[2 * k - 1]>>
<1>1. \A k \in 1 .. n : <<t[2 * k - 1]>> \in Seq(S)
  OBVIOUS
<1>2. s \in Seq(Seq(S)) /\ Len(s) = n
  BY <1>1
<1>3. /\ Len(Append(s, e)) = n + 1 /\ Append(s, e)[n + 1] = e
      /\ \A k \in 1 .. n : Append(s, e)[k] = s[k]
  BY <1>2
<1> QED
  BY <1>3

\* A text of n words is parsed to its words.
LEMMA ParsesWords ==
  ASSUME NEW S, NEW t \in Seq(S), NEW n, Leads(t, n), Len(t) = 2 * n - 1, n > 0,
         NEW max \in Nat, max > 1, n <= max
  PROVE  /\ Len(parse_message(t, max)) = n
         /\ \A k \in 1 .. n : parse_message(t, max)[k] = <<t[2 * k - 1]>>
<1> DEFINE W == WordPlaces(t)
           c == Cardinality(W)
           first == [k \in 1 .. Min({c, max - 1}) |-> <<t[Place(W, k)]>>]
           last == Remainder(t, Place(W, max - 1))
<1>1. n \in Nat /\ c = n /\ \A k \in 1 .. n : Place(W, k) = 2 * k - 1
  BY LeadingPlaces DEF Leads
<1>2. parse_message(t, max) =
        IF n < max - 1 \/ last = <<>> THEN first ELSE Append(first, last)
  BY <1>1 DEF parse_message
<1>3. Min({c, max - 1}) = IF n <= max - 1 THEN n ELSE max - 1
  BY <1>1, SmallerOfTwo, max - 1 \in Nat
<1> HIDE DEF W, c, first, last
<1>4. first = [k \in 1 .. (IF n <= max - 1 THEN n ELSE max - 1) |-> <<t[Place(W, k)]>>]
  BY <1>3 DEF first
<1>5. CASE n < max - 1
  BY <1>1, <1>2, <1>4, <1>5
<1>6. CASE n = max - 1
  <2>1. last = Remainder(t, 2 * n - 1) /\ 2 * n - 1 \in Nat
    BY <1>1, <1>6 DEF last
  <2>2. last \in Seq(S) /\ Len(last) = 0
    BY <1>1, <2>1, RemainderIs
  <2>3. last = <<>>
    BY <2>2
  <2> QED
    BY <1>1, <1>2, <1>4, <1>6, <2>3
<1>7. CASE n = max
  <2>1. last = Remainder(t, 2 * n - 3) /\ 2 * n - 3 \in Nat
    <3>1. Place(W, max - 1) = 2 * (max - 1) - 1
      BY <1>1, <1>7
    <3> QED
      BY <1>1, <1>7, <3>1 DEF last
  <2>2. last \in Seq(S) /\ Len(last) = 1 /\ last[1] = t[2 * n - 1]
    <3>1. /\ last \in Seq(S)
          /\ Len(last) = IF (2 * n - 3) + 2 <= Len(t) THEN Len(t) - (2 * n - 3) - 1 ELSE 0
          /\ \A j \in 1 .. Len(t) - (2 * n - 3) - 1 : last[j] = t[(2 * n - 3) + 1 + j]
      BY <2>1, RemainderIs
    <3>2. Len(t) - (2 * n - 3) - 1 = 1 /\ (2 * n - 3) + 2 <= Len(t)
      BY <1>1
    <3>3. Len(last) = 1 /\ last[1] = t[(2 * n - 3) + 1 + 1]
      BY <3>1, <3>2
    <3> QED
      BY <1>1, <3>1, <3>3
  <2>3. last = <<t[2 * n - 1]>> /\ last # <<>>
    BY <2>2, OneElement
  <2>4. first = [k \in 1 .. n - 1 |-> <<t[2 * k - 1]>>]
    BY <1>1, <1>4, <1>7
  <2>5. parse_message(t, max) = Append(first, <<t[2 * n - 1]>>)
    BY <1>1, <1>2, <1>7, <2>3
  <2>6. \A k \in 1 .. n : 2 * k - 1 \in 1 .. Len(t)
    BY <1>1
  <2> QED
    <3>1. n - 1 \in Nat /\ <<t[2 * n - 1]>> \in Seq(S)
      BY <1>1, <2>6
    <3>2. /\ Len(parse_message(t, max)) = n - 1 + 1
          /\ parse_message(t, max)[n - 1 + 1] = <<t[2 * n - 1]>>
          /\ \A k \in 1 .. n - 1 : parse_message(t, max)[k] = <<t[2 * k - 1]>>
      BY <1>1, <2>4, <2>5, <2>6, <3>1, OneMore
    <3>3. n - 1 + 1 = n /\ \A k \in 1 .. n : k = n \/ k \in 1 .. n - 1
      BY <1>1
    <3> QED
      BY <3>2, <3>3
<1> QED
  BY <1>1, <1>5, <1>6, <1>7

\* What follows the first max - 1 words is the last element, as it stands.
LEMMA ParsesRemainder ==
  ASSUME NEW S, NEW t \in Seq(S), NEW max \in Nat, max > 1, Leads(t, max - 1),
         Len(t) > 2 * (max - 1)
  PROVE  /\ Len(parse_message(t, max)) = max
         /\ \A k \in 1 .. max - 1 : parse_message(t, max)[k] = <<t[2 * k - 1]>>
         /\ parse_message(t, max)[max] = Remainder(t, 2 * (max - 1) - 1)
<1> DEFINE W == WordPlaces(t)
           n == max - 1
           c == Cardinality(W)
           first == [k \in 1 .. Min({c, n}) |-> <<t[Place(W, k)]>>]
           last == Remainder(t, Place(W, n))
<1>1. /\ n \in Nat /\ n > 0 /\ c \in Nat /\ c >= n
      /\ \A k \in 1 .. n : Place(W, k) = 2 * k - 1
  <2>1. n \in Nat /\ n > 0 /\ Leads(t, n)
    OBVIOUS
  <2> HIDE DEF n
  <2> QED
    BY <2>1, LeadingPlaces
<1>2. parse_message(t, max) =
        IF c < n \/ last = <<>> THEN first ELSE Append(first, last)
  BY DEF parse_message
<1>3. Min({c, n}) = n
  BY <1>1, SmallerOfTwo
<1> HIDE DEF W, c, first, last, n
<1>4. first = [k \in 1 .. n |-> <<t[2 * k - 1]>>]
  BY <1>1, <1>3 DEF first
<1>5. last = Remainder(t, 2 * n - 1) /\ 2 * n - 1 \in Nat
  BY <1>1 DEF last
<1>6. last # <<>>
  <2>1. Len(last) = IF 2 * n - 1 + 2 <= Len(t) THEN Len(t) - (2 * n - 1) - 1 ELSE 0
    BY <1>5, RemainderIs
  <2>2. Len(last) > 0
    BY <1>1, <2>1 DEF n
  <2> QED
    BY <2>2
<1>7. parse_message(t, max) = Append(first, last)
  BY <1>1, <1>2, <1>6
<1>8. \A k \in 1 .. n : 2 * k - 1 \in 1 .. Len(t)
  BY <1>1 DEF n
<1>9. last \in Seq(S)
  BY <1>5, RemainderIs
<1>10. /\ Len(parse_message(t, max)) = n + 1
       /\ \A k \in 1 .. n : parse_message(t, max)[k] = <<t[2 * k - 1]>>
       /\ parse_message(t, max)[n + 1] = last
  BY <1>1, <1>4, <1>7, <1>8, <1>9, OneMore
<1>11. n + 1 = max /\ n = max - 1
  BY DEF n
<1> QED
  BY <1>5, <1>10, <1>11

-----------------------------------------------------------------------------
(* How many of a set of places there are up to i, and which is the k-th.   *)

CountTo(W, i) == Cardinality(W \cap 1 .. i)

LEMMA CountsPlaces ==
  ASSUME NEW n \in Nat, NEW W \in SUBSET (1 .. n)
  PROVE  /\ IsFiniteSet(W) /\ Cardinality(W) \in Nat
         /\ \A i \in Nat : IsFiniteSet(W \cap 1 .. i) /\ CountTo(W, i) \in Nat
         /\ CountTo(W, 0) = 0 /\ CountTo(W, n) = Cardinality(W)
         /\ \A i, j \in Nat : i <= j => CountTo(W, i) <= CountTo(W, j)
         /\ \A i \in Nat, j \in W : i < j => CountTo(W, i) < CountTo(W, j)
         /\ \A i \in Nat : CountTo(W, i + 1) <= CountTo(W, i) + 1
         /\ \A i \in Nat : i + 1 \notin W => CountTo(W, i + 1) = CountTo(W, i)
<1>1. IsFiniteSet(W) /\ Cardinality(W) \in Nat
  <2>1. IsFiniteSet(1 .. n)
    BY FS_Interval
  <2> QED
    BY <2>1, FS_Subset, FS_CardinalityType
<1>2. ASSUME NEW i \in Nat PROVE IsFiniteSet(W \cap 1 .. i) /\ CountTo(W, i) \in Nat
  BY <1>1, FS_Subset, FS_CardinalityType DEF CountTo
<1>3. CountTo(W, 0) = 0
  <2>1. W \cap 1 .. 0 = {}
    OBVIOUS
  <2> QED
    BY <2>1, FS_EmptySet DEF CountTo
<1>4. CountTo(W, n) = Cardinality(W)
  <2>1. W \cap 1 .. n = W
    OBVIOUS
  <2> QED
    BY <2>1 DEF CountTo
<1>5. ASSUME NEW i \in Nat, NEW j \in Nat, i <= j PROVE CountTo(W, i) <= CountTo(W, j)
  <2>1. W \cap 1 .. i \subseteq W \cap 1 .. j
    BY <1>5
  <2> QED
    BY <1>2, <2>1, FS_Subset DEF CountTo
<1>6. ASSUME NEW i \in Nat, NEW j \in W, i < j PROVE CountTo(W, i) < CountTo(W, j)
  <2>1. j \in Nat
    OBVIOUS
  <2>2. /\ W \cap 1 .. i \subseteq W \cap 1 .. j
        /\ j \in W \cap 1 .. j /\ j \notin W \cap 1 .. i
    BY <1>6, <2>1
  <2>3. /\ Cardinality(W \cap 1 .. i) <= Cardinality(W \cap 1 .. j)
        /\ Cardinality(W \cap 1 .. i) # Cardinality(W \cap 1 .. j)
    BY <1>2, <2>1, <2>2, FS_Subset
  <2> QED
    BY <1>2, <2>1, <2>3 DEF CountTo
<1>7. ASSUME NEW i \in Nat
      PROVE  /\ CountTo(W, i + 1) <= CountTo(W, i) + 1
             /\ i + 1 \notin W => CountTo(W, i + 1) = CountTo(W, i)
  <2> PICK a \in Nat : a = CountTo(W, i)
    BY <1>2
  <2>1. 1 .. i + 1 = (1 .. i) \cup {i + 1} /\ i + 1 \notin 1 .. i
    OBVIOUS
  <2>2. CASE i + 1 \in W
    <3>1. W \cap 1 .. i + 1 = (W \cap 1 .. i) \cup {i + 1} /\ i + 1 \notin W \cap 1 .. i
      BY <2>1, <2>2
    <3>2. CountTo(W, i + 1) = CountTo(W, i) + 1
      BY <1>2, <3>1, FS_AddElement DEF CountTo
    <3> QED
      BY <2>2, <3>2
  <2>3. CASE i + 1 \notin W
    <3>1. W \cap 1 .. i + 1 = W \cap 1 .. i
      BY <2>1, <2>3
    <3>2. CountTo(W, i + 1) = CountTo(W, i)
      BY <3>1 DEF CountTo
    <3> QED
      BY <3>2
  <2> QED
    BY <2>2, <2>3
<1> QED
  BY <1>1, <1>2, <1>3, <1>4, <1>5, <1>6, <1>7

LEMMA PlaceIs ==
  ASSUME NEW n \in Nat, NEW W \in SUBSET (1 .. n), NEW k \in 1 .. Cardinality(W)
  PROVE  /\ Place(W, k) \in W /\ CountTo(W, Place(W, k)) = k
         /\ \A i \in W : CountTo(W, i) = k => Place(W, k) = i
<1> DEFINE Reach == {i \in Nat : CountTo(W, i) >= k}
           p == Min(Reach)
<1>1. Cardinality(W) \in Nat /\ k \in Nat /\ k > 0 /\ k <= Cardinality(W)
  BY CountsPlaces
<1>2. n \in Reach /\ Reach \in SUBSET Nat
  BY <1>1, CountsPlaces
<1>3. p \in Reach /\ \A y \in Reach : p <= y
  BY <1>2, SmallestExists
<1> HIDE DEF p
<1>4. p \in Nat /\ CountTo(W, p) \in Nat /\ CountTo(W, p) >= k
  BY <1>3, CountsPlaces
<1>5. p # 0
  BY <1>1, <1>4, CountsPlaces
<1>6. PICK q \in Nat : p = q + 1
  BY <1>4, <1>5, p - 1 \in Nat
<1>7. CountTo(W, q) \in Nat /\ CountTo(W, q) < k
  <2>1. q \notin Reach
    BY <1>3, <1>4, <1>6
  <2>2. CountTo(W, q) \in Nat
    BY CountsPlaces
  <2> QED
    BY <1>1, <2>1, <2>2
<1>8. /\ CountTo(W, q + 1) <= CountTo(W, q) + 1
      /\ q + 1 \notin W => CountTo(W, q + 1) = CountTo(W, q)
  BY CountsPlaces
<1>9. p \in W /\ CountTo(W, p) = k
  BY <1>1, <1>4, <1>6, <1>7, <1>8
<1>10. \A i \in W : CountTo(W, i) = k => i = p
  <2>1. SUFFICES ASSUME NEW i \in W, CountTo(W, i) = k, i # p PROVE FALSE
    OBVIOUS
  <2>2. i \in Nat /\ (i < p \/ p < i)
    BY <1>4, <2>1
  <2>3. CASE i < p
    <3>1. CountTo(W, i) < CountTo(W, p)
      BY <1>9, <2>2, <2>3, CountsPlaces
    <3> QED
      BY <1>1, <1>9, <2>1, <3>1
  <2>4. CASE p < i
    <3>1. CountTo(W, p) < CountTo(W, i)
      BY <1>4, <2>1, <2>4, CountsPlaces
    <3> QED
      BY <1>1, <1>9, <2>1, <3>1
  <2> QED
    BY <2>2, <2>3, <2>4
<1> HIDE DEF Reach
<1>11. Place(W, k) = p
  BY <1>9, <1>10 DEF Place, CountTo
<1> QED
  BY <1>9, <1>10, <1>11

\* The places of the words are in order, and each is the place of some word.
LEMMA PlacesInOrder ==
  ASSUME NEW n \in Nat, NEW W \in SUBSET (1 .. n),
         NEW a \in 1 .. Cardinality(W), NEW b \in 1 .. Cardinality(W), a < b
  PROVE  Place(W, a) < Place(W, b)
<1>1. PICK p \in W : p = Place(W, a) /\ CountTo(W, p) = a
  BY PlaceIs
<1>2. PICK q \in W : q = Place(W, b) /\ CountTo(W, q) = b
  BY PlaceIs
<1>3. p \in Nat /\ q \in Nat /\ a \in Nat /\ b \in Nat
  BY CountsPlaces
<1>4. SUFFICES ASSUME q <= p PROVE FALSE
  BY <1>1, <1>2, <1>3
<1>5. CountTo(W, q) <= CountTo(W, p)
  BY <1>3, <1>4, CountsPlaces
<1> QED
  BY <1>1, <1>2, <1>3, <1>5

LEMMA WordsAre ==
  ASSUME NEW S, NEW t \in Seq(S)
  PROVE  /\ Len(t) \in Nat /\ WordPlaces(t) \in SUBSET (1 .. Len(t))
         /\ Cardinality(WordPlaces(t)) \in Nat
         /\ Words(t) \in Seq(S) /\ Len(Words(t)) = Cardinality(WordPlaces(t))
         /\ \A k \in 1 .. Cardinality(WordPlaces(t)) :
              /\ Place(WordPlaces(t), k) \in WordPlaces(t)
              /\ Words(t)[k] = t[Place(WordPlaces(t), k)]
<1> DEFINE W == WordPlaces(t)
           n == Cardinality(W)
<1>1. Len(t) \in Nat /\ W \in SUBSET (1 .. Len(t)) /\ \A i \in W : t[i] \in S
  BY DEF WordPlaces
<1>2. n \in Nat
  BY <1>1, CountsPlaces
<1>3. Words(t) = [k \in 1 .. n |-> t[Place(W, k)]]
  BY DEF Words
<1> HIDE DEF W
<1>4. \A k \in 1 .. n : Place(W, k) \in W
  BY <1>1, PlaceIs
<1> HIDE DEF n
<1>5. Words(t) \in [1 .. n -> S]
  BY <1>1, <1>3, <1>4
<1>6. Words(t) \in Seq(S) /\ Len(Words(t)) = n
  BY <1>2, <1>5
<1>7. \A k \in 1 .. n : Words(t)[k] = t[Place(W, k)]
  BY <1>3
<1> QED
  BY <1>1, <1>2, <1>4, <1>6, <1>7 DEF W, n

\* The words behind the space that follows place i.
LEMMA PlacesBehind ==
  ASSUME NEW S, NEW t \in Seq(S), NEW i \in Nat, i + 1 <= Len(t), t[i + 1] = SP
  PROVE  /\ Len(Remainder(t, i)) = Len(t) - i - 1
         /\ \A j \in 1 .. Len(t) - i - 1 :
              j \in WordPlaces(Remainder(t, i)) <=> i + 1 + j \in WordPlaces(t)
         /\ \A j \in 0 .. Len(t) - i - 1 :
              CountTo(WordPlaces(t), i + 1 + j)
                = CountTo(WordPlaces(t), i) + CountTo(WordPlaces(Remainder(t, i)), j)
<1> DEFINE W == WordPlaces(t)
           r == Remainder(t, i)
           V == WordPlaces(r)
<1>1. /\ Len(t) \in Nat /\ DOMAIN t = 1 .. Len(t) /\ W \in SUBSET (1 .. Len(t))
      /\ i + 1 \notin W
  BY DEF WordPlaces
<1>2. /\ r \in Seq(S) /\ Len(r) = Len(t) - i - 1 /\ Len(r) \in Nat
      /\ \A j \in 1 .. Len(r) : r[j] = t[i + 1 + j]
  <2>1. /\ r \in Seq(S) /\ Len(r) = IF i + 2 <= Len(t) THEN Len(t) - i - 1 ELSE 0
        /\ \A j \in 1 .. Len(t) - i - 1 : r[j] = t[i + 1 + j]
    BY RemainderIs
  <2> HIDE DEF r
  <2>2. PICK m \in Nat : m = Len(t)
    BY <1>1
  <2>3. Len(r) = m - i - 1 /\ m - i - 1 \in Nat
    BY <2>1, <2>2
  <2>4. Len(r) = Len(t) - i - 1 /\ Len(r) \in Nat
    BY <2>2, <2>3
  <2>5. \A j \in 1 .. Len(r) : r[j] = t[i + 1 + j]
    BY <2>1, <2>4
  <2> QED
    BY <2>1, <2>4, <2>5
<1>3. DOMAIN r = 1 .. Len(r) /\ V \in SUBSET (1 .. Len(r))
  BY <1>2 DEF WordPlaces
<1>4. \A j \in 1 .. Len(r) : j \in V <=> i + 1 + j \in W
  <2> HIDE DEF r
  <2> SUFFICES ASSUME NEW j \in 1 .. Len(r) PROVE j \in V <=> i + 1 + j \in W
    OBVIOUS
  <2>1. i + 1 + j \in DOMAIN t /\ j \in DOMAIN r
    BY <1>1, <1>2, <1>3
  <2> QED
    BY <1>2, <2>1 DEF WordPlaces
<1> HIDE DEF W, V, r
<1>5. ASSUME NEW j \in 0 .. Len(r) PROVE CountTo(W, i + 1 + j) = CountTo(W, i) + CountTo(V, j)
  <2> DEFINE A == W \cap 1 .. i
             B == V \cap 1 .. j
             C == {x \in W : i + 1 < x /\ x <= i + 1 + j}
             f == [x \in B |-> i + 1 + x]
  <2>1. W \cap 1 .. i + 1 + j = A \cup C /\ A \cap C = {}
    <3>1. ASSUME NEW x \in W
          PROVE  x \in 1 .. i + 1 + j <=> x \in 1 .. i \/ (i + 1 < x /\ x <= i + 1 + j)
      <4>1. x \in Nat /\ x > 0 /\ x # i + 1 /\ j \in Nat
        BY <1>1, <1>2
      <4> QED
        BY <4>1
    <3>2. ASSUME NEW x \in A, x \in C PROVE FALSE
      BY <3>2
    <3> QED
      BY <3>1, <3>2
  <2>2. IsFiniteSet(B) /\ Cardinality(B) = CountTo(V, j) /\ CountTo(V, j) \in Nat
    BY <1>2, <1>3, CountsPlaces, j \in Nat DEF CountTo
  <2>3. IsFiniteSet(A) /\ Cardinality(A) = CountTo(W, i) /\ CountTo(W, i) \in Nat
    BY <1>1, CountsPlaces DEF CountTo
  <2>4. f \in Bijection(B, C)
    <3>1. \A x \in B : x \in Nat /\ x > 0 /\ x <= j /\ x \in 1 .. Len(r) /\ x \in V
      BY <1>2, <1>3
    <3>2. \A x \in B : i + 1 + x \in C
      BY <1>4, <3>1
    <3>3. \A c \in C : c - i - 1 \in B /\ i + 1 + (c - i - 1) = c
      <4> SUFFICES ASSUME NEW c \in C PROVE c - i - 1 \in B /\ i + 1 + (c - i - 1) = c
        OBVIOUS
      <4>1. c \in Nat /\ c \in W /\ i + 1 < c /\ c <= i + 1 + j /\ j <= Len(r) /\ j \in Nat
        BY <1>1, <1>2
      <4>2. PICK x \in 1 .. Len(r) : c = i + 1 + x /\ x <= j
        BY <1>2, <4>1, c - i - 1 \in 1 .. Len(r)
      <4>3. x \in B
        BY <1>4, <4>1, <4>2
      <4> QED
        BY <4>2, <4>3, c - i - 1 = x
    <3>4. f \in [B -> C] /\ \A a, b \in B : f[a] = f[b] => a = b
      BY <3>1, <3>2
    <3>5. \A c \in C : \E b \in B : f[b] = c
      BY <3>3
    <3> HIDE DEF f, B, C
    <3> QED
      BY <3>4, <3>5, Fun_IsBij
  <2>5. ExistsBijection(B, C)
    BY <2>4 DEF ExistsBijection
  <2> HIDE DEF A, B, C
  <2>6. IsFiniteSet(C) /\ Cardinality(C) = CountTo(V, j)
    BY <2>2, <2>5, FS_Bijection
  <2>7. Cardinality(A \cup C) = Cardinality(A) + Cardinality(C) - 0
    BY <2>1, <2>3, <2>6, FS_Union, FS_EmptySet
  <2>8. CountTo(W, i + 1 + j) = Cardinality(A \cup C)
    BY <2>1 DEF CountTo
  <2> QED
    BY <2>2, <2>3, <2>6, <2>7, <2>8
<1> QED
  BY <1>2, <1>4, <1>5 DEF W, V, r

\* In a text no word follows the last one, and a space follows each of the others.
LEMMA SpaceBehind ==
  ASSUME NEW S, NEW t \in Seq(S), IsText(t), NEW i \in WordPlaces(t), i + 1 <= Len(t)
  PROVE  t[i + 1] = SP
<1>1. Len(t) \in Nat /\ i \in 1 .. Len(t) - 1 /\ t[i] # SP
  BY DEF WordPlaces
<1> QED
  BY <1>1 DEF IsText

LEMMA NothingBehind ==
  ASSUME NEW S, NEW t \in Seq(S), IsText(t),
         NEW m \in 1 .. Cardinality(WordPlaces(t)),
         Remainder(t, Place(WordPlaces(t), m)) = <<>>
  PROVE  m = Cardinality(WordPlaces(t))
<1> DEFINE W == WordPlaces(t)
           n == Cardinality(W)
           P(k) == Place(W, k)
           last == Remainder(t, P(m))
<1>1. Len(t) \in Nat /\ W \in SUBSET (1 .. Len(t)) /\ n \in Nat
  BY WordsAre
<1>2. SUFFICES ASSUME m < n PROVE FALSE
  BY <1>1
<1>3. m + 1 \in 1 .. n /\ m \in 1 .. n /\ m < m + 1 /\ m \in Nat
  BY <1>1, <1>2
<1>4. PICK i \in W : i = P(m)
  BY <1>1, <1>3, PlaceIs
<1>5. PICK j \in W : j = P(m + 1)
  BY <1>1, <1>3, PlaceIs
<1> HIDE DEF n
<1>6. i < j
  <2>1. Place(W, m) < Place(W, m + 1)
    BY <1>1, <1>3, PlacesInOrder DEF n
  <2> QED
    BY <1>4, <1>5, <2>1
<1>7. i \in Nat /\ j \in Nat /\ i + 1 <= Len(t)
  BY <1>1, <1>6
<1>8. t[i + 1] = SP
  BY <1>7, SpaceBehind
<1>9. j # i + 1
  BY <1>8 DEF WordPlaces
<1>10. i + 2 <= Len(t)
  BY <1>1, <1>6, <1>7, <1>9
<1>11. Len(last) = Len(t) - i - 1
  BY <1>4, <1>7, <1>10, RemainderIs
<1>12. Len(last) = 0
  <2>1. last = <<>>
    OBVIOUS
  <2> QED
    BY <2>1
<1> QED
  BY <1>1, <1>7, <1>10, <1>11, <1>12

LEMMA WordsBehind ==
  ASSUME NEW S, NEW t \in Seq(S), IsText(t),
         NEW m \in 1 .. Cardinality(WordPlaces(t)),
         Remainder(t, Place(WordPlaces(t), m)) # <<>>
  PROVE  Words(t) = SubSeq(Words(t), 1, m) \o Words(Remainder(t, Place(WordPlaces(t), m)))
<1> DEFINE W == WordPlaces(t)
           n == Cardinality(W)
           i == Place(W, m)
           last == Remainder(t, i)
           V == WordPlaces(last)
<1>1. /\ Len(t) \in Nat /\ W \in SUBSET (1 .. Len(t)) /\ n \in Nat
      /\ Words(t) \in Seq(S) /\ Len(Words(t)) = n
      /\ \A k \in 1 .. n : Place(W, k) \in W /\ Words(t)[k] = t[Place(W, k)]
  BY WordsAre
<1>2. i \in W /\ CountTo(W, i) = m /\ i \in Nat /\ i > 0 /\ i <= Len(t)
  <2>1. i \in W /\ CountTo(W, i) = m
    BY <1>1, PlaceIs
  <2> HIDE DEF i
  <2> QED
    BY <1>1, <2>1
<1> HIDE DEF n, i, W
<1>3. last \in Seq(S) /\ i + 2 <= Len(t) /\ \A j \in 1 .. Len(t) - i - 1 : last[j] = t[i + 1 + j]
  <2>1. /\ last \in Seq(S) /\ Len(last) = IF i + 2 <= Len(t) THEN Len(t) - i - 1 ELSE 0
        /\ \A j \in 1 .. Len(t) - i - 1 : last[j] = t[i + 1 + j]
    BY <1>2, RemainderIs
  <2>2. Len(last) # 0
    <3>1. last # <<>>
      BY DEF i, W
    <3> HIDE DEF last
    <3> QED
      BY <2>1, <3>1, EmptySeq
  <2> HIDE DEF last
  <2> QED
    BY <2>1, <2>2
<1>4. i + 1 <= Len(t) /\ t[i + 1] = SP
  <2>1. i + 1 <= Len(t)
    BY <1>1, <1>2, <1>3
  <2> QED
    BY <1>2, <2>1, SpaceBehind DEF W
<1>5. /\ Len(last) = Len(t) - i - 1
      /\ \A j \in 1 .. Len(t) - i - 1 : j \in V <=> i + 1 + j \in W
      /\ \A j \in 0 .. Len(t) - i - 1 : CountTo(W, i + 1 + j) = CountTo(W, i) + CountTo(V, j)
  BY <1>2, <1>4, PlacesBehind DEF W
<1>6. /\ V \in SUBSET (1 .. Len(last)) /\ Cardinality(V) \in Nat
      /\ Words(last) \in Seq(S) /\ Len(Words(last)) = Cardinality(V)
      /\ \A k \in 1 .. Cardinality(V) : Words(last)[k] = last[Place(V, k)]
  BY <1>3, WordsAre
<1> HIDE DEF last, V
<1> PICK l \in Nat : l = Len(t) - i - 1 /\ i + 1 + l = Len(t)
  <2>1. PICK a \in Nat, b \in Nat : a = Len(t) /\ b = i
    BY <1>1, <1>2
  <2>2. a - b - 1 \in Nat /\ b + 1 + (a - b - 1) = a
    BY <1>3, <2>1
  <2> QED
    BY <2>1, <2>2
<1>7. n = m + Cardinality(V)
  <2>1. CountTo(W, Len(t)) = n
    BY <1>1, CountsPlaces DEF n
  <2>2. CountTo(V, l) = Cardinality(V)
    BY <1>5, <1>6, CountsPlaces
  <2>3. CountTo(W, i + 1 + l) = CountTo(W, i) + CountTo(V, l)
    BY <1>5
  <2> QED
    BY <1>2, <2>1, <2>2, <2>3
<1>8. m \in 1 .. n /\ m \in Nat
  BY <1>1 DEF n, W
<1>9. ASSUME NEW k \in 1 .. Cardinality(V) PROVE Words(last)[k] = Words(t)[m + k]
  <2>1. m + k \in 1 .. n /\ k \in Nat /\ k > 0
    BY <1>6, <1>7, <1>8
  <2>2. PICK p \in W : p = Place(W, m + k) /\ CountTo(W, p) = m + k
    BY <1>1, <2>1, PlaceIs DEF n
  <2>3. p \in Nat /\ p <= Len(t)
    BY <1>1
  <2>4. p > i
    <3>1. SUFFICES ASSUME p <= i PROVE FALSE
      BY <1>2, <2>3
    <3>2. CountTo(W, p) <= CountTo(W, i)
      BY <1>1, <1>2, <2>3, <3>1, CountsPlaces
    <3> QED
      BY <1>2, <1>8, <2>1, <2>2, <3>2
  <2>5. p # i + 1
    BY <1>4 DEF W, WordPlaces
  <2>6. PICK x \in 1 .. l : p = i + 1 + x
    BY <1>1, <1>2, <2>3, <2>4, <2>5, p - i - 1 \in 1 .. l
  <2>7. x \in V /\ CountTo(V, x) = k
    <3>1. x \in V
      BY <1>5, <2>6
    <3>2. CountTo(W, i + 1 + x) = CountTo(W, i) + CountTo(V, x)
      BY <1>5, <2>6
    <3>3. CountTo(V, x) \in Nat
      BY <1>5, <1>6, <2>6, CountsPlaces, x \in Nat
    <3> QED
      BY <1>2, <1>8, <2>1, <2>2, <2>6, <3>1, <3>2, <3>3
  <2>8. Place(V, k) = x
    BY <1>5, <1>6, <2>7, PlaceIs
  <2>9. last[x] = t[p]
    BY <1>3, <2>6
  <2> QED
    BY <1>1, <1>6, <2>1, <2>2, <2>8, <2>9
<1>10. /\ SubSeq(Words(t), 1, m) \in Seq(S) /\ Len(SubSeq(Words(t), 1, m)) = m
       /\ \A k \in 1 .. m : SubSeq(Words(t), 1, m)[k] = Words(t)[k]
  BY <1>1, <1>8
<1> DEFINE a == SubSeq(Words(t), 1, m)
           c == a \o Words(last)
<1> HIDE DEF a
<1>11. /\ c \in Seq(S) /\ Len(c) = m + Cardinality(V)
       /\ \A k \in 1 .. m : c[k] = a[k]
       /\ \A k \in m + 1 .. n : c[k] = Words(last)[k - m]
  BY <1>6, <1>7, <1>8, <1>10, ConcatProperties DEF a
<1> HIDE DEF c
<1>12. \A k \in 1 .. n : c[k] = Words(t)[k]
  <2> SUFFICES ASSUME NEW k \in 1 .. n PROVE c[k] = Words(t)[k]
    OBVIOUS
  <2>1. CASE k \in 1 .. m
    BY <1>10, <1>11, <2>1 DEF a
  <2>2. CASE k \notin 1 .. m
    <3>1. k \in m + 1 .. n /\ k - m \in 1 .. Cardinality(V) /\ m + (k - m) = k
      BY <1>1, <1>6, <1>7, <1>8, <2>2
    <3> QED
      BY <1>9, <1>11, <3>1
  <2> QED
    BY <2>1, <2>2
<1>13. Words(t) = c
  BY <1>1, <1>7, <1>11, <1>12, SeqEqual
<1> QED
  BY <1>13 DEF c, a, last, i, W

LEMMA RemainderIsSuffix ==
  ASSUME NEW S, NEW t \in Seq(S), NEW i \in Nat, i > 0
  PROVE  IsSuffix(Remainder(t, i), t)
<1> DEFINE r == Remainder(t, i)
           back(s) == [k \in 1 .. Len(s) |-> s[(Len(s) - k) + 1]]
<1>1. PICK m \in Nat : m = Len(t)
  OBVIOUS
<1>2. /\ r \in Seq(S) /\ Len(r) = IF i + 2 <= m THEN m - i - 1 ELSE 0
      /\ \A j \in 1 .. m - i - 1 : r[j] = t[i + 1 + j]
  BY <1>1, RemainderIs
<1> HIDE DEF r
<1>3. PICK l \in Nat : l = Len(r) /\ l <= m /\ (l = m - i - 1 \/ l = 0)
  BY <1>2
<1>4. ASSUME NEW j \in 1 .. l PROVE r[j] = t[m - l + j]
  <2>1. j \in 1 .. m - i - 1 /\ i + 1 + j = m - l + j
    BY <1>3
  <2>2. r[j] = t[i + 1 + j]
    BY <1>2, <2>1
  <2> QED
    BY <2>1, <2>2
<1>5. /\ back(r) \in Seq(S) /\ Len(back(r)) = l
      /\ \A k \in 1 .. l : back(r)[k] = r[l - k + 1]
  <2>1. \A k \in 1 .. l : l - k + 1 \in 1 .. l
    BY <1>3
  <2>2. back(r) \in [1 .. l -> S]
    BY <1>2, <1>3, <2>1
  <2> QED
    BY <1>3, <2>2
<1>6. /\ back(t) \in Seq(S) /\ Len(back(t)) = m
      /\ \A k \in 1 .. m : back(t)[k] = t[m - k + 1]
  <2>1. \A k \in 1 .. m : m - k + 1 \in 1 .. m
    BY <1>1
  <2>2. back(t) \in [1 .. m -> S]
    BY <1>1, <2>1
  <2> QED
    BY <1>1, <2>2
<1>7. back(r) = Reverse(r) /\ back(t) = Reverse(t)
  BY DEF Reverse
<1> HIDE DEF back
<1>8. \A k \in 1 .. l : back(r)[k] = back(t)[k]
  <2> SUFFICES ASSUME NEW k \in 1 .. l PROVE back(r)[k] = back(t)[k]
    OBVIOUS
  <2>1. k \in 1 .. m /\ l - k + 1 \in 1 .. l /\ m - l + (l - k + 1) = m - k + 1
    BY <1>3
  <2>2. r[l - k + 1] = t[m - l + (l - k + 1)]
    BY <1>4, <2>1
  <2>3. back(r)[k] = r[l - k + 1] /\ back(t)[k] = t[m - k + 1]
    BY <1>5, <1>6, <2>1
  <2> QED
    BY <2>1, <2>2, <2>3
<1>9. /\ SubSeq(back(r), 1, l) \in Seq(S) /\ Len(SubSeq(back(r), 1, l)) = l
      /\ \A k \in 1 .. l : SubSeq(back(r), 1, l)[k] = back(r)[k]
  BY <1>5
<1>10. /\ SubSeq(back(t), 1, l) \in Seq(S) /\ Len(SubSeq(back(t), 1, l)) = l
       /\ \A k \in 1 .. l : SubSeq(back(t), 1, l)[k] = back(t)[k]
  BY <1>3, <1>6
<1> DEFINE x == SubSeq(back(r), 1, l)
           y == SubSeq(back(t), 1, l)
<1> HIDE DEF x, y
<1>11. x = y
  <2>1. x \in Seq(S) /\ y \in Seq(S) /\ Len(x) = Len(y) /\ \A k \in 1 .. Len(x) : x[k] = y[k]
    BY <1>8, <1>9, <1>10 DEF x, y
  <2> QED
    BY <2>1, SeqEqual
<1>12. IsPrefix(back(r), back(t))
  BY <1>3, <1>5, <1>6, <1>11 DEF IsPrefix, x, y
<1> QED
  BY <1>7, <1>12 DEF IsSuffix, r

\* parse_message does with every text what common.h:63 says: each element but the
\* last is a word, in order, the last is a suffix of the text with all the other
\* words, and no word is lost.
THEOREM ParsesEveryText ==
  ASSUME NEW S, NEW t \in Seq(S), IsText(t), NEW max \in Nat, max > 1
  PROVE  AsDocumented(t, max)
<1> DEFINE W == WordPlaces(t)
           n == Cardinality(W)
           least == Min({n, max - 1})
           first == [k \in 1 .. least |-> <<t[Place(W, k)]>>]
           last == Remainder(t, Place(W, max - 1))
           parsed == parse_message(t, max)
<1>1. /\ W \in SUBSET (1 .. Len(t)) /\ Len(t) \in Nat /\ n \in Nat
      /\ Words(t) \in Seq(S) /\ Len(Words(t)) = n
      /\ \A k \in 1 .. n : Place(W, k) \in W /\ Words(t)[k] = t[Place(W, k)]
  BY WordsAre
<1>2. parsed = IF n < max - 1 \/ last = <<>> THEN first ELSE Append(first, last)
  BY max > 1 DEF parse_message
<1>3. max - 1 \in Nat /\ max - 1 > 0
  OBVIOUS
<1> HIDE DEF n, least
<1>4. least = IF n <= max - 1 THEN n ELSE max - 1
  BY <1>1, <1>3, SmallerOfTwo DEF least
<1>5. least \in Nat /\ least <= n /\ least <= max - 1
  BY <1>1, <1>3, <1>4
<1>6. \A k \in 1 .. least : Words(t)[k] \in S /\ t[Place(W, k)] = Words(t)[k]
  BY <1>1, <1>5
<1>7. /\ first \in Seq(Seq(S)) /\ Len(first) = least
      /\ \A k \in 1 .. least : first[k] = <<Words(t)[k]>>
  <2>1. \A k \in 1 .. least : first[k] = <<Words(t)[k]>> /\ <<Words(t)[k]>> \in Seq(S)
    BY <1>6
  <2>2. first \in [1 .. least -> Seq(S)]
    BY <2>1
  <2>3. first \in Seq(Seq(S)) /\ Len(first) = least
    BY <1>5, <2>2
  <2> QED
    BY <2>1, <2>3
<1> HIDE DEF W, first, last, parsed
<1>8. CASE n < max - 1 \/ last = <<>>
  <2>1. parsed = first
    BY <1>2, <1>8
  <2>2. least = n
    <3>1. CASE n < max - 1
      BY <1>1, <1>3, <1>4, <3>1
    <3>2. CASE n >= max - 1
      <4>1. max - 1 \in 1 .. n /\ last = <<>>
        BY <1>1, <1>3, <1>8, <3>2
      <4>2. max - 1 = n
        BY <4>1, NothingBehind DEF n, W, last
      <4> QED
        BY <1>1, <1>4, <4>2
    <3> QED
      BY <1>1, <1>3, <3>1, <3>2
  <2>3. Len(parsed) = n /\ n < max
    BY <1>1, <1>3, <1>5, <1>7, <2>1, <2>2
  <2>4. \A i \in 1 .. Len(parsed) : parsed[i] = <<Words(t)[i]>>
    BY <1>7, <2>1
  <2> QED
    BY <1>1, <2>3, <2>4 DEF AsDocumented, parsed
<1>9. CASE ~ (n < max - 1 \/ last = <<>>)
  <2>1. parsed = Append(first, last)
    BY <1>2, <1>9
  <2>2. max - 1 \in 1 .. n /\ least = max - 1 /\ last # <<>>
    BY <1>1, <1>3, <1>4, <1>9
  <2>3. PICK p \in Nat : p > 0 /\ p = Place(W, max - 1)
    <3>1. PICK p \in W : p = Place(W, max - 1)
      BY <1>1, <2>2
    <3>2. p \in Nat /\ p > 0
      BY <1>1
    <3> QED
      BY <3>1, <3>2
  <2>4. last \in Seq(S) /\ IsSuffix(last, t)
    BY <2>3, RemainderIs, RemainderIsSuffix DEF last
  <2>5. Words(t) = SubSeq(Words(t), 1, max - 1) \o Words(last)
    BY <2>2, WordsBehind DEF last, W, n
  <2>6. /\ Len(parsed) = max /\ parsed[max] = last
        /\ \A i \in 1 .. max - 1 : parsed[i] = first[i]
    <3>1. /\ Len(parsed) = Len(first) + 1 /\ parsed[Len(first) + 1] = last
          /\ \A i \in 1 .. Len(first) : parsed[i] = first[i]
      BY <1>7, <2>1, <2>4, Appended
    <3>2. Len(first) = max - 1 /\ Len(first) + 1 = max
      BY <1>7, <2>2
    <3> QED
      BY <3>1, <3>2
  <2>7. \A i \in 1 .. max : i < max => parsed[i] = <<Words(t)[i]>>
    <3>1. \A i \in 1 .. max : i < max => i \in 1 .. max - 1
      OBVIOUS
    <3> QED
      BY <1>7, <2>2, <2>6, <3>1
  <2>8. max <= max /\ ~ (max < max)
    OBVIOUS
  <2>9. AsDocumented(t, max) <=>
          /\ Len(parsed) <= max
          /\ \A i \in 1 .. Len(parsed) : i < max => parsed[i] = <<Words(t)[i]>>
          /\ Len(parsed) = max =>
               /\ IsSuffix(parsed[Len(parsed)], t)
               /\ Words(t) = SubSeq(Words(t), 1, Len(parsed) - 1) \o Words(parsed[Len(parsed)])
          /\ Len(parsed) < max => Len(parsed) = Len(Words(t))
    BY Zenon DEF AsDocumented, parsed
  <2> QED
    BY <2>4, <2>5, <2>6, <2>7, <2>8, <2>9
<1> QED
  BY <1>8, <1>9

-----------------------------------------------------------------------------
(* The datagrams.                                                          *)

Keyword == {"PKT", "ACK", "REG", "LOOKUP", "NICK", "IP", "127.0.0.1", "PORT", "OK",
            "FROM", "TO", "MSG", "0", "1"}

\* What the texts of the system consist of.
Symbol ==
  {SP} \cup Keyword \cup Nick \cup Port \cup UNION {Range(line) : line \in Lines}

Word == Symbol \ {SP}

\* What an accepted line says, or a packet carries.
Speech == {t \in Seq(Symbol) : t # <<>> /\ IsText(t)}

LEMMA Keywords ==
  /\ SP \in Symbol /\ Word \cup {SP} = Symbol /\ Word \subseteq Symbol /\ Keyword \subseteq Word
  /\ Nick \subseteq Word /\ Port \subseteq Word
  /\ {"PKT", "ACK", "REG", "LOOKUP", "NICK", "IP", "127.0.0.1", "PORT", "OK",
      "FROM", "TO", "MSG", "0", "1"} \subseteq Word
  /\ \A num \in {0, 1} : Decimal(num) \in Word /\ atoi(<<Decimal(num)>>) = num
<1>1. Keyword \subseteq Word
  BY DEF Keyword, Word, Symbol, SP
<1>2. Nick \subseteq Word /\ Port \subseteq Word
  BY TextAssumption DEF Word, Symbol, Nick
<1>3. \A num \in {0, 1} : Decimal(num) \in Keyword /\ atoi(<<Decimal(num)>>) = num
  BY DEF Decimal, atoi, Keyword
<1> QED
  BY <1>1, <1>2, <1>3 DEF Word, Symbol, Keyword

\* The words of a text are those it is made of.
LEMMA ParsesText ==
  ASSUME NEW ws \in Seq(Word), NEW n \in Nat, Len(ws) = n, n > 0,
         NEW max \in Nat, max > 1, n <= max
  PROVE  /\ Text(ws) \in Seq(Symbol) /\ IsText(Text(ws)) /\ Len(Text(ws)) = 2 * n - 1
         /\ Leads(Text(ws), n)
         /\ \A k \in 1 .. n : Text(ws)[2 * k - 1] = ws[k]
         /\ Len(parse_message(Text(ws), max)) = n
         /\ \A k \in 1 .. n : parse_message(Text(ws), max)[k] = <<ws[k]>>
<1> DEFINE t == Text(ws)
<1>1. /\ t \in Seq(Symbol \cup {SP}) /\ Len(t) = 2 * n - 1 /\ Leads(t, n) /\ IsText(t)
      /\ \A k \in 1 .. n : t[2 * k - 1] = ws[k]
  <2>1. ws # <<>> /\ ws \in Seq(Symbol \ {SP})
    BY DEF Word
  <2>2. /\ t \in Seq(Symbol \cup {SP}) /\ Len(t) = 2 * Len(ws) - 1 /\ Leads(t, Len(ws))
        /\ IsText(t) /\ \A k \in 1 .. Len(ws) : t[2 * k - 1] = ws[k]
    BY <2>1, TextOfWords, Zenon
  <2> QED
    BY <2>2
<1>2. Symbol \cup {SP} = Symbol
  BY Keywords
<1>3. t \in Seq(Symbol)
  BY <1>1, <1>2
<1> HIDE DEF t
<1>4. /\ Len(parse_message(t, max)) = n
      /\ \A k \in 1 .. n : parse_message(t, max)[k] = <<t[2 * k - 1]>>
  <2>1. t \in Seq(Symbol) /\ Leads(t, n) /\ Len(t) = 2 * n - 1
    BY <1>1, <1>3
  <2> QED
    BY <2>1, ParsesWords
<1> QED
  BY <1>1, <1>3, <1>4 DEF t

LEMMA ParsesAck ==
  ASSUME NEW num \in {0, 1}
  PROVE  /\ AckMessage(num) \in Seq(Symbol) /\ IsText(AckMessage(num))
         /\ Len(parse_message(AckMessage(num), 8)) = 3
         /\ parse_message(AckMessage(num), 8)[1] = <<"ACK">>
<1> DEFINE ws == <<"ACK", Decimal(num), "OK">>
<1>1. ws \in Seq(Word) /\ Len(ws) = 3 /\ ws[1] = "ACK"
  BY Keywords
<1>2. AckMessage(num) = Text(ws)
  BY DEF AckMessage
<1> HIDE DEF ws
<1>3. /\ Text(ws) \in Seq(Symbol) /\ IsText(Text(ws)) /\ Len(Text(ws)) = 2 * 3 - 1
      /\ Leads(Text(ws), 3)
      /\ \A k \in 1 .. 3 : Text(ws)[2 * k - 1] = ws[k]
      /\ Len(parse_message(Text(ws), 8)) = 3
      /\ \A k \in 1 .. 3 : parse_message(Text(ws), 8)[k] = <<ws[k]>>
  BY <1>1, ParsesText, 3 \in Nat, 3 > 0, 8 \in Nat, 8 > 1, 3 <= 8, Zenon
<1> QED
  BY <1>1, <1>2, <1>3

LEMMA ParsesRequest ==
  ASSUME NEW n \in Word
  PROVE  /\ parse_message(RegMessage(0, n), 4)[4] = <<n>>
         /\ parse_message(LookupMessage(0, n), 4)[2] = <<"0">>
         /\ parse_message(LookupMessage(0, n), 4)[4] = <<n>>
<1> SUFFICES ASSUME NEW command \in {"REG", "LOOKUP"}, NEW ws,
                    ws = <<"PKT", Decimal(0), command, n>>
             PROVE  /\ parse_message(Text(ws), 4)[4] = <<n>>
                    /\ parse_message(Text(ws), 4)[2] = <<"0">>
  BY DEF RegMessage, LookupMessage
<1>1. command \in Word /\ "PKT" \in Word /\ Decimal(0) = "0" /\ "0" \in Word
  BY Keywords DEF Decimal
<1>2. ws \in Seq(Word) /\ Len(ws) = 4 /\ ws[4] = n /\ ws[2] = "0"
  BY <1>1
<1>3. \A k \in 1 .. 4 : parse_message(Text(ws), 4)[k] = <<ws[k]>>
  BY <1>2, ParsesText, 4 \in Nat, 4 > 0, 4 > 1, 4 <= 4, Zenon
<1> QED
  BY <1>2, <1>3

LEMMA ParsesFound ==
  ASSUME NEW n \in Word, NEW q \in Port
  PROVE  /\ parse_message(FoundAnswer(<<"0">>, n, q), 8)[4] = <<n>>
         /\ parse_message(FoundAnswer(<<"0">>, n, q), 8)[8] = <<q>>
<1> DEFINE u == <<"NICK", n, "IP", "127.0.0.1", "PORT", q>>
           v == <<"ACK">> \o <<"0">>
           ws == v \o u
<1>1. q \in Word
  BY Keywords
<1>2. u \in Seq(Word) /\ Len(u) = 6 /\ u[2] = n /\ u[6] = q
  BY <1>1, Keywords
<1>3. v \in Seq(Word) /\ Len(v) = 2
  BY Keywords
<1>4. FoundAnswer(<<"0">>, n, q) = Text(ws)
  BY DEF FoundAnswer
<1> HIDE DEF u, v
<1>5. ws \in Seq(Word) /\ Len(ws) = 8 /\ ws[4] = n /\ ws[8] = q
  <2>1. /\ ws \in Seq(Word) /\ Len(ws) = Len(v) + Len(u)
        /\ \A i \in 1 .. Len(v) + Len(u) :
             ws[i] = IF i <= Len(v) THEN v[i] ELSE u[i - Len(v)]
    BY <1>2, <1>3, ConcatProperties
  <2> HIDE DEF ws
  <2> QED
    BY <1>2, <1>3, <2>1
<1> HIDE DEF ws
<1>6. \A k \in 1 .. 8 : parse_message(Text(ws), 8)[k] = <<ws[k]>>
  BY <1>5, ParsesText, 8 \in Nat, 8 > 0, 8 > 1, 8 <= 8, Zenon
<1> QED
  BY <1>4, <1>5, <1>6

\* parse_message returns of a packet its number, sender and recipient, and its text as
\* it was typed, spaces included (client_to_client_com.c:17, upush_client.c:306-339).
THEOREM ParsesPkt ==
  ASSUME NEW num \in {0, 1}, NEW from \in Word, NEW to \in Word, NEW message \in Speech
  PROVE  LET t == PktMessage(num, from, to, message) IN
         /\ t \in Seq(Symbol) /\ IsText(t)
         /\ Len(parse_message(t, 8)) = 8
         /\ parse_message(t, 8)[1] = <<"PKT">>
         /\ parse_message(t, 8)[2] = <<Decimal(num)>>
         /\ parse_message(t, 8)[4] = <<from>> /\ parse_message(t, 8)[6] = <<to>>
         /\ parse_message(t, 8)[8] = message
<1> DEFINE ws == <<"PKT", Decimal(num), "FROM", from, "TO", to, "MSG">>
           u == Text(ws)
           v == u \o <<SP>>
           t == v \o message
<1>1. /\ ws \in Seq(Word) /\ Len(ws) = 7 /\ ws[1] = "PKT"
      /\ ws[2] = Decimal(num) /\ ws[4] = from /\ ws[6] = to
  BY Keywords
<1>2. /\ SP \in Symbol /\ message \in Seq(Symbol) /\ message # <<>> /\ IsText(message)
      /\ Len(message) \in Nat /\ Len(message) > 0
  BY Keywords DEF Speech
<1>3. PktMessage(num, from, to, message) = t
  BY DEF PktMessage
<1> HIDE DEF ws
<1>4. /\ u \in Seq(Symbol) /\ IsText(u) /\ Len(u) = 13 /\ Leads(u, 7)
      /\ \A k \in 1 .. 7 : u[2 * k - 1] = ws[k]
  <2>1. /\ u \in Seq(Symbol) /\ IsText(u) /\ Len(u) = 2 * 7 - 1 /\ Leads(u, 7)
        /\ \A k \in 1 .. 7 : u[2 * k - 1] = ws[k]
    BY <1>1, ParsesText, 7 \in Nat, 7 > 0, 8 \in Nat, 8 > 1, 7 <= 8, Zenon
  <2> QED
    BY <2>1
<1> HIDE DEF u
<1>5. /\ v \in Seq(Symbol) /\ Len(v) = 14 /\ v[14] = SP
      /\ \A i \in 1 .. 13 : v[i] = u[i]
  <2>1. <<SP>> \in Seq(Symbol) /\ Len(<<SP>>) = 1 /\ <<SP>>[1] = SP
    BY <1>2
  <2>2. /\ v \in Seq(Symbol) /\ Len(v) = Len(u) + Len(<<SP>>)
        /\ \A i \in 1 .. Len(u) + Len(<<SP>>) :
             v[i] = IF i <= Len(u) THEN u[i] ELSE <<SP>>[i - Len(u)]
    BY <1>4, <2>1, ConcatProperties, Zenon
  <2> HIDE DEF v
  <2> QED
    BY <1>4, <2>1, <2>2
<1> HIDE DEF v
<1>6. /\ t \in Seq(Symbol) /\ Len(t) = 14 + Len(message)
      /\ \A i \in 1 .. 14 : t[i] = v[i]
      /\ \A j \in 1 .. Len(message) : t[14 + j] = message[j]
  <2>1. /\ t \in Seq(Symbol) /\ Len(t) = Len(v) + Len(message)
        /\ \A i \in 1 .. Len(v) + Len(message) :
             t[i] = IF i <= Len(v) THEN v[i] ELSE message[i - Len(v)]
    BY <1>2, <1>5, ConcatProperties, Zenon
  <2> HIDE DEF t
  <2>2. ASSUME NEW j \in 1 .. Len(message) PROVE t[14 + j] = message[j]
    <3>1. /\ 14 + j \in 1 .. Len(v) + Len(message) /\ ~ (14 + j <= Len(v))
          /\ 14 + j - Len(v) = j
      BY <1>2, <1>5
    <3> QED
      BY <2>1, <3>1
  <2>3. Len(t) = 14 + Len(message)
    BY <1>5, <2>1
  <2>4. ASSUME NEW i \in 1 .. 14 PROVE t[i] = v[i]
    <3>1. i \in 1 .. Len(v) + Len(message) /\ i <= Len(v)
      BY <1>2, <1>5
    <3> QED
      BY <2>1, <3>1
  <2> QED
    BY <2>1, <2>2, <2>3, <2>4
<1> HIDE DEF t
<1>7. Leads(t, 7)
  <2>1. \A i \in 1 .. 13 : t[i] = u[i]
    BY <1>5, <1>6
  <2>2. \A k \in 1 .. 7 : 2 * k - 1 \in 1 .. 13 /\ (k \in 1 .. 6 => 2 * k \in 1 .. 13)
    OBVIOUS
  <2> QED
    BY <1>2, <1>4, <1>6, <2>1, <2>2 DEF Leads
<1>8. ASSUME NEW k \in 1 .. 7 PROVE t[2 * k - 1] = ws[k]
  <2>1. 2 * k - 1 \in 1 .. 13 /\ 2 * k - 1 \in 1 .. 14
    OBVIOUS
  <2>2. t[2 * k - 1] = u[2 * k - 1]
    BY <1>5, <1>6, <2>1
  <2> QED
    BY <1>4, <2>2
<1>9. IsText(t)
  <2>1. SUFFICES ASSUME NEW i \in 1 .. Len(t) - 1 PROVE t[i] = SP \/ t[i + 1] = SP
    BY DEF IsText
  <2>2. CASE i < 13
    <3>1. /\ i \in 1 .. 12 /\ i \in 1 .. 13 /\ i + 1 \in 1 .. 13
          /\ i \in 1 .. 14 /\ i + 1 \in 1 .. 14
      BY <1>2, <1>6, <2>2
    <3>2. t[i] = u[i] /\ t[i + 1] = u[i + 1]
      BY <1>5, <1>6, <3>1
    <3>3. 12 = Len(u) - 1
      BY <1>4
    <3> QED
      BY <1>4, <3>1, <3>2, <3>3 DEF IsText
  <2>3. CASE i = 13 \/ i = 14
    BY <1>5, <1>6, <2>3
  <2>4. CASE i > 14
    <3>1. i - 14 \in 1 .. Len(message) - 1
      BY <1>2, <1>6, <2>4
    <3>2. t[i] = message[i - 14] /\ t[i + 1] = message[i - 14 + 1]
      <4>1. /\ i - 14 \in 1 .. Len(message) /\ i - 14 + 1 \in 1 .. Len(message)
            /\ 14 + (i - 14) = i /\ 14 + (i - 14 + 1) = i + 1
        BY <1>2, <3>1
      <4> DEFINE j == i - 14
      <4> HIDE DEF j
      <4>2. /\ j \in 1 .. Len(message) /\ j + 1 \in 1 .. Len(message)
            /\ 14 + j = i /\ 14 + (j + 1) = i + 1
        BY <4>1 DEF j
      <4>3. t[14 + j] = message[j] /\ t[14 + (j + 1)] = message[j + 1]
        BY <1>6, <4>2
      <4> QED
        BY <4>2, <4>3 DEF j
    <3> QED
      BY <1>2, <3>1, <3>2 DEF IsText
  <2> QED
    BY <1>2, <1>6, <2>2, <2>3, <2>4
<1>10. /\ Len(parse_message(t, 8)) = 8
       /\ \A k \in 1 .. 7 : parse_message(t, 8)[k] = <<t[2 * k - 1]>>
       /\ parse_message(t, 8)[8] = Remainder(t, 13)
  <2>1. 8 - 1 = 7 /\ 2 * (8 - 1) - 1 = 13 /\ Len(t) > 2 * (8 - 1)
    BY <1>2, <1>6
  <2>2. /\ Len(parse_message(t, 8)) = 8
        /\ \A k \in 1 .. 8 - 1 : parse_message(t, 8)[k] = <<t[2 * k - 1]>>
        /\ parse_message(t, 8)[8] = Remainder(t, 2 * (8 - 1) - 1)
    <3>1. Leads(t, 8 - 1) /\ 8 \in Nat /\ 8 > 1
      BY <1>7, <2>1
    <3> QED
      BY <1>6, <2>1, <3>1, ParsesRemainder, ZenonT(30)
  <2> QED
    BY <2>1, <2>2
<1>11. Remainder(t, 13) = message
  <2> DEFINE r == Remainder(t, 13)
  <2>1. /\ r \in Seq(Symbol)
        /\ Len(r) = IF 13 + 2 <= Len(t) THEN Len(t) - 13 - 1 ELSE 0
        /\ \A j \in 1 .. Len(t) - 13 - 1 : r[j] = t[13 + 1 + j]
    <3>1. PICK k \in Nat : k = 13
      OBVIOUS
    <3>2. t \in Seq(Symbol)
      BY <1>6
    <3>3. /\ Remainder(t, k) \in Seq(Symbol)
          /\ Len(Remainder(t, k)) = IF k + 2 <= Len(t) THEN Len(t) - k - 1 ELSE 0
          /\ \A j \in 1 .. Len(t) - k - 1 : Remainder(t, k)[j] = t[k + 1 + j]
      BY <3>2, RemainderIs
    <3> QED
      BY <3>1, <3>3
  <2> HIDE DEF r
  <2>2. Len(r) = Len(message) /\ \A j \in 1 .. Len(message) : r[j] = message[j]
    BY <1>2, <1>6, <2>1
  <2>3. r = message
    BY <1>2, <2>1, <2>2, SeqEqual
  <2> QED
    BY <2>3 DEF r
<1> QED
  BY <1>1, <1>3, <1>6, <1>8, <1>9, <1>10, <1>11

\* A line that parse_client_input accepts names a nick of one word, and says something:
\* the message is not empty, and no two words of it stand side by side
\* (upush_client.c:71-90).
THEOREM ParsesLine ==
  ASSUME NEW line \in Seq(Symbol), IsText(line), IsClientInput(line)
  PROVE  recipient_nick(line) \in Word /\ recipient_message(line) \in Speech
<1> DEFINE W == WordPlaces(line)
           c == Cardinality(W)
           first == [k \in 1 .. Min({c, 1}) |-> <<line[Place(W, k)]>>]
           last == Remainder(line, Place(W, 1))
           parsed == parse_message(line, 2)
<1>1. parsed = IF c < 1 \/ last = <<>> THEN first ELSE Append(first, last)
  <2>1. 2 - 1 = 1 /\ ~ (2 <= 1)
    OBVIOUS
  <2> QED
    BY <2>1 DEF parse_message
<1>2. c \in Nat /\ W \subseteq 1 .. Len(line) /\ Len(line) \in Nat
  <2>1. c \in Nat /\ W \subseteq 1 .. Len(line)
    BY PlacesAreFinite, 0 \in Nat, Zenon
  <2>2. Len(line) \in Nat
    OBVIOUS
  <2> QED
    BY <2>1, <2>2
<1>3. \A i \in W : line[i] \in Symbol /\ line[i] # SP
  BY DEF WordPlaces
<1>4. Len(parsed) >= 2
  BY DEF IsClientInput
<1>5. Min({c, 1}) = IF c <= 1 THEN c ELSE 1
  BY <1>2, SmallerOfTwo
<1>6. c # 0 => W # {}
  BY FS_EmptySet
<1> HIDE DEF W, c, last, parsed
<1>7. PICK m \in {0, 1} : m = Min({c, 1}) /\ (m = 0 <=> c = 0)
  BY <1>2, <1>5
<1>8. first = [k \in 1 .. m |-> <<line[Place(W, k)]>>]
  BY <1>7
<1> HIDE DEF first
<1>9. c # 0
  <2>1. SUFFICES ASSUME c = 0 PROVE FALSE
    OBVIOUS
  <2>2. parsed = first
    BY <1>1, <2>1
  <2>3. Len(first) = m
    BY <1>8
  <2> QED
    BY <1>4, <1>7, <2>1, <2>2, <2>3
<1>10. Place(W, 1) \in W
  <2> DEFINE s == Min(W)
  <2>1. W \in SUBSET Nat /\ W # {}
    BY <1>2, <1>6, <1>9
  <2>2. s \in W /\ \A y \in W : s <= y
    BY <2>1, SmallestExists
  <2> HIDE DEF s
  <2>3. s \in 1 .. Len(line)
    BY <1>2, <2>2
  <2>4. W \cap 1 .. s = {s}
    BY <1>2, <2>1, <2>2, <2>3
  <2>5. Cardinality(W \cap 1 .. s) = 1
    BY <2>4, FS_Singleton
  <2> QED
    BY <2>2, <2>5 DEF Place
<1> DEFINE word == line[Place(W, 1)]
<1>11. word \in Word /\ word \in Symbol
  BY <1>3, <1>10 DEF Word
<1>12. Place(W, 1) \in Nat
  <2>1. Place(W, 1) \in 1 .. Len(line)
    BY <1>2, <1>10
  <2> QED
    BY <1>2, <2>1
<1>13. last \in Seq(Symbol) /\ IsText(last)
  BY <1>12, RemainderIs DEF last
<1>14. first = [k \in 1 .. 1 |-> <<line[Place(W, k)]>>]
  BY <1>7, <1>8, <1>9
<1>15. <<word>> \in Seq(Symbol)
  BY <1>11
<1>16. first = [k \in 1 .. 1 |-> <<word>>]
  BY <1>14
<1> HIDE DEF word
<1>17. first \in Seq(Seq(Symbol)) /\ Len(first) = 1 /\ first[1] = <<word>>
  BY <1>15, <1>16
<1>18. parsed = Append(first, last) /\ last # <<>>
  <2>1. ~ (c < 1)
    BY <1>2, <1>9
  <2>2. Len(first) = 1
    BY <1>17
  <2>3. parsed # first
    <3>1. SUFFICES ASSUME parsed = first PROVE FALSE
      OBVIOUS
    <3>2. Len(first) >= 2
      BY <1>4, <3>1, Zenon
    <3> QED
      BY <2>2, <3>2
  <2> QED
    BY <1>1, <2>1, <2>3
<1>19. parsed[1] = <<word>> /\ parsed[2] = last /\ Len(parsed) = 2
  <2>1. /\ Len(Append(first, last)) = 2
        /\ Append(first, last)[1] = first[1] /\ Append(first, last)[2] = last
    <3> DEFINE S == Seq(Symbol)
    <3>1. first \in Seq(S) /\ last \in S /\ Len(first) = 1
      BY <1>13, <1>17
    <3> HIDE DEF S
    <3> QED
      BY <3>1, TwoElements
  <2> QED
    BY <1>17, <1>18, <2>1
<1>20. recipient_nick(line) = word /\ recipient_message(line) = last
  BY <1>15, <1>19 DEF recipient_nick, recipient_message, parsed
<1> QED
  BY <1>11, <1>13, <1>18, <1>20 DEF Speech

-----------------------------------------------------------------------------
(* The invariant, for a history ty of what was typed, and ms of who was     *)
(* misled.                                                                 *)

Said          == [to : Word, text : Speech]
Datagram      == [from : Port, id : Id, text : Seq(Symbol)]
QueuedMessage == [text : Speech, id : Id, attempts : 0 .. 4]
ShownMessage  == [text : Speech, id : Id]
ContactRecord ==
  [nick : Nick, addr : Port, queue : Seq(QueuedMessage), last_pkt_sent : {0, 1},
   last_pkt_received : {-1, 0, 1}, shown : Seq(ShownMessage)]

\* The turn that id names was to type this text; and for this nick, if its author was
\* not misled.
WasSaid(ty, ms, id, to, text) ==
  /\ id.turn \in DOMAIN ty[id.by] /\ ty[id.by][id.turn].text = text
  /\ id.by \notin ms => ty[id.by][id.turn].to = to

\* A queue holds what its owner typed for the contact, and only its head was sent.
QueuedAsTyped(ty, ms, p, nick, q) ==
  \A i \in DOMAIN q :
    /\ q[i].id.by = p /\ WasSaid(ty, ms, q[i].id, nick, q[i].text)
    /\ i # 1 => q[i].attempts = 0

\* p was shown what was typed for the nick of p, and if it was not misled by owners
\* of the nick.
HeardAsTyped(ty, ms, p, nick, shown) ==
  \A i \in DOMAIN shown :
    /\ p \notin ms => client_nick[shown[i].id.by] = nick
    /\ WasSaid(ty, ms, shown[i].id, client_nick[p], shown[i].text)

Sound(ty, ms, p, c) ==
  /\ c \in ContactRecord
  /\ QueuedAsTyped(ty, ms, p, c.nick, c.queue)
  /\ HeardAsTyped(ty, ms, p, c.nick, c.shown)

SoundList(ty, ms, p, list) ==
  list \in Seq(ContactRecord) /\ \A i \in DOMAIN list : Sound(ty, ms, p, list[i])

\* A datagram is an ACK, or says who typed its text; and for whom, unless its author
\* was misled.
Genuine(ty, ms, d) ==
  /\ d \in Datagram /\ d.id.turn \in DOMAIN ty[d.id.by]
  /\ \E num \in {0, 1} :
       \/ d.text = AckMessage(num)
       \/ \E to \in Word :
            /\ d.id.by \notin ms => ty[d.id.by][d.id.turn].to = to
            /\ d.text = PktMessage(num, client_nick[d.id.by], to,
                                  ty[d.id.by][d.id.turn].text)

GenuineBox(ty, ms, box) == box \in Seq(Datagram) /\ \A i \in DOMAIN box : Genuine(ty, ms, box[i])

GenuineNet(ty, ms, net) ==
  net \in [Port -> Seq(Datagram)] /\ \A q \in Port : GenuineBox(ty, ms, net[q])

History == [Process -> Seq(Said)]

\* A process has a port exactly while it runs, and no two have the same.
PortsInv ==
  /\ \A p \in Process : (port[p] = NoPort) = (state[p] \in {"off", "crashed"})
  /\ \A p, q \in Process : port[p] = port[q] /\ port[p] # NoPort => p = q

\* What waits to be read was answered to a lookup, from a record.
Reply ==
  [asked : Word,
   text : {NotFoundAnswer(<<"0">>)}
            \cup {FoundAnswer(<<"0">>, n, q) : n \in Nick, q \in Port}]

LookupInv == answers \in [Port -> Seq(Reply)] /\ misled \subseteq Process

CoreInv ==
  /\ state \in [Process -> {"off", "starting", "connected", "crashed"}]
  /\ port \in [Process -> Port \cup {NoPort}]
  /\ starts \in [Process -> Nat]
  /\ record \in [Nick -> Port \cup {NoPort}]
  /\ losses \in Nat
  /\ typed \in History
  /\ contacts \in [Process -> Seq(ContactRecord)]
  /\ \A p \in Process : SoundList(typed, misled, p, contacts[p])
  /\ GenuineNet(typed, misled, inbox)
  /\ PortsInv

SystemInv == CoreInv /\ LookupInv

-----------------------------------------------------------------------------
(* The history only grows.                                                 *)

Grown(ty, ms, uy, ns) ==
  /\ ms \subseteq ns
  /\ \A p \in Process :
       DOMAIN ty[p] \subseteq DOMAIN uy[p] /\ \A i \in DOMAIN ty[p] : uy[p][i] = ty[p][i]

LEMMA SoundStays ==
  ASSUME NEW ty, NEW ms, NEW uy, NEW ns, Grown(ty, ms, uy, ns), NEW p \in Process,
         NEW c, Sound(ty, ms, p, c)
  PROVE  Sound(uy, ns, p, c)
<1>1. \A i \in DOMAIN c.queue : c.queue[i].id.by \in Process
  <2>1. c.queue \in Seq(QueuedMessage)
    BY DEF Sound, ContactRecord
  <2>2. \A i \in DOMAIN c.queue : c.queue[i] \in QueuedMessage
    BY <2>1
  <2> QED
    BY <2>2 DEF QueuedMessage, Id
<1>2. \A i \in DOMAIN c.shown : c.shown[i].id.by \in Process
  <2>1. c.shown \in Seq(ShownMessage)
    BY DEF Sound, ContactRecord
  <2>2. \A i \in DOMAIN c.shown : c.shown[i] \in ShownMessage
    BY <2>1
  <2> QED
    BY <2>2 DEF ShownMessage, Id
<1>3. QueuedAsTyped(uy, ns, p, c.nick, c.queue)
  BY <1>1 DEF Sound, QueuedAsTyped, WasSaid, Grown
<1>4. HeardAsTyped(uy, ns, p, c.nick, c.shown)
  BY <1>2 DEF Sound, HeardAsTyped, WasSaid, Grown
<1> QED
  BY <1>3, <1>4 DEF Sound

LEMMA ListStays ==
  ASSUME NEW ty, NEW ms, NEW uy, NEW ns, Grown(ty, ms, uy, ns), NEW p \in Process,
         NEW list, SoundList(ty, ms, p, list)
  PROVE  SoundList(uy, ns, p, list)
BY SoundStays DEF SoundList

LEMMA NetStays ==
  ASSUME NEW ty, NEW ms, NEW uy, NEW ns, Grown(ty, ms, uy, ns),
         NEW net, GenuineNet(ty, ms, net)
  PROVE  GenuineNet(uy, ns, net)
<1>1. ASSUME NEW d, Genuine(ty, ms, d) PROVE Genuine(uy, ns, d)
  <2>1. d.id.by \in Process
    BY <1>1 DEF Genuine, Datagram, Id
  <2>2. d.id.turn \in DOMAIN uy[d.id.by] /\ uy[d.id.by][d.id.turn] = ty[d.id.by][d.id.turn]
    BY <1>1, <2>1 DEF Genuine, Grown
  <2>3. d.id.by \notin ns => d.id.by \notin ms
    BY DEF Grown
  <2> QED
    BY <1>1, <2>2, <2>3 DEF Genuine
<1> QED
  BY <1>1 DEF GenuineNet, GenuineBox

-----------------------------------------------------------------------------
(* Sockets.                                                                *)

LEMMA BoxParts ==
  ASSUME NEW ty, NEW ms, NEW box, GenuineBox(ty, ms, box), NEW n \in 0 .. Len(box)
  PROVE  GenuineBox(ty, ms, SubSeq(box, n + 1, Len(box)))
<1> DEFINE s == SubSeq(box, n + 1, Len(box))
<1>1. box \in Seq(Datagram) /\ Len(box) \in Nat /\ DOMAIN box = 1 .. Len(box)
  BY DEF GenuineBox
<1>2. \A i \in n + 1 .. Len(box) : box[i] \in Datagram
  BY <1>1
<1>3. /\ s \in Seq(Datagram)
      /\ Len(s) = IF n + 1 <= Len(box) THEN Len(box) - (n + 1) + 1 ELSE 0
      /\ \A i \in 1 .. Len(box) - (n + 1) + 1 : s[i] = box[n + 1 + i - 1]
  BY <1>1, <1>2, SubSeqProperties, n + 1 \in Int, Len(box) \in Int
<1> HIDE DEF s
<1>4. ASSUME NEW i \in DOMAIN s PROVE Genuine(ty, ms, s[i])
  <2>1. i \in 1 .. Len(s) /\ Len(s) \in Nat
    BY <1>3, <1>4
  <2>2. n + 1 <= Len(box)
    <3>1. SUFFICES ASSUME ~ (n + 1 <= Len(box)) PROVE FALSE
      OBVIOUS
    <3>2. Len(s) = 0
      BY <1>3, <3>1, Zenon
    <3> QED
      BY <2>1, <3>2
  <2>3. Len(s) = Len(box) - (n + 1) + 1
    BY <1>3, <2>2, Zenon
  <2>4. i \in 1 .. Len(box) - (n + 1) + 1 /\ n + 1 + i - 1 \in 1 .. Len(box)
    BY <1>1, <2>1, <2>3
  <2> QED
    BY <1>1, <1>3, <2>4 DEF GenuineBox
<1> QED
  BY <1>3, <1>4 DEF s, GenuineBox

LEMMA BoxTail ==
  ASSUME NEW ty, NEW ms, NEW box, GenuineBox(ty, ms, box), box # <<>>
  PROVE  GenuineBox(ty, ms, Tail(box)) /\ Genuine(ty, ms, Head(box))
<1>1. /\ box \in Seq(Datagram) /\ Len(box) \in Nat /\ Len(box) > 0
      /\ Tail(box) = SubSeq(box, 2, Len(box)) /\ 1 \in DOMAIN box /\ Head(box) = box[1]
  BY TailIsSubSeq DEF GenuineBox
<1>2. 1 \in 0 .. Len(box) /\ 1 + 1 = 2
  BY <1>1
<1>3. GenuineBox(ty, ms, SubSeq(box, 1 + 1, Len(box)))
  BY <1>2, BoxParts
<1> QED
  BY <1>1, <1>2, <1>3 DEF GenuineBox

LEMMA BoxMore ==
  ASSUME NEW ty, NEW ms, NEW box, GenuineBox(ty, ms, box), NEW d, Genuine(ty, ms, d)
  PROVE  GenuineBox(ty, ms, box \o <<d>>)
<1>1. box \in Seq(Datagram) /\ d \in Datagram /\ DOMAIN box = 1 .. Len(box)
  <2>1. box \in Seq(Datagram) /\ d \in Datagram
    BY DEF GenuineBox, Genuine
  <2> QED
    BY <2>1
<1>2. box \o <<d>> = Append(box, d)
  BY <1>1, AppendIsConcat
<1>3. /\ Append(box, d) \in Seq(Datagram) /\ Len(Append(box, d)) = Len(box) + 1
      /\ Append(box, d)[Len(box) + 1] = d
      /\ \A i \in 1 .. Len(box) : Append(box, d)[i] = box[i]
  BY <1>1, Appended
<1>4. \A i \in DOMAIN Append(box, d) : i \in DOMAIN box \/ i = Len(box) + 1
  BY <1>1, <1>3
<1> QED
  BY <1>1, <1>2, <1>3, <1>4 DEF GenuineBox

LEMMA NetWith ==
  ASSUME NEW ty, NEW ms, NEW net, GenuineNet(ty, ms, net), NEW q \in Port,
         NEW box, GenuineBox(ty, ms, box)
  PROVE  GenuineNet(ty, ms, [net EXCEPT ![q] = box])
BY DEF GenuineNet, GenuineBox

LEMMA NetSends ==
  ASSUME NEW ty, NEW ms, NEW net, GenuineNet(ty, ms, net), NEW q \in Port,
         NEW d, Genuine(ty, ms, d),
         losses \in Nat, send_packet(net, q, <<d>>)
  PROVE  GenuineNet(ty, ms, inbox') /\ losses' \in Nat
<1>1. GenuineBox(ty, ms, net[q]) /\ GenuineBox(ty, ms, net[q] \o <<d>>)
  BY BoxMore DEF GenuineNet
<1>2. GenuineNet(ty, ms, Arrive(net, q, <<d>>))
  <2>1. CASE \E p \in Process : port[p] = q
    <3> DEFINE box == IF Len(net[q]) < SocketBuffer THEN net[q] \o <<d>> ELSE net[q]
    <3>1. Arrive(net, q, <<d>>) = [net EXCEPT ![q] = box]
      BY <2>1 DEF Arrive
    <3>2. GenuineBox(ty, ms, box)
      BY <1>1
    <3> HIDE DEF box
    <3> QED
      BY <3>1, <3>2, NetWith
  <2>2. CASE ~ \E p \in Process : port[p] = q
    BY <2>2 DEF Arrive
  <2> QED
    BY <2>1, <2>2
<1> QED
  BY <1>2 DEF send_packet

LEMMA NetLookup ==
  ASSUME NEW ty, NEW ms, NEW net, GenuineNet(ty, ms, net),
         NEW p \in Process, port[p] \in Port,
         NEW n \in AfterLookup(net, p)
  PROVE  GenuineNet(ty, ms, n)
<1>1. PICK k \in 0 .. Len(net[port[p]]) :
        n = [net EXCEPT ![port[p]] = SubSeq(net[port[p]], k + 1, Len(net[port[p]]))]
  BY DEF AfterLookup
<1>2. GenuineBox(ty, ms, net[port[p]])
  BY DEF GenuineNet
<1> QED
  BY <1>1, <1>2, BoxParts, NetWith

LEMMA NetReceives ==
  ASSUME NEW ty, NEW ms, GenuineNet(ty, ms, inbox), NEW p \in Process, port[p] \in Port,
         inbox[port[p]] # <<>>
  PROVE  GenuineNet(ty, ms, Received(p)) /\ Genuine(ty, ms, Head(inbox[port[p]]))
<1>1. GenuineBox(ty, ms, inbox[port[p]])
  BY DEF GenuineNet
<1>2. Received(p) = [inbox EXCEPT ![port[p]] = Tail(inbox[port[p]])]
  BY DEF Received
<1>3. GenuineBox(ty, ms, Tail(inbox[port[p]])) /\ Genuine(ty, ms, Head(inbox[port[p]]))
  BY <1>1, BoxTail, Zenon
<1>4. GenuineNet(ty, ms, [inbox EXCEPT ![port[p]] = Tail(inbox[port[p]])])
  BY <1>3, NetWith, Zenon
<1> QED
  BY <1>2, <1>3, <1>4, Zenon

-----------------------------------------------------------------------------
(* Contacts.                                                               *)

LEMMA FoundIsThere ==
  ASSUME NEW list \in Seq(ContactRecord), NEW x
  PROVE  /\ find_contact_by_nick(list, x) # 0 =>
              /\ find_contact_by_nick(list, x) \in DOMAIN list
              /\ list[find_contact_by_nick(list, x)].nick = x
         /\ find_contact_by_addr(list, x) # 0 =>
              find_contact_by_addr(list, x) \in DOMAIN list
<1> DEFINE N == {i \in 1 .. Len(list) : list[i].nick = x}
           A == {i \in 1 .. Len(list) : list[i].addr = x}
<1>1. N \in SUBSET Nat /\ A \in SUBSET Nat /\ DOMAIN list = 1 .. Len(list)
  OBVIOUS
<1>2. /\ find_contact_by_nick(list, x) = IF N # {} THEN Min(N) ELSE 0
      /\ find_contact_by_addr(list, x) = IF A # {} THEN Min(A) ELSE 0
  BY DEF find_contact_by_nick, find_contact_by_addr, First, SelectInSeq
<1>3. (N # {} => Min(N) \in N) /\ (A # {} => Min(A) \in A)
  BY <1>1, SmallestExists
<1> QED
  BY <1>1, <1>2, <1>3

LEMMA ListWith ==
  ASSUME NEW ty, NEW ms, NEW p, NEW list, SoundList(ty, ms, p, list), NEW i \in DOMAIN list,
         NEW c, Sound(ty, ms, p, c)
  PROVE  SoundList(ty, ms, p, [list EXCEPT ![i] = c])
<1>1. list \in Seq(ContactRecord) /\ c \in ContactRecord
  BY DEF SoundList, Sound
<1>2. /\ [list EXCEPT ![i] = c] \in Seq(ContactRecord)
      /\ DOMAIN [list EXCEPT ![i] = c] = DOMAIN list
      /\ \A j \in DOMAIN list : [list EXCEPT ![i] = c][j] = IF j = i THEN c ELSE list[j]
  BY <1>1
<1> QED
  BY <1>2 DEF SoundList

LEMMA ListNew ==
  ASSUME NEW ty, NEW ms, NEW p, NEW list, SoundList(ty, ms, p, list),
         NEW c, Sound(ty, ms, p, c)
  PROVE  SoundList(ty, ms, p, <<c>> \o list) /\ 1 \in DOMAIN (<<c>> \o list)
         /\ (<<c>> \o list)[1] = c
<1> DEFINE s == <<c>>
           l == s \o list
<1>1. list \in Seq(ContactRecord) /\ Len(list) \in Nat /\ DOMAIN list = 1 .. Len(list)
  BY DEF SoundList
<1>2. s \in Seq(ContactRecord) /\ Len(s) = 1 /\ s[1] = c
  BY DEF Sound
<1> HIDE DEF s
<1>3. /\ l \in Seq(ContactRecord) /\ Len(l) = 1 + Len(list)
      /\ \A i \in 1 .. 1 + Len(list) : l[i] = IF i <= 1 THEN s[i] ELSE list[i - 1]
  <2>1. /\ l \in Seq(ContactRecord) /\ Len(l) = Len(s) + Len(list)
        /\ \A i \in 1 .. Len(s) + Len(list) :
             l[i] = IF i <= Len(s) THEN s[i] ELSE list[i - Len(s)]
    BY <1>1, <1>2, ConcatProperties, Zenon
  <2> HIDE DEF l
  <2> QED
    BY <1>2, <2>1
<1> HIDE DEF l
<1>4. DOMAIN l = 1 .. 1 + Len(list) /\ 1 \in DOMAIN l /\ l[1] = c
  BY <1>1, <1>2, <1>3
<1>5. ASSUME NEW i \in DOMAIN l PROVE Sound(ty, ms, p, l[i])
  <2>1. CASE i = 1
    BY <1>4, <2>1
  <2>2. CASE i # 1
    <3>1. i - 1 \in DOMAIN list /\ l[i] = list[i - 1]
      BY <1>1, <1>3, <1>4, <2>2
    <3> QED
      BY <3>1 DEF SoundList
  <2> QED
    BY <2>1, <2>2
<1> QED
  BY <1>3, <1>4, <1>5 DEF SoundList, l, s

LEMMA ListLess ==
  ASSUME NEW ty, NEW ms, NEW p, NEW list, SoundList(ty, ms, p, list), NEW i \in DOMAIN list
  PROVE  SoundList(ty, ms, p, RemoveAt(list, i))
<1> DEFINE L == SubSeq(list, 1, i - 1)
           R == SubSeq(list, i + 1, Len(list))
           l == L \o R
<1>1. list \in Seq(ContactRecord) /\ Len(list) \in Nat /\ DOMAIN list = 1 .. Len(list)
  BY DEF SoundList
<1>2. /\ L \in Seq(ContactRecord) /\ Len(L) = i - 1
      /\ \A j \in 1 .. i - 1 : L[j] = list[j]
  BY <1>1
<1>3. /\ R \in Seq(ContactRecord) /\ Len(R) = Len(list) - i
      /\ \A j \in 1 .. Len(list) - i : R[j] = list[i + j]
  BY <1>1
<1>4. RemoveAt(list, i) = l
  BY DEF RemoveAt
<1> HIDE DEF L, R
<1>5. /\ l \in Seq(ContactRecord)
      /\ Len(l) = Len(L) + Len(R)
      /\ \A j \in 1 .. Len(L) + Len(R) : l[j] = IF j <= Len(L) THEN L[j] ELSE R[j - Len(L)]
  BY <1>2, <1>3, ConcatProperties
<1> HIDE DEF l
<1>6. ASSUME NEW j \in DOMAIN l PROVE Sound(ty, ms, p, l[j])
  <2>1. j \in 1 .. Len(L) + Len(R)
    BY <1>5
  <2>2. CASE j <= Len(L)
    <3>1. j \in 1 .. i - 1 /\ j \in DOMAIN list /\ l[j] = list[j]
      BY <1>1, <1>2, <1>3, <1>5, <2>1, <2>2
    <3> QED
      BY <3>1 DEF SoundList
  <2>3. CASE ~ (j <= Len(L))
    <3>1. j - Len(L) \in 1 .. Len(list) - i /\ i + (j - Len(L)) \in DOMAIN list
      BY <1>1, <1>2, <1>3, <2>1, <2>3
    <3>2. l[j] = list[i + (j - Len(L))]
      BY <1>3, <1>5, <2>1, <2>3, <3>1
    <3> QED
      BY <3>1, <3>2 DEF SoundList
  <2> QED
    BY <2>2, <2>3
<1> QED
  BY <1>4, <1>5, <1>6 DEF SoundList

LEMMA QueueTypes ==
  ASSUME NEW q \in Seq(QueuedMessage)
  PROVE  /\ \A i \in DOMAIN q : q[i] \in QueuedMessage
         /\ q # <<>> => /\ 1 \in DOMAIN q /\ Head(q) = q[1]
                        /\ Tail(q) \in Seq(QueuedMessage)
                        /\ \A i \in DOMAIN Tail(q) :
                             /\ i + 1 \in DOMAIN q /\ i + 1 # 1 /\ Tail(q)[i] = q[i + 1]
<1>1. \A i \in DOMAIN q : q[i] \in QueuedMessage
  OBVIOUS
<1>2. ASSUME q # <<>>
      PROVE  /\ 1 \in DOMAIN q /\ Head(q) = q[1] /\ Tail(q) \in Seq(QueuedMessage)
             /\ \A i \in DOMAIN Tail(q) :
                  i + 1 \in DOMAIN q /\ i + 1 # 1 /\ Tail(q)[i] = q[i + 1]
  BY <1>2
<1> QED
  BY <1>1, <1>2

LEMMA NewContact ==
  ASSUME NEW ty, NEW ms, NEW p, NEW n \in Nick, NEW q \in Port
  PROVE  Sound(ty, ms, p, create_contact(n, q)) /\ create_contact(n, q).queue = <<>>
         /\ create_contact(n, q).nick = n
<1> DEFINE c == create_contact(n, q)
<1>1. /\ c.queue = <<>> /\ c.shown = <<>> /\ c.nick = n
      /\ c \in [nick : Nick, addr : Port, queue : {<<>>}, last_pkt_sent : {0, 1},
                last_pkt_received : {-1, 0, 1}, shown : {<<>>}]
  BY DEF create_contact
<1>2. <<>> \in Seq(QueuedMessage) /\ <<>> \in Seq(ShownMessage) /\ DOMAIN <<>> = {}
  OBVIOUS
<1>3. c \in ContactRecord
  BY <1>1, <1>2 DEF ContactRecord
<1> HIDE DEF c
<1>4. QueuedAsTyped(ty, ms, p, c.nick, c.queue) /\ HeardAsTyped(ty, ms, p, c.nick, c.shown)
  BY <1>1, <1>2 DEF QueuedAsTyped, HeardAsTyped
<1> QED
  BY <1>1, <1>3, <1>4 DEF Sound, c

\* A contact with another queue.
LEMMA NewQueue ==
  ASSUME NEW ty, NEW ms, NEW p, NEW c, Sound(ty, ms, p, c), NEW q \in Seq(QueuedMessage),
         QueuedAsTyped(ty, ms, p, c.nick, q)
  PROVE  /\ Sound(ty, ms, p, [c EXCEPT !.queue = q])
         /\ [c EXCEPT !.queue = q].queue = q /\ [c EXCEPT !.queue = q].nick = c.nick
         /\ [c EXCEPT !.queue = q].addr = c.addr
<1> DEFINE d == [c EXCEPT !.queue = q]
<1>1. c \in ContactRecord
  BY DEF Sound
<1>2. /\ d \in ContactRecord /\ d.queue = q /\ d.nick = c.nick /\ d.shown = c.shown
      /\ d.addr = c.addr
  BY <1>1 DEF ContactRecord
<1> HIDE DEF d
<1>3. Sound(ty, ms, p, d)
  BY <1>2 DEF Sound
<1> QED
  BY <1>2, <1>3 DEF d

LEMMA Counts ==
  ASSUME NEW ty, NEW ms, NEW p, NEW c, Sound(ty, ms, p, c), c.queue # <<>>,
         c.queue[1].attempts \in 0 .. 3
  PROVE  Sound(ty, ms, p, Counted(c))
<1> DEFINE m == [c.queue[1] EXCEPT !.attempts = @ + 1]
           q == [c.queue EXCEPT ![1] = m]
<1>1. c.queue \in Seq(QueuedMessage) /\ c \in ContactRecord
  BY DEF Sound, ContactRecord
<1>2. c.queue[1] \in QueuedMessage /\ 1 \in DOMAIN c.queue
  BY <1>1
<1>3. /\ m \in QueuedMessage /\ m.id = c.queue[1].id /\ m.text = c.queue[1].text
  BY <1>2 DEF QueuedMessage
<1> HIDE DEF m
<1>4. /\ q \in Seq(QueuedMessage) /\ DOMAIN q = DOMAIN c.queue /\ q[1] = m
      /\ \A i \in DOMAIN q : i # 1 => q[i] = c.queue[i]
  BY <1>1, <1>2, <1>3
<1> HIDE DEF q
<1>5. QueuedAsTyped(ty, ms, p, c.nick, q)
  <2>1. QueuedAsTyped(ty, ms, p, c.nick, c.queue)
    BY DEF Sound
  <2>2. SUFFICES ASSUME NEW i \in DOMAIN q
                 PROVE  /\ q[i].id.by = p /\ WasSaid(ty, ms, q[i].id, c.nick, q[i].text)
                        /\ i # 1 => q[i].attempts = 0
    BY DEF QueuedAsTyped
  <2>3. CASE i = 1
    BY <1>2, <1>3, <1>4, <2>1, <2>3 DEF QueuedAsTyped
  <2>4. CASE i # 1
    BY <1>4, <2>1, <2>4 DEF QueuedAsTyped
  <2> QED
    BY <2>3, <2>4
<1>6. Counted(c) = [c EXCEPT !.queue = q]
  BY <1>1 DEF Counted, q, m, ContactRecord
<1> QED
  BY <1>4, <1>5, <1>6, NewQueue

LEMMA Toggles ==
  ASSUME NEW ty, NEW ms, NEW p, NEW c, Sound(ty, ms, p, c)
  PROVE  Sound(ty, ms, p, Toggled(c)) /\ Toggled(c).queue = c.queue
         /\ Toggled(c).nick = c.nick /\ Toggled(c).addr = c.addr
<1> DEFINE d == Toggled(c)
<1>1. c \in ContactRecord
  BY DEF Sound
<1>2. 1 - c.last_pkt_sent \in {0, 1}
  BY <1>1 DEF ContactRecord
<1>3. /\ d \in ContactRecord /\ d.queue = c.queue /\ d.nick = c.nick /\ d.shown = c.shown
      /\ d.addr = c.addr
  BY <1>1, <1>2 DEF ContactRecord, Toggled
<1> HIDE DEF d
<1>4. Sound(ty, ms, p, d)
  BY <1>3 DEF Sound
<1> QED
  BY <1>3, <1>4 DEF d

LEMMA Moves ==
  ASSUME NEW ty, NEW ms, NEW p, NEW c, Sound(ty, ms, p, c), NEW q \in Port
  PROVE  Sound(ty, ms, p, [c EXCEPT !.addr = q]) /\ [c EXCEPT !.addr = q].queue = c.queue
         /\ [c EXCEPT !.addr = q].addr = q
<1> DEFINE d == [c EXCEPT !.addr = q]
<1>1. c \in ContactRecord
  BY DEF Sound
<1>2. /\ d \in ContactRecord /\ d.queue = c.queue /\ d.nick = c.nick /\ d.shown = c.shown
      /\ d.addr = q
  BY <1>1 DEF ContactRecord
<1> HIDE DEF d
<1>3. Sound(ty, ms, p, d)
  BY <1>2 DEF Sound
<1> QED
  BY <1>2, <1>3 DEF d

\* The queue without its head: what follows was never sent.
LEMMA Pops ==
  ASSUME NEW ty, NEW ms, NEW p, NEW c, Sound(ty, ms, p, c), c.queue # <<>>
  PROVE  LET d == [c EXCEPT !.queue = Tail(@)] IN
         /\ Sound(ty, ms, p, d) /\ d.addr = c.addr
         /\ d.queue # <<>> => d.queue[1].attempts = 0
<1> DEFINE q == Tail(c.queue)
<1>1. c.queue \in Seq(QueuedMessage) /\ QueuedAsTyped(ty, ms, p, c.nick, c.queue)
  BY DEF Sound, ContactRecord
<1>2. /\ q \in Seq(QueuedMessage)
      /\ \A i \in DOMAIN q : i + 1 \in DOMAIN c.queue /\ i + 1 # 1 /\ q[i] = c.queue[i + 1]
  BY <1>1, QueueTypes
<1>3. q # <<>> => 1 \in DOMAIN q
  BY <1>2, QueueTypes
<1> HIDE DEF q
<1>4. \A i \in DOMAIN q :
        /\ q[i].id.by = p /\ WasSaid(ty, ms, q[i].id, c.nick, q[i].text)
        /\ q[i].attempts = 0
  BY <1>1, <1>2 DEF QueuedAsTyped
<1>5. QueuedAsTyped(ty, ms, p, c.nick, q)
  BY <1>4 DEF QueuedAsTyped
<1>6. /\ Sound(ty, ms, p, [c EXCEPT !.queue = q]) /\ [c EXCEPT !.queue = q].queue = q
      /\ [c EXCEPT !.queue = q].addr = c.addr
  BY <1>2, <1>5, NewQueue
<1>7. [c EXCEPT !.queue = Tail(@)] = [c EXCEPT !.queue = q]
  BY DEF q
<1> QED
  BY <1>3, <1>4, <1>6, <1>7

LEMMA Enqueues ==
  ASSUME NEW ty, NEW ms, NEW p \in Process, NEW c, Sound(ty, ms, p, c),
         NEW m \in QueuedMessage, m.id.by = p, m.attempts = 0,
         WasSaid(ty, ms, m.id, c.nick, m.text)
  PROVE  /\ Sound(ty, ms, p, Enqueued(c, m)) /\ Enqueued(c, m).addr = c.addr
         /\ Len(Enqueued(c, m).queue) = 1 => Enqueued(c, m).queue[1].attempts = 0
         /\ Enqueued(c, m).queue # <<>>
<1> DEFINE q == Append(c.queue, m)
<1>1. c.queue \in Seq(QueuedMessage) /\ QueuedAsTyped(ty, ms, p, c.nick, c.queue)
      /\ DOMAIN c.queue = 1 .. Len(c.queue) /\ Len(c.queue) \in Nat
  BY DEF Sound, ContactRecord
<1>2. /\ q \in Seq(QueuedMessage) /\ Len(q) = Len(c.queue) + 1
      /\ q[Len(c.queue) + 1] = m
      /\ \A i \in 1 .. Len(c.queue) : q[i] = c.queue[i]
  BY <1>1, Appended
<1> HIDE DEF q
<1>3. \A i \in DOMAIN q : i \in DOMAIN c.queue \/ i = Len(c.queue) + 1
  BY <1>1, <1>2
<1>4. QueuedAsTyped(ty, ms, p, c.nick, q)
  BY <1>1, <1>2, <1>3 DEF QueuedAsTyped
<1>5. Len(q) = 1 => q[1] = m
  BY <1>1, <1>2
<1>6. q # <<>>
  BY <1>1, <1>2
<1>7. /\ Sound(ty, ms, p, [c EXCEPT !.queue = q]) /\ [c EXCEPT !.queue = q].queue = q
      /\ [c EXCEPT !.queue = q].addr = c.addr
  BY <1>2, <1>4, NewQueue
<1>8. Enqueued(c, m) = [c EXCEPT !.queue = q]
  BY DEF Enqueued, q
<1> QED
  BY <1>5, <1>6, <1>7, <1>8

\* A contact from which one more message was shown.
LEMMA Hears ==
  ASSUME NEW ty, NEW ms, NEW p, NEW c, Sound(ty, ms, p, c), NEW num \in {0, 1},
         NEW e \in ShownMessage, p \notin ms => client_nick[e.id.by] = c.nick,
         WasSaid(ty, ms, e.id, client_nick[p], e.text)
  PROVE  Sound(ty, ms, p, [c EXCEPT !.last_pkt_received = num, !.shown = Append(c.shown, e)])
<1> DEFINE s == Append(c.shown, e)
           d == [c EXCEPT !.last_pkt_received = num, !.shown = s]
<1>1. c.shown \in Seq(ShownMessage) /\ HeardAsTyped(ty, ms, p, c.nick, c.shown)
      /\ DOMAIN c.shown = 1 .. Len(c.shown) /\ c \in ContactRecord
  BY DEF Sound, ContactRecord
<1>2. /\ s \in Seq(ShownMessage) /\ Len(s) = Len(c.shown) + 1
      /\ s[Len(c.shown) + 1] = e
      /\ \A i \in 1 .. Len(c.shown) : s[i] = c.shown[i]
  BY <1>1, Appended
<1> HIDE DEF s
<1>3. \A i \in DOMAIN s : i \in DOMAIN c.shown \/ i = Len(c.shown) + 1
  BY <1>1, <1>2
<1>4. HeardAsTyped(ty, ms, p, c.nick, s)
  BY <1>1, <1>2, <1>3 DEF HeardAsTyped
<1>5. /\ d \in ContactRecord /\ d.queue = c.queue /\ d.nick = c.nick /\ d.shown = s
  BY <1>1, <1>2 DEF ContactRecord
<1> HIDE DEF d
<1>6. Sound(ty, ms, p, d)
  BY <1>4, <1>5 DEF Sound
<1> QED
  BY <1>6 DEF d, s

-----------------------------------------------------------------------------
(* What a datagram parses to.                                              *)

LEMMA SameWord ==
  ASSUME NEW v, NEW w, <<v>> = <<w>>
  PROVE  v = w
<1>1. <<v>>[1] = v /\ <<w>>[1] = w
  OBVIOUS
<1> QED
  BY <1>1

LEMMA AckOrPkt ==
  ASSUME NEW ty \in History, NEW ms, NEW d, Genuine(ty, ms, d)
  PROVE  /\ d.id.by \in Process /\ d.id \in Id /\ d.from \in Port
         /\ d.id.turn \in DOMAIN ty[d.id.by] /\ ty[d.id.by][d.id.turn] \in Said
         /\ d.text \in Seq(Symbol) /\ IsText(d.text)
         /\ IsAck(d) => Len(Parsed(d)) = 3
         /\ ~ IsAck(d) =>
              /\ Len(Parsed(d)) = 8 /\ atoi(Parsed(d)[2]) \in {0, 1}
              /\ Parsed(d)[4] = <<client_nick[d.id.by]>>
              /\ \E to \in Word : /\ Parsed(d)[6] = <<to>>
                                  /\ d.id.by \notin ms => ty[d.id.by][d.id.turn].to = to
              /\ Parsed(d)[8] = ty[d.id.by][d.id.turn].text
<1> DEFINE by == d.id.by
           said == ty[by][d.id.turn]
<1>1. d \in Datagram /\ by \in Process /\ d.id \in Id /\ d.from \in Port
  BY DEF Genuine, Datagram, Id
<1>2. d.id.turn \in DOMAIN ty[by] /\ ty[by] \in Seq(Said)
  BY <1>1 DEF Genuine, History
<1>3. said \in Said
  BY <1>2
<1>4. client_nick[by] \in Word
  BY <1>1, Keywords DEF Nick
<1>5. said.text \in Speech
  BY <1>3 DEF Said
<1>6. PICK num \in {0, 1} :
        \/ d.text = AckMessage(num)
        \/ \E to \in Word : /\ by \notin ms => said.to = to
                            /\ d.text = PktMessage(num, client_nick[by], to, said.text)
  BY DEF Genuine
<1> HIDE DEF said, by
<1>7. CASE d.text = AckMessage(num)
  <2>1. /\ d.text \in Seq(Symbol) /\ IsText(d.text) /\ Len(Parsed(d)) = 3 /\ IsAck(d)
    BY <1>7, ParsesAck DEF IsAck, Parsed
  <2> QED
    BY <1>1, <1>2, <1>3, <2>1 DEF said, by
<1>8. CASE \E to \in Word : /\ by \notin ms => said.to = to
                            /\ d.text = PktMessage(num, client_nick[by], to, said.text)
  <2>0. PICK to \in Word : /\ by \notin ms => said.to = to
                           /\ d.text = PktMessage(num, client_nick[by], to, said.text)
    BY <1>8
  <2>1. /\ d.text \in Seq(Symbol) /\ IsText(d.text) /\ Len(Parsed(d)) = 8
        /\ Parsed(d)[1] = <<"PKT">> /\ Parsed(d)[2] = <<Decimal(num)>>
        /\ Parsed(d)[4] = <<client_nick[by]>> /\ Parsed(d)[6] = <<to>>
        /\ Parsed(d)[8] = said.text
    BY <1>4, <1>5, <2>0, ParsesPkt DEF Parsed
  <2>2. atoi(Parsed(d)[2]) \in {0, 1}
    BY <2>1, Keywords
  <2>3. ~ IsAck(d)
    <3>1. <<"PKT">>[1] = "PKT" /\ <<"ACK">>[1] = "ACK" /\ "PKT" # "ACK"
      OBVIOUS
    <3> QED
      BY <2>1, <3>1 DEF IsAck
  <2> QED
    BY <1>1, <1>2, <1>3, <2>0, <2>1, <2>2, <2>3 DEF said, by
<1> QED
  BY <1>6, <1>7, <1>8

\* A datagram a client sends for the head of a queue.
LEMMA PktIsGenuine ==
  ASSUME NEW ty \in History, NEW ms, NEW p \in Process, port[p] \in Port,
         NEW c, Sound(ty, ms, p, c), c.queue # <<>>
  PROVE  \E d : PktFor(p, c) = <<d>> /\ Genuine(ty, ms, d)
<1> DEFINE h == Head(c.queue)
           num == c.last_pkt_sent
           d == [from |-> port[p], id |-> h.id,
                 text |-> PktMessage(num, client_nick[p], c.nick, h.text)]
<1>1. /\ c.queue \in Seq(QueuedMessage) /\ c.nick \in Nick /\ num \in {0, 1}
      /\ QueuedAsTyped(ty, ms, p, c.nick, c.queue)
  BY DEF Sound, ContactRecord
<1>2. 1 \in DOMAIN c.queue /\ h = c.queue[1] /\ c.queue[1] \in QueuedMessage
  BY <1>1, QueueTypes
<1>3. h.id \in Id /\ h.text \in Speech
  BY <1>2 DEF QueuedMessage
<1>4. h.id.by = p /\ WasSaid(ty, ms, h.id, c.nick, h.text)
  BY <1>1, <1>2 DEF QueuedAsTyped
<1>5. client_nick[p] \in Word /\ c.nick \in Word
  BY <1>1, Keywords DEF Nick
<1>6. PktMessage(num, client_nick[p], c.nick, h.text) \in Seq(Symbol)
  <2> DEFINE from == client_nick[p]
             to == c.nick
             text == h.text
  <2>1. num \in {0, 1} /\ from \in Word /\ to \in Word /\ text \in Speech
    BY <1>1, <1>3, <1>5
  <2> HIDE DEF num, from, to, text
  <2>2. PktMessage(num, from, to, text) \in Seq(Symbol)
    BY <2>1, ParsesPkt
  <2> QED
    BY <2>2 DEF from, to, text
<1>7. PktFor(p, c) = <<d>>
  BY DEF PktFor
<1> HIDE DEF h, num
<1>8. /\ d \in Datagram /\ d.id = h.id
      /\ d.text = PktMessage(num, client_nick[p], c.nick, h.text)
  BY <1>3, <1>6 DEF Datagram
<1> HIDE DEF d
<1>9. /\ h.id.turn \in DOMAIN ty[p]
      /\ p \notin ms => ty[p][h.id.turn].to = c.nick
      /\ ty[p][h.id.turn].text = h.text
  BY <1>4 DEF WasSaid
<1>10. Genuine(ty, ms, d)
  BY <1>1, <1>4, <1>5, <1>8, <1>9 DEF Genuine
<1> QED
  BY <1>7, <1>10

LEMMA AckIsGenuine ==
  ASSUME NEW ty \in History, NEW ms, NEW p \in Process, port[p] \in Port,
         NEW d, Genuine(ty, ms, d), NEW num \in {0, 1}
  PROVE  Genuine(ty, ms, [from |-> port[p], id |-> d.id, text |-> AckMessage(num)])
<1> DEFINE a == [from |-> port[p], id |-> d.id, text |-> AckMessage(num)]
<1>1. d.id \in Id /\ d.id.turn \in DOMAIN ty[d.id.by]
  BY DEF Genuine, Datagram
<1>2. AckMessage(num) \in Seq(Symbol)
  BY ParsesAck
<1>3. a \in Datagram /\ a.id = d.id /\ a.text = AckMessage(num)
  BY <1>1, <1>2 DEF Datagram
<1> HIDE DEF a
<1>4. Genuine(ty, ms, a)
  BY <1>1, <1>3 DEF Genuine
<1> QED
  BY <1>4 DEF a

\* An answer of the server, which is served from a record.
LEMMA ServesReply ==
  ASSUME NEW n \in Word, record \in [Nick -> Port \cup {NoPort}]
  PROVE  Served(n) \in Reply
<1> DEFINE text == LookupMessage(0, n)
           parsed == parse_message(text, 4)
           there == n \in Nick /\ record[n] # NoPort
<1>1. parsed[2] = <<"0">> /\ parsed[4] = <<n>> /\ Head(<<n>>) = n
  BY ParsesRequest
<1>2. Answer(text) = IF there THEN FoundAnswer(<<"0">>, n, record[n])
                     ELSE NotFoundAnswer(<<"0">>)
  BY <1>1 DEF Answer
<1>3. there => record[n] \in Port
  OBVIOUS
<1> DEFINE answer == Answer(text)
<1>4. /\ answer \in {NotFoundAnswer(<<"0">>)}
                      \cup {FoundAnswer(<<"0">>, x, q) : x \in Nick, q \in Port}
      /\ Served(n) = [asked |-> n, text |-> answer]
  BY <1>2, <1>3 DEF Served
<1> HIDE DEF answer
<1> QED
  BY <1>4 DEF Reply

\* A client finds a nick and a port in an answer, if anything.
LEMMA LooksUp ==
  ASSUME NEW a \in Reply, NEW found \in LookedUp(a.text)
  PROVE  found.nick \in Nick /\ found.addr \in Port
<1> DEFINE none == NotFoundAnswer(<<"0">>)
<1>1. a.text = none \/ \E n \in Nick, q \in Port : a.text = FoundAnswer(<<"0">>, n, q)
  BY DEF Reply
<1> HIDE DEF none
<1>2. found \in IF a.text = none THEN {}
                ELSE {[nick |-> Head(parse_message(a.text, 8)[4]),
                       addr |-> Head(parse_message(a.text, 8)[8])]}
  BY DEF LookedUp, none
<1>3. a.text # none
  BY <1>2
<1>4. PICK n \in Nick, q \in Port : a.text = FoundAnswer(<<"0">>, n, q)
  BY <1>1, <1>3
<1>5. found = [nick |-> Head(parse_message(a.text, 8)[4]),
               addr |-> Head(parse_message(a.text, 8)[8])]
  BY <1>2, <1>3
<1>6. n \in Word
  BY Keywords
<1>7. parse_message(a.text, 8)[4] = <<n>> /\ parse_message(a.text, 8)[8] = <<q>>
  BY <1>4, <1>6, ParsesFound
<1>8. Head(<<n>>) = n /\ Head(<<q>>) = q
  OBVIOUS
<1> QED
  BY <1>5, <1>7, <1>8

\* So it does in the answer that a lookup takes.
LEMMA TakenFinds ==
  ASSUME SystemInv, NEW p \in Process, port[p] \in Port, NEW n \in Word,
         NEW answer \in Taken(p, n), NEW found \in answer
  PROVE  found.nick \in Nick /\ found.addr \in Port
<1> DEFINE waiting == answers[port[p]]
           first   == Head(Append(waiting, Served(n)))
<1>1. waiting \in Seq(Reply) /\ record \in [Nick -> Port \cup {NoPort}]
  BY DEF SystemInv, CoreInv, LookupInv
<1>2. Served(n) \in Reply
  BY <1>1, ServesReply
<1> HIDE DEF waiting
<1>3. first \in Reply
  BY <1>1, <1>2
<1>4. answer = LookedUp(first.text) \/ answer = LookedUp(Served(first.asked).text)
  BY DEF Taken, waiting
<1> HIDE DEF first
<1>5. first.asked \in Word
  BY <1>3 DEF Reply
<1>6. Served(first.asked) \in Reply
  BY <1>1, <1>5, ServesReply
<1> QED
  BY <1>3, <1>4, <1>6, LooksUp

LEMMA Registers ==
  ASSUME NEW p \in Process, record \in [Nick -> Port \cup {NoPort}], NEW q \in Port
  PROVE  Registered(RegMessage(0, client_nick[p]), q) \in [Nick -> Port \cup {NoPort}]
<1> DEFINE parsed == parse_message(RegMessage(0, client_nick[p]), 4)
<1>1. client_nick[p] \in Nick /\ client_nick[p] \in Word
  BY Keywords DEF Nick
<1>2. parsed[4] = <<client_nick[p]>>
  BY <1>1, ParsesRequest
<1>3. Head(parsed[4]) = client_nick[p]
  BY <1>2
<1> HIDE DEF parsed
<1>4. Registered(RegMessage(0, client_nick[p]), q) =
        IF is_reg_message(parsed) THEN [record EXCEPT ![client_nick[p]] = q] ELSE record
  BY <1>3 DEF Registered, parsed
<1> QED
  BY <1>1, <1>4

-----------------------------------------------------------------------------
(* What the handlers do to the contacts of p and to the sockets.           *)

Handled(ty, ms, p) ==
  /\ \E list : SoundList(ty, ms, p, list) /\ WithContact(p, list)
  /\ GenuineNet(ty, ms, inbox') /\ losses' \in Nat

LEMMA Sends ==
  ASSUME NEW ty \in History, NEW ms, losses \in Nat, NEW p \in Process, port[p] \in Port,
         NEW net, GenuineNet(ty, ms, net), NEW list, SoundList(ty, ms, p, list),
         NEW i \in DOMAIN list, NEW c, Sound(ty, ms, p, c), c.queue # <<>>,
         c.queue[1].attempts \in 0 .. 3, SendTo(net, p, list, i, c)
  PROVE  Handled(ty, ms, p)
<1>1. Sound(ty, ms, p, Counted(c))
  BY Counts
<1>2. SoundList(ty, ms, p, [list EXCEPT ![i] = Counted(c)])
  BY <1>1, ListWith
<1>3. PICK d : PktFor(p, c) = <<d>> /\ Genuine(ty, ms, d)
  BY PktIsGenuine
<1>4. c.addr \in Port
  BY DEF Sound, ContactRecord
<1>5. send_packet(net, c.addr, <<d>>)
  BY <1>3 DEF SendTo
<1>6. GenuineNet(ty, ms, inbox') /\ losses' \in Nat
  BY <1>3, <1>4, <1>5, NetSends
<1> QED
  BY <1>2, <1>6 DEF Handled, SendTo

LEMMA SendsNext ==
  ASSUME NEW ty \in History, NEW ms, losses \in Nat, NEW p \in Process, port[p] \in Port,
         NEW net, GenuineNet(ty, ms, net), NEW list, SoundList(ty, ms, p, list),
         NEW i \in DOMAIN list, NEW c, Sound(ty, ms, p, c),
         c.queue # <<>> => c.queue[1].attempts = 0,
         send_next_message_to_contact(net, p, list, i, c)
  PROVE  Handled(ty, ms, p)
<1>1. CASE c.queue # <<>> /\ SendTo(net, p, list, i, Toggled(c))
  <2>1. Sound(ty, ms, p, Toggled(c)) /\ Toggled(c).queue = c.queue
    BY Toggles
  <2>2. Toggled(c).queue # <<>> /\ Toggled(c).queue[1].attempts \in 0 .. 3
    BY <1>1, <2>1
  <2> QED
    BY <1>1, <2>1, <2>2, Sends
<1>2. CASE /\ WithContact(p, [list EXCEPT ![i] = c]) /\ inbox' = net /\ UNCHANGED losses
  <2>1. SoundList(ty, ms, p, [list EXCEPT ![i] = c])
    BY ListWith
  <2> QED
    BY <1>2, <2>1 DEF Handled
<1> QED
  BY <1>1, <1>2 DEF send_next_message_to_contact

LEMMA Queues ==
  ASSUME NEW ty \in History, NEW ms, losses \in Nat, NEW p \in Process, port[p] \in Port,
         NEW net, GenuineNet(ty, ms, net), NEW list, SoundList(ty, ms, p, list),
         NEW i \in DOMAIN list, NEW m \in QueuedMessage, m.id.by = p, m.attempts = 0,
         WasSaid(ty, ms, m.id, list[i].nick, m.text), Queue(net, p, list, i, m)
  PROVE  Handled(ty, ms, p)
<1> DEFINE c == Enqueued(list[i], m)
<1>1. Sound(ty, ms, p, list[i])
  BY DEF SoundList
<1>2. /\ Sound(ty, ms, p, c) /\ c.queue # <<>>
      /\ Len(c.queue) = 1 => c.queue[1].attempts = 0
  <2> DEFINE x == list[i]
  <2>1. Sound(ty, ms, p, x) /\ WasSaid(ty, ms, m.id, x.nick, m.text)
    BY <1>1
  <2> HIDE DEF x
  <2>2. /\ Sound(ty, ms, p, Enqueued(x, m)) /\ Enqueued(x, m).queue # <<>>
        /\ Len(Enqueued(x, m).queue) = 1 => Enqueued(x, m).queue[1].attempts = 0
    BY <2>1, Enqueues, SMTT(20)
  <2> QED
    BY <2>2 DEF x
<1> HIDE DEF c
<1>3. CASE Len(c.queue) = 1 /\ send_next_message_to_contact(net, p, list, i, c)
  BY <1>2, <1>3, SendsNext
<1>4. CASE WithContact(p, [list EXCEPT ![i] = c]) /\ inbox' = net /\ UNCHANGED losses
  <2>1. SoundList(ty, ms, p, [list EXCEPT ![i] = c])
    BY <1>2, ListWith
  <2> QED
    BY <1>4, <2>1 DEF Handled
<1> QED
  BY <1>3, <1>4 DEF Queue, c

LEMMA Accepts ==
  ASSUME NEW ty \in History, NEW ms, losses \in Nat, NEW p \in Process, port[p] \in Port,
         NEW net, GenuineNet(ty, ms, net), NEW list, SoundList(ty, ms, p, list),
         NEW i \in DOMAIN list, NEW d, Genuine(ty, ms, d), ~ IsAck(d), ForUs(p, d),
         p \notin ms => list[i].nick = Head(Parsed(d)[4]), Accept(net, p, list, i, d)
  PROVE  Handled(ty, ms, p)
<1> DEFINE c == list[i]
           num == atoi(Parsed(d)[2])
           e == [text |-> Parsed(d)[8], id |-> d.id]
           heard == [c EXCEPT !.last_pkt_received = num, !.shown = Append(c.shown, e)]
           said == ty[d.id.by][d.id.turn]
<1>1. /\ d.id.by \in Process /\ d.id \in Id /\ d.id.turn \in DOMAIN ty[d.id.by]
      /\ said \in Said /\ num \in {0, 1} /\ Parsed(d)[4] = <<client_nick[d.id.by]>>
      /\ Parsed(d)[8] = said.text
  BY AckOrPkt
<1>2. Sound(ty, ms, p, c) /\ c.addr \in Port /\ list \in Seq(ContactRecord)
  BY DEF SoundList, Sound, ContactRecord
<1>3. p \notin ms => c.nick = client_nick[d.id.by]
  BY <1>1
<1>4. d.id.by \notin ms => said.to = client_nick[p]
  <2>1. PICK to \in Word : /\ Parsed(d)[6] = <<to>>
                           /\ d.id.by \notin ms => said.to = to
    BY AckOrPkt
  <2>2. Parsed(d)[6] = <<client_nick[p]>>
    BY DEF ForUs
  <2>3. to = client_nick[p]
    BY <2>1, <2>2, SameWord, Zenon
  <2>4. d.id.by \notin ms => said.to = to
    BY <2>1
  <2> HIDE DEF said
  <2> QED
    BY <2>3, <2>4, Zenon
<1>5. said.text \in Speech
  BY <1>1 DEF Said
<1>6. /\ e \in ShownMessage /\ (p \notin ms => client_nick[e.id.by] = c.nick)
      /\ WasSaid(ty, ms, e.id, client_nick[p], e.text)
  BY <1>1, <1>3, <1>4, <1>5 DEF ShownMessage, WasSaid
<1>7. Sound(ty, ms, p, heard)
  BY <1>1, <1>2, <1>6, Hears
<1>8. SoundList(ty, ms, p, [list EXCEPT ![i] = heard])
  BY <1>7, ListWith
<1>9. [list EXCEPT ![i].last_pkt_received = num, ![i].shown = Append(@, e)]
        = [list EXCEPT ![i] = heard]
  BY <1>2 DEF ContactRecord, Sound
<1>10. \E new : SoundList(ty, ms, p, new) /\ WithContact(p, new)
  BY <1>8, <1>9 DEF Accept
<1>11. send_packet(net, c.addr,
                   <<[from |-> port[p], id |-> d.id, text |-> AckMessage(num)]>>)
  BY DEF Accept
<1>12. Genuine(ty, ms, [from |-> port[p], id |-> d.id, text |-> AckMessage(num)])
  BY <1>1, AckIsGenuine
<1>13. GenuineNet(ty, ms, inbox') /\ losses' \in Nat
  BY <1>2, <1>11, <1>12, NetSends
<1> QED
  BY <1>10, <1>13 DEF Handled

-----------------------------------------------------------------------------
(* The invariant is inductive.                                             *)

LEMMA SystemInit == Init => SystemInv
<1> SUFFICES ASSUME Init PROVE SystemInv
  OBVIOUS
<1>1. typed \in History
  <2>1. <<>> \in Seq(Said)
    OBVIOUS
  <2> QED
    BY <2>1 DEF Init, History
<1>2. \A p \in Process : SoundList(typed, misled, p, <<>>)
  <2>1. <<>> \in Seq(ContactRecord) /\ DOMAIN <<>> = {}
    OBVIOUS
  <2> QED
    BY <2>1 DEF SoundList
<1>3. contacts \in [Process -> Seq(ContactRecord)]
  <2>1. <<>> \in Seq(ContactRecord)
    OBVIOUS
  <2> QED
    BY <2>1 DEF Init
<1>4. GenuineNet(typed, misled, inbox)
  <2>1. <<>> \in Seq(Datagram) /\ DOMAIN <<>> = {}
    OBVIOUS
  <2>2. GenuineBox(typed, misled, <<>>)
    BY <2>1 DEF GenuineBox
  <2> QED
    BY <2>1, <2>2 DEF Init, GenuineNet
<1>5. PortsInv
  BY SystemAssumption DEF Init, PortsInv
<1>6. LookupInv
  <2>1. <<>> \in Seq(Reply)
    OBVIOUS
  <2> QED
    BY <2>1 DEF Init, LookupInv
<1> QED
  BY <1>1, <1>2, <1>3, <1>4, <1>5, <1>6 DEF Init, SystemInv, CoreInv

\* A running client has a port.
LEMMA HasPort ==
  ASSUME SystemInv, NEW p \in Process, state[p] \in {"starting", "connected"}
  PROVE  port[p] \in Port
BY DEF SystemInv, CoreInv, PortsInv

\* A step that leaves processes, ports and records alone.
LEMMA StepOfHandler ==
  ASSUME SystemInv, NEW p \in Process, Handled(typed', misled', p), typed' \in History,
         Grown(typed, misled, typed', misled'), UNCHANGED <<state, port, starts>>,
         record' \in [Nick -> Port \cup {NoPort}]
  PROVE  CoreInv'
<1>1. PICK list : SoundList(typed', misled', p, list) /\ contacts' = [contacts EXCEPT ![p] = list]
  BY DEF Handled, WithContact
<1>2. contacts' \in [Process -> Seq(ContactRecord)]
  BY <1>1 DEF SystemInv, CoreInv, SoundList
<1>3. \A q \in Process : SoundList(typed', misled', q, contacts'[q])
  <2>1. SUFFICES ASSUME NEW q \in Process PROVE SoundList(typed', misled', q, contacts'[q])
    OBVIOUS
  <2>2. CASE q = p
    BY <1>1, <2>2 DEF SystemInv, CoreInv
  <2>3. CASE q # p
    <3>1. contacts'[q] = contacts[q] /\ SoundList(typed, misled, q, contacts[q])
      BY <1>1, <2>3 DEF SystemInv, CoreInv
    <3> QED
      BY <3>1, ListStays
  <2> QED
    BY <2>2, <2>3
<1>4. GenuineNet(typed', misled', inbox') /\ losses' \in Nat
  BY DEF Handled
<1>5. PortsInv'
  BY DEF SystemInv, CoreInv, PortsInv
<1> QED
  BY <1>2, <1>3, <1>4, <1>5 DEF SystemInv, CoreInv

LEMMA StaysTheSame ==
  typed \in History /\ UNCHANGED typed /\ misled \subseteq misled'
  => typed' \in History /\ Grown(typed, misled, typed', misled')
BY DEF Grown

\* A handler that types nothing and registers nothing.
LEMMA StepOfPacket ==
  ASSUME SystemInv, NEW p \in Process, Handled(typed, misled', p), misled \subseteq misled',
         UNCHANGED <<state, port, starts, record, typed>>
  PROVE  CoreInv'
<1>1. typed' = typed /\ typed \in History
  BY DEF SystemInv, CoreInv
<1>2. typed' \in History /\ Grown(typed, misled, typed', misled')
  BY <1>1, StaysTheSame
<1>3. Handled(typed', misled', p)
  BY <1>1 DEF Handled
<1> QED
  BY <1>2, <1>3, StepOfHandler DEF SystemInv, CoreInv

LEMMA StepOfEvent ==
  ASSUME SystemInv, NEW p \in Process, Handled(typed, misled, p),
         UNCHANGED <<state, port, starts, record, typed, misled>>
  PROVE  CoreInv'
<1>1. misled' = misled
  OBVIOUS
<1>2. Handled(typed, misled', p)
  BY <1>1 DEF Handled
<1> QED
  BY <1>1, <1>2, StepOfPacket

LEMMA StepOfStart ==
  ASSUME SystemInv, NEW p \in Process, NEW q \in Port,
         StartAnswered(p, q) \/ StartUnanswered(p, q)
  PROVE  CoreInv'
<1>1. PICK s \in {"starting", "connected"} : state' = [state EXCEPT ![p] = s]
  BY DEF StartAnswered, StartUnanswered
<1>2. /\ q \in Free /\ state[p] = "off" /\ starts' = [starts EXCEPT ![p] = @ + 1]
      /\ port' = [port EXCEPT ![p] = q] /\ UNCHANGED <<contacts, inbox, typed, misled>>
  BY DEF StartAnswered, StartUnanswered, Launch
<1>3. losses' \in Nat
  BY DEF StartAnswered, StartUnanswered, SystemInv, CoreInv
<1>4. record' \in [Nick -> Port \cup {NoPort}]
  <2>1. Registered(RegMessage(0, client_nick[p]), q) \in [Nick -> Port \cup {NoPort}]
    BY Registers DEF SystemInv, CoreInv
  <2> QED
    BY <2>1 DEF StartAnswered, StartUnanswered, SystemInv, CoreInv
<1>5. /\ state' \in [Process -> {"off", "starting", "connected", "crashed"}]
      /\ port' \in [Process -> Port \cup {NoPort}] /\ starts' \in [Process -> Nat]
  BY <1>1, <1>2 DEF SystemInv, CoreInv
<1>6. PortsInv'
  <2>1. \A x \in Process : port[x] # q
    BY <1>2 DEF Free
  <2>2. q # NoPort
    BY SystemAssumption
  <2>3. \A x \in Process : /\ port'[x] = IF x = p THEN q ELSE port[x]
                           /\ state'[x] = IF x = p THEN s ELSE state[x]
    BY <1>1, <1>2 DEF SystemInv, CoreInv
  <2>4. \A x \in Process : (port'[x] = NoPort) = (state'[x] \in {"off", "crashed"})
    <3>1. \A x \in Process : (port[x] = NoPort) = (state[x] \in {"off", "crashed"})
      BY DEF SystemInv, CoreInv, PortsInv
    <3> QED
      BY <2>2, <2>3, <3>1
  <2>5. \A x, y \in Process : port'[x] = port'[y] /\ port'[x] # NoPort => x = y
    <3>1. \A x, y \in Process : port[x] = port[y] /\ port[x] # NoPort => x = y
      BY DEF SystemInv, CoreInv, PortsInv
    <3> QED
      BY <2>1, <2>3, <3>1
  <2> QED
    BY <2>4, <2>5 DEF PortsInv
<1>7. typed' = typed /\ misled' = misled /\ inbox' = inbox /\ contacts' = contacts
  BY <1>2
<1> QED
  BY <1>3, <1>4, <1>5, <1>6, <1>7 DEF SystemInv, CoreInv

LEMMA StepOfEnd ==
  ASSUME SystemInv, NEW p \in Process, state[p] \in {"starting", "connected"},
         NEW how \in {"off", "crashed"}, End(p, how)
  PROVE  CoreInv'
<1>1. /\ state' = [state EXCEPT ![p] = how] /\ port' = [port EXCEPT ![p] = NoPort]
      /\ contacts' = [contacts EXCEPT ![p] = <<>>]
      /\ inbox' = [inbox EXCEPT ![port[p]] = <<>>]
      /\ UNCHANGED <<starts, record, losses, typed, misled>>
  BY DEF End
<1>2. /\ state' \in [Process -> {"off", "starting", "connected", "crashed"}]
      /\ port' \in [Process -> Port \cup {NoPort}]
  BY <1>1 DEF SystemInv, CoreInv
<1>3. PortsInv'
  <2>1. \A x \in Process : /\ port'[x] = IF x = p THEN NoPort ELSE port[x]
                           /\ state'[x] = IF x = p THEN how ELSE state[x]
    BY <1>1 DEF SystemInv, CoreInv
  <2> QED
    BY <2>1 DEF SystemInv, CoreInv, PortsInv
<1>4. <<>> \in Seq(ContactRecord) /\ <<>> \in Seq(Datagram) /\ DOMAIN <<>> = {}
  OBVIOUS
<1>5. contacts' \in [Process -> Seq(ContactRecord)]
  BY <1>1, <1>4 DEF SystemInv, CoreInv
<1>6. \A x \in Process : SoundList(typed, misled, x, contacts'[x])
  BY <1>1, <1>4 DEF SystemInv, CoreInv, SoundList
<1>7. GenuineNet(typed, misled, inbox')
  <2>1. GenuineBox(typed, misled, <<>>)
    BY <1>4 DEF GenuineBox
  <2>2. port[p] \in Port
    BY HasPort
  <2> QED
    BY <1>1, <2>1, <2>2, NetWith DEF SystemInv, CoreInv
<1> QED
  BY <1>1, <1>2, <1>3, <1>5, <1>6, <1>7 DEF SystemInv, CoreInv

\* A client that has got its answer, a heartbeat, a record that expires.
LEMMA StepOfServer ==
  ASSUME SystemInv,
         \/ \E p \in Process : StrayAnswer(p) \/ Heartbeat(p)
         \/ \E n \in Nick : Expire(n)
  PROVE  CoreInv'
<1>1. UNCHANGED <<port, starts, contacts, inbox, losses, typed, misled>>
  BY DEF StrayAnswer, Heartbeat, Expire
<1>2. ASSUME NEW p \in Process, StrayAnswer(p) PROVE CoreInv'
  <2>1. state[p] = "starting" /\ state' = [state EXCEPT ![p] = "connected"]
        /\ UNCHANGED record
    BY <1>2 DEF StrayAnswer
  <2>2. PortsInv'
    BY <1>1, <2>1 DEF SystemInv, CoreInv, PortsInv
  <2> QED
    BY <1>1, <2>1, <2>2 DEF SystemInv, CoreInv
<1>3. ASSUME NEW p \in Process, Heartbeat(p) PROVE CoreInv'
  <2>1. state[p] = "connected" /\ UNCHANGED state
        /\ record' = Registered(RegMessage(0, client_nick[p]), port[p])
    BY <1>3 DEF Heartbeat, Running
  <2>2. port[p] \in Port
    BY <2>1, HasPort
  <2>3. record' \in [Nick -> Port \cup {NoPort}]
    BY <2>1, <2>2, Registers DEF SystemInv, CoreInv
  <2>4. PortsInv'
    BY <1>1, <2>1 DEF SystemInv, CoreInv, PortsInv
  <2> QED
    BY <1>1, <2>1, <2>3, <2>4 DEF SystemInv, CoreInv
<1>4. ASSUME NEW n \in Nick, Expire(n) PROVE CoreInv'
  <2>1. UNCHANGED state /\ record' = [record EXCEPT ![n] = NoPort]
    BY <1>4 DEF Expire
  <2>2. PortsInv'
    BY <1>1, <2>1 DEF SystemInv, CoreInv, PortsInv
  <2> QED
    BY <1>1, <2>1, <2>2 DEF SystemInv, CoreInv
<1> QED
  BY <1>2, <1>3, <1>4

\* What p has typed, with one more turn.
OneMoreTurn(ty, p, s) == [ty EXCEPT ![p] = Append(ty[p], s)]

LEMMA NextTurn ==
  ASSUME NEW ty \in History, NEW ms, NEW ns, ms \subseteq ns, NEW p \in Process,
         NEW s \in Said, NEW uy, uy = OneMoreTurn(ty, p, s)
  PROVE  /\ uy \in History /\ Grown(ty, ms, uy, ns)
         /\ Len(ty[p]) + 1 \in Nat /\ Len(ty[p]) + 1 \in DOMAIN uy[p]
         /\ uy[p][Len(ty[p]) + 1] = s
<1> DEFINE l == Append(ty[p], s)
<1>1. ty[p] \in Seq(Said) /\ Len(ty[p]) \in Nat /\ DOMAIN ty[p] = 1 .. Len(ty[p])
  BY DEF History
<1>2. /\ l \in Seq(Said) /\ Len(l) = Len(ty[p]) + 1 /\ l[Len(ty[p]) + 1] = s
      /\ \A i \in 1 .. Len(ty[p]) : l[i] = ty[p][i]
  BY <1>1, Appended
<1> HIDE DEF l
<1>3. uy = [ty EXCEPT ![p] = l]
  BY DEF l, OneMoreTurn
<1>4. uy \in History /\ uy[p] = l /\ \A q \in Process : q # p => uy[q] = ty[q]
  BY <1>2, <1>3 DEF History
<1>5. DOMAIN l = 1 .. Len(ty[p]) + 1
  BY <1>2
<1>6. Grown(ty, ms, uy, ns)
  <2>1. SUFFICES ASSUME NEW q \in Process
                 PROVE  /\ DOMAIN ty[q] \subseteq DOMAIN uy[q]
                        /\ \A i \in DOMAIN ty[q] : uy[q][i] = ty[q][i]
    BY DEF Grown
  <2>2. CASE q = p
    <3>1. uy[q] = l /\ ty[q] = ty[p]
      BY <1>4, <2>2
    <3>2. DOMAIN ty[p] \subseteq DOMAIN l
      BY <1>1, <1>5
    <3> QED
      BY <1>1, <1>2, <3>1, <3>2
  <2>3. CASE q # p
    BY <1>4, <2>3
  <2> QED
    BY <2>2, <2>3
<1> QED
  BY <1>1, <1>2, <1>4, <1>5, <1>6

\* Who has made a contact of another nick stays misled.
LEMMA MisledMore ==
  ASSUME NEW p, NEW n, NEW found, Misled(p, n, found)
  PROVE  misled \subseteq misled' /\ (p \notin misled' => found.nick = n)
BY DEF Misled

\* What a line that is typed asks of the contacts of p: a message, with a new turn, to
\* a contact that is there or that a lookup has found.
LEMMA TypesOne ==
  ASSUME SystemInv, NEW p \in Process, NEW line, Type(p, line)
  PROVE  /\ state[p] = "connected" /\ UNCHANGED <<state, port, starts, record>>
         /\ typed' \in History /\ Grown(typed, misled, typed', misled')
         /\ \E n \in Word : \E m \in QueuedMessage :
              /\ m.id.by = p /\ m.attempts = 0 /\ m.id.turn = Len(typed[p]) + 1
              /\ WasSaid(typed', misled', m.id, n, m.text)
              /\ \/ /\ find_contact_by_nick(contacts[p], n) # 0 /\ UNCHANGED misled
                    /\ Queue(inbox, p, contacts[p], find_contact_by_nick(contacts[p], n), m)
                 \/ /\ find_contact_by_nick(contacts[p], n) = 0
                    /\ \E nick \in Nick, addr \in Port, net \in AfterLookup(inbox, p) :
                         /\ p \notin misled' => nick = n
                         /\ Queue(net, p, <<create_contact(nick, addr)>> \o contacts[p], 1, m)
                 \/ /\ inbox' \in AfterLookup(inbox, p)
                    /\ UNCHANGED <<contacts, losses, misled>>
<1> DEFINE n == recipient_nick(line)
           text == recipient_message(line)
           m == [text |-> text, attempts |-> 0, id |-> [by |-> p, turn |-> Len(typed[p]) + 1]]
           i == find_contact_by_nick(contacts[p], n)
           said == [to |-> n, text |-> text]
<1>1. /\ state[p] = "connected" /\ line \in MayType[p] /\ IsClientInput(line)
      /\ typed' = [typed EXCEPT ![p] = Append(typed[p], said)]
      /\ UNCHANGED <<state, port, starts, record>>
      /\ \/ i # 0 /\ Queue(inbox, p, contacts[p], i, m) /\ UNCHANGED misled
         \/ /\ i = 0
            /\ \E answer \in Taken(p, n) :
                 \/ \E net \in AfterLookup(inbox, p), found \in answer :
                      /\ Queue(net, p, <<create_contact(found.nick, found.addr)>> \o contacts[p],
                               1, m)
                      /\ Misled(p, n, found)
                 \/ /\ inbox' \in AfterLookup(inbox, p)
                    /\ UNCHANGED <<contacts, losses, misled>>
  BY DEF Type, Running
<1>2. n \in Word /\ text \in Speech
  <2>1. line \in Seq(Range(line)) /\ IsText(line) /\ Range(line) \subseteq Symbol
    BY <1>1, TextAssumption DEF Symbol, Lines
  <2>2. line \in Seq(Symbol)
    BY <2>1
  <2> QED
    BY <1>1, <2>1, <2>2, ParsesLine
<1> HIDE DEF n, text
<1>3. said \in Said
  BY <1>2 DEF Said
<1>4. port[p] \in Port
  BY <1>1, HasPort
<1> HIDE DEF m, i, said
<1>5. /\ misled \subseteq misled'
      /\ \/ i # 0 /\ Queue(inbox, p, contacts[p], i, m) /\ UNCHANGED misled
         \/ /\ i = 0
            /\ \E nick \in Nick, addr \in Port, net \in AfterLookup(inbox, p) :
                 /\ p \notin misled' => nick = n
                 /\ Queue(net, p, <<create_contact(nick, addr)>> \o contacts[p], 1, m)
         \/ /\ inbox' \in AfterLookup(inbox, p)
            /\ UNCHANGED <<contacts, losses, misled>>
  <2>1. CASE i # 0 /\ UNCHANGED misled /\ Queue(inbox, p, contacts[p], i, m)
    BY <2>1
  <2>2. CASE inbox' \in AfterLookup(inbox, p) /\ UNCHANGED <<contacts, losses, misled>>
    BY <2>2
  <2>3. CASE /\ i = 0
             /\ \E answer \in Taken(p, n) : \E net \in AfterLookup(inbox, p), found \in answer :
                  /\ Queue(net, p, <<create_contact(found.nick, found.addr)>> \o contacts[p], 1, m)
                  /\ Misled(p, n, found)
    <3>1. PICK answer \in Taken(p, n) : \E net \in AfterLookup(inbox, p), found \in answer :
            /\ Queue(net, p, <<create_contact(found.nick, found.addr)>> \o contacts[p], 1, m)
            /\ Misled(p, n, found)
      BY <2>3
    <3>2. PICK net \in AfterLookup(inbox, p), found \in answer :
            /\ Queue(net, p, <<create_contact(found.nick, found.addr)>> \o contacts[p], 1, m)
            /\ Misled(p, n, found)
      BY <3>1
    <3>3. found.nick \in Nick /\ found.addr \in Port
      BY <1>2, <1>4, TakenFinds
    <3>4. misled \subseteq misled' /\ (p \notin misled' => found.nick = n)
      BY <3>2, MisledMore, Zenon
    <3>5. \E nick \in Nick, addr \in Port :
            /\ p \notin misled' => nick = n
            /\ Queue(net, p, <<create_contact(nick, addr)>> \o contacts[p], 1, m)
      BY <3>2, <3>3, <3>4, Zenon
    <3> QED
      BY <2>3, <3>4, <3>5, Zenon
  <2> QED
    BY <1>1, <2>1, <2>2, <2>3, Zenon
<1>6. /\ typed' \in History /\ Grown(typed, misled, typed', misled') /\ Len(typed[p]) + 1 \in Nat
      /\ Len(typed[p]) + 1 \in DOMAIN typed'[p] /\ typed'[p][Len(typed[p]) + 1] = said
  <2>1. typed' = OneMoreTurn(typed, p, said)
    BY <1>1 DEF OneMoreTurn
  <2> QED
    BY <1>3, <1>5, <2>1, NextTurn DEF SystemInv, CoreInv
<1>7. /\ m \in QueuedMessage /\ m.id.by = p /\ m.attempts = 0 /\ m.id.turn = Len(typed[p]) + 1
      /\ WasSaid(typed', misled', m.id, n, m.text)
  BY <1>2, <1>6 DEF QueuedMessage, Id, WasSaid, m, said
<1> QED
  BY <1>1, <1>2, <1>5, <1>6, <1>7, Zenon DEF i

\* A message was said for whatever nick if its author is misled.
LEMMA SaidAnyway ==
  ASSUME NEW ty, NEW ms, NEW id, NEW n, NEW text, WasSaid(ty, ms, id, n, text),
         NEW nick, id.by \notin ms => nick = n
  PROVE  WasSaid(ty, ms, id, nick, text)
BY DEF WasSaid

LEMMA StepOfType ==
  ASSUME SystemInv, NEW p \in Process, NEW line, Type(p, line)
  PROVE  CoreInv'
<1>1. /\ state[p] = "connected" /\ UNCHANGED <<state, port, starts, record>>
      /\ typed' \in History /\ Grown(typed, misled, typed', misled')
  BY TypesOne
<1>2. PICK n \in Word, m \in QueuedMessage :
        /\ m.id.by = p /\ m.attempts = 0 /\ m.id.turn = Len(typed[p]) + 1
        /\ WasSaid(typed', misled', m.id, n, m.text)
        /\ \/ /\ find_contact_by_nick(contacts[p], n) # 0 /\ UNCHANGED misled
              /\ Queue(inbox, p, contacts[p], find_contact_by_nick(contacts[p], n), m)
           \/ /\ find_contact_by_nick(contacts[p], n) = 0
              /\ \E nick \in Nick, addr \in Port, net \in AfterLookup(inbox, p) :
                   /\ p \notin misled' => nick = n
                   /\ Queue(net, p, <<create_contact(nick, addr)>> \o contacts[p], 1, m)
           \/ /\ inbox' \in AfterLookup(inbox, p)
              /\ UNCHANGED <<contacts, losses, misled>>
  BY TypesOne
<1> DEFINE i == find_contact_by_nick(contacts[p], n)
<1>3. /\ typed \in History /\ losses \in Nat /\ record \in [Nick -> Port \cup {NoPort}]
      /\ SoundList(typed, misled, p, contacts[p]) /\ GenuineNet(typed, misled, inbox)
  BY DEF SystemInv, CoreInv
<1>4. port[p] \in Port
  BY <1>1, HasPort
<1>5. SoundList(typed', misled', p, contacts[p]) /\ GenuineNet(typed', misled', inbox)
  BY <1>1, <1>3, ListStays, NetStays
<1>6. contacts[p] \in Seq(ContactRecord)
  BY <1>3 DEF SoundList
<1>7. CASE i # 0 /\ Queue(inbox, p, contacts[p], i, m)
  <2>1. i \in DOMAIN contacts[p] /\ contacts[p][i].nick = n
    BY <1>6, <1>7, FoundIsThere
  <2> HIDE DEF i
  <2> QED
    BY <1>1, <1>2, <1>3, <1>4, <1>5, <1>7, <2>1, Queues, StepOfHandler
<1>8. CASE \E nick \in Nick, addr \in Port, net \in AfterLookup(inbox, p) :
             /\ p \notin misled' => nick = n
             /\ Queue(net, p, <<create_contact(nick, addr)>> \o contacts[p], 1, m)
  <2>1. PICK nick \in Nick, addr \in Port, net \in AfterLookup(inbox, p) :
             /\ p \notin misled' => nick = n
             /\ Queue(net, p, <<create_contact(nick, addr)>> \o contacts[p], 1, m)
    BY <1>8
  <2> DEFINE c == create_contact(nick, addr)
             list == <<c>> \o contacts[p]
  <2>2. Sound(typed', misled', p, c) /\ c.nick = nick
    BY NewContact
  <2>3. WasSaid(typed', misled', m.id, nick, m.text)
    <3>1. m.id.by \notin misled' => nick = n
      BY <1>2, <2>1
    <3> QED
      BY <1>2, <3>1, SaidAnyway, Zenon
  <2>4. Queue(net, p, list, 1, m)
    BY <2>1
  <2> HIDE DEF c
  <2>5. SoundList(typed', misled', p, list) /\ 1 \in DOMAIN list /\ list[1] = c
    BY <1>5, <2>2, ListNew
  <2> HIDE DEF list
  <2>6. GenuineNet(typed', misled', net)
    BY <1>4, <1>5, NetLookup
  <2>7. Handled(typed', misled', p)
    BY <1>1, <1>2, <1>3, <1>4, <2>2, <2>3, <2>4, <2>5, <2>6, Queues
  <2> QED
    BY <1>1, <1>3, <2>7, StepOfHandler
<1>9. CASE inbox' \in AfterLookup(inbox, p) /\ UNCHANGED <<contacts, losses>>
  <2>1. GenuineNet(typed', misled', inbox')
    BY <1>4, <1>5, <1>9, NetLookup
  <2>2. contacts' = [contacts EXCEPT ![p] = contacts[p]]
    BY <1>9 DEF SystemInv, CoreInv
  <2>3. Handled(typed', misled', p)
    BY <1>3, <1>5, <1>9, <2>1, <2>2 DEF Handled, WithContact
  <2> QED
    BY <1>1, <1>3, <2>3, StepOfHandler
<1> QED
  BY <1>2, <1>7, <1>8, <1>9

\* What a packet asks of the contacts of p: it is taken from a contact that is there or
\* that a lookup has found.
PktTaken(p, d, n) ==
  \/ /\ find_contact_by_nick(contacts[p], n) # 0 /\ UNCHANGED misled
     /\ Accept(Received(p), p, contacts[p], find_contact_by_nick(contacts[p], n), d)
  \/ /\ find_contact_by_nick(contacts[p], n) = 0
     /\ \E nick \in Nick, addr \in Port, net \in AfterLookup(Received(p), p) :
          /\ p \notin misled' => nick = n
          /\ Accept(net, p, <<create_contact(nick, addr)>> \o contacts[p], 1, d)
  \/ /\ inbox' \in AfterLookup(Received(p), p)
     /\ UNCHANGED <<contacts, losses, misled>>

LEMMA PktNames ==
  ASSUME NEW ty \in History, NEW ms, NEW d, Genuine(ty, ms, d), ~ IsAck(d)
  PROVE  /\ d.id.by \in Process /\ Parsed(d)[4] = <<client_nick[d.id.by]>>
         /\ Head(Parsed(d)[4]) = client_nick[d.id.by]
         /\ client_nick[d.id.by] \in Nick /\ client_nick[d.id.by] \in Word
<1>1. d.id.by \in Process /\ Parsed(d)[4] = <<client_nick[d.id.by]>>
  BY AckOrPkt
<1>2. Head(<<client_nick[d.id.by]>>) = client_nick[d.id.by]
  OBVIOUS
<1> QED
  BY <1>1, <1>2, Keywords DEF Nick

LEMMA TakesOne ==
  ASSUME SystemInv, NEW p \in Process, ReceivePkt(p)
  PROVE  \E d, n :
         /\ d = Head(inbox[port[p]]) /\ n = Head(Parsed(d)[4])
         /\ state[p] = "connected" /\ inbox[port[p]] # <<>> /\ port[p] \in Port
         /\ ~ IsAck(d) /\ ForUs(p, d) /\ Genuine(typed, misled, d)
         /\ n \in Nick /\ n \in Word /\ d.id.by \in Process /\ client_nick[d.id.by] = n
         /\ UNCHANGED <<state, port, starts, record, typed>> /\ misled \subseteq misled'
         /\ PktTaken(p, d, n)
<1>0. PICK d, n : d = Head(inbox[port[p]]) /\ n = Head(Parsed(d)[4])
  OBVIOUS
<1> DEFINE i == find_contact_by_nick(contacts[p], n)
<1>1. /\ state[p] = "connected" /\ inbox[port[p]] # <<>> /\ ~ IsAck(d) /\ ForUs(p, d)
      /\ UNCHANGED <<state, port, starts, record, typed>>
      /\ \/ i # 0 /\ Accept(Received(p), p, contacts[p], i, d) /\ UNCHANGED misled
         \/ /\ i = 0
            /\ \E answer \in Taken(p, n) :
                 \/ \E net \in AfterLookup(Received(p), p), found \in answer :
                      /\ Accept(net, p,
                                <<create_contact(found.nick, found.addr)>> \o contacts[p], 1, d)
                      /\ Misled(p, n, found)
                 \/ /\ inbox' \in AfterLookup(Received(p), p)
                    /\ UNCHANGED <<contacts, losses, misled>>
  BY <1>0 DEF ReceivePkt, Arrived, Running
<1>2. port[p] \in Port
  BY <1>1, HasPort
<1>3. typed \in History /\ Genuine(typed, misled, d)
  <2>1. typed \in History /\ GenuineNet(typed, misled, inbox)
    BY DEF SystemInv, CoreInv
  <2>2. Genuine(typed, misled, Head(inbox[port[p]]))
    BY <1>1, <1>2, <2>1, NetReceives, Zenon
  <2> QED
    BY <1>0, <2>1, <2>2
<1>4. n \in Nick /\ n \in Word /\ d.id.by \in Process /\ client_nick[d.id.by] = n
  <2>1. Genuine(typed, misled, d) /\ ~ IsAck(d) /\ typed \in History
    BY <1>1, <1>3
  <2> QED
    BY <1>0, <2>1, PktNames, Zenon
<1> HIDE DEF i
<1>5. /\ misled \subseteq misled'
      /\ \/ i # 0 /\ Accept(Received(p), p, contacts[p], i, d) /\ UNCHANGED misled
         \/ /\ i = 0
            /\ \E nick \in Nick, addr \in Port, net \in AfterLookup(Received(p), p) :
                 /\ p \notin misled' => nick = n
                 /\ Accept(net, p, <<create_contact(nick, addr)>> \o contacts[p], 1, d)
         \/ /\ inbox' \in AfterLookup(Received(p), p)
            /\ UNCHANGED <<contacts, losses, misled>>
  <2>1. CASE i # 0 /\ UNCHANGED misled /\ Accept(Received(p), p, contacts[p], i, d)
    BY <2>1
  <2>2. CASE inbox' \in AfterLookup(Received(p), p) /\ UNCHANGED <<contacts, losses, misled>>
    BY <2>2
  <2>3. CASE /\ i = 0
             /\ \E answer \in Taken(p, n) : \E net \in AfterLookup(Received(p), p), found \in answer :
                  /\ Accept(net, p, <<create_contact(found.nick, found.addr)>> \o contacts[p], 1, d)
                  /\ Misled(p, n, found)
    <3>1. PICK answer \in Taken(p, n) : \E net \in AfterLookup(Received(p), p), found \in answer :
            /\ Accept(net, p, <<create_contact(found.nick, found.addr)>> \o contacts[p], 1, d)
            /\ Misled(p, n, found)
      BY <2>3
    <3>2. PICK net \in AfterLookup(Received(p), p), found \in answer :
            /\ Accept(net, p, <<create_contact(found.nick, found.addr)>> \o contacts[p], 1, d)
            /\ Misled(p, n, found)
      BY <3>1
    <3>3. found.nick \in Nick /\ found.addr \in Port
      BY <1>2, <1>4, TakenFinds
    <3>4. misled \subseteq misled' /\ (p \notin misled' => found.nick = n)
      BY <3>2, MisledMore, Zenon
    <3>5. \E nick \in Nick, addr \in Port :
            /\ p \notin misled' => nick = n
            /\ Accept(net, p, <<create_contact(nick, addr)>> \o contacts[p], 1, d)
      BY <3>2, <3>3, <3>4, Zenon
    <3> QED
      BY <2>3, <3>4, <3>5, Zenon
  <2> QED
    BY <1>1, <2>1, <2>2, <2>3, Zenon
<1> QED
  BY <1>0, <1>1, <1>2, <1>3, <1>4, <1>5, Zenon DEF i, PktTaken

LEMMA StepOfReceivePkt ==
  ASSUME SystemInv, NEW p \in Process, ReceivePkt(p)
  PROVE  CoreInv'
<1>1. PICK d, n :
        /\ d = Head(inbox[port[p]]) /\ n = Head(Parsed(d)[4])
        /\ state[p] = "connected" /\ inbox[port[p]] # <<>> /\ port[p] \in Port
        /\ ~ IsAck(d) /\ ForUs(p, d) /\ PktTaken(p, d, n)
        /\ UNCHANGED <<state, port, starts, record, typed>> /\ misled \subseteq misled'
  BY TakesOne, Zenon
<1> DEFINE i == find_contact_by_nick(contacts[p], n)
<1>2. /\ typed \in History /\ losses \in Nat
      /\ SoundList(typed, misled, p, contacts[p]) /\ GenuineNet(typed, misled, inbox)
  BY DEF SystemInv, CoreInv
<1>3. Grown(typed, misled, typed, misled')
  BY <1>1 DEF Grown
<1>4. SoundList(typed, misled', p, contacts[p]) /\ GenuineNet(typed, misled', inbox)
  BY <1>2, <1>3, ListStays, NetStays
<1>5. GenuineNet(typed, misled', Received(p)) /\ Genuine(typed, misled', d)
  BY <1>1, <1>4, NetReceives
<1>6. CASE i # 0 /\ Accept(Received(p), p, contacts[p], i, d)
  <2>1. contacts[p] \in Seq(ContactRecord)
    BY <1>2 DEF SoundList
  <2>2. i \in DOMAIN contacts[p] /\ contacts[p][i].nick = n
    BY <1>6, <2>1, FoundIsThere
  <2> HIDE DEF i
  <2>3. contacts[p][i].nick = Head(Parsed(d)[4])
    BY <1>1, <2>2
  <2>4. Handled(typed, misled', p)
    BY <1>1, <1>2, <1>4, <1>5, <1>6, <2>2, <2>3, Accepts
  <2> QED
    BY <1>1, <2>4, StepOfPacket
<1>7. CASE \E nick \in Nick, addr \in Port, net \in AfterLookup(Received(p), p) :
             /\ p \notin misled' => nick = n
             /\ Accept(net, p, <<create_contact(nick, addr)>> \o contacts[p], 1, d)
  <2>1. PICK nick \in Nick, addr \in Port, net \in AfterLookup(Received(p), p) :
             /\ p \notin misled' => nick = n
             /\ Accept(net, p, <<create_contact(nick, addr)>> \o contacts[p], 1, d)
    BY <1>7
  <2> DEFINE c == create_contact(nick, addr)
             list == <<c>> \o contacts[p]
  <2>2. Sound(typed, misled', p, c) /\ c.nick = nick
    BY NewContact
  <2>3. Accept(net, p, list, 1, d)
    BY <2>1
  <2> HIDE DEF c
  <2>4. SoundList(typed, misled', p, list) /\ 1 \in DOMAIN list /\ list[1] = c
    BY <1>4, <2>2, ListNew
  <2> HIDE DEF list
  <2>5. p \notin misled' => list[1].nick = Head(Parsed(d)[4])
    BY <1>1, <2>1, <2>2, <2>4
  <2>6. GenuineNet(typed, misled', net)
    BY <1>1, <1>5, NetLookup
  <2>7. Handled(typed, misled', p)
    BY <1>1, <1>2, <1>5, <2>3, <2>4, <2>5, <2>6, Accepts
  <2> QED
    BY <1>1, <2>7, StepOfPacket
<1>8. CASE inbox' \in AfterLookup(Received(p), p) /\ UNCHANGED <<contacts, losses>>
  <2>1. GenuineNet(typed, misled', inbox')
    BY <1>1, <1>5, <1>8, NetLookup
  <2>2. contacts' = [contacts EXCEPT ![p] = contacts[p]]
    BY <1>8 DEF SystemInv, CoreInv
  <2>3. Handled(typed, misled', p)
    BY <1>2, <1>4, <1>8, <2>1, <2>2 DEF Handled, WithContact
  <2> QED
    BY <1>1, <2>3, StepOfPacket
<1> QED
  BY <1>1, <1>6, <1>7, <1>8 DEF PktTaken

\* A datagram that changes nothing but the socket it came to.
LEMMA OnlyReceived ==
  ASSUME SystemInv, NEW p \in Process, state[p] = "connected", inbox[port[p]] # <<>>,
         inbox' = Received(p), UNCHANGED <<contacts, losses>>
  PROVE  Handled(typed, misled, p)
<1>1. /\ losses \in Nat /\ SoundList(typed, misled, p, contacts[p]) /\ GenuineNet(typed, misled, inbox)
  BY DEF SystemInv, CoreInv
<1>2. GenuineNet(typed, misled, Received(p))
  BY <1>1, HasPort, NetReceives
<1>3. contacts' = [contacts EXCEPT ![p] = contacts[p]]
  BY DEF SystemInv, CoreInv
<1> QED
  BY <1>1, <1>2, <1>3 DEF Handled, WithContact

LEMMA StepOfReceiveAck ==
  ASSUME SystemInv, NEW p \in Process, ReceiveAck(p)
  PROVE  CoreInv'
<1> DEFINE i == find_contact_by_addr(contacts[p], Head(inbox[port[p]]).from)
           c == [contacts[p][i] EXCEPT !.queue = Tail(@)]
<1>1. /\ state[p] = "connected" /\ inbox[port[p]] # <<>>
      /\ UNCHANGED <<state, port, starts, record, typed, misled>>
      /\ \/ /\ i # 0 /\ contacts[p][i].queue # <<>>
            /\ send_next_message_to_contact(Received(p), p, contacts[p], i, c)
         \/ /\ inbox' = Received(p)
            /\ UNCHANGED <<contacts, losses>>
  BY DEF ReceiveAck, Arrived, Running
<1>2. /\ typed \in History /\ losses \in Nat
      /\ SoundList(typed, misled, p, contacts[p]) /\ GenuineNet(typed, misled, inbox)
  BY DEF SystemInv, CoreInv
<1>3. port[p] \in Port
  BY <1>1, HasPort
<1>4. GenuineNet(typed, misled, Received(p))
  BY <1>1, <1>2, <1>3, NetReceives
<1>5. CASE /\ i # 0 /\ contacts[p][i].queue # <<>>
           /\ send_next_message_to_contact(Received(p), p, contacts[p], i, c)
  <2>1. contacts[p] \in Seq(ContactRecord)
    BY <1>2 DEF SoundList
  <2>2. i \in DOMAIN contacts[p]
    BY <1>5, <2>1, FoundIsThere
  <2> HIDE DEF i
  <2>3. Sound(typed, misled, p, contacts[p][i])
    BY <1>2, <2>2 DEF SoundList
  <2>4. Sound(typed, misled, p, c) /\ (c.queue # <<>> => c.queue[1].attempts = 0)
    BY <1>5, <2>3, Pops
  <2> HIDE DEF c
  <2>5. Handled(typed, misled, p)
    BY <1>2, <1>3, <1>4, <1>5, <2>2, <2>4, SendsNext
  <2> QED
    BY <1>1, <2>5, StepOfEvent
<1>6. CASE inbox' = Received(p) /\ UNCHANGED <<contacts, losses>>
  BY <1>1, <1>6, OnlyReceived, StepOfEvent
<1> QED
  BY <1>1, <1>5, <1>6

LEMMA StepOfResend ==
  ASSUME SystemInv, NEW p \in Process, NEW i \in DOMAIN contacts[p],
         Resend(p, i) \/ ResendAfterLookup(p, i) \/ GiveUp(p, i)
  PROVE  CoreInv'
<1> DEFINE c == contacts[p][i]
<1>1. /\ state[p] = "connected" /\ c.queue # <<>>
      /\ UNCHANGED <<state, port, starts, record, typed, misled>>
  BY DEF Resend, ResendAfterLookup, GiveUp, Late, Running
<1>2. /\ typed \in History /\ losses \in Nat /\ record \in [Nick -> Port \cup {NoPort}]
      /\ SoundList(typed, misled, p, contacts[p]) /\ GenuineNet(typed, misled, inbox)
  BY DEF SystemInv, CoreInv
<1>3. port[p] \in Port
  BY <1>1, HasPort
<1>4. /\ Sound(typed, misled, p, c) /\ c.nick \in Nick /\ c.queue \in Seq(QueuedMessage)
      /\ contacts[p] \in Seq(ContactRecord)
  BY <1>2 DEF SoundList, Sound, ContactRecord
<1>5. c.queue[1].attempts \in 0 .. 4 /\ Attempts(p, i) = c.queue[1].attempts
  BY <1>1, <1>4, QueueTypes DEF QueuedMessage, Attempts
<1>6. CASE Resend(p, i)
  <2>1. c.queue[1].attempts \in 0 .. 3 /\ SendTo(inbox, p, contacts[p], i, c)
    BY <1>5, <1>6 DEF Resend
  <2> HIDE DEF c
  <2>2. Handled(typed, misled, p)
    BY <1>1, <1>2, <1>3, <1>4, <2>1, Sends
  <2> QED
    BY <1>1, <2>2, StepOfEvent
<1>7. CASE ResendAfterLookup(p, i)
  <2>1. PICK net \in AfterLookup(inbox, p), answer \in Taken(p, c.nick) :
          \/ \E found \in answer :
               SendTo(net, p, contacts[p], i, [c EXCEPT !.addr = found.addr])
          \/ /\ WithContact(p, [contacts[p] EXCEPT ![i].queue = Tail(@)])
             /\ inbox' = net /\ UNCHANGED losses
    BY <1>7 DEF ResendAfterLookup
  <2>2. c.queue[1].attempts = 2
    BY <1>5, <1>7 DEF ResendAfterLookup
  <2>3. GenuineNet(typed, misled, net)
    BY <1>2, <1>3, NetLookup
  <2>4. ASSUME NEW found \in answer,
               SendTo(net, p, contacts[p], i, [c EXCEPT !.addr = found.addr])
        PROVE  Handled(typed, misled, p)
    <3> DEFINE moved == [c EXCEPT !.addr = found.addr]
    <3>1. c.nick \in Word
      BY <1>4, Keywords
    <3>2. found.addr \in Port
      BY <1>3, <2>4, <3>1, TakenFinds
    <3>3. Sound(typed, misled, p, moved) /\ moved.queue = c.queue
      BY <1>4, <3>2, Moves
    <3>4. SendTo(net, p, contacts[p], i, moved)
      BY <2>4
    <3> HIDE DEF moved
    <3>5. moved.queue # <<>> /\ moved.queue[1].attempts \in 0 .. 3
      BY <1>1, <2>2, <3>3
    <3> HIDE DEF c
    <3> QED
      BY <1>2, <1>3, <2>3, <3>3, <3>4, <3>5, Sends
  <2>5. ASSUME WithContact(p, [contacts[p] EXCEPT ![i].queue = Tail(@)]),
               inbox' = net, UNCHANGED losses
        PROVE  Handled(typed, misled, p)
    <3> DEFINE left == [c EXCEPT !.queue = Tail(c.queue)]
    <3>1. Sound(typed, misled, p, left)
      BY <1>1, <1>4, Pops
    <3>2. [contacts[p] EXCEPT ![i].queue = Tail(@)] = [contacts[p] EXCEPT ![i] = left]
      OBVIOUS
    <3> HIDE DEF left
    <3>3. SoundList(typed, misled, p, [contacts[p] EXCEPT ![i] = left])
      BY <1>2, <3>1, ListWith
    <3> QED
      BY <1>2, <2>3, <2>5, <3>2, <3>3 DEF Handled
  <2>6. Handled(typed, misled, p)
    BY <2>1, <2>4, <2>5
  <2> QED
    BY <1>1, <2>6, StepOfEvent
<1>8. CASE GiveUp(p, i)
  <2>1. /\ WithContact(p, RemoveAt(contacts[p], i)) /\ UNCHANGED <<inbox, losses>>
    BY <1>8 DEF GiveUp
  <2>2. SoundList(typed, misled, p, RemoveAt(contacts[p], i))
    BY <1>2, ListLess
  <2>3. Handled(typed, misled, p)
    BY <1>2, <2>1, <2>2 DEF Handled
  <2> QED
    BY <1>1, <2>3, StepOfEvent
<1> QED
  BY <1>6, <1>7, <1>8

LEMMA StepOfClient ==
  ASSUME SystemInv, NEW p \in Process, ClientStep(p)
  PROVE  CoreInv'
<1>1. CASE \E q \in Port : StartAnswered(p, q) \/ StartUnanswered(p, q)
  BY <1>1, StepOfStart
<1>2. CASE StrayAnswer(p) \/ Heartbeat(p)
  BY <1>2, StepOfServer
<1>3. CASE Quit(p)
  BY <1>3, StepOfEnd DEF Quit
<1>4. CASE \E line \in Lines : Type(p, line)
  BY <1>4, StepOfType
<1>5. CASE ReceivePkt(p)
  BY <1>5, StepOfReceivePkt
<1>6. CASE SkipPkt(p)
  <2>1. /\ state[p] = "connected" /\ inbox[port[p]] # <<>> /\ inbox' = Received(p)
        /\ UNCHANGED <<state, port, starts, contacts, record, losses, typed, misled>>
    BY <1>6 DEF SkipPkt, Arrived, Running
  <2> QED
    BY <2>1, OnlyReceived, StepOfEvent
<1>7. CASE ReceiveAck(p)
  BY <1>7, StepOfReceiveAck
<1>8. CASE ReceiveAckForNothing(p)
  BY <1>8, StepOfEnd DEF ReceiveAckForNothing, Arrived, Running
<1>9. CASE IgnoreAnswer(p)
  BY <1>9 DEF IgnoreAnswer, SystemInv, CoreInv, PortsInv
<1>10. CASE \E i \in DOMAIN contacts[p] : Resend(p, i) \/ ResendAfterLookup(p, i) \/ GiveUp(p, i)
  BY <1>10, StepOfResend
<1> QED
  BY <1>1, <1>2, <1>3, <1>4, <1>5, <1>6, <1>7, <1>8, <1>9, <1>10
  DEF ClientStep

\* What a lookup leaves to be read are answers as well.
LEMMA LookupLeaves ==
  ASSUME SystemInv, NEW p \in Process, port[p] \in Port, NEW n \in Word, LeaveAnswers(p, n)
  PROVE  answers' \in [Port -> Seq(Reply)]
<1> DEFINE old == answers[port[p]]
<1>1. PICK k \in 0 .. 3 :
        /\ old \o [i \in 1 .. k |-> Served(n)] # <<>>
        /\ answers' = [answers EXCEPT ![port[p]] = Tail(old \o [i \in 1 .. k |-> Served(n)])]
  BY DEF LeaveAnswers
<1>2. old \in Seq(Reply) /\ answers \in [Port -> Seq(Reply)]
  BY DEF SystemInv, LookupInv
<1>3. Served(n) \in Reply
  BY ServesReply DEF SystemInv, CoreInv
<1>4. [i \in 1 .. k |-> Served(n)] \in Seq(Reply)
  BY <1>3
<1> DEFINE more == [i \in 1 .. k |-> Served(n)]
<1> HIDE DEF old, more
<1>5. old \o more \in Seq(Reply)
  BY <1>2, <1>4 DEF more
<1>6. Tail(old \o more) \in Seq(Reply)
  BY <1>1, <1>5 DEF more
<1> QED
  BY <1>1, <1>2, <1>6 DEF more

LEMMA LookupOfStart ==
  ASSUME SystemInv, NEW p \in Process, NEW q \in Port, Launch(p, q)
  PROVE  answers' \in [Port -> Seq(Reply)]
<1> DEFINE old == answers[q]
           new == [i \in DOMAIN old |-> Served(old[i].asked)]
<1>1. answers' = [answers EXCEPT ![q] = new]
  BY DEF Launch
<1>2. old \in Seq(Reply) /\ answers \in [Port -> Seq(Reply)]
      /\ record \in [Nick -> Port \cup {NoPort}]
  BY DEF SystemInv, CoreInv, LookupInv
<1>3. \A i \in DOMAIN old : old[i].asked \in Word
  <2>1. \A i \in DOMAIN old : old[i] \in Reply
    BY <1>2
  <2> QED
    BY <2>1 DEF Reply
<1>4. \A i \in DOMAIN old : Served(old[i].asked) \in Reply
  BY <1>2, <1>3, ServesReply
<1>5. DOMAIN old = 1 .. Len(old) /\ Len(old) \in Nat
  BY <1>2
<1>6. new \in Seq(Reply)
  BY <1>4, <1>5
<1> HIDE DEF new
<1> QED
  BY <1>1, <1>2, <1>6

LEMMA LookupOfEnd ==
  ASSUME SystemInv, NEW p \in Process, NEW how, port[p] \in Port, End(p, how)
  PROVE  answers' \in [Port -> Seq(Reply)]
<1> DEFINE old == answers[port[p]]
<1>1. PICK i \in 0 .. Len(old) :
        answers' = [answers EXCEPT ![port[p]] = SubSeq(old, i + 1, Len(old))]
  BY DEF End
<1>2. old \in Seq(Reply) /\ answers \in [Port -> Seq(Reply)]
  BY DEF SystemInv, LookupInv
<1> HIDE DEF old
<1>3. SubSeq(old, i + 1, Len(old)) \in Seq(Reply)
  BY <1>2
<1> QED
  BY <1>1, <1>2, <1>3

LEMMA LookupOfClient ==
  ASSUME SystemInv, NEW p \in Process, ClientStep(p)
  PROVE  answers' \in [Port -> Seq(Reply)] /\ misled' \subseteq Process
<1>1. answers \in [Port -> Seq(Reply)] /\ misled \subseteq Process
  BY DEF SystemInv, LookupInv
<1>2. CASE \E q \in Port : StartAnswered(p, q) \/ StartUnanswered(p, q)
  <2>1. PICK q \in Port : Launch(p, q)
    BY <1>2 DEF StartAnswered, StartUnanswered
  <2>2. UNCHANGED misled
    BY <2>1 DEF Launch
  <2> QED
    BY <1>1, <2>1, <2>2, LookupOfStart
<1>3. CASE StrayAnswer(p) \/ Heartbeat(p)
  BY <1>1, <1>3 DEF StrayAnswer, Heartbeat
<1>4. CASE Quit(p)
  <2>1. End(p, "off") /\ port[p] \in Port /\ UNCHANGED misled
    BY <1>4, HasPort DEF Quit, End
  <2> QED
    BY <1>1, <2>1, LookupOfEnd
<1>5. CASE \E line \in Lines : Type(p, line)
  <2>1. PICK line \in Lines : Type(p, line)
    BY <1>5
  <2> DEFINE n == recipient_nick(line)
  <2>2. state[p] = "connected" /\ line \in MayType[p] /\ IsClientInput(line)
    BY <2>1 DEF Type, Running
  <2>3. n \in Word
    <3>1. line \in Seq(Range(line)) /\ IsText(line) /\ Range(line) \subseteq Symbol
      BY <2>2, TextAssumption DEF Symbol, Lines
    <3>2. line \in Seq(Symbol)
      BY <3>1
    <3> QED
      BY <2>2, <3>1, <3>2, ParsesLine
  <2>4. \/ UNCHANGED <<answers, misled>>
        \/ LeaveAnswers(p, n) /\ ((\E found : Misled(p, n, found)) \/ UNCHANGED misled)
    BY <2>1 DEF Type
  <2> HIDE DEF n
  <2>5. misled' \subseteq Process
    BY <1>1, <2>4 DEF Misled
  <2>6. port[p] \in Port
    BY <2>2, HasPort
  <2> QED
    BY <1>1, <2>3, <2>4, <2>5, <2>6, LookupLeaves
<1>6. CASE ReceivePkt(p)
  <2>1. PICK d, n : /\ d = Head(inbox[port[p]]) /\ n = Head(Parsed(d)[4])
                    /\ n \in Word /\ port[p] \in Port
    BY <1>6, TakesOne, Zenon
  <2>2. \/ UNCHANGED <<answers, misled>>
        \/ LeaveAnswers(p, n) /\ ((\E found : Misled(p, n, found)) \/ UNCHANGED misled)
    BY <1>6, <2>1 DEF ReceivePkt
  <2>3. misled' \subseteq Process
    BY <1>1, <2>2 DEF Misled
  <2> QED
    BY <1>1, <2>1, <2>2, <2>3, LookupLeaves
<1>7. CASE SkipPkt(p) \/ ReceiveAck(p)
  BY <1>1, <1>7 DEF SkipPkt, ReceiveAck
<1>8. CASE ReceiveAckForNothing(p)
  <2>1. End(p, "crashed") /\ port[p] \in Port /\ UNCHANGED misled
    BY <1>8, HasPort DEF ReceiveAckForNothing, Arrived, Running, End
  <2> QED
    BY <1>1, <2>1, LookupOfEnd
<1>9. CASE IgnoreAnswer(p)
  <2>1. /\ answers' = [answers EXCEPT ![port[p]] = Tail(answers[port[p]])]
        /\ answers[port[p]] # <<>> /\ UNCHANGED misled /\ state[p] = "connected"
    BY <1>9 DEF IgnoreAnswer, Running
  <2>2. port[p] \in Port
    BY <2>1, HasPort
  <2>3. Tail(answers[port[p]]) \in Seq(Reply)
    BY <1>1, <2>1, <2>2
  <2> QED
    BY <1>1, <2>1, <2>3
<1>10. CASE \E i \in DOMAIN contacts[p] : Resend(p, i) \/ ResendAfterLookup(p, i) \/ GiveUp(p, i)
  <2>1. PICK i \in DOMAIN contacts[p] : Resend(p, i) \/ ResendAfterLookup(p, i) \/ GiveUp(p, i)
    BY <1>10
  <2>2. UNCHANGED answers \/ LeaveAnswers(p, contacts[p][i].nick)
    BY <2>1 DEF Resend, ResendAfterLookup, GiveUp
  <2>3. state[p] = "connected" /\ UNCHANGED misled
    BY <2>1 DEF Resend, ResendAfterLookup, GiveUp, Late, Running
  <2>4. port[p] \in Port
    BY <2>3, HasPort
  <2>5. contacts[p][i].nick \in Word
    <3>1. contacts[p] \in Seq(ContactRecord)
      BY DEF SystemInv, CoreInv
    <3>2. contacts[p][i] \in ContactRecord
      BY <3>1
    <3> QED
      BY <3>2, Keywords DEF ContactRecord
  <2> QED
    BY <1>1, <2>2, <2>3, <2>4, <2>5, LookupLeaves
<1> QED
  BY <1>2, <1>3, <1>4, <1>5, <1>6, <1>7, <1>8, <1>9, <1>10 DEF ClientStep

LEMMA SystemStep == SystemInv /\ [Next]_vars => SystemInv'
<1> SUFFICES ASSUME SystemInv, [Next]_vars PROVE SystemInv'
  OBVIOUS
<1>1. CASE \E p \in Process : ClientStep(p)
  BY <1>1, StepOfClient, LookupOfClient DEF SystemInv, LookupInv
<1>2. CASE \E n \in Nick : Expire(n)
  <2>1. UNCHANGED <<answers, misled>>
    BY <1>2 DEF Expire
  <2> QED
    BY <1>2, <2>1, StepOfServer DEF SystemInv, LookupInv
<1>3. CASE UNCHANGED vars
  BY <1>3 DEF vars, SystemInv, CoreInv, LookupInv, PortsInv
<1> QED
  BY <1>1, <1>2, <1>3 DEF Next

-----------------------------------------------------------------------------
(* What follows from the invariant.                                        *)

LEMMA SystemInvariant == Spec => []SystemInv
BY SystemInit, SystemStep, PTL DEF Spec

\* What is said is in the set of all texts typed so far.
LEMMA SaidIsTyped ==
  ASSUME SystemInv, NEW id \in Id, NEW to, NEW text, WasSaid(typed, misled, id, to, text)
  PROVE  text \in {t.text : t \in UNION {Range(typed[p]) : p \in Process}}
<1> DEFINE said == typed[id.by][id.turn]
<1>1. id.by \in Process /\ id.turn \in DOMAIN typed[id.by] /\ said.text = text
  BY DEF WasSaid, Id
<1>2. said \in Range(typed[id.by])
  BY <1>1 DEF Range
<1> HIDE DEF said
<1> QED
  BY <1>1, <1>2

LEMMA SoundIsContact ==
  ASSUME SystemInv, NEW p \in Process, NEW c, Sound(typed, misled, p, c)
  PROVE  c \in Contact
<1>1. c \in ContactRecord /\ QueuedAsTyped(typed, misled, p, c.nick, c.queue)
      /\ HeardAsTyped(typed, misled, p, c.nick, c.shown)
  BY DEF Sound
<1>2. c.queue \in Seq(QueuedMessage) /\ c.shown \in Seq(ShownMessage)
  BY <1>1 DEF ContactRecord
<1>3. \A i \in DOMAIN c.queue : c.queue[i] \in Message
  <2>1. SUFFICES ASSUME NEW i \in DOMAIN c.queue PROVE c.queue[i] \in Message
    OBVIOUS
  <2> DEFINE m == c.queue[i]
  <2>2. m \in QueuedMessage /\ WasSaid(typed, misled, m.id, c.nick, m.text)
    BY <1>1, <1>2 DEF QueuedAsTyped
  <2> HIDE DEF m
  <2>3. m.id \in Id
    BY <2>2 DEF QueuedMessage
  <2>4. m.text \in {t.text : t \in UNION {Range(typed[q]) : q \in Process}}
    BY <2>2, <2>3, SaidIsTyped
  <2>5. m \in Message
    BY <2>2, <2>4 DEF QueuedMessage, Message
  <2> QED
    BY <2>5 DEF m
<1>4. \A i \in DOMAIN c.shown : c.shown[i] \in Shown
  <2>1. SUFFICES ASSUME NEW i \in DOMAIN c.shown PROVE c.shown[i] \in Shown
    OBVIOUS
  <2> DEFINE e == c.shown[i]
  <2>2. e \in ShownMessage /\ WasSaid(typed, misled, e.id, client_nick[p], e.text)
    BY <1>1, <1>2 DEF HeardAsTyped
  <2> HIDE DEF e
  <2>3. e.id \in Id
    BY <2>2 DEF ShownMessage
  <2>4. e.text \in {t.text : t \in UNION {Range(typed[q]) : q \in Process}}
    BY <2>2, <2>3, SaidIsTyped
  <2>5. e \in Shown
    BY <2>2, <2>4 DEF ShownMessage, Shown
  <2> QED
    BY <2>5 DEF e
<1>5. c.queue \in Seq(Message) /\ c.shown \in Seq(Shown)
  BY <1>2, <1>3, <1>4
<1> QED
  BY <1>1, <1>5 DEF ContactRecord, Contact

LEMMA InvariantTypes == SystemInv => TypeOK
<1> SUFFICES ASSUME SystemInv PROVE TypeOK
  OBVIOUS
<1>1. contacts \in [Process -> Seq(Contact)]
  <2>1. ASSUME NEW p \in Process PROVE contacts[p] \in Seq(Contact)
    <3>1. contacts[p] \in Seq(ContactRecord) /\ SoundList(typed, misled, p, contacts[p])
      BY DEF SystemInv, CoreInv
    <3>2. \A i \in DOMAIN contacts[p] : contacts[p][i] \in Contact
      BY <3>1, SoundIsContact DEF SoundList
    <3> QED
      BY <3>1, <3>2
  <2> QED
    BY <2>1 DEF SystemInv, CoreInv
<1>2. DOMAIN inbox = Port
  BY DEF SystemInv, CoreInv, GenuineNet
<1>3. \A q \in Port : \A d \in Range(inbox[q]) : d.from \in Port /\ d.id \in Id /\ IsText(d.text)
  <2>1. SUFFICES ASSUME NEW q \in Port, NEW d \in Range(inbox[q])
                 PROVE  d.from \in Port /\ d.id \in Id /\ IsText(d.text)
    OBVIOUS
  <2>2. typed \in History /\ Genuine(typed, misled, d)
    <3>1. PICK i \in DOMAIN inbox[q] : d = inbox[q][i]
      BY DEF Range
    <3> QED
      BY <3>1 DEF SystemInv, CoreInv, GenuineNet, GenuineBox
  <2> QED
    BY <2>2, AckOrPkt
<1>4. DOMAIN typed = Process
  BY DEF SystemInv, CoreInv, History
<1>5. DOMAIN answers = Port /\ misled \subseteq Process
  BY DEF SystemInv, LookupInv
<1>6. \A q \in Port : \A a \in Range(answers[q]) :
        \A found \in LookedUp(a.text) : found.nick \in Nick /\ found.addr \in Port
  <2>1. SUFFICES ASSUME NEW q \in Port, NEW a \in Range(answers[q])
                 PROVE  \A found \in LookedUp(a.text) : found.nick \in Nick /\ found.addr \in Port
    OBVIOUS
  <2>2. answers[q] \in Seq(Reply)
    BY DEF SystemInv, LookupInv
  <2>3. a \in Reply
    BY <2>2 DEF Range
  <2> QED
    BY <2>3, LooksUp
<1> QED
  BY <1>1, <1>2, <1>3, <1>4, <1>5, <1>6 DEF SystemInv, CoreInv, PortsInv, TypeOK

\* Processes, contacts, sockets and records keep their types, whatever the nicks, the
\* ports and the lines are; a process has a port exactly while it runs, and no two
\* have the same one.
THEOREM TypeCorrect == Spec => []TypeOK
BY SystemInvariant, InvariantTypes, PTL

\* Whatever is shown was typed, word for word, by a process that this names: for the nick
\* of the client that shows it unless its author made a contact of a nick it had not
\* looked up, and under the author's nick unless the client that shows it did.  Stale
\* addresses, ports that another process has bound since, packets sent again, records
\* that expired and start-ups on stray datagrams never lead a text to anybody else.
THEOREM OnlyWhatWasTypedIsShown == Spec => []ShownAsTyped
<1>1. SystemInv => ShownAsTyped
  <2>1. SUFFICES ASSUME SystemInv, NEW p \in Process, NEW c \in Range(contacts[p]),
                        NEW e \in Range(c.shown)
                 PROVE  /\ typed[e.id.by][e.id.turn].text = e.text
                        /\ e.id.by \notin misled =>
                             typed[e.id.by][e.id.turn].to = client_nick[p]
                        /\ p \notin misled => client_nick[e.id.by] = c.nick
    BY DEF ShownAsTyped
  <2>2. PICK i \in DOMAIN contacts[p] : c = contacts[p][i]
    BY DEF Range
  <2>3. PICK j \in DOMAIN c.shown : e = c.shown[j]
    BY DEF Range
  <2>4. HeardAsTyped(typed, misled, p, c.nick, c.shown)
    BY <2>1, <2>2 DEF SystemInv, CoreInv, SoundList, Sound
  <2> QED
    BY <2>3, <2>4 DEF HeardAsTyped, WasSaid
<1> QED
  BY <1>1, SystemInvariant, PTL

\* Each datagram that may come to a client parses to all the words its handler reads,
\* whatever was typed: no handler reads behind the words of a datagram.
THEOREM WordsAreThere == Spec => []HandlersFindWords
<1>1. SystemInv => HandlersFindWords
  <2>1. SUFFICES ASSUME SystemInv, NEW q \in Port, NEW d \in Range(inbox[q])
                 PROVE  IF IsAck(d) THEN Len(Parsed(d)) >= 2 ELSE Len(Parsed(d)) = 8
    BY DEF HandlersFindWords
  <2>2. typed \in History /\ Genuine(typed, misled, d)
    <3>1. PICK i \in DOMAIN inbox[q] : d = inbox[q][i]
      BY DEF Range
    <3> QED
      BY <2>1, <3>1 DEF SystemInv, CoreInv, GenuineNet, GenuineBox
  <2>3. (IsAck(d) => Len(Parsed(d)) = 3) /\ (~ IsAck(d) => Len(Parsed(d)) = 8)
    BY <2>2, AckOrPkt
  <2>4. CASE IsAck(d)
    <3>1. Len(Parsed(d)) = 3
      BY <2>3, <2>4, Zenon
    <3>2. Len(Parsed(d)) >= 2
      BY <3>1
    <3> QED
      BY <2>4, <3>2
  <2>5. CASE ~ IsAck(d)
    BY <2>3, <2>5
  <2> QED
    BY <2>4, <2>5
<1> QED
  BY <1>1, SystemInvariant, PTL

\* The texts the invariant compares parse_message with once are texts.
LEMMA AllAreTexts ==
  ASSUME NEW V, NEW n \in Nat, NEW t \in TextsOver(V, n)
  PROVE  t \in Seq(V \cup {SP}) /\ IsText(t)
<1>1. PICK len \in 0 .. n : t \in [1 .. len -> V \cup {SP}]
  BY DEF TextsOver
<1> QED
  BY <1>1 DEF TextsOver

\* Every datagram that waits at a socket, whatever was typed, and every text of the
\* comparison comes out of parse_message as common.h:63 says.
THEOREM ParsedAsDocumented == Spec => []ParsesAsDocumented
<1>1. SystemInv => ParsesAsDocumented
  <2> SUFFICES ASSUME SystemInv PROVE ParsesAsDocumented
    OBVIOUS
  <2>1. ASSUME NEW q \in Port, NEW d \in Range(inbox[q]) PROVE AsDocumented(d.text, 8)
    <3>1. typed \in History /\ Genuine(typed, misled, d)
      <4>1. PICK i \in DOMAIN inbox[q] : d = inbox[q][i]
        BY DEF Range
      <4> QED
        BY <4>1 DEF SystemInv, CoreInv, GenuineNet, GenuineBox
    <3>2. d.text \in Seq(Symbol) /\ IsText(d.text)
      BY <3>1, AckOrPkt
    <3>3. 8 \in Nat /\ 8 > 1
      OBVIOUS
    <3> HIDE DEF SystemInv, CoreInv
    <3> QED
      BY <3>2, <3>3, ParsesEveryText
  <2>2. ASSUME NEW t \in TextsOver({"x", "y"}, 6), NEW max \in {2, 3, 4, 8}
        PROVE  AsDocumented(t, max)
    <3>1. t \in Seq({"x", "y"} \cup {SP}) /\ IsText(t)
      BY AllAreTexts, 6 \in Nat
    <3>2. max \in Nat /\ max > 1
      OBVIOUS
    <3> QED
      BY <3>1, <3>2, ParsesEveryText
  <2>3. ASSUME NEW t \in UNION {{d.text : d \in Range(inbox[q])} : q \in Port}
        PROVE  AsDocumented(t, 8)
    <3>1. PICK q \in Port : \E d \in Range(inbox[q]) : t = d.text
      OBVIOUS
    <3> QED
      BY <2>1, <3>1
  <2> QED
    BY <2>2, <2>3 DEF ParsesAsDocumented
<1> QED
  BY <1>1, SystemInvariant, PTL

-----------------------------------------------------------------------------
(* Order.  What p typed for a nick leaves its queue in the order of turns  *)
(* and keeps it on the way; a turn has one number, so that its copies are  *)
(* recognised.  OrderOf says so of the processes P, the sockets net and    *)
(* the contacts cs, when the processes are at the ports at.  A late answer *)
(* may lead a process to make a second contact of a nick, whose turns and  *)
(* numbers cross those of the first: P are the others.                     *)

Num(d) == atoi(Parsed(d)[2])

\* A packet that p typed for the nick n.
PktFrom(d, p, n) == ~ IsAck(d) /\ d.id.by = p /\ Parsed(d)[6] = <<n>>

SoleOwner(p, n) == client_nick[p] = n /\ \A q \in Process : client_nick[q] = n => q = p

\* What was shown from the contact c can only be from p, and something was.
Heard(c, p) == SoleOwner(p, c.nick) /\ c.shown # <<>>

LastTurn(c) == Last(c.shown).id.turn

\* A turn and its number may come before another one, or be a copy of it.
InPlace(turn, num, later, next) == turn <= later /\ (turn = later => num = next)

InTurn(s) == \A i, j \in DOMAIN s : i < j => s[i].id.turn < s[j].id.turn

\* Packets wait in the order of their turns.
InStep(P, box) ==
  \A i, j \in DOMAIN box, p \in P, n \in Nick :
    i < j /\ PktFrom(box[i], p, n) /\ PktFrom(box[j], p, n) =>
      InPlace(box[i].id.turn, Num(box[i]), box[j].id.turn, Num(box[j]))

\* Nothing that p sent to the nick of c, and nothing that was shown of it, is younger
\* than what is queued, and if it is the head it has the number the head is sent with.
Follows(P, net, cs, p, c) ==
  p \in P => \A i \in DOMAIN c.queue :
    /\ \A q \in Port : \A k \in DOMAIN net[q] :
         PktFrom(net[q][k], p, c.nick) =>
           InPlace(net[q][k].id.turn, Num(net[q][k]), c.queue[i].id.turn, c.last_pkt_sent)
    /\ \A r \in P : \A j \in DOMAIN cs[r] :
         client_nick[r] = c.nick /\ Heard(cs[r][j], p) =>
           InPlace(LastTurn(cs[r][j]), cs[r][j].last_pkt_received,
                   c.queue[i].id.turn, c.last_pkt_sent)

\* Nothing that was shown is younger than what waits, and the number of a copy is known.
Recognises(P, at, net, r, c) ==
  \A p \in P : r \in P /\ Heard(c, p) /\ at[r] \in Port =>
    \A k \in DOMAIN net[at[r]] : PktFrom(net[at[r]][k], p, client_nick[r]) =>
      InPlace(LastTurn(c), c.last_pkt_received, net[at[r]][k].id.turn, Num(net[at[r]][k]))

OneEach(list) == \A i, j \in DOMAIN list : list[i].nick = list[j].nick => i = j

InOrder(P, at, net, cs, p, c) ==
  /\ InTurn(c.queue)
  /\ \A s \in P : p \in P /\ SoleOwner(s, c.nick) => InTurn(c.shown)
  /\ Follows(P, net, cs, p, c)
  /\ Recognises(P, at, net, p, c)

OrderOf(P, at, net, cs) ==
  /\ net \in [Port -> Seq(Datagram)] /\ cs \in [Process -> Seq(ContactRecord)]
  /\ \A q \in Port : InStep(P, net[q])
  /\ \A p \in P : OneEach(cs[p])
  /\ \A p \in Process : \A i \in DOMAIN cs[p] : InOrder(P, at, net, cs, p, cs[p][i])

\* A process without a port has no contacts.
Idle == \A p \in Process : port[p] = NoPort => contacts[p] = <<>>

\* Those who made contacts of the nicks they asked for only.
Straight == Process \ misled

OrderInv == OrderOf(Straight, port, inbox, contacts) /\ Idle

LEMMA TurnTypes ==
  /\ \A c \in ContactRecord : /\ \A i \in DOMAIN c.queue : c.queue[i].id.turn \in Nat
                              /\ \A i \in DOMAIN c.shown : c.shown[i].id.turn \in Nat
                              /\ c.shown # <<>> => /\ Len(c.shown) \in DOMAIN c.shown
                                                   /\ Len(c.shown) \in Nat
                                                   /\ LastTurn(c) = c.shown[Len(c.shown)].id.turn
                                                   /\ LastTurn(c) \in Nat
  /\ \A d \in Datagram : d.id.turn \in Nat
<1>1. ASSUME NEW c \in ContactRecord
      PROVE  /\ \A i \in DOMAIN c.queue : c.queue[i].id.turn \in Nat
             /\ \A i \in DOMAIN c.shown : c.shown[i].id.turn \in Nat
             /\ c.shown # <<>> => /\ Len(c.shown) \in DOMAIN c.shown
                                  /\ Len(c.shown) \in Nat
                                  /\ LastTurn(c) = c.shown[Len(c.shown)].id.turn
                                  /\ LastTurn(c) \in Nat
  <2>1. c.queue \in Seq(QueuedMessage) /\ c.shown \in Seq(ShownMessage)
    BY DEF ContactRecord
  <2>2. \A i \in DOMAIN c.queue : c.queue[i] \in QueuedMessage
    BY <2>1
  <2>3. \A i \in DOMAIN c.shown : c.shown[i] \in ShownMessage
    BY <2>1
  <2>4. \A i \in DOMAIN c.queue : c.queue[i].id.turn \in Nat
    BY <2>2 DEF QueuedMessage, Id
  <2>5. \A i \in DOMAIN c.shown : c.shown[i].id.turn \in Nat
    BY <2>3 DEF ShownMessage, Id
  <2>6. c.shown # <<>> => Len(c.shown) \in DOMAIN c.shown /\ Len(c.shown) \in Nat
    BY <2>1
  <2>7. LastTurn(c) = c.shown[Len(c.shown)].id.turn
    BY DEF LastTurn, Last
  <2> QED
    BY <2>4, <2>5, <2>6, <2>7
<1>2. \A d \in Datagram : d.id.turn \in Nat
  BY DEF Datagram, Id
<1> QED
  BY <1>1, <1>2

\* What was last shown from x and the number of it are those of c.
SaysTheSame(x, c) ==
  x.nick = c.nick /\ x.shown = c.shown /\ x.last_pkt_received = c.last_pkt_received

LEMMA HeardTheSame ==
  ASSUME NEW x, NEW c, SaysTheSame(x, c), NEW p
  PROVE  LastTurn(x) = LastTurn(c) /\ (Heard(x, p) <=> Heard(c, p))
BY DEF SaysTheSame, LastTurn, Heard

\* Each packet of net2 is one of net; what was last shown from a contact of ds was from
\* one of cs, or is in a packet of net.
NothingNew(P, net, cs, net2, ds) ==
  /\ \A q \in Port : \A k \in DOMAIN net2[q] :
       IsAck(net2[q][k]) \/ \E l \in DOMAIN net[q] : net[q][l] = net2[q][k]
  /\ \A r \in P : \A j \in DOMAIN ds[r] : \A s \in P :
       Heard(ds[r][j], s) =>
         \/ \E l \in DOMAIN cs[r] : SaysTheSame(ds[r][j], cs[r][l])
         \/ \E q \in Port : \E l \in DOMAIN net[q] :
              /\ PktFrom(net[q][l], s, client_nick[r])
              /\ LastTurn(ds[r][j]) = net[q][l].id.turn
              /\ ds[r][j].last_pkt_received = Num(net[q][l])

LEMMA FollowsStays ==
  ASSUME NEW P \in SUBSET Process, NEW net, NEW cs, NEW net2, NEW ds,
         NothingNew(P, net, cs, net2, ds), NEW p \in Process, NEW c, Follows(P, net, cs, p, c)
  PROVE  Follows(P, net2, ds, p, c)
<1> SUFFICES ASSUME p \in P, NEW i \in DOMAIN c.queue
             PROVE  /\ \A q \in Port : \A k \in DOMAIN net2[q] :
                         PktFrom(net2[q][k], p, c.nick) =>
                           InPlace(net2[q][k].id.turn, Num(net2[q][k]),
                                   c.queue[i].id.turn, c.last_pkt_sent)
                    /\ \A r \in P : \A j \in DOMAIN ds[r] :
                         client_nick[r] = c.nick /\ Heard(ds[r][j], p) =>
                           InPlace(LastTurn(ds[r][j]), ds[r][j].last_pkt_received,
                                   c.queue[i].id.turn, c.last_pkt_sent)
  BY DEF Follows
<1>1. ASSUME NEW q \in Port, NEW l \in DOMAIN net[q], PktFrom(net[q][l], p, c.nick)
      PROVE  InPlace(net[q][l].id.turn, Num(net[q][l]), c.queue[i].id.turn, c.last_pkt_sent)
  BY <1>1 DEF Follows
<1>2. ASSUME NEW q \in Port, NEW k \in DOMAIN net2[q], PktFrom(net2[q][k], p, c.nick)
      PROVE  InPlace(net2[q][k].id.turn, Num(net2[q][k]),
                     c.queue[i].id.turn, c.last_pkt_sent)
  <2>1. ~ IsAck(net2[q][k])
    BY <1>2 DEF PktFrom
  <2>2. PICK l \in DOMAIN net[q] : net[q][l] = net2[q][k]
    BY <2>1 DEF NothingNew
  <2> QED
    BY <1>1, <1>2, <2>2
<1>3. ASSUME NEW r \in P, NEW j \in DOMAIN ds[r],
             client_nick[r] = c.nick, Heard(ds[r][j], p)
      PROVE  InPlace(LastTurn(ds[r][j]), ds[r][j].last_pkt_received,
                     c.queue[i].id.turn, c.last_pkt_sent)
  <2>1. CASE \E l \in DOMAIN cs[r] : SaysTheSame(ds[r][j], cs[r][l])
    <3>1. PICK l \in DOMAIN cs[r] : SaysTheSame(ds[r][j], cs[r][l])
      BY <2>1
    <3>2. /\ LastTurn(ds[r][j]) = LastTurn(cs[r][l]) /\ Heard(cs[r][l], p)
          /\ ds[r][j].last_pkt_received = cs[r][l].last_pkt_received
      BY <1>3, <3>1, HeardTheSame DEF SaysTheSame
    <3>3. InPlace(LastTurn(cs[r][l]), cs[r][l].last_pkt_received,
                  c.queue[i].id.turn, c.last_pkt_sent)
      BY <1>3, <3>2 DEF Follows
    <3> QED
      BY <3>2, <3>3
  <2>2. CASE \E q \in Port : \E l \in DOMAIN net[q] :
               /\ PktFrom(net[q][l], p, client_nick[r])
               /\ LastTurn(ds[r][j]) = net[q][l].id.turn
               /\ ds[r][j].last_pkt_received = Num(net[q][l])
    BY <1>1, <1>3, <2>2
  <2> QED
    BY <1>3, <2>1, <2>2 DEF NothingNew
<1> QED
  BY <1>2, <1>3

\* What waits at each socket of net2 is the end of what waits there in net.
Shrinks(net, net2) ==
  /\ net2 \in [Port -> Seq(Datagram)]
  /\ \A q \in Port : \E n \in Nat : \A k \in DOMAIN net2[q] :
       k + n \in DOMAIN net[q] /\ net2[q][k] = net[q][k + n]

LEMMA InStepShrinks ==
  ASSUME NEW P, NEW net, NEW net2, Shrinks(net, net2), NEW q \in Port, InStep(P, net[q])
  PROVE  InStep(P, net2[q])
<1>1. PICK n \in Nat : \A k \in DOMAIN net2[q] :
        k + n \in DOMAIN net[q] /\ net2[q][k] = net[q][k + n]
  BY DEF Shrinks
<1>2. DOMAIN net2[q] \subseteq Nat
  BY DEF Shrinks
<1>3. SUFFICES ASSUME NEW i \in DOMAIN net2[q], NEW j \in DOMAIN net2[q],
                      NEW p \in P, NEW m \in Nick, i < j,
                      PktFrom(net2[q][i], p, m), PktFrom(net2[q][j], p, m)
               PROVE  InPlace(net2[q][i].id.turn, Num(net2[q][i]),
                              net2[q][j].id.turn, Num(net2[q][j]))
  BY DEF InStep
<1>4. i + n < j + n
  BY <1>2, <1>3
<1>5. /\ i + n \in DOMAIN net[q] /\ net2[q][i] = net[q][i + n]
      /\ j + n \in DOMAIN net[q] /\ net2[q][j] = net[q][j + n]
  BY <1>1
<1>6. \A k, l \in DOMAIN net[q] :
        k < l /\ PktFrom(net[q][k], p, m) /\ PktFrom(net[q][l], p, m) =>
          InPlace(net[q][k].id.turn, Num(net[q][k]), net[q][l].id.turn, Num(net[q][l]))
  BY DEF InStep
<1> QED
  BY <1>3, <1>4, <1>5, <1>6

LEMMA RecognisesShrinks ==
  ASSUME NEW P, NEW at, NEW net, NEW net2, Shrinks(net, net2), NEW r \in Process, NEW c,
         Recognises(P, at, net, r, c)
  PROVE  Recognises(P, at, net2, r, c)
<1>1. \A q \in Port : \A k \in DOMAIN net2[q] : \E l \in DOMAIN net[q] : net2[q][k] = net[q][l]
  BY DEF Shrinks
<1>2. SUFFICES ASSUME NEW p \in P, r \in P, Heard(c, p), at[r] \in Port,
                      NEW k \in DOMAIN net2[at[r]],
                      PktFrom(net2[at[r]][k], p, client_nick[r])
               PROVE  InPlace(LastTurn(c), c.last_pkt_received,
                              net2[at[r]][k].id.turn, Num(net2[at[r]][k]))
  BY DEF Recognises
<1>3. PICK l \in DOMAIN net[at[r]] : net2[at[r]][k] = net[at[r]][l]
  BY <1>1, <1>2
<1> QED
  BY <1>2, <1>3 DEF Recognises

\* Datagrams that are lost, dropped or received leave the others in order.
LEMMA OrderShrinks ==
  ASSUME NEW P \in SUBSET Process, NEW at, NEW net, NEW cs, OrderOf(P, at, net, cs),
         NEW net2, Shrinks(net, net2)
  PROVE  OrderOf(P, at, net2, cs)
<1>1. NothingNew(P, net, cs, net2, cs)
  <2>1. \A q \in Port : \A k \in DOMAIN net2[q] : \E l \in DOMAIN net[q] : net[q][l] = net2[q][k]
    BY DEF Shrinks
  <2>2. \A r \in Process : \A j \in DOMAIN cs[r] : SaysTheSame(cs[r][j], cs[r][j])
    BY DEF SaysTheSame
  <2> QED
    BY <2>1, <2>2 DEF NothingNew
<1>2. \A q \in Port : InStep(P, net2[q])
  BY InStepShrinks DEF OrderOf
<1>3. ASSUME NEW p \in Process, NEW i \in DOMAIN cs[p]
      PROVE  InOrder(P, at, net2, cs, p, cs[p][i])
  <2>1. InOrder(P, at, net, cs, p, cs[p][i])
    BY DEF OrderOf
  <2>2. Follows(P, net2, cs, p, cs[p][i])
    BY <1>1, <2>1, FollowsStays DEF InOrder
  <2>3. Recognises(P, at, net2, p, cs[p][i])
    BY <2>1, RecognisesShrinks DEF InOrder
  <2> QED
    BY <2>1, <2>2, <2>3 DEF InOrder
<1> QED
  BY <1>2, <1>3 DEF OrderOf, Shrinks

\* The contacts of p change: each says what one of them said, or nothing yet, and its
\* queue follows what is out.
LEMMA OrderLists ==
  ASSUME NEW P \in SUBSET Process, NEW at, NEW net, NEW cs, OrderOf(P, at, net, cs),
         NEW p \in Process, NEW list \in Seq(ContactRecord), p \in P => OneEach(list),
         \A j \in DOMAIN list :
           /\ InTurn(list[j].queue) /\ Follows(P, net, cs, p, list[j])
           /\ p \in P => \/ list[j].shown = <<>>
                         \/ \E l \in DOMAIN cs[p] : SaysTheSame(list[j], cs[p][l]),
         NEW ds, ds = [cs EXCEPT ![p] = list]
  PROVE  OrderOf(P, at, net, ds)
<1>1. /\ ds \in [Process -> Seq(ContactRecord)] /\ ds[p] = list
      /\ \A r \in Process : r # p => ds[r] = cs[r]
  BY DEF OrderOf
<1>2. NothingNew(P, net, cs, net, ds)
  <2>1. \A r \in P : \A j \in DOMAIN ds[r] :
          ds[r][j].shown = <<>> \/ \E l \in DOMAIN cs[r] : SaysTheSame(ds[r][j], cs[r][l])
    <3>1. SUFFICES ASSUME NEW r \in P, NEW j \in DOMAIN ds[r]
                   PROVE  \/ ds[r][j].shown = <<>>
                          \/ \E l \in DOMAIN cs[r] : SaysTheSame(ds[r][j], cs[r][l])
      OBVIOUS
    <3>2. CASE r = p
      BY <1>1, <3>2
    <3>3. CASE r # p
      BY <1>1, <3>3 DEF SaysTheSame
    <3> QED
      BY <3>2, <3>3
  <2> QED
    BY <2>1 DEF NothingNew, Heard
<1>3. ASSUME NEW r \in Process, NEW j \in DOMAIN ds[r]
      PROVE  InOrder(P, at, net, ds, r, ds[r][j])
  <2>1. CASE r = p
    <3> DEFINE c == list[j]
    <3>1. j \in DOMAIN list /\ ds[r][j] = c
      BY <1>1, <2>1
    <3>2. InTurn(c.queue) /\ Follows(P, net, cs, p, c)
      BY <3>1
    <3>3. Follows(P, net, ds, p, c)
      BY <1>2, <3>2, FollowsStays
    <3>4. /\ \A s \in P : p \in P /\ SoleOwner(s, c.nick) => InTurn(c.shown)
          /\ Recognises(P, at, net, p, c)
      <4>1. CASE c.shown = <<>>
        BY <4>1 DEF InTurn, Recognises, Heard
      <4>2. CASE \E l \in DOMAIN cs[p] : SaysTheSame(c, cs[p][l])
        <5>1. PICK l \in DOMAIN cs[p] : SaysTheSame(c, cs[p][l])
          BY <4>2
        <5>2. InOrder(P, at, net, cs, p, cs[p][l])
          BY DEF OrderOf
        <5>3. \A s \in P : p \in P /\ SoleOwner(s, c.nick) => InTurn(c.shown)
          BY <5>1, <5>2 DEF InOrder, SaysTheSame
        <5>4. Recognises(P, at, net, p, c)
          BY <5>1, <5>2, HeardTheSame DEF InOrder, SaysTheSame, Recognises
        <5> QED
          BY <5>3, <5>4
      <4>3. CASE p \notin P
        BY <4>3 DEF Recognises
      <4> QED
        BY <3>1, <4>1, <4>2, <4>3
    <3> QED
      BY <2>1, <3>1, <3>2, <3>3, <3>4 DEF InOrder
  <2>2. CASE r # p
    <3>1. j \in DOMAIN cs[r] /\ ds[r][j] = cs[r][j]
      BY <1>1, <2>2
    <3>2. InOrder(P, at, net, cs, r, cs[r][j])
      BY <3>1 DEF OrderOf
    <3>3. Follows(P, net, ds, r, cs[r][j])
      BY <1>2, <3>2, FollowsStays DEF InOrder
    <3> QED
      BY <3>1, <3>2, <3>3 DEF InOrder
  <2> QED
    BY <2>1, <2>2
<1>4. \A r \in P : OneEach(ds[r])
  BY <1>1 DEF OrderOf
<1> QED
  BY <1>1, <1>3, <1>4 DEF OrderOf

\* net without the datagram that was first at q.
WithoutHead(net, q) == [net EXCEPT ![q] = Tail(net[q])]

LEMMA TailShrinks ==
  ASSUME NEW net \in [Port -> Seq(Datagram)], NEW q \in Port, net[q] # <<>>,
         NEW net2, net2 = WithoutHead(net, q)
  PROVE  /\ Shrinks(net, net2) /\ 1 \in DOMAIN net[q] /\ Head(net[q]) = net[q][1]
         /\ \A k \in DOMAIN net2[q] :
              /\ k \in Nat /\ k + 1 \in DOMAIN net[q] /\ 1 < k + 1
              /\ net2[q][k] = net[q][k + 1]
<1> DEFINE box == net[q]
<1>1. /\ box \in Seq(Datagram) /\ Tail(box) \in Seq(Datagram)
      /\ 1 \in DOMAIN box /\ Head(box) = box[1]
      /\ \A k \in DOMAIN Tail(box) :
           k \in Nat /\ k + 1 \in DOMAIN box /\ 1 < k + 1 /\ Tail(box)[k] = box[k + 1]
  <2>1. box \in Seq(Datagram) /\ box # <<>>
    OBVIOUS
  <2> HIDE DEF box
  <2> QED
    BY <2>1
<1>2. /\ net2 \in [Port -> Seq(Datagram)] /\ net2[q] = Tail(box)
      /\ \A r \in Port : r # q => net2[r] = net[r]
  BY <1>1 DEF WithoutHead
<1> HIDE DEF box
<1>3. ASSUME NEW r \in Port
      PROVE  \E n \in Nat : \A k \in DOMAIN net2[r] :
               k + n \in DOMAIN net[r] /\ net2[r][k] = net[r][k + n]
  <2>1. CASE r = q
    <3>1. \A k \in DOMAIN net2[r] : k + 1 \in DOMAIN net[r] /\ net2[r][k] = net[r][k + 1]
      BY <1>1, <1>2, <2>1 DEF box
    <3> QED
      BY <3>1
  <2>2. CASE r # q
    <3>1. DOMAIN net[r] \subseteq Nat
      OBVIOUS
    <3>2. \A k \in DOMAIN net2[r] : k + 0 \in DOMAIN net[r] /\ net2[r][k] = net[r][k + 0]
      BY <1>2, <2>2, <3>1
    <3> QED
      BY <3>2
  <2> QED
    BY <2>1, <2>2
<1> QED
  BY <1>1, <1>2, <1>3 DEF Shrinks, box

\* One more turn is shown from a contact, and no other turn is as young.
LEMMA InTurnMore ==
  ASSUME NEW s \in Seq(ShownMessage), InTurn(s), NEW e \in ShownMessage,
         s # <<>> => s[Len(s)].id.turn < e.id.turn
  PROVE  InTurn(Append(s, e))
<1> DEFINE t == Append(s, e)
<1>1. /\ Len(t) = Len(s) + 1 /\ t[Len(s) + 1] = e /\ t \in Seq(ShownMessage)
      /\ \A i \in 1 .. Len(s) : t[i] = s[i]
  BY Appended
<1> HIDE DEF t
<1>2. DOMAIN t = 1 .. Len(s) + 1 /\ DOMAIN s = 1 .. Len(s) /\ Len(s) \in Nat
  BY <1>1
<1>3. \A i \in DOMAIN s : s[i].id.turn \in Nat
  <2>1. \A i \in DOMAIN s : s[i] \in ShownMessage
    OBVIOUS
  <2> QED
    BY <2>1 DEF ShownMessage, Id
<1>4. e.id.turn \in Nat
  BY DEF ShownMessage, Id
<1>5. ASSUME NEW i \in DOMAIN s PROVE s[i].id.turn < e.id.turn
  <2>1. s # <<>> /\ Len(s) \in DOMAIN s
    BY <1>2, <1>5
  <2>2. i = Len(s) \/ i < Len(s)
    BY <1>2
  <2>3. i < Len(s) => s[i].id.turn < s[Len(s)].id.turn
    BY <2>1 DEF InTurn
  <2>4. s[Len(s)].id.turn < e.id.turn
    BY <2>1
  <2> QED
    BY <1>3, <1>4, <2>1, <2>2, <2>3, <2>4
<1>6. ASSUME NEW i \in DOMAIN t, NEW j \in DOMAIN t, i < j
      PROVE  t[i].id.turn < t[j].id.turn
  <2>1. i \in DOMAIN s /\ t[i] = s[i]
    BY <1>1, <1>2, <1>6
  <2>2. CASE j = Len(s) + 1
    BY <1>1, <1>5, <2>1, <2>2
  <2>3. CASE j # Len(s) + 1
    <3>1. j \in DOMAIN s /\ t[j] = s[j]
      BY <1>1, <1>2, <2>3
    <3> QED
      BY <1>6, <2>1, <3>1 DEF InTurn
  <2> QED
    BY <2>2, <2>3
<1> QED
  BY <1>6 DEF InTurn, t

\* c, from which the packet d was shown.
HasHeard(x, c, d) ==
  /\ x \in ContactRecord
  /\ x.nick = c.nick /\ x.queue = c.queue /\ x.last_pkt_sent = c.last_pkt_sent
  /\ x.last_pkt_received = Num(d)
  /\ \E e \in ShownMessage : e.id = d.id /\ x.shown = Append(c.shown, e)

\* A packet that is new leaves the socket for the contact of its sender.
LEMMA OrderHears ==
  ASSUME NEW P \in SUBSET Process, NEW at, NEW net, NEW cs, OrderOf(P, at, net, cs),
         NEW p \in P, at[p] \in Port, net[at[p]] # <<>>,
         NEW d, d = Head(net[at[p]]), d.id.by \in Process,
         PktFrom(d, d.id.by, client_nick[p]),
         NEW i \in DOMAIN cs[p], cs[p][i].nick = client_nick[d.id.by],
         Num(d) # cs[p][i].last_pkt_received,
         NEW x, HasHeard(x, cs[p][i], d),
         NEW net2, net2 = WithoutHead(net, at[p]),
         NEW ds, ds = [cs EXCEPT ![p] = [cs[p] EXCEPT ![i] = x]]
  PROVE  OrderOf(P, at, net2, ds)
<1> DEFINE q == at[p]
           c == cs[p][i]
           list == [cs[p] EXCEPT ![i] = x]
<1>1. /\ net \in [Port -> Seq(Datagram)] /\ cs \in [Process -> Seq(ContactRecord)]
      /\ cs[p] \in Seq(ContactRecord) /\ InStep(P, net[q]) /\ OneEach(cs[p])
      /\ InOrder(P, at, net, cs, p, c)
  BY DEF OrderOf
<1>2. /\ list \in Seq(ContactRecord) /\ DOMAIN list = DOMAIN cs[p] /\ list[i] = x
      /\ \A j \in DOMAIN list : j # i => list[j] = cs[p][j]
  <2>1. PICK old \in Seq(ContactRecord) : old = cs[p]
    BY <1>1
  <2>2. x \in ContactRecord /\ i \in DOMAIN old
    BY <2>1 DEF HasHeard
  <2>3. /\ [old EXCEPT ![i] = x] \in Seq(ContactRecord)
        /\ DOMAIN [old EXCEPT ![i] = x] = DOMAIN old /\ [old EXCEPT ![i] = x][i] = x
        /\ \A j \in DOMAIN old : j # i => [old EXCEPT ![i] = x][j] = old[j]
    BY <2>2
  <2> QED
    BY <2>1, <2>3
<1>3. /\ ds \in [Process -> Seq(ContactRecord)] /\ ds[p] = list
      /\ \A r \in Process : r # p => ds[r] = cs[r]
  BY <1>1, <1>2
<1> HIDE DEF list
<1>4. /\ Shrinks(net, net2) /\ 1 \in DOMAIN net[q] /\ d = net[q][1]
      /\ \A k \in DOMAIN net2[q] : /\ k + 1 \in DOMAIN net[q] /\ 1 < k + 1
                                   /\ net2[q][k] = net[q][k + 1]
  <2>1. q \in Port /\ net[q] # <<>> /\ net2 = WithoutHead(net, q) /\ d = Head(net[q])
    OBVIOUS
  <2>2. net \in [Port -> Seq(Datagram)]
    BY <1>1
  <2> HIDE DEF q
  <2>3. /\ Shrinks(net, net2) /\ 1 \in DOMAIN net[q] /\ Head(net[q]) = net[q][1]
        /\ \A k \in DOMAIN net2[q] :
             /\ k \in Nat /\ k + 1 \in DOMAIN net[q] /\ 1 < k + 1
             /\ net2[q][k] = net[q][k + 1]
    BY <2>1, <2>2, TailShrinks, ZenonT(40)
  <2> QED
    BY <2>1, <2>3
<1>5. PICK e \in ShownMessage : e.id = d.id /\ x.shown = Append(c.shown, e)
  BY DEF HasHeard
<1>6. /\ c \in ContactRecord /\ c.shown \in Seq(ShownMessage) /\ x \in ContactRecord
      /\ x.shown \in Seq(ShownMessage) /\ x.shown # <<>> /\ Last(x.shown) = e
      /\ x.nick = c.nick /\ x.queue = c.queue /\ x.last_pkt_sent = c.last_pkt_sent
      /\ x.last_pkt_received = Num(d)
  <2>1. c \in ContactRecord /\ c.shown \in Seq(ShownMessage)
    <3>1. c \in ContactRecord
      BY <1>1
    <3> QED
      BY <3>1 DEF ContactRecord
  <2>2. /\ Append(c.shown, e) \in Seq(ShownMessage)
        /\ Len(Append(c.shown, e)) = Len(c.shown) + 1
        /\ Append(c.shown, e)[Len(c.shown) + 1] = e
        /\ Append(c.shown, e) # <<>>
    <3>1. PICK old \in Seq(ShownMessage) : old = c.shown
      BY <2>1
    <3>2. /\ Append(old, e) \in Seq(ShownMessage) /\ Append(old, e) # <<>>
          /\ Len(Append(old, e)) = Len(old) + 1 /\ Append(old, e)[Len(old) + 1] = e
      OBVIOUS
    <3> QED
      BY <3>1, <3>2
  <2>3. Append(c.shown, e) # <<>>
    BY <2>2
  <2>4. Last(x.shown) = e
    BY <1>5, <2>2 DEF Last
  <2> QED
    BY <1>5, <2>1, <2>2, <2>3, <2>4 DEF HasHeard
<1>7. LastTurn(x) = d.id.turn
  BY <1>5, <1>6 DEF LastTurn
<1>8. ASSUME NEW s \in P, SoleOwner(s, x.nick)
      PROVE  s = d.id.by /\ PktFrom(d, s, client_nick[p])
  BY <1>6, <1>8 DEF SoleOwner
<1>9. NothingNew(P, net, cs, net2, ds)
  <2>1. \A r \in Port : \A k \in DOMAIN net2[r] : \E l \in DOMAIN net[r] : net[r][l] = net2[r][k]
    BY <1>4 DEF Shrinks
  <2>2. ASSUME NEW r \in P, NEW j \in DOMAIN ds[r], NEW s \in P, Heard(ds[r][j], s)
        PROVE  \/ \E l \in DOMAIN cs[r] : SaysTheSame(ds[r][j], cs[r][l])
               \/ \E o \in Port : \E l \in DOMAIN net[o] :
                    /\ PktFrom(net[o][l], s, client_nick[r])
                    /\ LastTurn(ds[r][j]) = net[o][l].id.turn
                    /\ ds[r][j].last_pkt_received = Num(net[o][l])
    <3>1. CASE r = p /\ j = i
      <4>1. ds[r][j] = x
        BY <1>2, <1>3, <3>1
      <4>2. PktFrom(d, s, client_nick[p])
        BY <1>8, <2>2, <4>1 DEF Heard
      <4> QED
        BY <1>4, <1>6, <1>7, <3>1, <4>1, <4>2
    <3>2. CASE ~ (r = p /\ j = i)
      <4>1. j \in DOMAIN cs[r] /\ ds[r][j] = cs[r][j]
        BY <1>2, <1>3, <3>2
      <4> QED
        BY <4>1 DEF SaysTheSame
    <3> QED
      BY <3>1, <3>2
  <2> QED
    BY <2>1, <2>2 DEF NothingNew
<1>10. \A r \in Port : InStep(P, net2[r])
  BY <1>4, InStepShrinks DEF OrderOf
<1>11. \A r \in P : OneEach(ds[r])
  <2>1. OneEach(list)
    <3>1. \A j \in DOMAIN list : list[j].nick = cs[p][j].nick
      BY <1>2, <1>6
    <3> QED
      BY <1>1, <1>2, <3>1 DEF OneEach
  <2> QED
    BY <1>3, <2>1 DEF OrderOf
<1>12. InOrder(P, at, net2, ds, p, x)
  <2>1. InTurn(x.queue)
    BY <1>1, <1>6 DEF InOrder
  <2>2. ASSUME NEW s \in P, SoleOwner(s, x.nick) PROVE InTurn(x.shown)
    <3>1. InTurn(c.shown)
      BY <1>1, <1>6, <2>2 DEF InOrder
    <3>2. c.shown # <<>> => c.shown[Len(c.shown)].id.turn < e.id.turn
      <4>1. SUFFICES ASSUME c.shown # <<>> PROVE c.shown[Len(c.shown)].id.turn < e.id.turn
        OBVIOUS
      <4>2. Heard(c, s)
        BY <1>6, <2>2, <4>1 DEF Heard
      <4>3. InPlace(LastTurn(c), c.last_pkt_received, d.id.turn, Num(d))
        BY <1>1, <1>4, <1>8, <2>2, <4>2 DEF InOrder, Recognises
      <4>4. PICK last \in Nat : last = LastTurn(c) /\ last = c.shown[Len(c.shown)].id.turn
        BY <1>6, <4>1, TurnTypes
      <4>5. PICK turn \in Nat : turn = d.id.turn
        <5>1. net[q] \in Seq(Datagram)
          BY <1>1
        <5>2. d \in Datagram
          BY <1>4, <5>1
        <5> QED
          BY <5>2, TurnTypes
      <4>6. last <= turn /\ last # turn
        BY <4>3, <4>4, <4>5 DEF InPlace
      <4>7. last < turn
        BY <4>6
      <4> QED
        BY <1>5, <4>4, <4>5, <4>7
    <3> QED
      BY <1>5, <1>6, <3>1, <3>2, InTurnMore
  <2>3. Follows(P, net2, ds, p, x)
    <3>1. Follows(P, net2, ds, p, c)
      BY <1>1, <1>9, FollowsStays DEF InOrder
    <3> QED
      BY <1>6, <3>1 DEF Follows
  <2>4. Recognises(P, at, net2, p, x)
    <3>1. SUFFICES ASSUME NEW s \in P, Heard(x, s), NEW k \in DOMAIN net2[q],
                          PktFrom(net2[q][k], s, client_nick[p])
                   PROVE  InPlace(LastTurn(x), x.last_pkt_received,
                                  net2[q][k].id.turn, Num(net2[q][k]))
      BY DEF Recognises
    <3>2. /\ k + 1 \in DOMAIN net[q] /\ 1 < k + 1 /\ net2[q][k] = net[q][k + 1]
      BY <1>4
    <3>3. PktFrom(d, s, client_nick[p])
      BY <1>8, <3>1 DEF Heard
    <3>4. client_nick[p] \in Nick
      BY DEF Nick
    <3>5. InPlace(d.id.turn, Num(d), net[q][k + 1].id.turn, Num(net[q][k + 1]))
      BY <1>1, <1>4, <3>1, <3>2, <3>3, <3>4 DEF InStep
    <3> QED
      BY <1>6, <1>7, <3>2, <3>5
  <2> QED
    BY <2>1, <2>2, <2>3, <2>4 DEF InOrder
<1>13. ASSUME NEW r \in Process, NEW j \in DOMAIN ds[r], ~ (r = p /\ j = i)
       PROVE  InOrder(P, at, net2, ds, r, ds[r][j])
  <2>1. j \in DOMAIN cs[r] /\ ds[r][j] = cs[r][j]
    BY <1>2, <1>3, <1>13
  <2>2. InOrder(P, at, net, cs, r, cs[r][j])
    BY <2>1 DEF OrderOf
  <2>3. Follows(P, net2, ds, r, cs[r][j])
    BY <1>9, <2>2, FollowsStays DEF InOrder
  <2>4. Recognises(P, at, net2, r, cs[r][j])
    BY <1>4, <2>2, RecognisesShrinks DEF InOrder
  <2> QED
    BY <2>1, <2>2, <2>3, <2>4 DEF InOrder
<1>14. \A r \in Process : \A j \in DOMAIN ds[r] : InOrder(P, at, net2, ds, r, ds[r][j])
  BY <1>2, <1>3, <1>12, <1>13
<1> QED
  BY <1>3, <1>4, <1>10, <1>11, <1>14 DEF OrderOf, Shrinks

\* net with the datagram d, the last at q.
WithLast(net, q, d) == [net EXCEPT ![q] = Append(net[q], d)]

\* d is not younger than what p has queued for n, nor older than anything that is out.
Fits(P, net, cs, q, d) ==
  \A s \in P, n \in Nick : PktFrom(d, s, n) =>
    /\ \A k \in DOMAIN net[q] : PktFrom(net[q][k], s, n) =>
         InPlace(net[q][k].id.turn, Num(net[q][k]), d.id.turn, Num(d))
    /\ \A r \in P : \A j \in DOMAIN cs[r] :
         client_nick[r] = n /\ Heard(cs[r][j], s) =>
           InPlace(LastTurn(cs[r][j]), cs[r][j].last_pkt_received, d.id.turn, Num(d))
    /\ \A j \in DOMAIN cs[s] : cs[s][j].nick = n =>
         \A i \in DOMAIN cs[s][j].queue :
           InPlace(d.id.turn, Num(d), cs[s][j].queue[i].id.turn, cs[s][j].last_pkt_sent)

\* A datagram that fits arrives at a socket.
LEMMA OrderMore ==
  ASSUME NEW P \in SUBSET Process, NEW at, NEW net, NEW cs, OrderOf(P, at, net, cs),
         NEW q \in Port,
         NEW d \in Datagram, Fits(P, net, cs, q, d), NEW net2, net2 = WithLast(net, q, d)
  PROVE  OrderOf(P, at, net2, cs)
<1>1. /\ net \in [Port -> Seq(Datagram)] /\ cs \in [Process -> Seq(ContactRecord)]
      /\ InStep(P, net[q])
  BY DEF OrderOf
<1>2. /\ net2 \in [Port -> Seq(Datagram)] /\ \A r \in Port : r # q => net2[r] = net[r]
      /\ \A k \in DOMAIN net2[q] : \/ k \in DOMAIN net[q] /\ net2[q][k] = net[q][k]
                                   \/ k = Len(net[q]) + 1 /\ net2[q][k] = d
      /\ \A k \in DOMAIN net[q] : k \in Nat /\ k < Len(net[q]) + 1
  <2> DEFINE box == net[q]
             l == Append(box, d)
  <2>1. box \in Seq(Datagram) /\ DOMAIN box = 1 .. Len(box) /\ Len(box) \in Nat
    BY <1>1
  <2>2. net2 = [net EXCEPT ![q] = l]
    BY DEF WithLast
  <2> HIDE DEF box
  <2>3. /\ l \in Seq(Datagram) /\ Len(l) = Len(box) + 1 /\ l[Len(box) + 1] = d
        /\ \A k \in 1 .. Len(box) : l[k] = box[k]
    BY <2>1, Appended
  <2> HIDE DEF l
  <2>4. DOMAIN l = 1 .. Len(box) + 1
    BY <2>3
  <2>5. ASSUME NEW k \in DOMAIN l
        PROVE  (k \in DOMAIN box /\ l[k] = box[k]) \/ (k = Len(box) + 1 /\ l[k] = d)
    <3>1. k \in 1 .. Len(box) \/ k = Len(box) + 1
      BY <2>1, <2>4
    <3> QED
      BY <2>1, <2>3, <3>1
  <2>6. \A k \in DOMAIN box : k \in Nat /\ k < Len(box) + 1
    BY <2>1
  <2>7. net2 \in [Port -> Seq(Datagram)] /\ net2[q] = l /\ \A r \in Port : r # q => net2[r] = net[r]
    BY <1>1, <2>2, <2>3
  <2> QED
    BY <2>5, <2>6, <2>7 DEF box
<1>3. ASSUME NEW r \in Port PROVE InStep(P, net2[r])
  <2>1. CASE r # q
    BY <1>2, <2>1 DEF OrderOf
  <2>2. CASE r = q
    <3>1. SUFFICES ASSUME NEW i \in DOMAIN net2[q], NEW j \in DOMAIN net2[q],
                          NEW s \in P, NEW n \in Nick, i < j,
                          PktFrom(net2[q][i], s, n), PktFrom(net2[q][j], s, n)
                   PROVE  InPlace(net2[q][i].id.turn, Num(net2[q][i]),
                                  net2[q][j].id.turn, Num(net2[q][j]))
      BY <2>2 DEF InStep
    <3>2. i \in DOMAIN net[q] /\ net2[q][i] = net[q][i]
      <4>1. /\ (i \in DOMAIN net[q] /\ net2[q][i] = net[q][i]) \/ i = Len(net[q]) + 1
            /\ j \in DOMAIN net[q] \/ j = Len(net[q]) + 1
        BY <1>2
      <4>2. Len(net[q]) \in Nat
        BY <1>1
      <4>3. i # Len(net[q]) + 1
        BY <1>2, <3>1, <4>1, <4>2
      <4> QED
        BY <4>1, <4>3
    <3>3. CASE j \in DOMAIN net[q] /\ net2[q][j] = net[q][j]
      BY <1>1, <3>1, <3>2, <3>3 DEF InStep
    <3>4. CASE net2[q][j] = d
      BY <3>1, <3>2, <3>4 DEF Fits
    <3> QED
      BY <1>2, <3>3, <3>4
  <2> QED
    BY <2>1, <2>2
<1>4. ASSUME NEW r \in Port, NEW k \in DOMAIN net2[r]
      PROVE  (\E l \in DOMAIN net[r] : net2[r][k] = net[r][l]) \/ (r = q /\ net2[r][k] = d)
  <2>1. CASE r = q
    <3>1. (k \in DOMAIN net[q] /\ net2[q][k] = net[q][k]) \/ net2[q][k] = d
      BY <1>2, <2>1
    <3> QED
      BY <2>1, <3>1
  <2>2. CASE r # q
    BY <1>2, <2>2
  <2> QED
    BY <2>1, <2>2
<1>5. ASSUME NEW p \in Process, NEW j \in DOMAIN cs[p] PROVE InOrder(P, at, net2, cs, p, cs[p][j])
  <2> DEFINE c == cs[p][j]
  <2>1. InOrder(P, at, net, cs, p, c) /\ c.nick \in Nick
    <3>1. cs[p] \in Seq(ContactRecord)
      BY <1>1
    <3>2. c \in ContactRecord
      BY <3>1
    <3> QED
      BY <3>2 DEF OrderOf, ContactRecord
  <2>2. Follows(P, net2, cs, p, c)
    <3>1. SUFFICES ASSUME p \in P, NEW i \in DOMAIN c.queue, NEW r \in Port, NEW k \in DOMAIN net2[r],
                          PktFrom(net2[r][k], p, c.nick)
                   PROVE  InPlace(net2[r][k].id.turn, Num(net2[r][k]),
                                  c.queue[i].id.turn, c.last_pkt_sent)
      BY <2>1 DEF InOrder, Follows
    <3>2. CASE \E l \in DOMAIN net[r] : net2[r][k] = net[r][l]
      BY <2>1, <3>1, <3>2 DEF InOrder, Follows
    <3>3. CASE r = q /\ net2[r][k] = d
      BY <2>1, <3>1, <3>3 DEF Fits
    <3> QED
      BY <1>4, <3>2, <3>3
  <2>3. Recognises(P, at, net2, p, c)
    <3>1. SUFFICES ASSUME NEW s \in P, p \in P, Heard(c, s), at[p] \in Port,
                          NEW k \in DOMAIN net2[at[p]],
                          PktFrom(net2[at[p]][k], s, client_nick[p])
                   PROVE  InPlace(LastTurn(c), c.last_pkt_received,
                                  net2[at[p]][k].id.turn, Num(net2[at[p]][k]))
      BY DEF Recognises
    <3>2. CASE \E l \in DOMAIN net[at[p]] : net2[at[p]][k] = net[at[p]][l]
      BY <2>1, <3>1, <3>2 DEF InOrder, Recognises
    <3>3. CASE at[p] = q /\ net2[at[p]][k] = d
      <4>1. client_nick[p] \in Nick
        BY DEF Nick
      <4> QED
        BY <3>1, <3>3, <4>1 DEF Fits
    <3> QED
      BY <1>4, <3>1, <3>2, <3>3
  <2> QED
    BY <2>1, <2>2, <2>3 DEF InOrder
<1> QED
  BY <1>2, <1>3, <1>5 DEF OrderOf

\* The packet that a contact of p sends for the head of its queue.
IsPktOf(d, p, c) ==
  /\ d \in Datagram /\ c.queue # <<>> /\ d.id = c.queue[1].id /\ d.id.by = p
  /\ Parsed(d)[6] = <<c.nick>> /\ Num(d) = c.last_pkt_sent

LEMMA PktFits ==
  ASSUME NEW P \in SUBSET Process, NEW at, NEW net, NEW cs, OrderOf(P, at, net, cs),
         NEW p \in Process,
         NEW i \in DOMAIN cs[p], NEW d, IsPktOf(d, p, cs[p][i]), NEW q \in Port
  PROVE  Fits(P, net, cs, q, d)
<1> DEFINE c == cs[p][i]
<1>1. c \in ContactRecord
  <2>1. cs[p] \in Seq(ContactRecord)
    BY DEF OrderOf
  <2> QED
    BY <2>1
<1>2. InOrder(P, at, net, cs, p, c) /\ (p \in P => OneEach(cs[p]))
  BY DEF OrderOf
<1>3. 1 \in DOMAIN c.queue /\ DOMAIN c.queue \subseteq Nat \ {0}
  <2>1. c.queue \in Seq(QueuedMessage) /\ c.queue # <<>>
    BY <1>1 DEF ContactRecord, IsPktOf
  <2> QED
    BY <2>1
<1>4. d.id.turn = c.queue[1].id.turn /\ Num(d) = c.last_pkt_sent
  BY DEF IsPktOf
<1>5. SUFFICES ASSUME NEW s \in P, NEW n \in Nick, PktFrom(d, s, n)
               PROVE  /\ \A k \in DOMAIN net[q] : PktFrom(net[q][k], s, n) =>
                           InPlace(net[q][k].id.turn, Num(net[q][k]), d.id.turn, Num(d))
                      /\ \A r \in P : \A j \in DOMAIN cs[r] :
                           client_nick[r] = n /\ Heard(cs[r][j], s) =>
                             InPlace(LastTurn(cs[r][j]), cs[r][j].last_pkt_received,
                                     d.id.turn, Num(d))
                      /\ \A j \in DOMAIN cs[s] : cs[s][j].nick = n =>
                           \A k \in DOMAIN cs[s][j].queue :
                             InPlace(d.id.turn, Num(d),
                                     cs[s][j].queue[k].id.turn, cs[s][j].last_pkt_sent)
  BY DEF Fits
<1>6. s = p /\ n = c.nick
  <2>1. <<n>> = <<c.nick>> /\ s = p
    BY <1>5 DEF PktFrom, IsPktOf
  <2>2. <<n>>[1] = n /\ <<c.nick>>[1] = c.nick
    OBVIOUS
  <2> QED
    BY <2>1, <2>2
<1>7. ASSUME NEW k \in DOMAIN net[q], PktFrom(net[q][k], s, n)
      PROVE  InPlace(net[q][k].id.turn, Num(net[q][k]), d.id.turn, Num(d))
  BY <1>2, <1>3, <1>4, <1>6, <1>7 DEF InOrder, Follows
<1>8. ASSUME NEW r \in P, NEW j \in DOMAIN cs[r], client_nick[r] = n, Heard(cs[r][j], s)
      PROVE  InPlace(LastTurn(cs[r][j]), cs[r][j].last_pkt_received, d.id.turn, Num(d))
  BY <1>2, <1>3, <1>4, <1>6, <1>8 DEF InOrder, Follows
<1>9. ASSUME NEW j \in DOMAIN cs[s], cs[s][j].nick = n, NEW k \in DOMAIN cs[s][j].queue
      PROVE  InPlace(d.id.turn, Num(d), cs[s][j].queue[k].id.turn, cs[s][j].last_pkt_sent)
  <2>1. j = i /\ cs[s][j] = c
    BY <1>2, <1>6, <1>9 DEF OneEach
  <2>2. c.queue[1].id.turn \in Nat /\ c.queue[k].id.turn \in Nat
    BY <1>1, <1>3, <1>9, <2>1, TurnTypes
  <2>3. k = 1 \/ c.queue[1].id.turn < c.queue[k].id.turn
    <3>1. InTurn(c.queue) /\ k \in DOMAIN c.queue /\ k \in Nat /\ (k = 1 \/ 1 < k)
      BY <1>2, <1>3, <1>9, <2>1 DEF InOrder
    <3> HIDE DEF c
    <3> QED
      BY <1>3, <3>1 DEF InTurn
  <2> HIDE DEF c
  <2>4. InPlace(d.id.turn, Num(d), c.queue[k].id.turn, c.last_pkt_sent)
    BY <1>4, <2>2, <2>3 DEF InPlace
  <2> QED
    BY <2>1, <2>4
<1> QED
  BY <1>7, <1>8, <1>9

LEMMA AckFits ==
  ASSUME NEW P, NEW net, NEW cs, NEW q, NEW d, IsAck(d)
  PROVE  Fits(P, net, cs, q, d)
BY DEF Fits, PktFrom

WithList(cs, p, list)  == [cs EXCEPT ![p] = list]
Replaced(cs, p, i, x)  == [cs EXCEPT ![p] = [cs[p] EXCEPT ![i] = x]]

\* c may take the place of the contact x of p.
Ready(P, net, cs, p, x, c) ==
  c \in ContactRecord /\ SaysTheSame(c, x) /\ InTurn(c.queue) /\ Follows(P, net, cs, p, c)

LEMMA OrderOne ==
  ASSUME NEW P \in SUBSET Process, NEW at, NEW net, NEW cs, OrderOf(P, at, net, cs),
         NEW p \in Process,
         NEW i \in DOMAIN cs[p], NEW c, Ready(P, net, cs, p, cs[p][i], c),
         NEW ds, ds = Replaced(cs, p, i, c)
  PROVE  OrderOf(P, at, net, ds) /\ ds[p][i] = c /\ i \in DOMAIN ds[p]
<1> DEFINE list == [cs[p] EXCEPT ![i] = c]
<1>1. /\ cs \in [Process -> Seq(ContactRecord)] /\ cs[p] \in Seq(ContactRecord)
      /\ (p \in P => OneEach(cs[p])) /\ c \in ContactRecord
  BY DEF OrderOf, Ready
<1>2. /\ list \in Seq(ContactRecord) /\ DOMAIN list = DOMAIN cs[p] /\ list[i] = c
      /\ \A j \in DOMAIN list : j # i => list[j] = cs[p][j]
  BY <1>1
<1>3. ds = [cs EXCEPT ![p] = list] /\ ds[p] = list
  BY <1>1 DEF Replaced
<1> HIDE DEF list
<1>4. \A j \in DOMAIN list : SaysTheSame(list[j], cs[p][j])
  BY <1>2 DEF Ready, SaysTheSame
<1>5. p \in P => OneEach(list)
  BY <1>1, <1>2, <1>4 DEF OneEach, SaysTheSame
<1>6. ASSUME NEW j \in DOMAIN list
      PROVE  /\ InTurn(list[j].queue) /\ Follows(P, net, cs, p, list[j])
             /\ p \in P => \/ list[j].shown = <<>>
                           \/ \E l \in DOMAIN cs[p] : SaysTheSame(list[j], cs[p][l])
  <2>1. CASE j = i
    BY <1>2, <1>4, <2>1 DEF Ready
  <2>2. CASE j # i
    <3>1. InOrder(P, at, net, cs, p, cs[p][j]) /\ list[j] = cs[p][j]
      BY <1>2, <2>2 DEF OrderOf
    <3> QED
      BY <1>2, <1>4, <3>1 DEF InOrder
  <2> QED
    BY <2>1, <2>2
<1>7. OrderOf(P, at, net, ds)
  BY <1>2, <1>3, <1>5, <1>6, OrderLists
<1> QED
  BY <1>2, <1>3, <1>7

\* Nobody relies on what is shown by a process that is not in P.
LEMMA OrderMisled ==
  ASSUME NEW P \in SUBSET Process, NEW at, NEW net, NEW cs, OrderOf(P, at, net, cs),
         NEW p \in Process, p \notin P, NEW i \in DOMAIN cs[p],
         NEW x \in ContactRecord, x.queue = cs[p][i].queue,
         NEW ds, ds = Replaced(cs, p, i, x)
  PROVE  OrderOf(P, at, net, ds)
<1> DEFINE list == [cs[p] EXCEPT ![i] = x]
<1>1. cs \in [Process -> Seq(ContactRecord)] /\ cs[p] \in Seq(ContactRecord)
  BY DEF OrderOf
<1>2. /\ list \in Seq(ContactRecord) /\ DOMAIN list = DOMAIN cs[p]
      /\ \A j \in DOMAIN list : list[j].queue = cs[p][j].queue
  BY <1>1
<1>3. ds = [cs EXCEPT ![p] = list]
  BY DEF Replaced
<1> HIDE DEF list
<1>4. \A j \in DOMAIN list : InTurn(list[j].queue)
  BY <1>2 DEF OrderOf, InOrder
<1>5. \A j \in DOMAIN list : Follows(P, net, cs, p, list[j])
  BY DEF Follows
<1>6. \A j \in DOMAIN list :
        /\ InTurn(list[j].queue) /\ Follows(P, net, cs, p, list[j])
        /\ p \in P => \/ list[j].shown = <<>>
                      \/ \E l \in DOMAIN cs[p] : SaysTheSame(list[j], cs[p][l])
  BY <1>4, <1>5
<1> QED
  BY <1>2, <1>3, <1>6, OrderLists

\* What is in order among some processes is so among fewer.
LEMMA OrderAmong ==
  ASSUME NEW Q, NEW at, NEW net, NEW cs, OrderOf(Q, at, net, cs), NEW P \in SUBSET Q
  PROVE  OrderOf(P, at, net, cs)
<1>1. \A q \in Port : InStep(P, net[q])
  BY DEF OrderOf, InStep
<1>2. ASSUME NEW p \in Process, NEW c, InOrder(Q, at, net, cs, p, c)
      PROVE  InOrder(P, at, net, cs, p, c)
  <2>1. Follows(P, net, cs, p, c)
    BY <1>2 DEF InOrder, Follows
  <2>2. Recognises(P, at, net, p, c)
    BY <1>2 DEF InOrder, Recognises
  <2> QED
    BY <1>2, <2>1, <2>2 DEF InOrder
<1> QED
  BY <1>1, <1>2 DEF OrderOf

\* p has created a contact for a nick it had none for.
LEMMA OrderNew ==
  ASSUME NEW P \in SUBSET Process, NEW at, NEW net, NEW cs, OrderOf(P, at, net, cs),
         NEW p \in Process,
         NEW c \in ContactRecord, c.queue = <<>>, c.shown = <<>>,
         p \in P => \A j \in DOMAIN cs[p] : cs[p][j].nick # c.nick,
         NEW list, list = <<c>> \o cs[p], NEW ds, ds = WithList(cs, p, list)
  PROVE  OrderOf(P, at, net, ds)
<1> DEFINE old == cs[p]
           s == <<c>>
<1>1. /\ old \in Seq(ContactRecord) /\ (p \in P => OneEach(old))
      /\ Len(old) \in Nat /\ DOMAIN old = 1 .. Len(old)
  BY DEF OrderOf
<1>2. \A j \in DOMAIN old :
        InOrder(P, at, net, cs, p, old[j]) /\ (p \in P => old[j].nick # c.nick)
  BY DEF OrderOf
<1>3. list = s \o old /\ s \in Seq(ContactRecord) /\ Len(s) = 1 /\ s[1] = c
  OBVIOUS
<1> HIDE DEF s
<1>4. /\ list \in Seq(ContactRecord) /\ DOMAIN list = 1 .. 1 + Len(old)
      /\ \A j \in DOMAIN list : list[j] = IF j = 1 THEN c ELSE old[j - 1]
  <2> DEFINE l == s \o old
  <2> HIDE DEF old
  <2>1. /\ l \in Seq(ContactRecord) /\ Len(l) = Len(s) + Len(old)
        /\ \A i \in 1 .. Len(s) + Len(old) :
             l[i] = IF i <= Len(s) THEN s[i] ELSE old[i - Len(s)]
    BY <1>1, <1>3, ConcatProperties, Zenon
  <2>2. list = l
    BY <1>3
  <2> HIDE DEF l
  <2>3. Len(s) = 1 /\ s[1] = c /\ Len(old) \in Nat
    BY <1>1, <1>3
  <2>4. Len(l) = 1 + Len(old)
    BY <2>1, <2>3
  <2>5. DOMAIN l = 1 .. 1 + Len(old)
    BY <2>1, <2>3, <2>4
  <2>6. ASSUME NEW j \in 1 .. 1 + Len(old) PROVE l[j] = IF j = 1 THEN c ELSE old[j - 1]
    BY <2>1, <2>3
  <2> QED
    BY <2>1, <2>2, <2>5, <2>6
<1>5. ASSUME NEW j \in DOMAIN list
      PROVE  \/ j = 1 /\ list[j] = c
             \/ j # 1 /\ j - 1 \in DOMAIN old /\ list[j] = old[j - 1]
  BY <1>1, <1>4
<1>6. p \in P => OneEach(list)
  <2>1. SUFFICES ASSUME p \in P, NEW j \in DOMAIN list, NEW k \in DOMAIN list,
                        list[j].nick = list[k].nick
                 PROVE  j = k
    BY DEF OneEach
  <2>2. CASE j = 1 \/ k = 1
    BY <1>2, <1>5, <2>1, <2>2
  <2>3. CASE j # 1 /\ k # 1
    <3>1. j - 1 \in DOMAIN old /\ k - 1 \in DOMAIN old /\ old[j - 1].nick = old[k - 1].nick
      BY <1>5, <2>1, <2>3
    <3>2. j - 1 = k - 1
      BY <1>1, <2>1, <3>1 DEF OneEach
    <3> QED
      BY <1>4, <3>2
  <2> QED
    BY <2>2, <2>3
<1>7. ASSUME NEW j \in DOMAIN list
      PROVE  /\ InTurn(list[j].queue) /\ Follows(P, net, cs, p, list[j])
             /\ p \in P => \/ list[j].shown = <<>>
                           \/ \E l \in DOMAIN cs[p] : SaysTheSame(list[j], cs[p][l])
  <2>1. CASE list[j] = c
    <3>1. DOMAIN <<>> = {}
      OBVIOUS
    <3> QED
      BY <2>1, <3>1 DEF InTurn, Follows
  <2>2. CASE j - 1 \in DOMAIN old /\ list[j] = old[j - 1]
    BY <1>2, <2>2 DEF InOrder, SaysTheSame
  <2> QED
    BY <1>5, <2>1, <2>2
<1> QED
  BY <1>4, <1>6, <1>7, OrderLists DEF WithList

\* p has removed a contact, or all.
LEMMA OrderFewer ==
  ASSUME NEW P \in SUBSET Process, NEW at, NEW net, NEW cs, OrderOf(P, at, net, cs),
         NEW p \in Process,
         NEW list \in Seq(ContactRecord), p \in P => OneEach(list),
         \A j \in DOMAIN list : \E l \in DOMAIN cs[p] : list[j] = cs[p][l],
         NEW ds, ds = WithList(cs, p, list)
  PROVE  OrderOf(P, at, net, ds)
<1>1. ASSUME NEW j \in DOMAIN list
      PROVE  /\ InTurn(list[j].queue) /\ Follows(P, net, cs, p, list[j])
             /\ p \in P => \/ list[j].shown = <<>>
                           \/ \E l \in DOMAIN cs[p] : SaysTheSame(list[j], cs[p][l])
  <2>1. PICK l \in DOMAIN cs[p] : list[j] = cs[p][l]
    OBVIOUS
  <2>2. InOrder(P, at, net, cs, p, cs[p][l]) /\ SaysTheSame(list[j], cs[p][l])
    BY <2>1 DEF OrderOf, SaysTheSame
  <2> QED
    BY <2>1, <2>2 DEF InOrder
<1> QED
  BY <1>1, OrderLists DEF WithList

\* Nothing that is out is as young as what is queued.
Younger(P, net, cs, p, c) ==
  p \in P => \A i \in DOMAIN c.queue :
    /\ \A q \in Port : \A k \in DOMAIN net[q] :
         PktFrom(net[q][k], p, c.nick) => net[q][k].id.turn < c.queue[i].id.turn
    /\ \A r \in P : \A j \in DOMAIN cs[r] :
         client_nick[r] = c.nick /\ Heard(cs[r][j], p) =>
           LastTurn(cs[r][j]) < c.queue[i].id.turn

\* Whatever the number is that the head of the queue is sent with.
LEMMA YoungerFollows ==
  ASSUME NEW P \in SUBSET Process, NEW net \in [Port -> Seq(Datagram)],
         NEW cs \in [Process -> Seq(ContactRecord)],
         NEW p \in Process, NEW c \in ContactRecord, Younger(P, net, cs, p, c),
         NEW x, x.nick = c.nick, x.queue = c.queue
  PROVE  Follows(P, net, cs, p, x)
<1> SUFFICES ASSUME p \in P PROVE Follows(P, net, cs, p, x)
  BY DEF Follows
<1>1. \A i \in DOMAIN c.queue : c.queue[i].id.turn \in Nat
  BY TurnTypes
<1>2. \A a, b \in Nat : a < b => \A y, z : InPlace(a, y, b, z)
  BY DEF InPlace
<1>3. ASSUME NEW q \in Port, NEW k \in DOMAIN net[q] PROVE net[q][k].id.turn \in Nat
  <2>1. net[q] \in Seq(Datagram)
    OBVIOUS
  <2>2. net[q][k] \in Datagram
    BY <2>1
  <2> QED
    BY <2>2, TurnTypes
<1>4. ASSUME NEW r \in P, NEW j \in DOMAIN cs[r], Heard(cs[r][j], p)
      PROVE  LastTurn(cs[r][j]) \in Nat
  <2>1. cs[r] \in Seq(ContactRecord)
    OBVIOUS
  <2>2. cs[r][j] \in ContactRecord
    BY <2>1
  <2> QED
    BY <1>4, <2>2, TurnTypes DEF Heard
<1>5. ASSUME NEW i \in DOMAIN c.queue, NEW q \in Port, NEW k \in DOMAIN net[q],
             PktFrom(net[q][k], p, c.nick)
      PROVE  InPlace(net[q][k].id.turn, Num(net[q][k]), c.queue[i].id.turn, x.last_pkt_sent)
  BY <1>1, <1>2, <1>3, <1>5 DEF Younger
<1>6. ASSUME NEW i \in DOMAIN c.queue, NEW r \in P, NEW j \in DOMAIN cs[r],
             client_nick[r] = c.nick, Heard(cs[r][j], p)
      PROVE  InPlace(LastTurn(cs[r][j]), cs[r][j].last_pkt_received,
                     c.queue[i].id.turn, x.last_pkt_sent)
  BY <1>1, <1>2, <1>4, <1>6 DEF Younger
<1> QED
  BY <1>5, <1>6 DEF Follows

\* c with the same turns in its queue.
Alike(x, c) ==
  /\ SaysTheSame(x, c) /\ x.last_pkt_sent = c.last_pkt_sent
  /\ DOMAIN x.queue = DOMAIN c.queue
  /\ \A i \in DOMAIN c.queue : x.queue[i].id = c.queue[i].id

LEMMA ReadyAlike ==
  ASSUME NEW P, NEW net, NEW cs, NEW p, NEW y, NEW c, Ready(P, net, cs, p, y, c),
         NEW x \in ContactRecord, Alike(x, c)
  PROVE  Ready(P, net, cs, p, y, x)
<1>1. x.nick = c.nick /\ SaysTheSame(x, y)
  BY DEF Alike, Ready, SaysTheSame
<1>2. InTurn(x.queue)
  BY DEF Alike, Ready, InTurn
<1>3. Follows(P, net, cs, p, x)
  BY <1>1 DEF Alike, Ready, Follows
<1> QED
  BY <1>1, <1>2, <1>3 DEF Ready

LEMMA CountedAlike ==
  ASSUME NEW c \in ContactRecord, c.queue # <<>>
  PROVE  Alike(Counted(c), c) /\ Counted(c).queue # <<>>
<1> DEFINE m == [c.queue[1] EXCEPT !.attempts = @ + 1]
           q == [c.queue EXCEPT ![1] = m]
           x == [c EXCEPT !.queue = q]
<1>1. c.queue \in Seq(QueuedMessage) /\ 1 \in DOMAIN c.queue
  BY DEF ContactRecord
<1>2. c.queue[1] \in QueuedMessage
  BY <1>1
<1>3. m.id = c.queue[1].id
  BY <1>2 DEF QueuedMessage
<1> HIDE DEF m
<1>4. DOMAIN q = DOMAIN c.queue /\ q[1] = m /\ \A i \in DOMAIN q : i # 1 => q[i] = c.queue[i]
  BY <1>1
<1>5. q # <<>>
  <2>1. DOMAIN <<>> = {}
    OBVIOUS
  <2> QED
    BY <1>1, <1>4, <2>1
<1> HIDE DEF q
<1>6. /\ x.queue = q /\ x.nick = c.nick /\ x.shown = c.shown
      /\ x.last_pkt_sent = c.last_pkt_sent /\ x.last_pkt_received = c.last_pkt_received
  BY DEF ContactRecord
<1> HIDE DEF x
<1>7. Alike(x, c) /\ x.queue # <<>>
  BY <1>3, <1>4, <1>5, <1>6 DEF Alike, SaysTheSame
<1>8. Counted(c) = x
  BY DEF Counted, x, q, m, ContactRecord
<1> QED
  BY <1>7, <1>8

LEMMA MovedAlike ==
  ASSUME NEW c \in ContactRecord, NEW q
  PROVE  Alike([c EXCEPT !.addr = q], c)
<1> DEFINE x == [c EXCEPT !.addr = q]
<1>1. /\ x.queue = c.queue /\ x.nick = c.nick /\ x.shown = c.shown
      /\ x.last_pkt_sent = c.last_pkt_sent /\ x.last_pkt_received = c.last_pkt_received
  BY DEF ContactRecord
<1> HIDE DEF x
<1>2. Alike(x, c)
  BY <1>1 DEF Alike, SaysTheSame
<1> QED
  BY <1>2 DEF x

\* c may take the place of y, and its head was not sent.
Unsent(P, net, cs, p, y, c) ==
  c \in ContactRecord /\ SaysTheSame(c, y) /\ InTurn(c.queue) /\ Younger(P, net, cs, p, c)

LEMMA UnsentReady ==
  ASSUME NEW P \in SUBSET Process, NEW net \in [Port -> Seq(Datagram)],
         NEW cs \in [Process -> Seq(ContactRecord)],
         NEW p \in Process, NEW y, NEW c, Unsent(P, net, cs, p, y, c)
  PROVE  Ready(P, net, cs, p, y, c) /\ Ready(P, net, cs, p, y, Toggled(c))
<1> DEFINE x == Toggled(c)
<1>1. c \in ContactRecord /\ SaysTheSame(c, y) /\ InTurn(c.queue) /\ Younger(P, net, cs, p, c)
  BY DEF Unsent
<1>2. 1 - c.last_pkt_sent \in {0, 1}
  BY <1>1 DEF ContactRecord
<1>3. /\ x \in ContactRecord /\ x.queue = c.queue /\ x.nick = c.nick /\ x.shown = c.shown
      /\ x.last_pkt_received = c.last_pkt_received
  BY <1>1, <1>2 DEF ContactRecord, Toggled
<1> HIDE DEF x
<1>4. SaysTheSame(x, y)
  BY <1>1, <1>3 DEF SaysTheSame
<1>5. Follows(P, net, cs, p, c)
  BY <1>1, YoungerFollows
<1>6. Follows(P, net, cs, p, x)
  BY <1>1, <1>3, YoungerFollows
<1> QED
  BY <1>1, <1>3, <1>4, <1>5, <1>6 DEF Ready, x

\* When the head of a queue is acknowledged, the next message is younger than all sent.
LEMMA PoppedUnsent ==
  ASSUME NEW P \in SUBSET Process, NEW at, NEW net, NEW cs, OrderOf(P, at, net, cs),
         NEW p \in Process,
         NEW i \in DOMAIN cs[p], cs[p][i].queue # <<>>
  PROVE  Unsent(P, net, cs, p, cs[p][i], [cs[p][i] EXCEPT !.queue = Tail(@)])
<1> DEFINE c == cs[p][i]
           q == Tail(c.queue)
           x == [c EXCEPT !.queue = q]
<1>1. /\ net \in [Port -> Seq(Datagram)] /\ cs \in [Process -> Seq(ContactRecord)]
      /\ InOrder(P, at, net, cs, p, c)
  BY DEF OrderOf
<1>2. c \in ContactRecord
  <2>1. cs[p] \in Seq(ContactRecord)
    BY <1>1
  <2> QED
    BY <2>1
<1> HIDE DEF c
<1>3. c.queue \in Seq(QueuedMessage) /\ c.queue # <<>>
  BY <1>2 DEF ContactRecord, c
<1>4. /\ q \in Seq(QueuedMessage) /\ 1 \in DOMAIN c.queue
      /\ DOMAIN q \subseteq Nat
      /\ \A k \in DOMAIN q : k + 1 \in DOMAIN c.queue /\ 1 < k + 1 /\ q[k] = c.queue[k + 1]
  BY <1>3
<1> HIDE DEF q
<1>5. /\ x \in ContactRecord /\ x.queue = q /\ SaysTheSame(x, c) /\ x.nick = c.nick
  BY <1>2, <1>4 DEF ContactRecord, SaysTheSame
<1> HIDE DEF x
<1>6. InTurn(x.queue)
  <2>1. SUFFICES ASSUME NEW k \in DOMAIN q, NEW l \in DOMAIN q, k < l
                 PROVE  q[k].id.turn < q[l].id.turn
    BY <1>5 DEF InTurn
  <2>2. k + 1 < l + 1
    BY <1>4, <2>1
  <2> QED
    BY <1>1, <1>4, <2>2 DEF InOrder, InTurn
<1>7. ASSUME NEW k \in DOMAIN q, NEW turn \in Nat, NEW num,
             InPlace(turn, num, c.queue[1].id.turn, c.last_pkt_sent)
      PROVE  turn < x.queue[k].id.turn
  <2>1. c.queue[1].id.turn \in Nat /\ c.queue[k + 1].id.turn \in Nat
    BY <1>2, <1>4, TurnTypes
  <2>2. c.queue[1].id.turn < c.queue[k + 1].id.turn
    BY <1>1, <1>4 DEF InOrder, InTurn
  <2>3. turn <= c.queue[1].id.turn
    BY <1>7 DEF InPlace
  <2>4. x.queue[k].id.turn = c.queue[k + 1].id.turn
    BY <1>4, <1>5
  <2> QED
    BY <2>1, <2>2, <2>3, <2>4
<1>8. Younger(P, net, cs, p, x)
  <2>1. ASSUME p \in P, NEW k \in DOMAIN x.queue, NEW r \in Port, NEW l \in DOMAIN net[r],
               PktFrom(net[r][l], p, x.nick)
        PROVE  net[r][l].id.turn < x.queue[k].id.turn
    <3>1. net[r] \in Seq(Datagram)
      BY <1>1
    <3>2. net[r][l] \in Datagram
      BY <3>1
    <3>3. InPlace(net[r][l].id.turn, Num(net[r][l]), c.queue[1].id.turn, c.last_pkt_sent)
      BY <1>1, <1>4, <1>5, <2>1 DEF InOrder, Follows
    <3> QED
      BY <1>5, <1>7, <3>2, <3>3, TurnTypes
  <2>2. ASSUME p \in P, NEW k \in DOMAIN x.queue, NEW r \in P, NEW j \in DOMAIN cs[r],
               client_nick[r] = x.nick, Heard(cs[r][j], p)
        PROVE  LastTurn(cs[r][j]) < x.queue[k].id.turn
    <3>1. cs[r] \in Seq(ContactRecord)
      BY <1>1
    <3>2. cs[r][j] \in ContactRecord
      BY <3>1
    <3>3. LastTurn(cs[r][j]) \in Nat
      BY <2>2, <3>2, TurnTypes DEF Heard
    <3>4. InPlace(LastTurn(cs[r][j]), cs[r][j].last_pkt_received,
                  c.queue[1].id.turn, c.last_pkt_sent)
      BY <1>1, <1>4, <1>5, <2>2 DEF InOrder, Follows
    <3> QED
      BY <1>5, <1>7, <3>3, <3>4
  <2> QED
    BY <2>1, <2>2 DEF Younger
<1>9. Unsent(P, net, cs, p, c, x)
  BY <1>5, <1>6, <1>8 DEF Unsent
<1> QED
  BY <1>9 DEF c, x, q

\* All that is out or queued was typed: its turn is in the history ty.
Accounted(ty, ms, net, cs) ==
  ty \in History /\ GenuineNet(ty, ms, net) /\ \A r \in Process : SoundList(ty, ms, r, cs[r])

LEMMA OldTurns ==
  ASSUME NEW ty, NEW ms, NEW net, NEW cs, Accounted(ty, ms, net, cs), NEW p \in Process
  PROVE  /\ \A q \in Port : \A k \in DOMAIN net[q] : \A n :
              PktFrom(net[q][k], p, n) => net[q][k].id.turn \in 1 .. Len(ty[p])
         /\ \A r \in Process \ ms : \A j \in DOMAIN cs[r] :
              Heard(cs[r][j], p) => LastTurn(cs[r][j]) \in 1 .. Len(ty[p])
         /\ \A j \in DOMAIN cs[p] : \A k \in DOMAIN cs[p][j].queue :
              cs[p][j].queue[k].id.turn \in 1 .. Len(ty[p])
<1>1. DOMAIN ty[p] = 1 .. Len(ty[p])
  <2>1. ty[p] \in Seq(Said)
    BY DEF Accounted, History
  <2> QED
    BY <2>1
<1>2. ASSUME NEW q \in Port, NEW k \in DOMAIN net[q], NEW n, PktFrom(net[q][k], p, n)
      PROVE  net[q][k].id.turn \in 1 .. Len(ty[p])
  <2>1. Genuine(ty, ms, net[q][k])
    BY DEF Accounted, GenuineNet, GenuineBox
  <2> QED
    BY <1>1, <1>2, <2>1 DEF Genuine, PktFrom
<1>3. ASSUME NEW r \in Process \ ms, NEW j \in DOMAIN cs[r], Heard(cs[r][j], p)
      PROVE  LastTurn(cs[r][j]) \in 1 .. Len(ty[p])
  <2> DEFINE c == cs[r][j]
  <2>1. Sound(ty, ms, r, c)
    BY DEF Accounted, SoundList
  <2>2. c \in ContactRecord /\ c.shown \in Seq(ShownMessage) /\ HeardAsTyped(ty, ms, r, c.nick, c.shown)
    BY <2>1 DEF Sound, ContactRecord
  <2> DEFINE l == Len(c.shown)
  <2>3. l \in DOMAIN c.shown /\ LastTurn(c) = c.shown[l].id.turn
    BY <1>3, <2>2, TurnTypes DEF Heard
  <2>4. c.shown[l].id.by \in Process
    <3>1. c.shown[l] \in ShownMessage
      BY <2>2, <2>3
    <3> QED
      BY <3>1 DEF ShownMessage, Id
  <2>5. c.shown[l].id.by = p
    BY <1>3, <2>2, <2>3, <2>4 DEF Heard, HeardAsTyped, SoleOwner
  <2> QED
    BY <1>1, <2>2, <2>3, <2>5 DEF HeardAsTyped, WasSaid
<1>4. ASSUME NEW j \in DOMAIN cs[p], NEW k \in DOMAIN cs[p][j].queue
      PROVE  cs[p][j].queue[k].id.turn \in 1 .. Len(ty[p])
  <2>1. Sound(ty, ms, p, cs[p][j])
    BY DEF Accounted, SoundList
  <2> QED
    BY <1>1, <2>1 DEF Sound, QueuedAsTyped, WasSaid
<1> QED
  BY <1>2, <1>3, <1>4

\* The message just typed is younger than all before it.
LEMMA EnqueuedReady ==
  ASSUME NEW ty, NEW ms, NEW P \in SUBSET (Process \ ms), NEW at, NEW net, NEW cs,
         Accounted(ty, ms, net, cs), OrderOf(P, at, net, cs),
         NEW p \in Process, NEW i \in DOMAIN cs[p],
         NEW m \in QueuedMessage, m.id.turn = Len(ty[p]) + 1
  PROVE  /\ Ready(P, net, cs, p, cs[p][i], Enqueued(cs[p][i], m))
         /\ Len(Enqueued(cs[p][i], m).queue) = 1 =>
              Unsent(P, net, cs, p, cs[p][i], Enqueued(cs[p][i], m))
<1> DEFINE c == cs[p][i]
           q == Append(c.queue, m)
           x == [c EXCEPT !.queue = q]
           new == Len(ty[p]) + 1
<1>1. /\ net \in [Port -> Seq(Datagram)] /\ cs \in [Process -> Seq(ContactRecord)]
      /\ InOrder(P, at, net, cs, p, c) /\ cs[p] \in Seq(ContactRecord)
  BY DEF OrderOf
<1>2. c \in ContactRecord
  BY <1>1
<1>3. Len(ty[p]) \in Nat
  <2>1. ty[p] \in Seq(Said)
    BY DEF Accounted, History
  <2> QED
    BY <2>1
<1>4. \A k \in DOMAIN c.queue : c.queue[k].id.turn \in 1 .. Len(ty[p])
  BY OldTurns
<1> HIDE DEF c
<1>5. c.queue \in Seq(QueuedMessage) /\ DOMAIN c.queue = 1 .. Len(c.queue) /\ Len(c.queue) \in Nat
  <2>1. c.queue \in Seq(QueuedMessage)
    BY <1>2 DEF ContactRecord
  <2> QED
    BY <2>1
<1>6. /\ q \in Seq(QueuedMessage) /\ Len(q) = Len(c.queue) + 1 /\ q[Len(c.queue) + 1] = m
      /\ \A k \in 1 .. Len(c.queue) : q[k] = c.queue[k]
  BY <1>5, Appended
<1> HIDE DEF q
<1>7. DOMAIN q = 1 .. Len(c.queue) + 1
  BY <1>6
<1>8. /\ x \in ContactRecord /\ x.queue = q /\ SaysTheSame(x, c) /\ x.nick = c.nick
      /\ x.last_pkt_sent = c.last_pkt_sent
  BY <1>2, <1>6 DEF ContactRecord, SaysTheSame
<1> HIDE DEF x
<1>9. ASSUME NEW k \in DOMAIN q
      PROVE  \/ k \in DOMAIN c.queue /\ q[k] = c.queue[k]
             \/ k = Len(c.queue) + 1 /\ q[k] = m
  <2>1. k \in 1 .. Len(c.queue) \/ k = Len(c.queue) + 1
    BY <1>5, <1>7
  <2> QED
    BY <1>5, <1>6, <2>1
<1>10. InTurn(q)
  <2>1. SUFFICES ASSUME NEW k \in DOMAIN q, NEW l \in DOMAIN q, k < l
                 PROVE  q[k].id.turn < q[l].id.turn
    BY DEF InTurn
  <2>2. k \in DOMAIN c.queue /\ q[k] = c.queue[k]
    BY <1>5, <1>6, <1>7, <2>1
  <2>3. CASE l \in DOMAIN c.queue /\ q[l] = c.queue[l]
    BY <1>1, <2>1, <2>2, <2>3 DEF InOrder, InTurn
  <2>4. CASE q[l] = m
    BY <1>3, <1>4, <2>2, <2>4
  <2> QED
    BY <1>9, <2>3, <2>4
<1>11. ASSUME NEW r \in Port, NEW k \in DOMAIN net[r], PktFrom(net[r][k], p, c.nick)
       PROVE  net[r][k].id.turn \in Nat /\ net[r][k].id.turn < new
  <2>1. net[r][k].id.turn \in 1 .. Len(ty[p])
    BY <1>11, OldTurns
  <2> QED
    BY <1>3, <2>1
<1>12. ASSUME NEW r \in P, NEW j \in DOMAIN cs[r], Heard(cs[r][j], p)
       PROVE  LastTurn(cs[r][j]) \in Nat /\ LastTurn(cs[r][j]) < new
  <2>1. LastTurn(cs[r][j]) \in 1 .. Len(ty[p])
    BY <1>12, OldTurns
  <2> QED
    BY <1>3, <2>1
<1>13. \A turn \in Nat : \A num, next : turn < new => InPlace(turn, num, new, next)
  BY <1>3 DEF InPlace
<1>14. Follows(P, net, cs, p, x)
  <2>1. ASSUME p \in P, NEW l \in DOMAIN q, NEW r \in Port, NEW k \in DOMAIN net[r],
               PktFrom(net[r][k], p, c.nick)
        PROVE  InPlace(net[r][k].id.turn, Num(net[r][k]), q[l].id.turn, c.last_pkt_sent)
    <3>1. CASE l \in DOMAIN c.queue /\ q[l] = c.queue[l]
      BY <1>1, <2>1, <3>1 DEF InOrder, Follows
    <3>2. CASE q[l] = m
      BY <1>11, <1>13, <2>1, <3>2
    <3> QED
      BY <1>9, <3>1, <3>2
  <2>2. ASSUME p \in P, NEW l \in DOMAIN q, NEW r \in P, NEW j \in DOMAIN cs[r],
               client_nick[r] = c.nick, Heard(cs[r][j], p)
        PROVE  InPlace(LastTurn(cs[r][j]), cs[r][j].last_pkt_received,
                       q[l].id.turn, c.last_pkt_sent)
    <3>1. CASE l \in DOMAIN c.queue /\ q[l] = c.queue[l]
      BY <1>1, <2>2, <3>1 DEF InOrder, Follows
    <3>2. CASE q[l] = m
      BY <1>12, <1>13, <2>2, <3>2
    <3> QED
      BY <1>9, <3>1, <3>2
  <2> QED
    BY <1>8, <2>1, <2>2 DEF Follows
<1>15. ASSUME Len(q) = 1 PROVE Younger(P, net, cs, p, x)
  <2>1. \A l \in DOMAIN q : q[l] = m
    BY <1>5, <1>6, <1>7, <1>15
  <2> QED
    BY <1>8, <1>11, <1>12, <2>1 DEF Younger
<1>16. Ready(P, net, cs, p, c, x) /\ (Len(x.queue) = 1 => Unsent(P, net, cs, p, c, x))
  BY <1>8, <1>10, <1>14, <1>15 DEF Ready, Unsent
<1>17. Enqueued(c, m) = x
  BY DEF Enqueued, x, q
<1> QED
  BY <1>16, <1>17 DEF c

LEMMA NoneIsThere ==
  ASSUME NEW list \in Seq(ContactRecord), NEW x, find_contact_by_nick(list, x) = 0
  PROVE  \A j \in DOMAIN list : list[j].nick # x
<1> DEFINE N == {i \in 1 .. Len(list) : list[i].nick = x}
<1>1. N \in SUBSET Nat /\ DOMAIN list = 1 .. Len(list) /\ 0 \notin N
  OBVIOUS
<1>2. find_contact_by_nick(list, x) = IF N # {} THEN Min(N) ELSE 0
  BY DEF find_contact_by_nick, First, SelectInSeq
<1>3. N # {} => Min(N) \in N
  BY <1>1, SmallestExists
<1>4. N = {}
  BY <1>1, <1>2, <1>3
<1> QED
  BY <1>1, <1>4

LEMMA BoxShrinks ==
  ASSUME NEW net \in [Port -> Seq(Datagram)], NEW q, NEW n \in 0 .. Len(net[q]),
         q \in Port,
         NEW net2, net2 = [net EXCEPT ![q] = SubSeq(net[q], n + 1, Len(net[q]))]
  PROVE  Shrinks(net, net2)
<1> DEFINE box == net[q]
           s == SubSeq(box, n + 1, Len(box))
<1>1. box \in Seq(Datagram) /\ Len(box) \in Nat /\ DOMAIN box = 1 .. Len(box) /\ n \in Nat
  OBVIOUS
<1> HIDE DEF box
<1>2. \A i \in n + 1 .. Len(box) : box[i] \in Datagram
  BY <1>1
<1>3. /\ s \in Seq(Datagram)
      /\ Len(s) = IF n + 1 <= Len(box) THEN Len(box) - (n + 1) + 1 ELSE 0
      /\ \A i \in 1 .. Len(box) - (n + 1) + 1 : s[i] = box[n + 1 + i - 1]
  BY <1>1, <1>2, SubSeqProperties, n + 1 \in Int, Len(box) \in Int
<1> HIDE DEF s
<1>4. ASSUME NEW k \in DOMAIN s PROVE k + n \in DOMAIN box /\ s[k] = box[k + n]
  <2>1. k \in 1 .. Len(s) /\ Len(s) \in Nat
    BY <1>3, <1>4
  <2>2. n + 1 <= Len(box)
    <3>1. SUFFICES ASSUME ~ (n + 1 <= Len(box)) PROVE FALSE
      OBVIOUS
    <3>2. Len(s) = 0
      BY <1>3, <3>1, Zenon
    <3> QED
      BY <2>1, <3>2
  <2>3. Len(s) = Len(box) - (n + 1) + 1
    BY <1>3, <2>2, Zenon
  <2>4. k \in 1 .. Len(box) - (n + 1) + 1 /\ k + n \in 1 .. Len(box) /\ n + 1 + k - 1 = k + n
    BY <1>1, <2>1, <2>3
  <2> QED
    BY <1>1, <1>3, <2>4
<1>5. /\ net2 \in [Port -> Seq(Datagram)] /\ net2[q] = s
      /\ \A r \in Port : r # q => net2[r] = net[r]
  BY <1>3 DEF s, box
<1>6. ASSUME NEW r \in Port
      PROVE  \E m \in Nat : \A k \in DOMAIN net2[r] :
               k + m \in DOMAIN net[r] /\ net2[r][k] = net[r][k + m]
  <2>1. CASE r = q
    <3>1. \A k \in DOMAIN net2[r] : k + n \in DOMAIN net[r] /\ net2[r][k] = net[r][k + n]
      BY <1>4, <1>5, <2>1 DEF box
    <3> QED
      BY <1>1, <3>1
  <2>2. CASE r # q
    <3>1. DOMAIN net[r] \subseteq Nat
      OBVIOUS
    <3>2. \A k \in DOMAIN net2[r] : k + 0 \in DOMAIN net[r] /\ net2[r][k] = net[r][k + 0]
      BY <1>5, <2>2, <3>1
    <3> QED
      BY <3>2
  <2> QED
    BY <2>1, <2>2
<1> QED
  BY <1>5, <1>6 DEF Shrinks

LEMMA OrderLookup ==
  ASSUME NEW P \in SUBSET Process, NEW at, NEW net, NEW cs, OrderOf(P, at, net, cs),
         NEW p \in Process,
         port[p] \in Port, NEW n \in AfterLookup(net, p)
  PROVE  OrderOf(P, at, n, cs)
<1>1. net \in [Port -> Seq(Datagram)]
  BY DEF OrderOf
<1> DEFINE q == port[p]
<1>2. PICK k \in 0 .. Len(net[q]) : n = [net EXCEPT ![q] = SubSeq(net[q], k + 1, Len(net[q]))]
  BY DEF AfterLookup
<1>3. q \in Port
  OBVIOUS
<1> HIDE DEF q
<1>4. Shrinks(net, n)
  BY <1>1, <1>2, <1>3, BoxShrinks
<1> QED
  BY <1>4, OrderShrinks

LEMMA OrderReceived ==
  ASSUME NEW P \in SUBSET Process, NEW at, NEW cs, OrderOf(P, at, inbox, cs),
         NEW p \in Process, port[p] \in Port,
         inbox[port[p]] # <<>>
  PROVE  OrderOf(P, at, Received(p), cs) /\ Received(p) = WithoutHead(inbox, port[p])
<1>1. inbox \in [Port -> Seq(Datagram)]
  BY DEF OrderOf
<1>2. Received(p) = WithoutHead(inbox, port[p])
  BY DEF Received, WithoutHead
<1>3. Shrinks(inbox, Received(p))
  BY <1>1, <1>2, TailShrinks
<1> QED
  BY <1>2, <1>3, OrderShrinks

LEMMA OrderSends ==
  ASSUME NEW P \in SUBSET Process, NEW at, NEW net, NEW cs, OrderOf(P, at, net, cs),
         NEW q \in Port,
         NEW d \in Datagram, Fits(P, net, cs, q, d), send_packet(net, q, <<d>>)
  PROVE  OrderOf(P, at, inbox', cs)
<1>1. CASE inbox' = net
  BY <1>1
<1>2. CASE inbox' = Arrive(net, q, <<d>>)
  <2>1. net \in [Port -> Seq(Datagram)]
    BY DEF OrderOf
  <2>2. net[q] \o <<d>> = Append(net[q], d)
    BY <2>1, AppendIsConcat
  <2>3. Arrive(net, q, <<d>>) = net \/ Arrive(net, q, <<d>>) = WithLast(net, q, d)
    BY <2>1, <2>2 DEF Arrive, WithLast
  <2> QED
    BY <1>2, <2>3, OrderMore
<1> QED
  BY <1>1, <1>2 DEF send_packet

LEMMA PktIsOf ==
  ASSUME NEW ty \in History, NEW ms, NEW p \in Process, port[p] \in Port,
         NEW c, Sound(ty, ms, p, c), c.queue # <<>>
  PROVE  \E d : PktFor(p, c) = <<d>> /\ IsPktOf(d, p, c)
<1> DEFINE h == Head(c.queue)
           num == c.last_pkt_sent
           from == client_nick[p]
           to == c.nick
           d == [from |-> port[p], id |-> h.id, text |-> PktMessage(num, from, to, h.text)]
<1>1. PICK e : PktFor(p, c) = <<e>> /\ Genuine(ty, ms, e)
  BY PktIsGenuine
<1>2. PktFor(p, c) = <<d>>
  BY DEF PktFor
<1>3. e = d
  <2>1. <<e>>[1] = e /\ <<d>>[1] = d
    OBVIOUS
  <2> QED
    BY <1>1, <1>2, <2>1
<1>4. /\ c.queue \in Seq(QueuedMessage) /\ to \in Nick /\ num \in {0, 1}
      /\ QueuedAsTyped(ty, ms, p, c.nick, c.queue)
  BY DEF Sound, ContactRecord
<1>5. 1 \in DOMAIN c.queue /\ h = c.queue[1] /\ c.queue[1] \in QueuedMessage
  BY <1>4, QueueTypes
<1>6. h.id.by = p /\ h.text \in Speech
  BY <1>4, <1>5 DEF QueuedAsTyped, QueuedMessage
<1>7. from \in Word /\ to \in Word
  BY <1>4, Keywords DEF Nick
<1>8. d.id = h.id /\ Parsed(d) = parse_message(PktMessage(num, from, to, h.text), 8)
  BY DEF Parsed
<1> HIDE DEF d, num, from, to, h
<1>9. Parsed(d)[2] = <<Decimal(num)>> /\ Parsed(d)[6] = <<to>>
  <2> DEFINE text == h.text
  <2>1. text \in Speech
    BY <1>6
  <2> HIDE DEF text
  <2>2. /\ parse_message(PktMessage(num, from, to, text), 8)[2] = <<Decimal(num)>>
        /\ parse_message(PktMessage(num, from, to, text), 8)[6] = <<to>>
    BY <1>4, <1>7, <2>1, ParsesPkt
  <2> QED
    BY <1>8, <2>2 DEF text
<1>10. Num(d) = num
  BY <1>4, <1>9, Keywords DEF Num
<1>11. d \in Datagram
  BY <1>1, <1>3 DEF Genuine
<1>12. IsPktOf(d, p, c)
  BY <1>5, <1>6, <1>8, <1>9, <1>10, <1>11 DEF IsPktOf, num, to
<1> QED
  BY <1>2, <1>12

\* The head of a queue is sent, from a contact that is ready.
LEMMA OrderSendTo ==
  ASSUME NEW P \in SUBSET Process, NEW ty \in History, NEW ms,
         NEW p \in Process, port[p] \in Port,
         contacts \in [Process -> Seq(ContactRecord)],
         NEW net, NEW list,
         NEW cs, cs = WithList(contacts, p, list), OrderOf(P, port, net, cs),
         NEW i \in DOMAIN list, NEW c, Sound(ty, ms, p, c), c.queue # <<>>,
         c.queue[1].attempts \in 0 .. 3,
         Ready(P, net, cs, p, list[i], c), SendTo(net, p, list, i, c)
  PROVE  OrderOf(P, port, inbox', contacts')
<1> DEFINE x == Counted(c)
<1>1. cs[p] = list /\ contacts' = Replaced(cs, p, i, x)
  BY DEF WithList, Replaced, SendTo, WithContact
<1>2. Sound(ty, ms, p, x) /\ x \in ContactRecord /\ c \in ContactRecord /\ c.addr \in Port
  <2>1. Sound(ty, ms, p, x) /\ c \in ContactRecord
    BY Counts DEF Sound
  <2> QED
    BY <2>1 DEF Sound, ContactRecord
<1>3. Alike(x, c) /\ x.queue # <<>>
  BY <1>2, CountedAlike
<1> HIDE DEF x
<1>4. Ready(P, net, cs, p, cs[p][i], x)
  BY <1>1, <1>2, <1>3, ReadyAlike
<1>5. OrderOf(P, port, net, contacts') /\ contacts'[p][i] = x /\ i \in DOMAIN contacts'[p]
  <2>1. i \in DOMAIN cs[p]
    BY <1>1
  <2>2. contacts' = Replaced(cs, p, i, x)
    BY <1>1
  <2>3. ASSUME NEW ds, ds = Replaced(cs, p, i, x) PROVE OrderOf(P, port, net, ds)
    BY <1>4, <2>1, <2>3, OrderOne, ZenonT(60)
  <2>4. cs \in [Process -> Seq(ContactRecord)] /\ cs[p] \in Seq(ContactRecord)
    BY DEF OrderOf
  <2>5. contacts'[p][i] = x /\ i \in DOMAIN contacts'[p]
    BY <2>1, <2>2, <2>4 DEF Replaced
  <2> QED
    BY <2>2, <2>3, <2>5
<1>6. PICK d : PktFor(p, c) = <<d>> /\ IsPktOf(d, p, c)
  BY PktIsOf
<1>7. IsPktOf(d, p, x)
  <2>1. 1 \in DOMAIN c.queue
    <3>1. c.queue \in Seq(QueuedMessage)
      BY <1>2 DEF ContactRecord
    <3> QED
      BY <3>1
  <2> QED
    BY <1>3, <1>6, <2>1 DEF IsPktOf, Alike, SaysTheSame
<1>8. Fits(P, net, contacts', c.addr, d)
  BY <1>2, <1>5, <1>7, PktFits
<1>9. send_packet(net, c.addr, <<d>>)
  BY <1>6 DEF SendTo
<1>10. d \in Datagram
  BY <1>6 DEF IsPktOf
<1> QED
  BY <1>2, <1>5, <1>8, <1>9, <1>10, OrderSends

LEMMA OrderSendsNext ==
  ASSUME NEW P \in SUBSET Process, NEW ty \in History, NEW ms,
         NEW p \in Process, port[p] \in Port,
         contacts \in [Process -> Seq(ContactRecord)],
         NEW net, NEW list,
         NEW cs, cs = WithList(contacts, p, list), OrderOf(P, port, net, cs),
         NEW i \in DOMAIN list, NEW c, Sound(ty, ms, p, c),
         c.queue # <<>> => c.queue[1].attempts = 0,
         Unsent(P, net, cs, p, list[i], c),
         send_next_message_to_contact(net, p, list, i, c)
  PROVE  OrderOf(P, port, inbox', contacts')
<1>1. net \in [Port -> Seq(Datagram)] /\ cs \in [Process -> Seq(ContactRecord)]
  BY DEF OrderOf
<1>2. Ready(P, net, cs, p, list[i], c) /\ Ready(P, net, cs, p, list[i], Toggled(c))
  BY <1>1, UnsentReady
<1>3. CASE c.queue # <<>> /\ SendTo(net, p, list, i, Toggled(c))
  <2> DEFINE x == Toggled(c)
  <2>1. Sound(ty, ms, p, x) /\ x.queue = c.queue
    BY Toggles
  <2>2. x.queue # <<>> /\ x.queue[1].attempts \in 0 .. 3
    BY <1>3, <2>1
  <2> HIDE DEF x
  <2>3. Ready(P, net, cs, p, list[i], x) /\ SendTo(net, p, list, i, x)
    BY <1>2, <1>3 DEF x
  <2> QED
    BY <2>1, <2>2, <2>3, OrderSendTo
<1>4. CASE WithContact(p, [list EXCEPT ![i] = c]) /\ inbox' = net
  <2>1. cs[p] = list /\ contacts' = Replaced(cs, p, i, c)
    BY <1>4 DEF WithList, Replaced, WithContact
  <2> QED
    BY <1>2, <1>4, <2>1, OrderOne
<1> QED
  BY <1>3, <1>4 DEF send_next_message_to_contact

LEMMA OrderQueues ==
  ASSUME NEW ty, NEW ms, NEW ns, NEW P \in SUBSET (Process \ ms),
         NEW p \in Process, port[p] \in Port,
         contacts \in [Process -> Seq(ContactRecord)],
         NEW net, NEW list,
         NEW cs, cs = WithList(contacts, p, list), OrderOf(P, port, net, cs),
         Accounted(ty, ms, net, cs), NEW uy \in History, SoundList(uy, ns, p, list),
         NEW i \in DOMAIN list, NEW m \in QueuedMessage, m.id.by = p, m.attempts = 0,
         m.id.turn = Len(ty[p]) + 1, WasSaid(uy, ns, m.id, list[i].nick, m.text),
         Queue(net, p, list, i, m)
  PROVE  OrderOf(P, port, inbox', contacts')
<1> DEFINE c == Enqueued(list[i], m)
<1>0. P \in SUBSET Process
  OBVIOUS
<1>1. cs[p] = list
  BY DEF WithList
<1>2. Ready(P, net, cs, p, list[i], c) /\ (Len(c.queue) = 1 => Unsent(P, net, cs, p, list[i], c))
  BY <1>1, EnqueuedReady
<1>3. Sound(uy, ns, p, c) /\ (Len(c.queue) = 1 => c.queue[1].attempts = 0)
  <2> DEFINE x == list[i]
  <2>1. Sound(uy, ns, p, x) /\ WasSaid(uy, ns, m.id, x.nick, m.text)
    BY DEF SoundList
  <2> HIDE DEF x
  <2>2. /\ Sound(uy, ns, p, Enqueued(x, m))
        /\ Len(Enqueued(x, m).queue) = 1 => Enqueued(x, m).queue[1].attempts = 0
    BY <2>1, Enqueues, SMTT(20)
  <2> QED
    BY <2>2 DEF x
<1> HIDE DEF c
<1>4. CASE Len(c.queue) = 1 /\ send_next_message_to_contact(net, p, list, i, c)
  <2>1. c.queue # <<>> => c.queue[1].attempts = 0
    BY <1>3, <1>4, Zenon
  <2>2. Unsent(P, net, cs, p, list[i], c)
    BY <1>2, <1>4, Zenon
  <2> QED
    BY <1>0, <1>3, <1>4, <2>1, <2>2, OrderSendsNext
<1>5. CASE WithContact(p, [list EXCEPT ![i] = c]) /\ inbox' = net
  <2>1. contacts' = Replaced(cs, p, i, c)
    BY <1>1, <1>5 DEF WithList, Replaced, WithContact
  <2> QED
    BY <1>0, <1>1, <1>2, <1>5, <2>1, OrderOne
<1> QED
  BY <1>4, <1>5 DEF Queue, c

LEMMA OrderAccepts ==
  ASSUME NEW P \in SUBSET Process, NEW ty \in History, NEW ms,
         NEW p \in Process, port[p] \in Port, contacts \in [Process -> Seq(ContactRecord)],
         NEW list, NEW cs, cs = WithList(contacts, p, list), OrderOf(P, port, inbox, cs),
         SoundList(ty, ms, p, list),
         inbox[port[p]] # <<>>, NEW d, d = Head(inbox[port[p]]), Genuine(ty, ms, d),
         ~ IsAck(d), ForUs(p, d), NEW i \in DOMAIN list,
         p \in P => list[i].nick = Head(Parsed(d)[4]),
         NEW net, net = Received(p) \/ net \in AfterLookup(Received(p), p),
         Accept(net, p, list, i, d)
  PROVE  OrderOf(P, port, inbox', contacts')
<1> DEFINE c == list[i]
           num == atoi(Parsed(d)[2])
           e == [text |-> Parsed(d)[8], id |-> d.id]
           x == [c EXCEPT !.last_pkt_received = num, !.shown = Append(c.shown, e)]
           ack == [from |-> port[p], id |-> d.id, text |-> AckMessage(num)]
           said == ty[d.id.by][d.id.turn]
<1>1. cs[p] = list
  BY DEF WithList
<1>2. /\ d.id.by \in Process /\ d.id \in Id /\ num \in {0, 1}
      /\ Parsed(d)[4] = <<client_nick[d.id.by]>> /\ said \in Said
      /\ Parsed(d)[8] = said.text
  BY AckOrPkt
<1>3. p \in P => c.nick = client_nick[d.id.by]
  <2>1. Head(<<client_nick[d.id.by]>>) = client_nick[d.id.by]
    OBVIOUS
  <2>2. Head(Parsed(d)[4]) = client_nick[d.id.by]
    BY <1>2, <2>1, Zenon
  <2> QED
    BY <2>2
<1>4. PktFrom(d, d.id.by, client_nick[p])
  BY DEF PktFrom, ForUs
<1>5. c \in ContactRecord /\ c.addr \in Port
  <2>1. c \in ContactRecord
    BY DEF SoundList, Sound
  <2> QED
    BY <2>1 DEF ContactRecord
<1>6. OrderOf(P, port, Received(p), cs) /\ Received(p) = WithoutHead(inbox, port[p])
  BY OrderReceived
<1>7. OrderOf(P, port, Received(p), contacts')
  <2>1. CASE IsNew(c, num)
    <3>1. contacts' = Replaced(cs, p, i, x)
      <4>1. [list EXCEPT ![i].last_pkt_received = num, ![i].shown = Append(@, e)]
              = [list EXCEPT ![i] = x]
        BY <1>5 DEF ContactRecord
      <4>2. contacts' = [contacts EXCEPT ![p] = [list EXCEPT ![i] = x]]
        BY <2>1, <4>1 DEF Accept, WithContact
      <4> QED
        BY <1>1, <4>2 DEF Replaced, WithList
    <3>2. e \in ShownMessage /\ e.id = d.id
      BY <1>2 DEF ShownMessage, Said
    <3> HIDE DEF e
    <3>3. HasHeard(x, c, d)
      <4> DEFINE s == Append(c.shown, e)
      <4>1. c.shown \in Seq(ShownMessage)
        BY <1>5 DEF ContactRecord
      <4>2. s \in Seq(ShownMessage)
        BY <3>2, <4>1, Appended
      <4> HIDE DEF s, c
      <4>3. LET y == [c EXCEPT !.last_pkt_received = num, !.shown = s] IN
            /\ y \in ContactRecord /\ y.nick = c.nick /\ y.queue = c.queue
            /\ y.last_pkt_sent = c.last_pkt_sent /\ y.last_pkt_received = num /\ y.shown = s
        BY <1>2, <1>5, <4>2 DEF ContactRecord
      <4>4. num = Num(d)
        BY DEF Num
      <4> QED
        BY <3>2, <4>3, <4>4 DEF HasHeard, s
    <3>4. Num(d) # cs[p][i].last_pkt_received
      BY <1>1, <2>1 DEF IsNew, Num
    <3> HIDE DEF x, num
    <3>5. contacts' = [cs EXCEPT ![p] = [cs[p] EXCEPT ![i] = x]]
      BY <3>1 DEF Replaced
    <3>6. CASE p \in P
      <4>1. cs[p][i].nick = client_nick[d.id.by]
        BY <1>1, <1>3, <3>6
      <4> QED
        BY <1>1, <1>2, <1>4, <1>6, <3>3, <3>4, <3>5, <3>6, <4>1, OrderHears, ZenonT(60)
    <3>7. CASE p \notin P
      <4>1. x \in ContactRecord /\ x.queue = cs[p][i].queue
        BY <1>1, <3>3 DEF HasHeard
      <4> QED
        BY <1>1, <1>6, <3>1, <3>7, <4>1, OrderMisled
    <3> QED
      BY <3>6, <3>7
  <2>2. CASE ~ IsNew(c, num)
    <3>1. contacts' = cs
      BY <2>2 DEF Accept, WithContact, WithList
    <3> QED
      BY <1>6, <3>1
  <2> QED
    BY <2>1, <2>2
<1>8. OrderOf(P, port, net, contacts')
  BY <1>7, OrderLookup
<1>9. send_packet(net, c.addr, <<ack>>)
  BY DEF Accept
<1>10. ack \in Datagram /\ IsAck(ack)
  <2>1. Genuine(ty, ms, ack)
    BY <1>2, AckIsGenuine
  <2>2. ack \in Datagram
    BY <2>1 DEF Genuine
  <2>3. parse_message(AckMessage(num), 8)[1] = <<"ACK">> /\ ack.text = AckMessage(num)
    BY <1>2, ParsesAck
  <2> QED
    BY <2>2, <2>3 DEF IsAck, Parsed
<1> HIDE DEF ack
<1>11. Fits(P, net, contacts', c.addr, ack)
  BY <1>10, AckFits
<1> QED
  BY <1>5, <1>8, <1>9, <1>10, <1>11, OrderSends

\* What waits at the socket of p is read after the lookup that p makes meanwhile.
LEMMA OrderOfType ==
  ASSUME SystemInv, NEW P \in SUBSET (Process \ misled'), OrderOf(P, port, inbox, contacts),
         NEW p \in Process, NEW line, Type(p, line)
  PROVE  OrderOf(P, port, inbox', contacts')
<1>1. /\ state[p] = "connected" /\ typed' \in History /\ Grown(typed, misled, typed', misled')
      /\ typed \in History /\ record \in [Nick -> Port \cup {NoPort}]
      /\ contacts \in [Process -> Seq(ContactRecord)] /\ contacts[p] \in Seq(ContactRecord)
      /\ GenuineNet(typed, misled, inbox)
      /\ \A r \in Process : SoundList(typed, misled, r, contacts[r])
  BY TypesOne DEF SystemInv, CoreInv
<1>0. P \in SUBSET (Process \ misled) /\ P \in SUBSET Process
  BY <1>1 DEF Grown
<1>2. port[p] \in Port
  BY <1>1, HasPort
<1>3. SoundList(typed', misled', p, contacts[p])
  BY <1>1, ListStays
<1>4. PICK n \in Word, m \in QueuedMessage :
        /\ m.id.by = p /\ m.attempts = 0 /\ m.id.turn = Len(typed[p]) + 1
        /\ WasSaid(typed', misled', m.id, n, m.text)
        /\ \/ /\ find_contact_by_nick(contacts[p], n) # 0 /\ UNCHANGED misled
              /\ Queue(inbox, p, contacts[p], find_contact_by_nick(contacts[p], n), m)
           \/ /\ find_contact_by_nick(contacts[p], n) = 0
              /\ \E nick \in Nick, addr \in Port, net \in AfterLookup(inbox, p) :
                   /\ p \notin misled' => nick = n
                   /\ Queue(net, p, <<create_contact(nick, addr)>> \o contacts[p], 1, m)
           \/ /\ inbox' \in AfterLookup(inbox, p)
              /\ UNCHANGED <<contacts, losses, misled>>
  BY TypesOne
<1> DEFINE i == find_contact_by_nick(contacts[p], n)
<1>5. CASE i # 0 /\ Queue(inbox, p, contacts[p], i, m)
  <2>1. i \in DOMAIN contacts[p] /\ contacts[p][i].nick = n
    BY <1>1, <1>5, FoundIsThere
  <2> HIDE DEF i
  <2> DEFINE list == contacts[p]
  <2>2. contacts = WithList(contacts, p, list)
    BY <1>1 DEF WithList
  <2>3. Accounted(typed, misled, inbox, contacts)
    BY <1>1 DEF Accounted
  <2>4. WasSaid(typed', misled', m.id, list[i].nick, m.text) /\ Queue(inbox, p, list, i, m)
        /\ SoundList(typed', misled', p, list) /\ i \in DOMAIN list
    BY <1>3, <1>4, <1>5, <2>1
  <2> HIDE DEF list
  <2> QED
    BY <1>0, <1>1, <1>2, <1>4, <2>2, <2>3, <2>4, OrderQueues, ZenonT(30)
<1>6. CASE /\ i = 0
           /\ \E nick \in Nick, addr \in Port, net \in AfterLookup(inbox, p) :
                /\ p \notin misled' => nick = n
                /\ Queue(net, p, <<create_contact(nick, addr)>> \o contacts[p], 1, m)
  <2>1. PICK nick \in Nick, addr \in Port, net \in AfterLookup(inbox, p) :
          /\ p \notin misled' => nick = n
          /\ Queue(net, p, <<create_contact(nick, addr)>> \o contacts[p], 1, m)
    BY <1>6
  <2> DEFINE c == create_contact(nick, addr)
             list == <<c>> \o contacts[p]
             cs == WithList(contacts, p, list)
  <2>2. p \in P => nick = n
    BY <2>1
  <2>3. /\ Sound(typed', misled', p, c) /\ Sound(typed, misled, p, c)
        /\ c.nick = nick /\ c.queue = <<>> /\ c.shown = <<>>
    <3>1. c.shown = <<>>
      BY DEF create_contact
    <3> QED
      BY <3>1, NewContact
  <2>4. Queue(net, p, list, 1, m)
    BY <2>1
  <2> HIDE DEF c
  <2>5. /\ SoundList(typed', misled', p, list) /\ SoundList(typed, misled, p, list)
        /\ 1 \in DOMAIN list /\ list[1] = c
    BY <1>1, <1>3, <2>3, ListNew
  <2>6. p \in P => \A j \in DOMAIN contacts[p] : contacts[p][j].nick # c.nick
    BY <1>1, <1>6, <2>2, <2>3, NoneIsThere
  <2>7. c \in ContactRecord
    BY <2>3 DEF Sound
  <2>8. OrderOf(P, port, inbox, cs)
    BY <1>0, <1>1, <2>3, <2>6, <2>7, OrderNew
  <2> HIDE DEF list
  <2>9. OrderOf(P, port, net, cs) /\ GenuineNet(typed, misled, net)
    BY <1>0, <1>1, <1>2, <2>8, OrderLookup, NetLookup
  <2>10. Accounted(typed, misled, net, cs)
    <3>1. cs[p] = list /\ \A r \in Process : r # p => cs[r] = contacts[r]
      BY <1>1 DEF WithList
    <3>2. \A r \in Process : SoundList(typed, misled, r, cs[r])
      BY <1>1, <2>5, <3>1
    <3> QED
      BY <1>1, <2>9, <3>2 DEF Accounted
  <2>11. WasSaid(typed', misled', m.id, list[1].nick, m.text)
    <3>1. m.id.by \notin misled' => nick = n
      BY <1>4, <2>1
    <3> QED
      BY <1>1, <1>4, <2>3, <2>5, <3>1, SaidAnyway
  <2>12. cs = WithList(contacts, p, list)
    OBVIOUS
  <2> HIDE DEF cs
  <2> QED
    BY <1>0, <1>1, <1>2, <1>4, <2>4, <2>5, <2>9, <2>10, <2>11, <2>12, OrderQueues, ZenonT(30)
<1>7. CASE inbox' \in AfterLookup(inbox, p) /\ UNCHANGED <<contacts, losses, misled>>
  <2>1. OrderOf(P, port, inbox', contacts)
    BY <1>0, <1>1, <1>2, <1>7, OrderLookup
  <2> QED
    BY <1>7, <2>1
<1> QED
  BY <1>4, <1>5, <1>6, <1>7

LEMMA OrderOfReceivePkt ==
  ASSUME SystemInv, NEW P \in SUBSET (Process \ misled'), OrderOf(P, port, inbox, contacts),
         NEW p \in Process, ReceivePkt(p)
  PROVE  OrderOf(P, port, inbox', contacts')
<1>0. P \in SUBSET Process
  OBVIOUS
<1>1. PICK d, n :
        /\ d = Head(inbox[port[p]]) /\ n = Head(Parsed(d)[4])
        /\ state[p] = "connected" /\ inbox[port[p]] # <<>> /\ port[p] \in Port
        /\ ~ IsAck(d) /\ ForUs(p, d) /\ Genuine(typed, misled, d)
        /\ n \in Nick /\ n \in Word /\ d.id.by \in Process /\ client_nick[d.id.by] = n
        /\ UNCHANGED <<state, port, starts, record, typed>> /\ misled \subseteq misled'
        /\ PktTaken(p, d, n)
  BY TakesOne
<1> DEFINE i == find_contact_by_nick(contacts[p], n)
<1>2. /\ typed \in History
      /\ contacts \in [Process -> Seq(ContactRecord)] /\ contacts[p] \in Seq(ContactRecord)
      /\ SoundList(typed, misled, p, contacts[p])
  BY DEF SystemInv, CoreInv
<1>3. CASE i # 0 /\ Accept(Received(p), p, contacts[p], i, d)
  <2>1. i \in DOMAIN contacts[p] /\ contacts[p][i].nick = n
    BY <1>2, <1>3, FoundIsThere
  <2> HIDE DEF i
  <2> DEFINE list == contacts[p]
  <2>2. contacts = WithList(contacts, p, list)
    BY <1>2 DEF WithList
  <2>3. /\ SoundList(typed, misled, p, list) /\ i \in DOMAIN list
        /\ p \in P => list[i].nick = Head(Parsed(d)[4])
        /\ Accept(Received(p), p, list, i, d)
    BY <1>1, <1>2, <1>3, <2>1
  <2> HIDE DEF list
  <2> QED
    BY <1>0, <1>1, <1>2, <2>2, <2>3, OrderAccepts, ZenonT(60)
<1>4. CASE /\ i = 0
           /\ \E nick \in Nick, addr \in Port, net \in AfterLookup(Received(p), p) :
                /\ p \notin misled' => nick = n
                /\ Accept(net, p, <<create_contact(nick, addr)>> \o contacts[p], 1, d)
  <2>1. PICK nick \in Nick, addr \in Port, net \in AfterLookup(Received(p), p) :
          /\ p \notin misled' => nick = n
          /\ Accept(net, p, <<create_contact(nick, addr)>> \o contacts[p], 1, d)
    BY <1>4
  <2> DEFINE c == create_contact(nick, addr)
             list == <<c>> \o contacts[p]
             cs == WithList(contacts, p, list)
  <2>2. p \in P => nick = n
    BY <2>1
  <2>3. Sound(typed, misled, p, c) /\ c.nick = nick /\ c.queue = <<>> /\ c.shown = <<>>
    <3>1. c.shown = <<>>
      BY DEF create_contact
    <3> QED
      BY <3>1, NewContact
  <2>4. Accept(net, p, list, 1, d)
    BY <2>1
  <2> HIDE DEF c
  <2>5. SoundList(typed, misled, p, list) /\ 1 \in DOMAIN list /\ list[1] = c
    BY <1>2, <2>3, ListNew
  <2>6. p \in P => \A j \in DOMAIN contacts[p] : contacts[p][j].nick # c.nick
    BY <1>2, <1>4, <2>2, <2>3, NoneIsThere
  <2>7. c \in ContactRecord
    BY <2>3 DEF Sound
  <2>8. OrderOf(P, port, inbox, cs)
    BY <1>0, <1>2, <2>3, <2>6, <2>7, OrderNew
  <2> HIDE DEF list
  <2>9. p \in P => list[1].nick = Head(Parsed(d)[4])
    BY <1>1, <2>2, <2>3, <2>5
  <2>10. cs = WithList(contacts, p, list)
    OBVIOUS
  <2> HIDE DEF cs
  <2> QED
    BY <1>0, <1>1, <1>2, <2>1, <2>4, <2>5, <2>8, <2>9, <2>10, OrderAccepts, ZenonT(60)
<1>5. CASE inbox' \in AfterLookup(Received(p), p) /\ UNCHANGED <<contacts, losses>>
  <2>1. OrderOf(P, port, Received(p), contacts)
    BY <1>0, <1>1, <1>2, OrderReceived
  <2>2. OrderOf(P, port, inbox', contacts)
    BY <1>0, <1>1, <1>5, <2>1, OrderLookup
  <2> QED
    BY <1>5, <2>2
<1> QED
  BY <1>1, <1>3, <1>4, <1>5 DEF PktTaken

LEMMA OrderOfReceiveAck ==
  ASSUME SystemInv, NEW P \in SUBSET Process, OrderOf(P, port, inbox, contacts),
         NEW p \in Process, ReceiveAck(p) \/ SkipPkt(p)
  PROVE  OrderOf(P, port, inbox', contacts')
<1> DEFINE i == find_contact_by_addr(contacts[p], Head(inbox[port[p]]).from)
           c == [contacts[p][i] EXCEPT !.queue = Tail(@)]
<1>1. /\ state[p] = "connected" /\ inbox[port[p]] # <<>>
      /\ \/ /\ i # 0 /\ contacts[p][i].queue # <<>>
            /\ send_next_message_to_contact(Received(p), p, contacts[p], i, c)
         \/ inbox' = Received(p) /\ contacts' = contacts
  BY DEF ReceiveAck, SkipPkt, Arrived, Running
<1>2. /\ typed \in History /\ contacts \in [Process -> Seq(ContactRecord)]
      /\ SoundList(typed, misled, p, contacts[p]) /\ contacts[p] \in Seq(ContactRecord)
  BY DEF SystemInv, CoreInv
<1>3. port[p] \in Port
  BY <1>1, HasPort
<1>4. OrderOf(P, port, Received(p), contacts)
  BY <1>1, <1>2, <1>3, OrderReceived
<1>5. CASE /\ i # 0 /\ contacts[p][i].queue # <<>>
           /\ send_next_message_to_contact(Received(p), p, contacts[p], i, c)
  <2>1. i \in DOMAIN contacts[p]
    BY <1>2, <1>5, FoundIsThere
  <2> HIDE DEF i
  <2>2. Sound(typed, misled, p, contacts[p][i])
    BY <1>2, <2>1 DEF SoundList
  <2>3. Sound(typed, misled, p, c) /\ (c.queue # <<>> => c.queue[1].attempts = 0)
    BY <1>5, <2>2, Pops
  <2> DEFINE list == contacts[p]
             net == Received(p)
  <2>4. Unsent(P, net, contacts, p, list[i], c)
    BY <1>4, <1>5, <2>1, PoppedUnsent
  <2>5. contacts = WithList(contacts, p, list) /\ OrderOf(P, port, net, contacts)
    BY <1>2, <1>4 DEF WithList
  <2>6. send_next_message_to_contact(net, p, list, i, c) /\ i \in DOMAIN list
    BY <1>5, <2>1
  <2> HIDE DEF c, list, net
  <2> QED
    BY <1>2, <1>3, <2>3, <2>4, <2>5, <2>6, OrderSendsNext, ZenonT(30)
<1>6. CASE inbox' = Received(p) /\ contacts' = contacts
  BY <1>4, <1>6
<1> QED
  BY <1>1, <1>5, <1>6

LEMMA OrderOfResend ==
  ASSUME SystemInv, NEW P \in SUBSET Process, OrderOf(P, port, inbox, contacts),
         NEW p \in Process, NEW i \in DOMAIN contacts[p],
         Resend(p, i) \/ ResendAfterLookup(p, i)
  PROVE  OrderOf(P, port, inbox', contacts')
<1> DEFINE c == contacts[p][i]
           list == contacts[p]
<1>1. state[p] = "connected" /\ c.queue # <<>>
  BY DEF Resend, ResendAfterLookup, Late, Running
<1>2. /\ typed \in History /\ record \in [Nick -> Port \cup {NoPort}]
      /\ contacts \in [Process -> Seq(ContactRecord)]
      /\ SoundList(typed, misled, p, list) /\ list \in Seq(ContactRecord)
  BY DEF SystemInv, CoreInv
<1>3. port[p] \in Port
  BY <1>1, HasPort
<1>4. /\ Sound(typed, misled, p, c) /\ c \in ContactRecord /\ c.nick \in Nick
      /\ c.queue \in Seq(QueuedMessage)
  BY <1>2 DEF SoundList, Sound, ContactRecord
<1>5. c.queue[1].attempts \in 0 .. 4 /\ Attempts(p, i) = c.queue[1].attempts
  BY <1>1, <1>4, QueueTypes DEF QueuedMessage, Attempts
<1>6. contacts = WithList(contacts, p, list) /\ i \in DOMAIN list
  BY <1>2 DEF WithList
<1>7. \A net : OrderOf(P, port, net, contacts) => Ready(P, net, contacts, p, c, c)
  BY <1>4 DEF OrderOf, InOrder, Ready, SaysTheSame
<1>8. CASE Resend(p, i)
  <2>1. c.queue[1].attempts \in 0 .. 3 /\ SendTo(inbox, p, list, i, c)
    BY <1>5, <1>8 DEF Resend
  <2>2. Ready(P, inbox, contacts, p, list[i], c)
    BY <1>2, <1>7
  <2> HIDE DEF c, list
  <2> QED
    BY <1>1, <1>2, <1>3, <1>4, <1>6, <2>1, <2>2, OrderSendTo, ZenonT(30)
<1>9. CASE ResendAfterLookup(p, i)
  <2>1. PICK net \in AfterLookup(inbox, p), answer \in Taken(p, c.nick) :
          \/ \E found \in answer :
               SendTo(net, p, contacts[p], i, [c EXCEPT !.addr = found.addr])
          \/ /\ WithContact(p, [contacts[p] EXCEPT ![i].queue = Tail(@)])
             /\ inbox' = net /\ UNCHANGED losses
    BY <1>9 DEF ResendAfterLookup
  <2>2. c.queue[1].attempts = 2
    BY <1>5, <1>9 DEF ResendAfterLookup
  <2>3. OrderOf(P, port, net, contacts)
    BY <1>2, <1>3, OrderLookup
  <2>4. ASSUME NEW found \in answer,
               SendTo(net, p, contacts[p], i, [c EXCEPT !.addr = found.addr])
        PROVE  OrderOf(P, port, inbox', contacts')
    <3> DEFINE moved == [c EXCEPT !.addr = found.addr]
    <3>1. c.nick \in Word
      BY <1>4, Keywords
    <3>2. found.addr \in Port
      BY <1>3, <2>4, <3>1, TakenFinds
    <3>3. Sound(typed, misled, p, moved) /\ moved.queue = c.queue
      BY <1>4, <3>2, Moves
    <3>4. Alike(moved, c)
      BY <1>4, MovedAlike
    <3>5. SendTo(net, p, list, i, moved)
      BY <2>4
    <3> HIDE DEF moved
    <3>6. Ready(P, net, contacts, p, list[i], moved)
      <4>1. moved \in ContactRecord
        BY <3>3 DEF Sound
      <4> QED
        BY <1>7, <2>3, <3>4, <4>1, ReadyAlike
    <3>7. moved.queue # <<>> /\ moved.queue[1].attempts \in 0 .. 3
      BY <1>1, <2>2, <3>3
    <3> HIDE DEF c, list
    <3> QED
      BY <1>2, <1>3, <1>6, <2>3, <3>3, <3>5, <3>6, <3>7, OrderSendTo, ZenonT(30)
  <2>5. ASSUME WithContact(p, [contacts[p] EXCEPT ![i].queue = Tail(@)]), inbox' = net
        PROVE  OrderOf(P, port, inbox', contacts')
    <3> DEFINE left == [c EXCEPT !.queue = Tail(@)]
    <3>1. contacts' = Replaced(contacts, p, i, left)
      BY <2>5 DEF WithContact, Replaced
    <3>2. Unsent(P, net, contacts, p, c, left)
      BY <1>1, <2>3, PoppedUnsent
    <3> HIDE DEF left
    <3>3. Ready(P, net, contacts, p, c, left)
      BY <2>3, <3>2, UnsentReady DEF OrderOf
    <3>4. OrderOf(P, port, net, contacts')
      BY <2>3, <3>1, <3>3, OrderOne
    <3> QED
      BY <2>5, <3>4
  <2> QED
    BY <2>1, <2>4, <2>5
<1> QED
  BY <1>8, <1>9

LEMMA OrderOfGiveUp ==
  ASSUME SystemInv, NEW P \in SUBSET Process, OrderOf(P, port, inbox, contacts),
         NEW p \in Process, NEW i \in DOMAIN contacts[p], GiveUp(p, i)
  PROVE  OrderOf(P, port, inbox', contacts')
<1> DEFINE old == contacts[p]
           list == RemoveAt(old, i)
           L == SubSeq(old, 1, i - 1)
           R == SubSeq(old, i + 1, Len(old))
           l == L \o R
<1>1. /\ contacts \in [Process -> Seq(ContactRecord)] /\ old \in Seq(ContactRecord)
      /\ SoundList(typed, misled, p, old) /\ (p \in P => OneEach(old))
      /\ Len(old) \in Nat /\ DOMAIN old = 1 .. Len(old) /\ i \in DOMAIN old
  BY DEF SystemInv, CoreInv, OrderOf
<1>2. inbox' = inbox /\ contacts' = WithList(contacts, p, list)
  BY DEF GiveUp, WithContact, WithList
<1>3. list \in Seq(ContactRecord)
  BY <1>1, ListLess DEF SoundList
<1> HIDE DEF old
<1>4. /\ L \in Seq(ContactRecord) /\ Len(L) = i - 1
      /\ \A j \in 1 .. i - 1 : L[j] = old[j]
  BY <1>1
<1>5. /\ R \in Seq(ContactRecord) /\ Len(R) = Len(old) - i
      /\ \A j \in 1 .. Len(old) - i : R[j] = old[i + j]
  <2>1. PICK n \in Nat : n = Len(old) /\ i \in 1 .. n
    BY <1>1
  <2>2. \A j \in i + 1 .. n : old[j] \in ContactRecord
    BY <1>1, <2>1
  <2>3. R \in Seq(ContactRecord) /\ Len(R) = n - i
    BY <2>1, <2>2
  <2>4. \A j \in 1 .. n - i : R[j] = old[i + j]
    BY <2>1, <2>2
  <2> QED
    BY <2>1, <2>3, <2>4
<1>6. list = l
  BY DEF RemoveAt
<1> HIDE DEF L, R
<1>7. /\ Len(l) = Len(L) + Len(R) /\ l \in Seq(ContactRecord)
      /\ \A j \in 1 .. Len(L) + Len(R) : l[j] = IF j <= Len(L) THEN L[j] ELSE R[j - Len(L)]
  BY <1>4, <1>5, ConcatProperties
<1> HIDE DEF l, list
<1> DEFINE from(j) == IF j <= i - 1 THEN j ELSE j + 1
<1>8. ASSUME NEW j \in DOMAIN list
      PROVE  j \in Nat /\ from(j) \in DOMAIN old /\ list[j] = old[from(j)]
  <2>1. j \in 1 .. Len(L) + Len(R) /\ i \in 1 .. Len(old)
    BY <1>1, <1>6, <1>7
  <2>2. CASE j <= Len(L)
    <3>1. j \in 1 .. i - 1 /\ from(j) = j /\ j \in DOMAIN old
      BY <1>1, <1>4, <2>1, <2>2
    <3> QED
      BY <1>4, <1>6, <1>7, <2>1, <2>2, <3>1
  <2>3. CASE ~ (j <= Len(L))
    <3>1. /\ j - Len(L) \in 1 .. Len(old) - i /\ i + (j - Len(L)) = j + 1
          /\ j + 1 \in DOMAIN old /\ from(j) = j + 1 /\ j \in Nat
      <4>1. Len(L) = i - 1 /\ Len(R) = Len(old) - i /\ i \in Nat /\ Len(old) \in Nat
        BY <1>1, <1>4, <1>5, <2>1
      <4>2. j \in Nat /\ j <= Len(old) - 1 /\ ~ (j <= i - 1)
        BY <2>1, <2>3, <4>1
      <4>3. j - Len(L) \in 1 .. Len(old) - i /\ i + (j - Len(L)) = j + 1
        BY <4>1, <4>2
      <4>4. j + 1 \in 1 .. Len(old)
        BY <4>1, <4>2
      <4> QED
        BY <1>1, <4>2, <4>3, <4>4
    <3>2. list[j] = R[j - Len(L)]
      BY <1>6, <1>7, <2>1, <2>3
    <3>3. R[j - Len(L)] = old[i + (j - Len(L))]
      BY <1>5, <3>1
    <3> QED
      BY <3>1, <3>2, <3>3
  <2> QED
    BY <2>2, <2>3
<1>9. \A j, k \in Nat : from(j) = from(k) => j = k
  BY <1>1
<1> HIDE DEF from
<1>10. p \in P => OneEach(list)
  BY <1>1, <1>8, <1>9 DEF OneEach
<1>11. \A j \in DOMAIN list : \E k \in DOMAIN contacts[p] : list[j] = contacts[p][k]
  BY <1>8 DEF old
<1>12. OrderOf(P, port, inbox, contacts')
  BY <1>1, <1>2, <1>3, <1>10, <1>11, OrderFewer
<1> QED
  BY <1>2, <1>12

\* The sockets and contacts of the processes at the same ports are in order.
LEMMA OrderAtPorts ==
  ASSUME NEW P \in SUBSET Process, NEW at, NEW net, NEW cs, OrderOf(P, at, net, cs),
         NEW am, \A p \in Process : cs[p] = <<>> \/ am[p] = at[p]
  PROVE  OrderOf(P, am, net, cs)
<1>1. ASSUME NEW p \in Process, NEW i \in DOMAIN cs[p] PROVE InOrder(P, am, net, cs, p, cs[p][i])
  <2>1. am[p] = at[p]
    <3>1. DOMAIN <<>> = {}
      OBVIOUS
    <3> QED
      BY <3>1
  <2>2. InOrder(P, at, net, cs, p, cs[p][i])
    BY DEF OrderOf
  <2> QED
    BY <2>1, <2>2 DEF InOrder, Recognises
<1> QED
  BY <1>1 DEF OrderOf

LEMMA OrderOfStart ==
  ASSUME SystemInv, OrderInv, NEW p \in Process, NEW q \in Port,
         StartAnswered(p, q) \/ StartUnanswered(p, q)
  PROVE  OrderInv'
<1>1. /\ port' = [port EXCEPT ![p] = q] /\ UNCHANGED <<contacts, inbox, misled>>
      /\ state[p] = "off"
  BY DEF StartAnswered, StartUnanswered, Launch
<1>2. contacts[p] = <<>>
  BY <1>1 DEF SystemInv, CoreInv, PortsInv, OrderInv, Idle
<1>3. \A r \in Process : r # p => port'[r] = port[r]
  BY <1>1 DEF SystemInv, CoreInv
<1>4. OrderOf(Straight, port', inbox, contacts)
  BY <1>2, <1>3, OrderAtPorts DEF OrderInv, Straight
<1>5. Idle'
  BY <1>1, <1>2, <1>3 DEF OrderInv, Idle
<1> QED
  BY <1>1, <1>4, <1>5 DEF OrderInv, Straight

LEMMA OrderOfEnd ==
  ASSUME SystemInv, OrderInv, NEW p \in Process, state[p] \in {"starting", "connected"},
         NEW how, End(p, how)
  PROVE  OrderInv'
<1> DEFINE q == port[p]
           none == <<>>
<1>1. /\ port' = [port EXCEPT ![p] = NoPort] /\ contacts' = WithList(contacts, p, none)
      /\ inbox' = [inbox EXCEPT ![q] = <<>>] /\ misled' = misled
      /\ Straight \in SUBSET Process
  BY DEF End, WithList, Straight
<1>2. /\ OrderOf(Straight, port, inbox, contacts) /\ inbox \in [Port -> Seq(Datagram)] /\ q \in Port
      /\ contacts \in [Process -> Seq(ContactRecord)]
  BY HasPort DEF OrderInv, OrderOf
<1>3. none \in Seq(ContactRecord) /\ DOMAIN none = {}
  OBVIOUS
<1>4. Shrinks(inbox, inbox')
  <2>1. <<>> \in Seq(Datagram) /\ DOMAIN <<>> = {}
    OBVIOUS
  <2>2. inbox' \in [Port -> Seq(Datagram)]
    BY <1>1, <1>2, <2>1
  <2>3. ASSUME NEW r \in Port
        PROVE  \E n \in Nat : \A k \in DOMAIN inbox'[r] :
                 k + n \in DOMAIN inbox[r] /\ inbox'[r][k] = inbox[r][k + n]
    <3>1. DOMAIN inbox[r] \subseteq Nat
      BY <1>2
    <3>2. \A k \in DOMAIN inbox'[r] : k + 0 \in DOMAIN inbox[r] /\ inbox'[r][k] = inbox[r][k + 0]
      <4>1. CASE r = q
        BY <1>1, <1>2, <2>1, <4>1
      <4>2. CASE r # q
        BY <1>1, <1>2, <3>1, <4>2
      <4> QED
        BY <4>1, <4>2
    <3> QED
      BY <3>2
  <2> QED
    BY <2>2, <2>3 DEF Shrinks
<1>5. OrderOf(Straight, port, inbox', contacts)
  BY <1>1, <1>2, <1>4, OrderShrinks
<1> HIDE DEF none
<1>6. OrderOf(Straight, port, inbox', contacts')
  <2>1. /\ OneEach(none)
        /\ \A j \in DOMAIN none : \E l \in DOMAIN contacts[p] : none[j] = contacts[p][l]
    BY <1>3 DEF OneEach
  <2> QED
    BY <1>1, <1>3, <1>5, <2>1, OrderFewer
<1>7. /\ contacts'[p] = <<>>
      /\ \A r \in Process : r # p => contacts'[r] = contacts[r] /\ port'[r] = port[r]
  BY <1>1, <1>2 DEF WithList, SystemInv, CoreInv, none
<1>8. OrderOf(Straight, port', inbox', contacts')
  BY <1>1, <1>6, <1>7, OrderAtPorts
<1>9. Idle'
  BY <1>7 DEF OrderInv, Idle
<1> QED
  BY <1>1, <1>8, <1>9 DEF OrderInv, Straight

LEMMA OrderInit == Init => OrderInv
<1> SUFFICES ASSUME Init PROVE OrderInv
  OBVIOUS
<1>1. /\ inbox = [q \in Port |-> <<>>] /\ contacts = [p \in Process |-> <<>>]
      /\ DOMAIN <<>> = {}
  BY DEF Init
<1>2. <<>> \in Seq(Datagram) /\ <<>> \in Seq(ContactRecord)
  OBVIOUS
<1>3. \A q \in Port : InStep(Straight, inbox[q])
  BY <1>1 DEF InStep
<1>4. \A p \in Straight : OneEach(contacts[p])
  BY <1>1 DEF OneEach, Straight
<1> QED
  BY <1>1, <1>2, <1>3, <1>4 DEF OrderInv, OrderOf, Idle

\* A handler changes the contacts of its own process.
LEMMA IdleStays ==
  ASSUME SystemInv, OrderInv, NEW p \in Process, state[p] = "connected",
         UNCHANGED port, contacts' = contacts \/ \E list : WithContact(p, list)
  PROVE  Idle'
<1>1. port[p] # NoPort
  BY HasPort, SystemAssumption
<1>2. \A r \in Process : r # p => contacts'[r] = contacts[r]
  BY DEF WithContact, SystemInv, CoreInv
<1> QED
  BY <1>1, <1>2 DEF OrderInv, Idle

LEMMA OwnContacts ==
  ASSUME NEW p, NEW net, NEW list, NEW i, NEW c
  PROVE  /\ SendTo(net, p, list, i, c) => \E l : WithContact(p, l)
         /\ send_next_message_to_contact(net, p, list, i, c) => \E l : WithContact(p, l)
         /\ Queue(net, p, list, i, c) => \E l : WithContact(p, l)
         /\ Accept(net, p, list, i, c) => \E l : WithContact(p, l)
<1>1. \A d : SendTo(net, p, list, i, d) => \E l : WithContact(p, l)
  BY DEF SendTo
<1>2. \A d : send_next_message_to_contact(net, p, list, i, d) => \E l : WithContact(p, l)
  BY <1>1 DEF send_next_message_to_contact
<1>3. Queue(net, p, list, i, c) => \E l : WithContact(p, l)
  BY <1>2 DEF Queue
<1>4. Accept(net, p, list, i, c) => \E l : WithContact(p, l)
  BY DEF Accept
<1> QED
  BY <1>1, <1>2, <1>3, <1>4

LEMMA OrderOfHandler ==
  ASSUME SystemInv, OrderInv, NEW p \in Process,
         \/ \E line \in Lines : Type(p, line)
         \/ ReceivePkt(p) \/ SkipPkt(p) \/ ReceiveAck(p)
         \/ \E i \in DOMAIN contacts[p] : Resend(p, i) \/ ResendAfterLookup(p, i) \/ GiveUp(p, i)
  PROVE  OrderInv'
<1>0. misled \subseteq misled'
  <2>1. ASSUME NEW line \in Lines, Type(p, line) PROVE misled \subseteq misled'
    BY <2>1, TypesOne DEF Grown
  <2>2. CASE ReceivePkt(p)
    BY <2>2, TakesOne
  <2>3. CASE \/ SkipPkt(p) \/ ReceiveAck(p)
             \/ \E i \in DOMAIN contacts[p] :
                  Resend(p, i) \/ ResendAfterLookup(p, i) \/ GiveUp(p, i)
    BY <2>3 DEF SkipPkt, ReceiveAck, Resend, ResendAfterLookup, GiveUp
  <2> QED
    BY <2>1, <2>2, <2>3
<1>1. OrderOf(Straight', port, inbox', contacts')
  <2> DEFINE P == Straight'
  <2>1. /\ P \in SUBSET (Process \ misled') /\ P \in SUBSET Straight
        /\ P \in SUBSET Process
    BY <1>0 DEF Straight
  <2> HIDE DEF P
  <2>2. OrderOf(P, port, inbox, contacts)
    BY <2>1, OrderAmong DEF OrderInv
  <2>3. OrderOf(P, port, inbox', contacts')
    BY <2>1, <2>2, OrderOfType, OrderOfReceivePkt, OrderOfReceiveAck, OrderOfResend,
       OrderOfGiveUp
  <2> QED
    BY <2>3 DEF P
<1>2. state[p] = "connected" /\ UNCHANGED port
  BY DEF Type, ReceivePkt, SkipPkt, ReceiveAck, Resend, ResendAfterLookup, GiveUp,
         Arrived, Late, Running
<1>3. contacts' = contacts \/ \E list : WithContact(p, list)
  <2>1. CASE \E line \in Lines : Type(p, line)
    BY <2>1, OwnContacts DEF Type
  <2>2. CASE ReceivePkt(p) \/ SkipPkt(p) \/ ReceiveAck(p)
    BY <2>2, OwnContacts DEF ReceivePkt, SkipPkt, ReceiveAck
  <2>3. CASE \E i \in DOMAIN contacts[p] : Resend(p, i) \/ ResendAfterLookup(p, i) \/ GiveUp(p, i)
    BY <2>3, OwnContacts DEF Resend, ResendAfterLookup, GiveUp
  <2> QED
    BY <2>1, <2>2, <2>3
<1>4. Idle'
  BY <1>2, <1>3, IdleStays
<1> QED
  BY <1>1, <1>2, <1>4 DEF OrderInv

LEMMA OrderStep == SystemInv /\ OrderInv /\ [Next]_vars => OrderInv'
<1> SUFFICES ASSUME SystemInv, OrderInv, [Next]_vars PROVE OrderInv'
  OBVIOUS
<1>1. ASSUME UNCHANGED <<port, contacts, inbox, misled>> PROVE OrderInv'
  BY <1>1 DEF OrderInv, Idle, Straight
<1>2. ASSUME NEW p \in Process, ClientStep(p) PROVE OrderInv'
  <2>1. CASE \E q \in Port : StartAnswered(p, q) \/ StartUnanswered(p, q)
    BY <2>1, OrderOfStart
  <2>2. CASE StrayAnswer(p) \/ Heartbeat(p) \/ IgnoreAnswer(p)
    BY <1>1, <2>2 DEF StrayAnswer, Heartbeat, IgnoreAnswer
  <2>3. CASE Quit(p) \/ ReceiveAckForNothing(p)
    BY <2>3, OrderOfEnd DEF Quit, ReceiveAckForNothing, Arrived, Running
  <2>4. CASE \/ \E line \in Lines : Type(p, line)
             \/ ReceivePkt(p) \/ SkipPkt(p) \/ ReceiveAck(p)
             \/ \E i \in DOMAIN contacts[p] :
                  Resend(p, i) \/ ResendAfterLookup(p, i) \/ GiveUp(p, i)
    BY <2>4, OrderOfHandler
  <2> QED
    BY <1>2, <2>1, <2>2, <2>3, <2>4 DEF ClientStep
<1>3. CASE \E n \in Nick : Expire(n)
  BY <1>1, <1>3 DEF Expire
<1>4. CASE UNCHANGED vars
  BY <1>1, <1>4 DEF vars
<1> QED
  BY <1>2, <1>3, <1>4 DEF Next

\* What a contact was seen to say appears in the order in which it was typed, and no
\* message twice, for all nicks with one owner: whatever was lost or sent again, and
\* whoever quit, gave up or started again on another port meanwhile (client_loop,
\* upush_client.c:334).  Late answers to lookups may lead anyone anywhere; only of a
\* client that made a contact of a nick it had not asked for (238, 321), what it types
\* and what it prints, nothing is said.
THEOREM ShownAsOrdered == Spec => []ShownInOrder
<1>1. SystemInv /\ OrderInv => ShownInOrder
  <2>1. SUFFICES ASSUME SystemInv, OrderInv, NEW p \in Process, NEW c \in Range(contacts[p]),
                        \A q, r \in Owners(c.nick) : q = r,
                        (Owners(c.nick) \cup {p}) \cap misled = {},
                        NEW i \in DOMAIN c.shown, NEW j \in DOMAIN c.shown, i < j
                 PROVE  c.shown[i].id.turn < c.shown[j].id.turn
    BY DEF ShownInOrder
  <2>2. PICK k \in DOMAIN contacts[p] : c = contacts[p][k]
    BY DEF Range
  <2>3. Sound(typed, misled, p, c) /\ InOrder(Straight, port, inbox, contacts, p, c)
    BY <2>1, <2>2 DEF SystemInv, CoreInv, SoundList, OrderInv, OrderOf
  <2>4. HeardAsTyped(typed, misled, p, c.nick, c.shown) /\ c.shown[i] \in ShownMessage
    BY <2>3 DEF Sound, ContactRecord
  <2> DEFINE s == c.shown[i].id.by
  <2>5. s \in Process /\ client_nick[s] = c.nick
    BY <2>1, <2>4 DEF HeardAsTyped, ShownMessage, Id
  <2>6. SoleOwner(s, c.nick)
    BY <2>1, <2>5 DEF SoleOwner, Owners
  <2>7. p \in Straight /\ s \in Straight
    BY <2>1, <2>5 DEF Straight, Owners
  <2> QED
    BY <2>1, <2>3, <2>5, <2>6, <2>7 DEF InOrder, InTurn
<1>2. Spec => [](SystemInv /\ OrderInv)
  BY SystemInit, SystemStep, OrderInit, OrderStep, PTL DEF Spec
<1> QED
  BY <1>1, <1>2, PTL
=============================================================================
