-------------------------- MODULE BaseLinkedListProofs -------------------------
(***************************************************************************)
(* Proofs about BaseLinkedList for every set of nodes and every content:   *)
(* the pointers always form one list, the iterator never stands on a freed *)
(* node, a destruction that SIGINT begins anywhere frees each node once,   *)
(* and the list implements OrderedList.                                    *)
(***************************************************************************)
EXTENDS BaseLinkedList, SequenceTheorems, FiniteSetTheorems, TLAPS

\* The node at place i of a list whose nodes are ch, between the sentinels.
Nth(ch, i) ==
  IF i = 0 THEN head ELSE IF i = Len(ch) + 1 THEN tail ELSE ch[i]

Places(ch) == 0 .. Len(ch) + 1

Cells(ch) == {ch[i] : i \in DOMAIN ch}

Distinct(ch) == \A i, j \in DOMAIN ch : ch[i] = ch[j] => i = j

\* The list can be followed from head to tail, and back.
Forward(nx, ch)  == \A i \in 0 .. Len(ch) : nx[Nth(ch, i)] = Nth(ch, i + 1)
Backward(pv, ch) == \A i \in 0 .. Len(ch) : pv[Nth(ch, i + 1)] = Nth(ch, i)

Pointers == [Node -> Node \cup {NULL}]
Contents == [Node -> Data \cup {NULL}]

\* What a list holds, node by node.
Items(ch, da) == [i \in DOMAIN ch |-> da[ch[i]]]

\* What is held from place p on.
Rest(ch, da, p) == [i \in 1 .. Len(ch) + 1 - p |-> da[ch[p - 1 + i]]]

\* The list between two operations, or in a loop: well linked in both directions, no
\* node twice, every allocated node linked, and no object held twice.
Whole ==
  /\ Forward(next, chain) /\ Backward(prev, chain)
  /\ Distinct(chain)
  /\ allocated = Cells(chain)
  /\ \A a \in allocated : data[a] \in Data
  /\ \A a, b \in allocated : data[a] = data[b] => a = b

\* A search stands at a place, with no match before it.
Searching ==
  \E p \in 1 .. Len(chain) + 1 :
    /\ tmp = Nth(chain, p)
    /\ \A j \in 1 .. p - 1 : data[chain[j]] \notin match

\* The iterator stands behind the item it returned last.
Walking ==
  \E p \in 1 .. Len(chain) + 1 :
    /\ current = Nth(chain, p)
    /\ todo = Rest(chain, data, p)
    /\ \A j \in p .. Len(chain) : data[chain[j]] # served

\* Only what is served is detached during an iteration.
Iterating ==
  /\ current = NULL => served = NULL
  /\ current # NULL => Walking
  /\ op = "find" => current = NULL
  /\ op = "take" /\ current # NULL => served # NULL /\ match = {served}

\* A list that leads from head to tail and whose first node links back to head.
Leading ==
  /\ Forward(next, chain) /\ prev[Nth(chain, 1)] = head
  /\ Distinct(chain)

\* The list while it is destroyed: it leads through allocated nodes, and at most one
\* allocated node, of the operation SIGINT interrupted, is lost.
Doomed ==
  /\ Leading
  /\ Cells(chain) \subseteq allocated
  /\ tmp = next[head]
  /\ ~ handler => allocated = Cells(chain)
  /\ \E x \in Node : allocated \subseteq Cells(chain) \cup {x}

FieldsOK ==
  /\ next \in Pointers /\ prev \in Pointers /\ data \in Contents
  /\ allocated \in SUBSET Cell
  /\ chain \in Seq(Cell)

LoopOK ==
  /\ op \in {"none", "find", "take", "free", "freed", "crashed"}
  /\ match \in SUBSET Data
  /\ tmp \in Node \cup {NULL} /\ handler \in BOOLEAN

WalkerOK ==
  /\ current \in Node \cup {NULL}
  /\ served \in Data \cup {NULL}
  /\ todo \in Seq(Data)

ResultOK ==
  /\ result.of \in {"none", "add", "pop", "peek", "find", "take", "next"}
  /\ result.match \in SUBSET Data /\ result.is \in Data \cup {NULL}

\* The inductive invariant.
ListInv ==
  /\ FieldsOK /\ LoopOK /\ WalkerOK /\ ResultOK
  /\ ~ Gone => Whole /\ Iterating
  /\ op \in {"find", "take"} => Searching
  /\ op = "free" => Doomed
  /\ op = "freed" => \E x \in Node : allocated \subseteq {x}

-----------------------------------------------------------------------------
(* Places in a list.                                                       *)

LEMMA NthType ==
  ASSUME NEW ch \in Seq(Cell)
  PROVE  /\ Len(ch) \in Nat /\ DOMAIN ch = 1 .. Len(ch)
         /\ Nth(ch, 0) = head /\ Nth(ch, Len(ch) + 1) = tail
         /\ \A i \in DOMAIN ch : Nth(ch, i) = ch[i] /\ ch[i] \in Cell
         /\ \A i \in Places(ch) : i = 0 \/ i = Len(ch) + 1 \/ i \in DOMAIN ch
         /\ \A i \in Places(ch) : Nth(ch, i) \in Node
         /\ head \notin Cell /\ tail \notin Cell /\ head # tail
         /\ NULL \notin Node /\ Cell \subseteq Node
<1>1. Len(ch) \in Nat /\ DOMAIN ch = 1 .. Len(ch) /\ \A i \in DOMAIN ch : ch[i] \in Cell
  OBVIOUS
<1>2. /\ Nth(ch, 0) = head /\ Nth(ch, Len(ch) + 1) = tail
      /\ \A i \in DOMAIN ch : Nth(ch, i) = ch[i]
  BY <1>1 DEF Nth
<1>3. \A i \in Places(ch) : i = 0 \/ i = Len(ch) + 1 \/ i \in DOMAIN ch
  BY <1>1 DEF Places
<1>4. /\ head \notin Cell /\ tail \notin Cell /\ head # tail
      /\ NULL \notin Node /\ Cell \subseteq Node
  BY ListAssumption DEF Node
<1>5. \A i \in Places(ch) : Nth(ch, i) \in Node
  BY <1>1, <1>2, <1>3 DEF Node
<1> QED
  BY <1>1, <1>2, <1>3, <1>4, <1>5

LEMMA NthDistinct ==
  ASSUME NEW ch \in Seq(Cell), Distinct(ch),
         NEW i \in Places(ch), NEW j \in Places(ch), Nth(ch, i) = Nth(ch, j)
  PROVE  i = j
<1>1. i \in DOMAIN ch => Nth(ch, i) = ch[i] /\ ch[i] \notin {head, tail}
  BY NthType
<1>2. j \in DOMAIN ch => Nth(ch, j) = ch[j] /\ ch[j] \notin {head, tail}
  BY NthType
<1>3. Nth(ch, 0) = head /\ Nth(ch, Len(ch) + 1) = tail /\ head # tail
  BY NthType
<1>4. i \in {0, Len(ch) + 1} \/ i \in DOMAIN ch
  BY NthType
<1>5. j \in {0, Len(ch) + 1} \/ j \in DOMAIN ch
  BY NthType
<1> QED
  BY <1>1, <1>2, <1>3, <1>4, <1>5 DEF Distinct

\* A node is put before all others.
GrownBy(D, ch, n) ==
  /\ D \in Seq(Cell) /\ Len(D) = Len(ch) + 1 /\ Distinct(D)
  /\ Nth(D, 0) = head /\ Nth(D, 1) = n
  /\ \A i \in 1 .. Len(ch) + 1 : Nth(D, i + 1) = Nth(ch, i)
  /\ D[1] = n
  /\ \A i \in 1 .. Len(ch) : D[i + 1] = ch[i]
  /\ Cells(D) = Cells(ch) \cup {n}

LEMMA Grown ==
  ASSUME NEW ch \in Seq(Cell), Distinct(ch), NEW n \in Cell, n \notin Cells(ch)
  PROVE  GrownBy(<<n>> \o ch, ch, n)
<1> DEFINE D == <<n>> \o ch
<1>1. /\ D \in Seq(Cell) /\ Len(D) = Len(ch) + 1 /\ D[1] = n /\ Len(ch) \in Nat
      /\ \A i \in 1 .. Len(ch) : D[i + 1] = ch[i]
      /\ DOMAIN D = 1 .. Len(ch) + 1 /\ DOMAIN ch = 1 .. Len(ch)
  OBVIOUS
<1> HIDE DEF D
<1>2. \A i \in DOMAIN D : i = 1 \/ (i - 1 \in DOMAIN ch /\ D[i] = ch[i - 1])
  <2> TAKE i \in DOMAIN D
  <2>1. i = 1 \/ (i - 1 \in 1 .. Len(ch) /\ (i - 1) + 1 = i)
    BY <1>1
  <2> QED
    BY <1>1, <2>1
<1>3. \A i \in DOMAIN ch : ch[i] # n
  BY DEF Cells
<1>4. Distinct(D)
  BY <1>1, <1>2, <1>3 DEF Distinct
<1>5. Nth(D, 0) = head /\ Nth(D, 1) = n
  BY <1>1 DEF Nth
<1>6. \A i \in 1 .. Len(ch) + 1 : Nth(D, i + 1) = Nth(ch, i)
  BY <1>1 DEF Nth
<1>7. Cells(D) = Cells(ch) \cup {n}
  <2>1. \A i \in DOMAIN ch : i + 1 \in DOMAIN D /\ D[i + 1] = ch[i]
    BY <1>1
  <2>2. Cells(D) \subseteq Cells(ch) \cup {n}
    BY <1>1, <1>2 DEF Cells
  <2>3. Cells(ch) \subseteq Cells(D)
    BY <2>1 DEF Cells
  <2>4. n \in Cells(D)
    BY <1>1, 1 \in DOMAIN D DEF Cells
  <2> QED
    BY <2>2, <2>3, <2>4
<1> QED
  BY <1>1, <1>4, <1>5, <1>6, <1>7 DEF D, GrownBy

\* A sequence without its element at place p.
LEMMA Removed ==
  ASSUME NEW S, NEW s \in Seq(S), NEW p \in DOMAIN s, NEW D, D = RemoveAt(s, p)
  PROVE  /\ D \in Seq(S) /\ Len(D) = Len(s) - 1 /\ Len(s) \in Nat
         /\ \A i \in 1 .. p - 1 : D[i] = s[i]
         /\ \A i \in p .. Len(s) - 1 : D[i] = s[i + 1]
         /\ DOMAIN D = 1 .. Len(s) - 1 /\ DOMAIN s = 1 .. Len(s)
<1> DEFINE L == SubSeq(s, 1, p - 1)
           R == SubSeq(s, p + 1, Len(s))
<1>1. Len(s) \in Nat /\ DOMAIN s = 1 .. Len(s) /\ p \in 1 .. Len(s)
  OBVIOUS
<1>2. /\ L \in Seq(S) /\ Len(L) = p - 1
      /\ \A i \in 1 .. p - 1 : L[i] = s[i]
  BY <1>1
<1>3. /\ R \in Seq(S) /\ Len(R) = Len(s) - p
      /\ \A i \in 1 .. Len(s) - p : R[i] = s[p + i]
  BY <1>1
<1>4. D = L \o R
  BY DEF RemoveAt
<1> HIDE DEF L, R
<1>5. /\ D \in Seq(S)
      /\ Len(D) = Len(L) + Len(R)
      /\ \A i \in 1 .. Len(L) + Len(R) :
           D[i] = IF i <= Len(L) THEN L[i] ELSE R[i - Len(L)]
  BY <1>2, <1>3, <1>4, ConcatProperties
<1>6. Len(D) = Len(s) - 1
  BY <1>1, <1>2, <1>3, <1>5
<1>7. DOMAIN D = 1 .. Len(s) - 1
  BY <1>5, <1>6
<1>8. ASSUME NEW i \in 1 .. p - 1
      PROVE  D[i] = s[i]
  BY <1>1, <1>2, <1>3, <1>5
<1>9. ASSUME NEW i \in p .. Len(s) - 1
      PROVE  D[i] = s[i + 1]
  <2>1. D[i] = R[i - (p - 1)]
    BY <1>1, <1>2, <1>3, <1>5
  <2>2. i - (p - 1) \in 1 .. Len(s) - p /\ p + (i - (p - 1)) = i + 1
    BY <1>1
  <2> QED
    BY <1>3, <2>1, <2>2
<1> QED
  BY <1>1, <1>5, <1>6, <1>7, <1>8, <1>9

\* The node at place p is taken out.
LessenedAt(D, ch, p) ==
  /\ D \in Seq(Cell) /\ Len(D) = Len(ch) - 1 /\ Distinct(D)
  /\ \A i \in 0 .. p - 1 : Nth(D, i) = Nth(ch, i)
  /\ \A i \in p .. Len(ch) : Nth(D, i) = Nth(ch, i + 1)
  /\ \A i \in 1 .. p - 1 : D[i] = ch[i]
  /\ \A i \in p .. Len(ch) - 1 : D[i] = ch[i + 1]
  /\ Cells(D) = Cells(ch) \ {ch[p]}

LEMMA Lessened ==
  ASSUME NEW ch \in Seq(Cell), Distinct(ch), NEW p \in DOMAIN ch
  PROVE  LessenedAt(RemoveAt(ch, p), ch, p)
<1> DEFINE D == RemoveAt(ch, p)
<1>1. /\ D \in Seq(Cell) /\ Len(D) = Len(ch) - 1 /\ Len(ch) \in Nat
      /\ \A i \in 1 .. p - 1 : D[i] = ch[i]
      /\ \A i \in p .. Len(ch) - 1 : D[i] = ch[i + 1]
      /\ DOMAIN D = 1 .. Len(ch) - 1 /\ DOMAIN ch = 1 .. Len(ch)
  BY Removed
<1> HIDE DEF D
<1>2. p \in 1 .. Len(ch)
  BY <1>1
<1>3. \A i \in DOMAIN D :
        \/ i < p /\ i \in DOMAIN ch /\ D[i] = ch[i]
        \/ i >= p /\ i + 1 \in DOMAIN ch /\ D[i] = ch[i + 1]
  BY <1>1, <1>2
<1>4. Distinct(D)
  BY <1>1, <1>2, <1>3 DEF Distinct
<1>5. ASSUME NEW i \in 0 .. p - 1
      PROVE  Nth(D, i) = Nth(ch, i)
  <2>1. i = 0 \/ i \in 1 .. p - 1
    BY <1>2
  <2>2. i # Len(D) + 1 /\ i # Len(ch) + 1
    BY <1>1, <1>2
  <2> QED
    BY <1>1, <2>1, <2>2 DEF Nth
<1>6. ASSUME NEW i \in p .. Len(ch)
      PROVE  Nth(D, i) = Nth(ch, i + 1)
  <2>1. i # 0 /\ i + 1 # 0 /\ (i = Len(ch) \/ i \in p .. Len(ch) - 1)
    BY <1>1, <1>2
  <2>2. i = Len(D) + 1 <=> i + 1 = Len(ch) + 1
    BY <1>1, <1>2
  <2>3. i = Len(ch) <=> i = Len(D) + 1
    BY <1>1, <1>2
  <2> QED
    BY <1>1, <2>1, <2>2, <2>3 DEF Nth
<1>7. Cells(D) = Cells(ch) \ {ch[p]}
  <2>1. \A i \in DOMAIN ch :
          \/ i = p
          \/ i \in DOMAIN D /\ D[i] = ch[i]
          \/ i - 1 \in DOMAIN D /\ D[i - 1] = ch[i]
    <3> TAKE i \in DOMAIN ch
    <3>1. i < p \/ i = p \/ (i - 1 \in p .. Len(ch) - 1 /\ (i - 1) + 1 = i)
      BY <1>1, <1>2
    <3> QED
      BY <1>1, <1>2, <3>1
  <2>2. \A i \in DOMAIN D : D[i] # ch[p]
    BY <1>1, <1>2, <1>3 DEF Distinct
  <2> QED
    BY <1>3, <2>1, <2>2 DEF Cells
<1> QED
  BY <1>1, <1>4, <1>5, <1>6, <1>7 DEF D, LessenedAt

-----------------------------------------------------------------------------
(* The assignments of the two functions that change the pointers.          *)

\* The pointers and the nodes after k of the assignments that link n before ch.
LinkedSoFar(nx, pv, ch, nx2, pv2, D, n, k) ==
  /\ \A a \in Node : nx2[a] = IF a = head /\ k >= 3 THEN n
                            ELSE IF a = n /\ k >= 1 THEN Nth(ch, 1) ELSE nx[a]
  /\ \A a \in Node : pv2[a] = IF a = Nth(ch, 1) /\ k >= 4 THEN n
                            ELSE IF a = n /\ k >= 2 THEN head ELSE pv[a]
  /\ D = IF k >= 3 THEN <<n>> \o ch ELSE ch

\* A node is linked behind head, as far as the Nth(ch, 1) k assignments do it.
LEMMA LinkingSteps ==
  ASSUME NEW ch \in Seq(Cell), Distinct(ch), NEW n \in Cell, n \notin Cells(ch),
         NEW nx, NEW pv, Forward(nx, ch), Backward(pv, ch),
         NEW k \in 0 .. 4, NEW nx2, NEW pv2, NEW D,
         LinkedSoFar(nx, pv, ch, nx2, pv2, D, n, k)
  PROVE  /\ Forward(nx2, D) /\ pv2[Nth(D, 1)] = head
         /\ k = 4 => Backward(pv2, D)
<1> DEFINE first == Nth(ch, 1)
<1>1. /\ Len(ch) \in Nat /\ DOMAIN ch = 1 .. Len(ch)
      /\ \A i \in Places(ch) : Nth(ch, i) \in Node
      /\ Nth(ch, 0) = head /\ head # n
  BY NthType
<1>2. \A i \in Places(ch) : Nth(ch, i) # n
  BY NthType DEF Cells
<1>3. \A i, j \in Places(ch) : Nth(ch, i) = Nth(ch, j) => i = j
  BY NthDistinct
<1>4. nx[head] = first /\ first \in Node /\ pv[first] = head
  <2>1. 0 \in 0 .. Len(ch) /\ 1 \in Places(ch) /\ 0 + 1 = 1
    BY <1>1 DEF Places
  <2> QED
    BY <1>1, <2>1 DEF Forward, Backward
<1>5. head \in Node /\ n \in Node
  BY DEF Node
<1>6. \A a \in Node : nx2[a] = IF a = head /\ k >= 3 THEN n
                             ELSE IF a = n /\ k >= 1 THEN first ELSE nx[a]
  BY DEF first, LinkedSoFar
<1>7. \A a \in Node : pv2[a] = IF a = first /\ k >= 4 THEN n
                             ELSE IF a = n /\ k >= 2 THEN head ELSE pv[a]
  BY DEF first, LinkedSoFar
<1> HIDE DEF first
<1>8. CASE k < 3
  <2>1. D = ch
    BY <1>8 DEF LinkedSoFar
  <2>2. ASSUME NEW i \in 0 .. Len(ch)
        PROVE  nx2[Nth(ch, i)] = Nth(ch, i + 1)
    <3>1. i \in Places(ch)
      BY <1>1 DEF Places
    <3> QED
      BY <1>1, <1>2, <1>6, <1>8, <3>1 DEF Forward
  <2>3. pv2[first] = head
    BY <1>1, <1>2, <1>4, <1>7, <1>8
  <2> QED
    BY <1>6, <1>7, <1>8, <2>1, <2>2, <2>3 DEF Forward, first
<1>9. CASE k >= 3
  <2>1. /\ D \in Seq(Cell) /\ Len(D) = Len(ch) + 1
        /\ Nth(D, 0) = head /\ Nth(D, 1) = n
        /\ \A i \in 1 .. Len(ch) + 1 : Nth(D, i + 1) = Nth(ch, i)
    <3>1. D = <<n>> \o ch
      BY <1>9 DEF LinkedSoFar
    <3>2. GrownBy(D, ch, n)
      BY <3>1, Grown
    <3> QED
      BY <3>2 DEF GrownBy
  <2>2. ASSUME NEW i \in 0 .. Len(D), i > 1
        PROVE  /\ i - 1 \in 1 .. Len(ch) /\ i - 1 \in 0 .. Len(ch)
               /\ Nth(D, i) = Nth(ch, i - 1) /\ Nth(D, i + 1) = Nth(ch, i)
               /\ Nth(ch, i - 1) # head /\ Nth(ch, i) # first
               /\ Nth(ch, i - 1) \in Node /\ Nth(ch, i) \in Node
               /\ (i - 1) + 1 = i
    <3>1. /\ i - 1 \in 1 .. Len(ch) /\ i - 1 \in 0 .. Len(ch) /\ (i - 1) + 1 = i
          /\ i \in 1 .. Len(ch) + 1 /\ i - 1 \in 1 .. Len(ch) + 1
          /\ i - 1 # 0 /\ i # 1
          /\ i \in Places(ch) /\ i - 1 \in Places(ch)
          /\ 0 \in Places(ch) /\ 1 \in Places(ch)
      BY <1>1, <2>1, <2>2 DEF Places
    <3>2. Nth(D, i) = Nth(ch, i - 1) /\ Nth(D, i + 1) = Nth(ch, i)
      BY <2>1, <3>1
    <3>3. Nth(ch, i - 1) # head /\ Nth(ch, i) # first
      BY <1>1, <1>3, <3>1 DEF first
    <3> QED
      BY <1>1, <3>1, <3>2, <3>3
  <2>3. Nth(D, 2) = first
    <3>1. 1 \in 1 .. Len(ch) + 1 /\ 1 + 1 = 2
      BY <1>1
    <3> QED
      BY <2>1, <3>1 DEF first
  <2>4. ASSUME NEW i \in 0 .. Len(D)
        PROVE  nx2[Nth(D, i)] = Nth(D, i + 1)
    <3>1. CASE i = 0
      BY <1>5, <1>6, <1>9, <2>1, <3>1
    <3>2. CASE i = 1
      BY <1>1, <1>5, <1>6, <1>9, <2>1, <2>3, <3>2
    <3>3. CASE i > 1
      <4>1. nx2[Nth(ch, i - 1)] = nx[Nth(ch, i - 1)]
        BY <1>2, <1>6, <2>2, <3>3 DEF Places
      <4> QED
        BY <2>2, <3>3, <4>1 DEF Forward
    <3> QED
      BY <2>1, <3>1, <3>2, <3>3
  <2>5. pv2[n] = head
    <3>1. first # n
      BY <1>1, <1>2 DEF first, Places
    <3> QED
      BY <1>5, <1>7, <1>9, <3>1
  <2>6. ASSUME k = 4, NEW i \in 0 .. Len(D)
        PROVE  pv2[Nth(D, i + 1)] = Nth(D, i)
    <3>1. CASE i = 0
      BY <2>1, <2>5, <3>1
    <3>2. CASE i = 1
      BY <1>4, <1>7, <2>1, <2>3, <2>6, <3>2
    <3>3. CASE i > 1
      <4>1. pv2[Nth(ch, i)] = pv[Nth(ch, i)]
        <5>1. i \in Places(ch)
          BY <1>1, <2>2, <3>3 DEF Places
        <5> QED
          BY <1>2, <1>7, <2>2, <3>3, <5>1
      <4> QED
        BY <2>2, <3>3, <4>1 DEF Backward
    <3> QED
      BY <2>1, <3>1, <3>2, <3>3
  <2> QED
    BY <1>6, <1>7, <2>1, <2>4, <2>5, <2>6 DEF Forward, Backward
<1> QED
  BY <1>8, <1>9

\* What Insert assigns.
Inserting(nx, pv, ch, nx2, pv2, D, n, k) ==
  /\ nx2 = [nx EXCEPT ![n] = IF k >= 1 THEN nx[head] ELSE @,
                      ![head] = IF k >= 3 THEN n ELSE @]
  /\ pv2 = [pv EXCEPT ![n] = IF k >= 2 THEN head ELSE @,
                      ![nx[head]] = IF k >= 4 THEN n ELSE @]
  /\ D = IF k >= 3 THEN <<n>> \o ch ELSE ch

LEMMA Linking ==
  ASSUME NEW ch \in Seq(Cell), Distinct(ch), NEW n \in Cell, n \notin Cells(ch),
         NEW nx \in Pointers, NEW pv \in Pointers, Forward(nx, ch), Backward(pv, ch),
         NEW k \in 0 .. 4, NEW nx2, NEW pv2, NEW D,
         Inserting(nx, pv, ch, nx2, pv2, D, n, k)
  PROVE  /\ nx2 \in Pointers /\ pv2 \in Pointers
         /\ LinkedSoFar(nx, pv, ch, nx2, pv2, D, n, k)
<1> DEFINE first == Nth(ch, 1)
<1>1. /\ Len(ch) \in Nat /\ DOMAIN ch = 1 .. Len(ch)
      /\ \A i \in Places(ch) : Nth(ch, i) \in Node
      /\ Nth(ch, 0) = head /\ head # n
  BY NthType
<1>2. \A i \in Places(ch) : Nth(ch, i) # n
  BY NthType DEF Cells
<1>3. \A i, j \in Places(ch) : Nth(ch, i) = Nth(ch, j) => i = j
  BY NthDistinct
<1>4. nx[head] = first /\ first \in Node /\ pv[first] = head
  <2>1. 0 \in 0 .. Len(ch) /\ 1 \in Places(ch) /\ 0 + 1 = 1
    BY <1>1 DEF Places
  <2> QED
    BY <1>1, <2>1 DEF Forward, Backward
<1>5. head \in Node /\ n \in Node
  BY DEF Node
<1> HIDE DEF first
<1>6. /\ nx2 \in Pointers
      /\ \A a \in Node : nx2[a] = IF a = head /\ k >= 3 THEN n
                                 ELSE IF a = n /\ k >= 1 THEN first ELSE nx[a]
  BY <1>1, <1>4, <1>5 DEF Pointers, Inserting
<1>7. /\ pv2 \in Pointers
      /\ \A a \in Node : pv2[a] = IF a = first /\ k >= 4 THEN n
                                 ELSE IF a = n /\ k >= 2 THEN head ELSE pv[a]
  <2>1. first # n
    BY <1>1, <1>2 DEF first, Places
  <2> QED
    BY <1>1, <1>4, <1>5, <2>1 DEF Pointers, Inserting
<1>8. LinkedSoFar(nx, pv, ch, nx2, pv2, D, n, k)
  BY <1>6, <1>7 DEF first, LinkedSoFar, Inserting
<1>9. nx2 \in Pointers /\ pv2 \in Pointers
  BY <1>6, <1>7
<1> QED
  BY <1>8, <1>9

\* The pointers and the nodes after k of the assignments that detach the node at place p.
DetachedSoFar(nx, pv, ch, nx2, pv2, D, p, k) ==
  /\ \A a \in Node : nx2[a] = IF a = Nth(ch, p) /\ k >= 3 THEN NULL
                            ELSE IF a = Nth(ch, p - 1) /\ k >= 2 THEN Nth(ch, p + 1)
                            ELSE nx[a]
  /\ \A a \in Node : pv2[a] = IF a = Nth(ch, p) /\ k >= 4 THEN NULL
                            ELSE IF a = Nth(ch, p + 1) /\ k >= 1 THEN Nth(ch, p - 1)
                            ELSE pv[a]
  /\ D = IF k >= 2 THEN RemoveAt(ch, p) ELSE ch

\* The places around the one that is taken out.
LEMMA Around ==
  ASSUME NEW ch \in Seq(Cell), Distinct(ch), NEW p \in DOMAIN ch
  PROVE  /\ p \in 1 .. Len(ch) /\ Len(ch) \in Nat /\ DOMAIN ch = 1 .. Len(ch)
         /\ {p, p - 1, p + 1, 0, 1} \subseteq Places(ch)
         /\ {p, p - 1} \subseteq 0 .. Len(ch) /\ (p - 1) + 1 = p
         /\ Nth(ch, p) = ch[p] /\ ch[p] \in Cell /\ Nth(ch, 0) = head
         /\ \A i \in Places(ch) : Nth(ch, i) \in Node
         /\ \A i, j \in Places(ch) : Nth(ch, i) = Nth(ch, j) => i = j
<1>1. Len(ch) \in Nat /\ DOMAIN ch = 1 .. Len(ch) /\ p \in 1 .. Len(ch)
  BY NthType
<1>2. /\ {p, p - 1, p + 1, 0, 1} \subseteq Places(ch)
      /\ {p, p - 1} \subseteq 0 .. Len(ch) /\ (p - 1) + 1 = p
  BY <1>1 DEF Places
<1>3. \A i, j \in Places(ch) : Nth(ch, i) = Nth(ch, j) => i = j
  BY NthDistinct
<1>4. /\ Nth(ch, p) = ch[p] /\ ch[p] \in Cell /\ Nth(ch, 0) = head
      /\ \A i \in Places(ch) : Nth(ch, i) \in Node
  BY NthType
<1> QED
  BY <1>1, <1>2, <1>3, <1>4

\* A node is detached, as far as the first k assignments do it.
LEMMA DetachingSteps ==
  ASSUME NEW ch \in Seq(Cell), Distinct(ch), NEW p \in DOMAIN ch,
         NEW nx, NEW pv, Forward(nx, ch), pv[Nth(ch, 1)] = head,
         NEW k \in 0 .. 4, NEW nx2, NEW pv2, NEW D,
         DetachedSoFar(nx, pv, ch, nx2, pv2, D, p, k)
  PROVE  /\ Forward(nx2, D) /\ pv2[Nth(D, 1)] = head
         /\ k = 4 /\ Backward(pv, ch) => Backward(pv2, D)
<1>1. /\ p \in 1 .. Len(ch) /\ Len(ch) \in Nat
      /\ {p, p - 1, p + 1, 0, 1} \subseteq Places(ch)
      /\ {p, p - 1} \subseteq 0 .. Len(ch) /\ (p - 1) + 1 = p
      /\ Nth(ch, 0) = head
      /\ \A i \in Places(ch) : Nth(ch, i) \in Node
      /\ \A i, j \in Places(ch) : Nth(ch, i) = Nth(ch, j) => i = j
  BY Around
<1>2. ASSUME NEW i \in Places(ch)
      PROVE  /\ nx2[Nth(ch, i)] = IF i = p /\ k >= 3 THEN NULL
                                  ELSE IF i = p - 1 /\ k >= 2 THEN Nth(ch, p + 1)
                                  ELSE nx[Nth(ch, i)]
             /\ pv2[Nth(ch, i)] = IF i = p /\ k >= 4 THEN NULL
                                  ELSE IF i = p + 1 /\ k >= 1 THEN Nth(ch, p - 1)
                                  ELSE pv[Nth(ch, i)]
  <2>1. /\ Nth(ch, i) \in Node
        /\ Nth(ch, i) = Nth(ch, p) <=> i = p
        /\ Nth(ch, i) = Nth(ch, p - 1) <=> i = p - 1
        /\ Nth(ch, i) = Nth(ch, p + 1) <=> i = p + 1
    BY <1>1
  <2> QED
    BY <2>1 DEF DetachedSoFar
<1>3. CASE k < 2
  <2>1. D = ch
    BY <1>3 DEF DetachedSoFar
  <2>2. ASSUME NEW i \in 0 .. Len(ch)
        PROVE  nx2[Nth(ch, i)] = Nth(ch, i + 1)
    <3>1. i \in Places(ch)
      BY <1>1 DEF Places
    <3> QED
      BY <1>2, <1>3, <3>1 DEF Forward
  <2>3. pv2[Nth(ch, 1)] = head
    <3>1. 1 \in Places(ch) /\ 1 # p + 1
      BY <1>1
    <3> QED
      BY <1>2, <1>3, <3>1
  <2> QED
    BY <1>3, <2>1, <2>2, <2>3 DEF Forward
<1>4. CASE k >= 2
  <2>1. D = RemoveAt(ch, p)
    BY <1>4 DEF DetachedSoFar
  <2>2. /\ Len(D) = Len(ch) - 1
        /\ \A i \in 0 .. p - 1 : Nth(D, i) = Nth(ch, i)
        /\ \A i \in p .. Len(ch) : Nth(D, i) = Nth(ch, i + 1)
    BY <2>1, Lessened DEF LessenedAt
  <2>3. ASSUME NEW i \in 0 .. Len(D)
        PROVE  nx2[Nth(D, i)] = Nth(D, i + 1)
    <3>1. CASE i < p - 1
      <4>1. /\ i \in 0 .. p - 1 /\ i + 1 \in 0 .. p - 1
            /\ i \in Places(ch) /\ i \in 0 .. Len(ch) /\ i # p /\ i # p - 1
        BY <1>1, <2>2, <3>1 DEF Places
      <4> QED
        BY <1>2, <2>2, <4>1 DEF Forward
    <3>2. CASE i = p - 1
      <4>1. /\ i \in 0 .. p - 1 /\ i + 1 = p /\ p \in p .. Len(ch)
            /\ i \in Places(ch) /\ i # p
        BY <1>1, <3>2 DEF Places
      <4> QED
        BY <1>2, <1>4, <2>2, <3>2, <4>1
    <3>3. CASE i > p - 1
      <4>1. /\ i \in p .. Len(ch) /\ i + 1 \in p .. Len(ch)
            /\ i + 1 \in Places(ch) /\ i + 1 \in 0 .. Len(ch)
            /\ i + 1 # p /\ i + 1 # p - 1
        BY <1>1, <2>2, <3>3 DEF Places
      <4>2. nx2[Nth(ch, i + 1)] = Nth(ch, (i + 1) + 1)
        BY <1>2, <4>1 DEF Forward
      <4> QED
        BY <2>2, <4>1, <4>2
    <3>4. i \in Int /\ p \in Int
      BY <1>1, <2>2
    <3> QED
      BY <3>1, <3>2, <3>3, <3>4
  <2>4. pv2[Nth(D, 1)] = head
    <3>1. CASE p = 1
      <4>1. /\ 1 \in p .. Len(ch) /\ 1 + 1 = p + 1 /\ p - 1 = 0
            /\ p + 1 \in Places(ch) /\ p + 1 # p
        BY <1>1, <3>1
      <4>2. pv2[Nth(ch, p + 1)] = Nth(ch, p - 1)
        BY <1>2, <1>4, <4>1
      <4> QED
        BY <1>1, <2>2, <4>1, <4>2
    <3>2. CASE p > 1
      <4>1. 1 \in 0 .. p - 1 /\ 1 \in Places(ch) /\ 1 # p /\ 1 # p + 1
        BY <1>1, <3>2
      <4> QED
        BY <1>2, <2>2, <4>1
    <3> QED
      BY <1>1, <3>1, <3>2
  <2>5. ASSUME k = 4, Backward(pv, ch), NEW i \in 0 .. Len(D)
        PROVE  pv2[Nth(D, i + 1)] = Nth(D, i)
    <3>1. CASE i < p - 1
      <4>1. /\ i \in 0 .. p - 1 /\ i + 1 \in 0 .. p - 1
            /\ i + 1 \in Places(ch) /\ i \in 0 .. Len(ch)
            /\ i + 1 # p /\ i + 1 # p + 1
        BY <1>1, <2>2, <3>1 DEF Places
      <4> QED
        BY <1>2, <2>2, <2>5, <4>1 DEF Backward
    <3>2. CASE i = p - 1
      <4>1. /\ i \in 0 .. p - 1 /\ i + 1 = p /\ p \in p .. Len(ch)
            /\ p + 1 \in Places(ch) /\ p + 1 # p
        BY <1>1, <3>2 DEF Places
      <4> QED
        BY <1>2, <2>2, <2>5, <3>2, <4>1
    <3>3. CASE i > p - 1
      <4>1. /\ i \in p .. Len(ch) /\ i + 1 \in p .. Len(ch)
            /\ (i + 1) + 1 \in Places(ch) /\ i + 1 \in 0 .. Len(ch)
            /\ (i + 1) + 1 # p /\ (i + 1) + 1 # p + 1
        BY <1>1, <2>2, <3>3 DEF Places
      <4>2. pv2[Nth(ch, (i + 1) + 1)] = Nth(ch, i + 1)
        BY <1>2, <2>5, <4>1 DEF Backward
      <4> QED
        BY <2>2, <4>1, <4>2
    <3>4. i \in Int /\ p \in Int
      BY <1>1, <2>2
    <3> QED
      BY <3>1, <3>2, <3>3, <3>4
  <2> QED
    BY <2>3, <2>4, <2>5 DEF Forward, Backward
<1> QED
  BY <1>3, <1>4

\* What ll_dettach_node assigns.
Detached(nx, pv, ch, nx2, pv2, D, p, k) ==
  /\ pv2 = [pv EXCEPT ![nx[ch[p]]] = IF k >= 1 THEN pv[ch[p]] ELSE @,
                      ![ch[p]] = IF k >= 4 THEN NULL ELSE @]
  /\ nx2 = [nx EXCEPT ![pv[ch[p]]] = IF k >= 2 THEN nx[ch[p]] ELSE @,
                      ![ch[p]] = IF k >= 3 THEN NULL ELSE @]
  /\ D = IF k >= 2 THEN RemoveAt(ch, p) ELSE ch

LEMMA DetachingPointers ==
  ASSUME NEW ch \in Seq(Cell), Distinct(ch), NEW p \in DOMAIN ch,
         NEW nx \in Pointers, NEW pv \in Pointers, Forward(nx, ch),
         pv[ch[p]] = Nth(ch, p - 1),
         NEW k \in 0 .. 4, NEW nx2, NEW pv2, NEW D,
         Detached(nx, pv, ch, nx2, pv2, D, p, k)
  PROVE  /\ nx2 \in Pointers /\ pv2 \in Pointers
         /\ DetachedSoFar(nx, pv, ch, nx2, pv2, D, p, k)
<1> DEFINE left == Nth(ch, p - 1)
           node == Nth(ch, p)
           right == Nth(ch, p + 1)
<1>1. /\ {left, node, right} \subseteq Node /\ node = ch[p]
      /\ left # node /\ right # node /\ left # right
      /\ nx[ch[p]] = right
  <2>1. /\ {p, p - 1, p + 1} \subseteq Places(ch) /\ p \in Int
        /\ p \in 0 .. Len(ch)
        /\ Nth(ch, p) = ch[p]
        /\ \A i \in Places(ch) : Nth(ch, i) \in Node
        /\ \A i, j \in Places(ch) : Nth(ch, i) = Nth(ch, j) => i = j
    BY Around
  <2>2. p # p - 1 /\ p # p + 1 /\ p - 1 # p + 1
    BY <2>1
  <2>3. left # node /\ right # node /\ left # right
    BY <2>1, <2>2
  <2>4. {left, node, right} \subseteq Node
    BY <2>1
  <2> QED
    BY <2>1, <2>3, <2>4 DEF Forward
<1> HIDE DEF left, node, right
<1>2. pv[ch[p]] = left
  BY DEF left
<1>3. /\ nx2 \in Pointers
      /\ \A a \in Node : nx2[a] = IF a = node /\ k >= 3 THEN NULL
                                 ELSE IF a = left /\ k >= 2 THEN right ELSE nx[a]
  BY <1>1, <1>2 DEF Pointers, Detached
<1>4. /\ pv2 \in Pointers
      /\ \A a \in Node : pv2[a] = IF a = node /\ k >= 4 THEN NULL
                                 ELSE IF a = right /\ k >= 1 THEN left ELSE pv[a]
  BY <1>1, <1>2 DEF Pointers, Detached
<1>5. DetachedSoFar(nx, pv, ch, nx2, pv2, D, p, k)
  BY <1>3, <1>4 DEF left, node, right, DetachedSoFar, Detached
<1>6. nx2 \in Pointers /\ pv2 \in Pointers
  BY <1>3, <1>4
<1> QED
  BY <1>5, <1>6

-----------------------------------------------------------------------------
(* What a list holds.                                                      *)

LEMMA ItemsType ==
  ASSUME NEW ch \in Seq(Cell), NEW da \in Contents
  PROVE  /\ Items(ch, da) \in Seq(Data \cup {NULL})
         /\ Len(Items(ch, da)) = Len(ch)
         /\ DOMAIN Items(ch, da) = DOMAIN ch
         /\ \A i \in DOMAIN ch : Items(ch, da)[i] = da[ch[i]]
<1>1. Len(ch) \in Nat /\ DOMAIN ch = 1 .. Len(ch) /\ \A i \in DOMAIN ch : ch[i] \in Cell
  OBVIOUS
<1>2. \A i \in DOMAIN ch : da[ch[i]] \in Data \cup {NULL}
  BY <1>1 DEF Contents, Node
<1>3. Items(ch, da) = [i \in 1 .. Len(ch) |-> da[ch[i]]]
  BY <1>1 DEF Items
<1>4. Items(ch, da) \in Seq(Data \cup {NULL})
  BY <1>1, <1>2, <1>3
<1> QED
  BY <1>1, <1>3, <1>4

LEMMA ItemsAgree ==
  ASSUME NEW ch \in Seq(Cell), NEW da \in Contents, NEW db \in Contents,
         \A i \in DOMAIN ch : da[ch[i]] = db[ch[i]]
  PROVE  Items(ch, da) = Items(ch, db)
BY DEF Items

LEMMA ItemsGrown ==
  ASSUME NEW ch \in Seq(Cell), Distinct(ch), NEW n \in Cell, n \notin Cells(ch),
         NEW da \in Contents, NEW db \in Contents,
         \A a \in Node : a # n => db[a] = da[a]
  PROVE  Items(<<n>> \o ch, db) = <<db[n]>> \o Items(ch, da)
<1> DEFINE D == <<n>> \o ch
           V == Data \cup {NULL}
           s == Items(ch, da)
           t == <<db[n]>> \o s
<1>1. GrownBy(D, ch, n)
  BY Grown
<1>2. /\ Len(ch) \in Nat /\ DOMAIN ch = 1 .. Len(ch)
      /\ \A i \in DOMAIN ch : ch[i] \in Node /\ ch[i] # n
  BY NthType DEF Cells
<1> HIDE DEF D
<1>3. /\ D \in Seq(Cell) /\ Len(D) = Len(ch) + 1 /\ D[1] = n
      /\ \A i \in 1 .. Len(ch) : D[i + 1] = ch[i]
  BY <1>1 DEF GrownBy
<1>4. DOMAIN D = 1 .. Len(ch) + 1
  BY <1>2, <1>3
<1>5. /\ s \in Seq(V) /\ Len(s) = Len(ch)
      /\ \A i \in 1 .. Len(ch) : s[i] = da[ch[i]]
  BY <1>2, ItemsType
<1>6. /\ Items(D, db) \in Seq(V) /\ Len(Items(D, db)) = Len(ch) + 1
      /\ \A i \in 1 .. Len(ch) + 1 : Items(D, db)[i] = db[D[i]]
  BY <1>3, <1>4, ItemsType
<1>7. db[n] \in V
  BY DEF Contents, Node
<1> HIDE DEF s, V
<1>8. /\ t \in Seq(V) /\ Len(t) = Len(ch) + 1 /\ t[1] = db[n]
      /\ \A i \in 2 .. Len(ch) + 1 : t[i] = s[i - 1]
  BY <1>2, <1>5, <1>7
<1> HIDE DEF t
<1>9. ASSUME NEW i \in 1 .. Len(ch) + 1
      PROVE  Items(D, db)[i] = t[i]
  <2>1. CASE i = 1
    BY <1>3, <1>6, <1>8, <2>1
  <2>2. CASE i # 1
    <3>1. i \in 2 .. Len(ch) + 1 /\ i - 1 \in 1 .. Len(ch) /\ (i - 1) + 1 = i
      BY <1>2, <2>2
    <3>2. D[i] = ch[i - 1]
      BY <1>3, <3>1
    <3>3. db[ch[i - 1]] = da[ch[i - 1]]
      BY <1>2, <3>1
    <3> QED
      BY <1>5, <1>6, <1>8, <3>1, <3>2, <3>3
  <2> QED
    BY <2>1, <2>2
<1>10. Items(D, db) = t
  BY <1>6, <1>8, <1>9, SeqEqual
<1> QED
  BY <1>10 DEF D, t, s

LEMMA ItemsLessened ==
  ASSUME NEW ch \in Seq(Cell), Distinct(ch), NEW p \in DOMAIN ch,
         NEW da \in Contents, NEW db \in Contents,
         \A a \in Node : a # ch[p] => db[a] = da[a]
  PROVE  Items(RemoveAt(ch, p), db) = RemoveAt(Items(ch, da), p)
<1> DEFINE D == RemoveAt(ch, p)
           V == Data \cup {NULL}
           s == Items(ch, da)
           t == RemoveAt(s, p)
<1>1. LessenedAt(D, ch, p)
  BY Lessened
<1>2. /\ Len(ch) \in Nat /\ DOMAIN ch = 1 .. Len(ch) /\ p \in 1 .. Len(ch)
      /\ \A i \in DOMAIN ch : ch[i] \in Node
      /\ \A i \in DOMAIN ch : i # p => ch[i] # ch[p]
  BY NthType DEF Distinct
<1> HIDE DEF D
<1>3. /\ D \in Seq(Cell) /\ Len(D) = Len(ch) - 1
      /\ \A i \in 1 .. p - 1 : D[i] = ch[i]
      /\ \A i \in p .. Len(ch) - 1 : D[i] = ch[i + 1]
  BY <1>1 DEF LessenedAt
<1>4. DOMAIN D = 1 .. Len(ch) - 1
  BY <1>2, <1>3
<1>5. /\ s \in Seq(V) /\ Len(s) = Len(ch) /\ DOMAIN s = DOMAIN ch
      /\ \A i \in 1 .. Len(ch) : s[i] = da[ch[i]]
  BY <1>2, ItemsType
<1>6. /\ Items(D, db) \in Seq(V) /\ Len(Items(D, db)) = Len(ch) - 1
      /\ \A i \in 1 .. Len(ch) - 1 : Items(D, db)[i] = db[D[i]]
  <2>1. /\ Items(D, db) \in Seq(V) /\ Len(Items(D, db)) = Len(D)
        /\ \A i \in DOMAIN D : Items(D, db)[i] = db[D[i]]
    BY <1>3, ItemsType
  <2> QED
    BY <1>3, <1>4, <2>1
<1> HIDE DEF s, V
<1>7. /\ t \in Seq(V) /\ Len(t) = Len(ch) - 1
      /\ \A i \in 1 .. p - 1 : t[i] = s[i]
      /\ \A i \in p .. Len(ch) - 1 : t[i] = s[i + 1]
  <2>1. s \in Seq(V) /\ p \in DOMAIN s
    BY <1>5
  <2>2. /\ t \in Seq(V) /\ Len(t) = Len(s) - 1
        /\ \A i \in 1 .. p - 1 : t[i] = s[i]
        /\ \A i \in p .. Len(s) - 1 : t[i] = s[i + 1]
    BY <2>1, Removed
  <2> QED
    BY <1>5, <2>2
<1> HIDE DEF t
<1>8. ASSUME NEW i \in 1 .. Len(ch) - 1
      PROVE  Items(D, db)[i] = t[i]
  <2>1. CASE i < p
    <3>1. i \in 1 .. p - 1 /\ i \in 1 .. Len(ch) /\ i # p
      BY <1>2, <2>1
    <3>2. D[i] = ch[i] /\ t[i] = s[i] /\ db[ch[i]] = da[ch[i]]
      BY <1>2, <1>3, <1>7, <3>1
    <3> QED
      BY <1>5, <1>6, <3>1, <3>2
  <2>2. CASE i >= p
    <3>1. i \in p .. Len(ch) - 1 /\ i + 1 \in 1 .. Len(ch) /\ i + 1 # p
      BY <1>2, <2>2
    <3>2. D[i] = ch[i + 1] /\ t[i] = s[i + 1] /\ db[ch[i + 1]] = da[ch[i + 1]]
      BY <1>2, <1>3, <1>7, <3>1
    <3> QED
      BY <1>5, <1>6, <3>1, <3>2
  <2> QED
    BY <1>2, <2>1, <2>2
<1>9. Items(D, db) = t
  BY <1>6, <1>7, <1>8, SeqEqual
<1> QED
  BY <1>9 DEF D, t, s

LEMMA RestType ==
  ASSUME NEW ch \in Seq(Cell), NEW da, \A i \in DOMAIN ch : da[ch[i]] \in Data,
         NEW p \in 1 .. Len(ch) + 1
  PROVE  /\ Rest(ch, da, p) \in Seq(Data)
         /\ Len(Rest(ch, da, p)) = Len(ch) + 1 - p
         /\ \A i \in 1 .. Len(ch) + 1 - p : Rest(ch, da, p)[i] = da[ch[p - 1 + i]]
<1>1. Len(ch) \in Nat /\ DOMAIN ch = 1 .. Len(ch)
  OBVIOUS
<1>2. \A i \in 1 .. Len(ch) + 1 - p : p - 1 + i \in DOMAIN ch
  BY <1>1
<1>3. Len(ch) + 1 - p \in Nat
  BY <1>1
<1> QED
  BY <1>2, <1>3 DEF Rest

LEMMA RestFirst ==
  ASSUME NEW ch \in Seq(Cell), NEW da
  PROVE  Rest(ch, da, 1) = Items(ch, da)
<1>1. Len(ch) \in Nat /\ DOMAIN ch = 1 .. Len(ch)
  OBVIOUS
<1>2. 1 .. Len(ch) + 1 - 1 = 1 .. Len(ch)
  BY <1>1
<1>3. \A i \in 1 .. Len(ch) : 1 - 1 + i = i
  BY <1>1
<1> QED
  BY <1>1, <1>2, <1>3 DEF Rest, Items

LEMMA RestTail ==
  ASSUME NEW ch \in Seq(Cell), NEW da, \A i \in DOMAIN ch : da[ch[i]] \in Data,
         NEW p \in DOMAIN ch
  PROVE  /\ Rest(ch, da, p) # <<>>
         /\ Head(Rest(ch, da, p)) = da[ch[p]]
         /\ Tail(Rest(ch, da, p)) = Rest(ch, da, p + 1)
<1> DEFINE s == Rest(ch, da, p)
           t == Rest(ch, da, p + 1)
           m == Len(ch) + 1 - p
<1>1. /\ Len(ch) \in Nat /\ DOMAIN ch = 1 .. Len(ch)
      /\ p \in 1 .. Len(ch) + 1 /\ p + 1 \in 1 .. Len(ch) + 1
      /\ m \in Nat /\ m >= 1 /\ Len(ch) + 1 - (p + 1) = m - 1
  OBVIOUS
<1>2. /\ s \in Seq(Data) /\ Len(s) = m
      /\ \A i \in 1 .. m : s[i] = da[ch[p - 1 + i]]
  BY <1>1, RestType
<1>3. /\ t \in Seq(Data) /\ Len(t) = m - 1
      /\ \A i \in 1 .. m - 1 : t[i] = da[ch[p + 1 - 1 + i]]
  <2> DEFINE q == p + 1
  <2>1. q \in 1 .. Len(ch) + 1
    BY <1>1
  <2> HIDE DEF q
  <2>2. /\ Rest(ch, da, q) \in Seq(Data) /\ Len(Rest(ch, da, q)) = Len(ch) + 1 - q
        /\ \A i \in 1 .. Len(ch) + 1 - q : Rest(ch, da, q)[i] = da[ch[q - 1 + i]]
    BY <2>1, RestType
  <2>3. Len(ch) + 1 - q = m - 1 /\ q = p + 1 /\ t = Rest(ch, da, q)
    BY <1>1 DEF q
  <2> HIDE DEF t, m
  <2> QED
    BY <2>2, <2>3
<1>4. p - 1 + 1 = p
  BY <1>1
<1> HIDE DEF s, t, m
<1>5. s # <<>> /\ Head(s) = da[ch[p]]
  BY <1>1, <1>2, <1>4
<1>6. /\ Tail(s) \in Seq(Data) /\ Len(Tail(s)) = m - 1
      /\ \A i \in 1 .. m - 1 : Tail(s)[i] = s[i + 1]
  BY <1>1, <1>2, <1>5
<1>7. ASSUME NEW i \in 1 .. m - 1
      PROVE  Tail(s)[i] = t[i]
  <2>1. i + 1 \in 1 .. m /\ p - 1 + (i + 1) = p + 1 - 1 + i
    BY <1>1
  <2> QED
    BY <1>2, <1>3, <1>6, <2>1
<1>8. Tail(s) = t
  BY <1>3, <1>6, <1>7, SeqEqual
<1> QED
  BY <1>5, <1>8 DEF s, t

\* What lies from place p on does not change when a node before it is taken out.
LEMMA RestLessened ==
  ASSUME NEW ch \in Seq(Cell), Distinct(ch), NEW q \in DOMAIN ch,
         NEW p \in 1 .. Len(ch) + 1, q < p, NEW da, NEW db,
         \A i \in DOMAIN ch : da[ch[i]] \in Data,
         \A i \in DOMAIN ch : i # q => db[ch[i]] = da[ch[i]]
  PROVE  Rest(RemoveAt(ch, q), db, p - 1) = Rest(ch, da, p)
<1> DEFINE D == RemoveAt(ch, q)
           m == Len(ch) + 1 - p
<1>1. LessenedAt(D, ch, q)
  BY Lessened
<1>2. /\ Len(ch) \in Nat /\ DOMAIN ch = 1 .. Len(ch)
      /\ q \in Int /\ p \in Int
  OBVIOUS
<1> HIDE DEF D
<1>3. /\ Len(D) = Len(ch) - 1
      /\ \A i \in q .. Len(ch) - 1 : D[i] = ch[i + 1]
  BY <1>1 DEF LessenedAt
<1>4. Len(D) + 1 - (p - 1) = m
  BY <1>2, <1>3
<1>5. ASSUME NEW i \in 1 .. m
      PROVE  db[D[p - 1 - 1 + i]] = da[ch[p - 1 + i]]
  <2>1. /\ p - 1 - 1 + i \in q .. Len(ch) - 1 /\ (p - 1 - 1 + i) + 1 = p - 1 + i
        /\ p - 1 + i \in 1 .. Len(ch) /\ p - 1 + i # q
    BY <1>2
  <2> QED
    BY <1>2, <1>3, <2>1
<1>6. /\ Rest(D, db, p - 1) = [i \in 1 .. m |-> db[D[p - 1 - 1 + i]]]
      /\ Rest(ch, da, p) = [i \in 1 .. m |-> da[ch[p - 1 + i]]]
  BY <1>4 DEF Rest
<1> HIDE DEF m
<1> QED
  BY <1>5, <1>6 DEF D

-----------------------------------------------------------------------------
(* What an insertion and a detachment do to a list.                        *)

LEMMA PositionIs ==
  ASSUME chain \in Seq(Cell), Distinct(chain), NEW p \in DOMAIN chain
  PROVE  Position(chain[p]) = p
BY DEF Position, Distinct

\* The nodes next to the sentinels.
LEMMA Ends ==
  ASSUME FieldsOK, Whole
  PROVE  /\ Len(chain) \in Nat /\ DOMAIN chain = 1 .. Len(chain)
         /\ next[head] = Nth(chain, 1) /\ prev[Nth(chain, 1)] = head
         /\ prev[tail] = Nth(chain, Len(chain))
         /\ Nth(chain, 1) = tail <=> Len(chain) = 0
         /\ Nth(chain, Len(chain)) = head <=> Len(chain) = 0
         /\ Nth(chain, 1) \in Node /\ Nth(chain, Len(chain)) \in Node
<1>1. chain \in Seq(Cell) /\ Distinct(chain) /\ Forward(next, chain) /\ Backward(prev, chain)
  BY DEF FieldsOK, Whole
<1>2. /\ Len(chain) \in Nat /\ DOMAIN chain = 1 .. Len(chain)
      /\ Nth(chain, 0) = head /\ Nth(chain, Len(chain) + 1) = tail
      /\ \A i \in Places(chain) : Nth(chain, i) \in Node
  BY <1>1, NthType
<1>3. /\ {0, 1, Len(chain), Len(chain) + 1} \subseteq Places(chain)
      /\ 0 \in 0 .. Len(chain) /\ Len(chain) \in 0 .. Len(chain) /\ 0 + 1 = 1
  BY <1>2 DEF Places
<1>4. \A i, j \in Places(chain) : Nth(chain, i) = Nth(chain, j) => i = j
  BY <1>1, NthDistinct
<1>5. next[head] = Nth(chain, 1) /\ prev[Nth(chain, 1)] = head
  BY <1>1, <1>2, <1>3 DEF Forward, Backward
<1>6. prev[tail] = Nth(chain, Len(chain))
  BY <1>1, <1>2, <1>3 DEF Backward
<1>7. Nth(chain, 1) = tail <=> Len(chain) = 0
  BY <1>2, <1>3, <1>4
<1>8. Nth(chain, Len(chain)) = head <=> Len(chain) = 0
  BY <1>2, <1>3, <1>4
<1> QED
  BY <1>2, <1>3, <1>5, <1>6, <1>7, <1>8

\* A new node, as far as it is linked.
LEMMA InsertStep ==
  ASSUME FieldsOK, Whole, NEW n \in Cell, NEW d \in Data, NEW k \in 0 .. 4, Insert(n, d, k)
  PROVE  /\ FieldsOK'
         /\ Forward(next', chain') /\ prev'[Nth(chain', 1)] = head /\ Distinct(chain')
         /\ Cells(chain') \subseteq allocated' /\ allocated' \subseteq Cells(chain') \cup {n}
         /\ Items(chain', data') = IF k >= 3 THEN <<d>> \o Items(chain, data)
                                             ELSE Items(chain, data)
         /\ k = 4 => Whole'
<1>1. /\ chain \in Seq(Cell) /\ next \in Pointers /\ prev \in Pointers
      /\ data \in Contents /\ allocated \in SUBSET Cell
      /\ Distinct(chain) /\ Forward(next, chain) /\ Backward(prev, chain)
      /\ allocated = Cells(chain)
  BY DEF FieldsOK, Whole
<1>2. /\ n \notin Cells(chain) /\ d \in Linkable
      /\ ll_insert_node_between(head, n, next[head], k)
      /\ data' = [data EXCEPT ![n] = d]
      /\ allocated' = allocated \cup {n}
      /\ chain' = IF k >= 3 THEN <<n>> \o chain ELSE chain
  BY <1>1 DEF Insert
<1>3. /\ next' \in Pointers /\ prev' \in Pointers
      /\ LinkedSoFar(next, prev, chain, next', prev', chain', n, k)
  <2>1. Inserting(next, prev, chain, next', prev', chain', n, k)
    BY <1>2 DEF ll_insert_node_between, Inserting
  <2> QED
    BY <1>1, <1>2, <2>1, Linking
<1>4. /\ Forward(next', chain') /\ prev'[Nth(chain', 1)] = head
      /\ k = 4 => Backward(prev', chain')
  BY <1>1, <1>2, <1>3, LinkingSteps
<1>5. /\ data' \in Contents /\ data'[n] = d
      /\ \A a \in Node : a # n => data'[a] = data[a]
  BY <1>1, <1>2 DEF Contents, Node
<1>6. /\ allocated' \in SUBSET Cell
      /\ \A a \in allocated' : data'[a] \in Data
      /\ \A a, b \in allocated' : data'[a] = data'[b] => a = b
  <2>1. allocated' \in SUBSET Cell
    BY <1>1, <1>2
  <2>2. /\ \A a \in allocated : data[a] \in Data /\ data[a] # d
        /\ \A a, b \in allocated : data[a] = data[b] => a = b
    BY <1>2 DEF Whole, Linkable
  <2>3. \A a \in allocated' : a = n \/ (a \in allocated /\ a # n /\ data'[a] = data[a])
    BY <1>1, <1>2, <1>5 DEF Node
  <2> QED
    BY <1>5, <2>1, <2>2, <2>3
<1>7. CASE k < 3
  <2>1. chain' = chain
    BY <1>2, <1>7
  <2>2. Items(chain', data') = Items(chain, data)
    <3>1. \A i \in DOMAIN chain : chain[i] \in Node /\ chain[i] # n
      BY <1>1, <1>2, NthType DEF Cells
    <3>2. \A i \in DOMAIN chain : data[chain[i]] = data'[chain[i]]
      BY <1>5, <3>1
    <3> QED
      BY <1>1, <1>5, <2>1, <3>2, ItemsAgree
  <2>3. /\ Cells(chain') \subseteq allocated' /\ allocated' \subseteq Cells(chain') \cup {n}
        /\ chain' \in Seq(Cell) /\ Distinct(chain')
    BY <1>1, <1>2, <2>1
  <2>4. ~ (k >= 3) /\ k # 4
    BY <1>7
  <2> QED
    BY <1>3, <1>4, <1>5, <1>6, <2>2, <2>3, <2>4 DEF FieldsOK
<1>8. CASE k >= 3
  <2>1. chain' = <<n>> \o chain
    BY <1>2, <1>8
  <2>2. GrownBy(chain', chain, n)
    BY <1>1, <1>2, <2>1, Grown
  <2>3. chain' \in Seq(Cell) /\ Distinct(chain') /\ Cells(chain') = allocated'
    BY <1>1, <1>2, <2>2 DEF GrownBy
  <2>4. Items(chain', data') = <<d>> \o Items(chain, data)
    <3>1. Items(<<n>> \o chain, data') = <<data'[n]>> \o Items(chain, data)
      BY <1>1, <1>2, <1>5, ItemsGrown
    <3> QED
      BY <1>5, <2>1, <3>1
  <2>5. FieldsOK'
    BY <1>3, <1>5, <1>6, <2>3 DEF FieldsOK
  <2>6. k = 4 => Whole'
    BY <1>4, <1>6, <2>3 DEF Whole
  <2> QED
    BY <1>4, <1>8, <2>3, <2>4, <2>5, <2>6
<1> QED
  BY <1>7, <1>8

\* The node at place p, as far as it is detached.
LEMMA DetachStep ==
  ASSUME FieldsOK, Leading, NEW p \in DOMAIN chain, prev[chain[p]] = Nth(chain, p - 1),
         NEW k \in 0 .. 4, ll_dettach_node(chain[p], k),
         chain' = IF k >= 2 THEN RemoveAt(chain, Position(chain[p])) ELSE chain
  PROVE  /\ next' \in Pointers /\ prev' \in Pointers /\ chain' \in Seq(Cell)
         /\ Leading'
         /\ k = 4 /\ Backward(prev, chain) => Backward(prev', chain')
         /\ chain' = IF k >= 2 THEN RemoveAt(chain, p) ELSE chain
         /\ Cells(chain') = IF k >= 2 THEN Cells(chain) \ {chain[p]} ELSE Cells(chain)
<1>1. /\ chain \in Seq(Cell) /\ next \in Pointers /\ prev \in Pointers
      /\ Distinct(chain) /\ Forward(next, chain) /\ prev[Nth(chain, 1)] = head
  BY DEF FieldsOK, Leading
<1>2. chain' = IF k >= 2 THEN RemoveAt(chain, p) ELSE chain
  BY <1>1, PositionIs
<1>3. /\ next' \in Pointers /\ prev' \in Pointers
      /\ DetachedSoFar(next, prev, chain, next', prev', chain', p, k)
  <2>1. Detached(next, prev, chain, next', prev', chain', p, k)
    BY <1>2 DEF ll_dettach_node, Detached
  <2> QED
    BY <1>1, <2>1, DetachingPointers
<1>4. /\ Forward(next', chain') /\ prev'[Nth(chain', 1)] = head
      /\ k = 4 /\ Backward(prev, chain) => Backward(prev', chain')
  BY <1>1, <1>3, DetachingSteps
<1>5. /\ chain' \in Seq(Cell) /\ Distinct(chain')
      /\ Cells(chain') = IF k >= 2 THEN Cells(chain) \ {chain[p]} ELSE Cells(chain)
  <2>1. LessenedAt(RemoveAt(chain, p), chain, p)
    BY <1>1, Lessened
  <2> QED
    BY <1>1, <1>2, <2>1 DEF LessenedAt
<1> QED
  BY <1>2, <1>3, <1>4, <1>5 DEF Leading

\* The node at place p is detached and freed.
LEMMA DeleteStep ==
  ASSUME FieldsOK, Leading, NEW p \in DOMAIN chain, prev[chain[p]] = Nth(chain, p - 1),
         Delete(chain[p])
  PROVE  /\ FieldsOK' /\ Leading'
         /\ Backward(prev, chain) => Backward(prev', chain')
         /\ chain' = RemoveAt(chain, p)
         /\ Cells(chain') = Cells(chain) \ {chain[p]}
         /\ allocated' = allocated \ {chain[p]}
         /\ \A a \in Node : a # chain[p] => data'[a] = data[a]
         /\ Items(chain', data') = RemoveAt(Items(chain, data), p)
<1>1. /\ chain \in Seq(Cell) /\ data \in Contents /\ allocated \in SUBSET Cell
      /\ Distinct(chain)
  BY DEF FieldsOK, Leading
<1>2. /\ ll_dettach_node(chain[p], 4)
      /\ data' = [data EXCEPT ![chain[p]] = NULL]
      /\ allocated' = allocated \ {chain[p]}
      /\ chain' = RemoveAt(chain, Position(chain[p]))
  BY DEF Delete
<1>3. 4 \in 0 .. 4 /\ 4 >= 2
  OBVIOUS
<1>4. chain' = IF 4 >= 2 THEN RemoveAt(chain, Position(chain[p])) ELSE chain
  BY <1>2, <1>3
<1>5. /\ next' \in Pointers /\ prev' \in Pointers /\ chain' \in Seq(Cell)
      /\ Leading'
      /\ 4 = 4 /\ Backward(prev, chain) => Backward(prev', chain')
      /\ chain' = IF 4 >= 2 THEN RemoveAt(chain, p) ELSE chain
      /\ Cells(chain') = IF 4 >= 2 THEN Cells(chain) \ {chain[p]} ELSE Cells(chain)
  BY <1>2, <1>3, <1>4, DetachStep
<1>6. /\ chain' = RemoveAt(chain, p)
      /\ Cells(chain') = Cells(chain) \ {chain[p]}
      /\ Backward(prev, chain) => Backward(prev', chain')
  BY <1>3, <1>5
<1>7. data' \in Contents /\ \A a \in Node : a # chain[p] => data'[a] = data[a]
  BY <1>1, <1>2 DEF Contents
<1>8. Items(chain', data') = RemoveAt(Items(chain, data), p)
  BY <1>1, <1>6, <1>7, ItemsLessened
<1>9. FieldsOK'
  BY <1>1, <1>2, <1>5, <1>7 DEF FieldsOK
<1> QED
  BY <1>2, <1>5, <1>6, <1>7, <1>8, <1>9

\* A deletion leaves the list whole.
LEMMA DeleteKeepsWhole ==
  ASSUME FieldsOK, Whole, NEW p \in DOMAIN chain, Delete(chain[p])
  PROVE  /\ FieldsOK' /\ Whole'
         /\ chain' = RemoveAt(chain, p)
         /\ allocated' = allocated \ {chain[p]}
         /\ \A a \in Node : a # chain[p] => data'[a] = data[a]
         /\ Items(chain', data') = RemoveAt(Items(chain, data), p)
<1>1. chain \in Seq(Cell) /\ Distinct(chain) /\ Backward(prev, chain)
  BY DEF FieldsOK, Whole
<1>2. Leading
  BY Ends DEF Whole, Leading
<1>3. prev[chain[p]] = Nth(chain, p - 1)
  <2>1. p - 1 \in 0 .. Len(chain) /\ (p - 1) + 1 = p /\ Nth(chain, p) = chain[p]
    BY <1>1, Around
  <2> QED
    BY <1>1, <2>1 DEF Backward
<1>4. /\ FieldsOK' /\ Leading'
      /\ Backward(prev, chain) => Backward(prev', chain')
      /\ chain' = RemoveAt(chain, p)
      /\ Cells(chain') = Cells(chain) \ {chain[p]}
      /\ allocated' = allocated \ {chain[p]}
      /\ \A a \in Node : a # chain[p] => data'[a] = data[a]
      /\ Items(chain', data') = RemoveAt(Items(chain, data), p)
  BY <1>2, <1>3, DeleteStep
<1>5. /\ allocated' = Cells(chain')
      /\ \A a \in allocated' : data'[a] \in Data
      /\ \A a, b \in allocated' : data'[a] = data'[b] => a = b
  <2>1. \A a \in allocated' : a \in allocated /\ data'[a] = data[a]
    BY <1>4 DEF FieldsOK, Node
  <2> QED
    BY <1>4, <2>1 DEF Whole
<1> QED
  BY <1>1, <1>4, <1>5 DEF Whole, Leading

-----------------------------------------------------------------------------
(* The inductive invariant.                                                *)

LEMMA WholeLeads ==
  ASSUME FieldsOK, Whole
  PROVE  Leading /\ allocated = Cells(chain)
BY Ends DEF Whole, Leading

\* What stands at a place behind head.
LEMMA AtPlace ==
  ASSUME FieldsOK, Leading, NEW p \in 1 .. Len(chain) + 1
  PROVE  /\ Nth(chain, p) \in Node /\ Nth(chain, p) \in Cells(chain) \cup {tail}
         /\ Nth(chain, p) = tail => p = Len(chain) + 1
         /\ Nth(chain, p) # tail => /\ p \in DOMAIN chain /\ p + 1 \in 1 .. Len(chain) + 1
                                   /\ Nth(chain, p) = chain[p] /\ chain[p] \in Cell
                                   /\ next[chain[p]] = Nth(chain, p + 1)
<1>1. chain \in Seq(Cell) /\ Distinct(chain) /\ Forward(next, chain)
  BY DEF FieldsOK, Leading
<1>2. /\ Len(chain) \in Nat /\ DOMAIN chain = 1 .. Len(chain)
      /\ Nth(chain, Len(chain) + 1) = tail
      /\ \A i \in DOMAIN chain : Nth(chain, i) = chain[i] /\ chain[i] \in Cell
      /\ tail \notin Cell /\ Cell \subseteq Node
  BY <1>1, NthType
<1>3. p = Len(chain) + 1 \/ (p \in DOMAIN chain /\ p \in 0 .. Len(chain))
  BY <1>2
<1>4. ASSUME p \in DOMAIN chain, p \in 0 .. Len(chain)
      PROVE  /\ Nth(chain, p) = chain[p] /\ chain[p] \in Cell /\ chain[p] \in Cells(chain)
             /\ Nth(chain, p) # tail /\ next[chain[p]] = Nth(chain, p + 1)
             /\ p + 1 \in 1 .. Len(chain) + 1
  BY <1>1, <1>2, <1>4 DEF Forward, Cells
<1>5. ASSUME p = Len(chain) + 1
      PROVE  Nth(chain, p) = tail /\ tail \in Node
  BY <1>2, <1>5 DEF Node
<1> QED
  BY <1>2, <1>3, <1>4, <1>5

LEMMA FieldsSame ==
  ASSUME UNCHANGED fields
  PROVE  /\ FieldsOK => FieldsOK'
         /\ Whole => Whole'
         /\ Leading => Leading'
BY DEF fields, FieldsOK, Whole, Leading

LEMMA AddKeepsInv ==
  ASSUME ListInv, NEW n \in Cell, NEW d \in Data, ll_add_node(n, d)
  PROVE  ListInv'
<1>1. /\ FieldsOK /\ LoopOK /\ WalkerOK /\ ResultOK /\ Whole /\ Iterating
      /\ op = "none" /\ current = NULL
  BY DEF ListInv, ll_add_node, Insert, Idle, Gone
<1>2. /\ Insert(n, d, 4) /\ Returns("add", {d}, NULL)
      /\ op' = op /\ match' = match /\ tmp' = tmp /\ handler' = handler
      /\ current' = current /\ served' = served /\ todo' = todo
  BY DEF ll_add_node, loop, walker
<1>3. FieldsOK' /\ Whole'
  <2>1. 4 \in 0 .. 4
    OBVIOUS
  <2>2. FieldsOK' /\ (4 = 4 => Whole')
    BY <1>1, <1>2, <2>1, InsertStep
  <2> QED
    BY <2>2
<1>4. LoopOK' /\ WalkerOK'
  BY <1>1, <1>2 DEF LoopOK, WalkerOK
<1>5. ResultOK'
  BY <1>2 DEF Returns, ResultOK
<1>6. Iterating'
  BY <1>1, <1>2 DEF Iterating
<1> QED
  BY <1>1, <1>2, <1>3, <1>4, <1>5, <1>6 DEF ListInv, Gone

LEMMA PopKeepsInv ==
  ASSUME ListInv, ll_pop_node
  PROVE  ListInv'
<1>1. /\ FieldsOK /\ LoopOK /\ WalkerOK /\ ResultOK /\ Whole /\ Iterating
      /\ op = "none" /\ current = NULL
  BY DEF ListInv, ll_pop_node, Idle, Gone
<1>2. /\ Delete(prev[tail]) /\ Returns("pop", {}, data[prev[tail]]) /\ prev[tail] # head
      /\ op' = op /\ match' = match /\ tmp' = tmp /\ handler' = handler
      /\ current' = current /\ served' = served /\ todo' = todo
  BY DEF ll_pop_node, loop, walker
<1>3. Len(chain) \in DOMAIN chain /\ prev[tail] = chain[Len(chain)]
  <2>1. /\ Len(chain) \in Nat /\ DOMAIN chain = 1 .. Len(chain)
        /\ prev[tail] = Nth(chain, Len(chain))
        /\ Nth(chain, Len(chain)) = head <=> Len(chain) = 0
    BY <1>1, Ends
  <2>2. Len(chain) \in DOMAIN chain
    BY <1>2, <2>1
  <2>3. chain \in Seq(Cell)
    BY <1>1 DEF FieldsOK
  <2> QED
    BY <2>1, <2>2, <2>3, NthType
<1>4. FieldsOK' /\ Whole'
  BY <1>1, <1>2, <1>3, DeleteKeepsWhole
<1>5. LoopOK' /\ WalkerOK'
  BY <1>1, <1>2 DEF LoopOK, WalkerOK
<1>6. ResultOK'
  <2>1. prev[tail] \in Node /\ data[prev[tail]] \in Data \cup {NULL}
    BY <1>1, <1>3 DEF FieldsOK, Contents, Node
  <2> QED
    BY <1>2, <2>1 DEF Returns, ResultOK
<1>7. Iterating'
  BY <1>1, <1>2 DEF Iterating
<1> QED
  BY <1>1, <1>2, <1>4, <1>5, <1>6, <1>7 DEF ListInv, Gone

LEMMA PopEmptyKeepsInv ==
  ASSUME ListInv, PopEmpty
  PROVE  ListInv'
<1>1. /\ FieldsOK /\ LoopOK /\ WalkerOK /\ ResultOK
      /\ UNCHANGED fields /\ match' = match /\ tmp' = tmp /\ handler' = handler
      /\ current' = current /\ served' = served /\ todo' = todo /\ result' = result
      /\ op' = "crashed"
  BY DEF ListInv, PopEmpty, fields, walker
<1>2. FieldsOK' /\ LoopOK' /\ WalkerOK' /\ ResultOK'
  BY <1>1, FieldsSame DEF LoopOK, WalkerOK, ResultOK
<1> QED
  BY <1>1, <1>2 DEF ListInv, Gone

LEMMA PeekKeepsInv ==
  ASSUME ListInv, ll_peek
  PROVE  ListInv'
<1>1. /\ FieldsOK /\ LoopOK /\ WalkerOK /\ ResultOK /\ Whole /\ Iterating
      /\ op = "none"
  BY DEF ListInv, ll_peek, Idle, Gone
<1>2. /\ Returns("peek", {}, IF next[head] # tail THEN data[prev[tail]] ELSE NULL)
      /\ UNCHANGED fields
      /\ op' = op /\ match' = match /\ tmp' = tmp /\ handler' = handler
      /\ current' = current /\ served' = served /\ todo' = todo
  BY DEF ll_peek, loop, walker, fields
<1>3. FieldsOK' /\ Whole' /\ LoopOK' /\ WalkerOK'
  BY <1>1, <1>2, FieldsSame DEF LoopOK, WalkerOK
<1>4. ResultOK'
  <2>1. prev[tail] \in Node
    BY <1>1, Ends
  <2>2. data[prev[tail]] \in Data \cup {NULL}
    BY <1>1, <2>1 DEF FieldsOK, Contents
  <2> QED
    BY <1>2, <2>2 DEF Returns, ResultOK
<1>5. Iterating'
  <2>1. current = NULL /\ served = NULL
    BY <1>1 DEF ll_peek, Idle, Iterating
  <2> QED
    BY <1>1, <1>2, <2>1 DEF Iterating
<1> QED
  BY <1>1, <1>2, <1>3, <1>4, <1>5 DEF ListInv, Gone

\* Before a loop looks at the first node there is nothing it passed.
LEMMA StartSearches ==
  ASSUME FieldsOK, Whole, UNCHANGED fields, tmp' = next[head]
  PROVE  Searching' /\ tmp' \in Node
<1>1. next[head] = Nth(chain, 1) /\ Len(chain) \in Nat /\ Nth(chain, 1) \in Node
  BY Ends
<1>2. 1 \in 1 .. Len(chain) + 1 /\ 1 .. 1 - 1 = {}
  BY <1>1
<1>3. chain' = chain
  BY DEF fields
<1> QED
  BY <1>1, <1>2, <1>3 DEF Searching

LEMMA FindKeepsInv ==
  ASSUME ListInv, NEW M \in SUBSET Data, ll_find_by_matching_data(M)
  PROVE  ListInv'
<1>1. /\ FieldsOK /\ LoopOK /\ WalkerOK /\ ResultOK /\ Whole /\ Iterating
      /\ current = NULL
  BY DEF ListInv, ll_find_by_matching_data, Idle, Gone
<1>2. /\ op' = "find" /\ match' = M /\ tmp' = next[head] /\ handler' = handler
      /\ UNCHANGED fields /\ result' = result
      /\ current' = current /\ served' = served /\ todo' = todo
  BY DEF ll_find_by_matching_data, Start, fields, walker
<1>3. Searching' /\ tmp' \in Node
  BY <1>1, <1>2, StartSearches
<1>4. FieldsOK' /\ Whole' /\ LoopOK' /\ WalkerOK' /\ ResultOK'
  BY <1>1, <1>2, <1>3, FieldsSame DEF LoopOK, WalkerOK, ResultOK
<1>5. Iterating'
  BY <1>1, <1>2 DEF Iterating
<1> QED
  BY <1>2, <1>3, <1>4, <1>5 DEF ListInv, Gone

LEMMA TakeKeepsInv ==
  ASSUME ListInv, NEW M \in SUBSET Data, ll_pop_on_match(M)
  PROVE  ListInv'
<1>1. /\ FieldsOK /\ LoopOK /\ WalkerOK /\ ResultOK /\ Whole /\ Iterating
      /\ current # NULL => served # NULL /\ M = {served}
  BY DEF ListInv, ll_pop_on_match, Gone
<1>2. /\ op' = "take" /\ match' = M /\ tmp' = next[head] /\ handler' = handler
      /\ UNCHANGED fields /\ result' = result
      /\ current' = current /\ served' = served /\ todo' = todo
  BY DEF ll_pop_on_match, Start, fields, walker
<1>3. Searching' /\ tmp' \in Node
  BY <1>1, <1>2, StartSearches
<1>4. FieldsOK' /\ Whole' /\ LoopOK' /\ WalkerOK' /\ ResultOK'
  BY <1>1, <1>2, <1>3, FieldsSame DEF LoopOK, WalkerOK, ResultOK
<1>5. Iterating'
  <2>1. Walking => Walking'
    BY <1>2 DEF Walking, fields
  <2> QED
    BY <1>1, <1>2, <2>1 DEF Iterating
<1> QED
  BY <1>2, <1>3, <1>4, <1>5 DEF ListInv, Gone

LEMMA SkipKeepsInv ==
  ASSUME ListInv, Skip
  PROVE  ListInv'
<1>1. /\ FieldsOK /\ LoopOK /\ WalkerOK /\ ResultOK /\ Whole /\ Iterating /\ Searching
      /\ op \in {"find", "take"} /\ tmp # tail /\ data[tmp] \notin match
  BY DEF ListInv, Skip, Gone
<1>2. /\ op' = op /\ match' = match /\ tmp' = next[tmp] /\ handler' = handler
      /\ UNCHANGED fields /\ result' = result /\ chain' = chain /\ data' = data
      /\ current' = current /\ served' = served /\ todo' = todo
  BY DEF Skip, fields, walker
<1>3. PICK p \in 1 .. Len(chain) + 1 :
        tmp = Nth(chain, p) /\ \A j \in 1 .. p - 1 : data[chain[j]] \notin match
  BY <1>1 DEF Searching
<1>4. /\ Leading /\ tmp = chain[p] /\ next[chain[p]] = Nth(chain, p + 1)
      /\ p + 1 \in 1 .. Len(chain) + 1
  BY <1>1, <1>3, WholeLeads, AtPlace
<1>5. Nth(chain, p + 1) \in Node
  BY <1>1, <1>4, AtPlace
<1>6. Searching'
  <2>1. \A j \in 1 .. (p + 1) - 1 : j = p \/ j \in 1 .. p - 1
    OBVIOUS
  <2>2. \A j \in 1 .. (p + 1) - 1 : data[chain[j]] \notin match
    BY <1>1, <1>3, <1>4, <2>1
  <2> QED
    BY <1>2, <1>4, <2>2 DEF Searching
<1>7. FieldsOK' /\ Whole' /\ LoopOK' /\ WalkerOK' /\ ResultOK'
  BY <1>1, <1>2, <1>4, <1>5, FieldsSame DEF LoopOK, WalkerOK, ResultOK
<1>8. Iterating'
  <2>1. Walking => Walking'
    BY <1>2 DEF Walking
  <2> QED
    BY <1>1, <1>2, <2>1 DEF Iterating
<1> QED
  BY <1>1, <1>2, <1>6, <1>7, <1>8 DEF ListInv, Gone

LEMMA FoundKeepsInv ==
  ASSUME ListInv, Found
  PROVE  ListInv'
<1>1. /\ FieldsOK /\ LoopOK /\ WalkerOK /\ ResultOK /\ Whole /\ Iterating /\ Searching
      /\ op = "find" /\ current = NULL
  BY DEF ListInv, Found, Gone, Iterating
<1>2. /\ Returns(op, match, data[tmp]) /\ data[tmp] \in match
      /\ op' = "none" /\ match' = {} /\ tmp' = NULL /\ handler' = handler
      /\ UNCHANGED fields
      /\ current' = current /\ served' = served /\ todo' = todo
  BY DEF Found, Finish, walker, fields
<1>3. FieldsOK' /\ Whole' /\ LoopOK' /\ WalkerOK'
  BY <1>1, <1>2, FieldsSame DEF LoopOK, WalkerOK
<1>4. ResultOK'
  BY <1>1, <1>2 DEF Returns, ResultOK, LoopOK
<1>5. Iterating'
  BY <1>1, <1>2 DEF Iterating
<1> QED
  BY <1>2, <1>3, <1>4, <1>5 DEF ListInv, Gone

LEMMA MissedKeepsInv ==
  ASSUME ListInv, Missed
  PROVE  ListInv'
<1>1. /\ FieldsOK /\ LoopOK /\ WalkerOK /\ ResultOK /\ Whole /\ Iterating
      /\ op \in {"find", "take"}
  BY DEF ListInv, Missed, Gone
<1>2. /\ Returns(op, match, NULL)
      /\ op' = "none" /\ match' = {} /\ tmp' = NULL /\ handler' = handler
      /\ UNCHANGED fields /\ chain' = chain /\ data' = data
      /\ current' = current /\ served' = served /\ todo' = todo
  BY DEF Missed, Finish, walker, fields
<1>3. FieldsOK' /\ Whole' /\ LoopOK' /\ WalkerOK'
  BY <1>1, <1>2, FieldsSame DEF LoopOK, WalkerOK
<1>4. ResultOK'
  BY <1>1, <1>2 DEF Returns, ResultOK, LoopOK
<1>5. Iterating'
  <2>1. Walking => Walking'
    BY <1>2 DEF Walking
  <2> QED
    BY <1>1, <1>2, <2>1 DEF Iterating
<1> QED
  BY <1>2, <1>3, <1>4, <1>5 DEF ListInv, Gone

\* What is detached while the iterator is in use lies before it.
LEMMA TakenBehindIterator ==
  ASSUME FieldsOK, Whole, Walking, NEW q \in DOMAIN chain, data[chain[q]] = served,
         Delete(chain[q]), current' = current, todo' = todo, served' = NULL
  PROVE  Walking'
<1>1. PICK p \in 1 .. Len(chain) + 1 :
        /\ current = Nth(chain, p) /\ todo = Rest(chain, data, p)
        /\ \A j \in p .. Len(chain) : data[chain[j]] # served
  BY DEF Walking
<1>2. /\ chain \in Seq(Cell) /\ Distinct(chain) /\ Len(chain) \in Nat
      /\ DOMAIN chain = 1 .. Len(chain)
      /\ \A i \in DOMAIN chain : chain[i] \in allocated /\ chain[i] \in Node
      /\ \A a \in allocated : data[a] \in Data
  <2>1. chain \in Seq(Cell) /\ Distinct(chain) /\ allocated = Cells(chain)
    BY DEF FieldsOK, Whole
  <2>2. \A a \in allocated : data[a] \in Data
    BY DEF Whole
  <2> QED
    BY <2>1, <2>2, NthType DEF Cells
<1>3. q < p /\ q \in Int /\ p \in Int
  BY <1>1, <1>2
<1>4. /\ FieldsOK' /\ Whole' /\ chain' = RemoveAt(chain, q)
      /\ \A a \in Node : a # chain[q] => data'[a] = data[a]
  BY DeleteKeepsWhole
<1>5. LessenedAt(chain', chain, q)
  BY <1>2, <1>4, Lessened
<1>6. /\ Len(chain') = Len(chain) - 1
      /\ p - 1 \in 1 .. Len(chain') + 1 /\ p - 1 \in q .. Len(chain) /\ (p - 1) + 1 = p
  BY <1>2, <1>3, <1>5 DEF LessenedAt
<1>7. current' = Nth(chain', p - 1)
  BY <1>1, <1>5, <1>6 DEF LessenedAt
<1>8. todo' = Rest(chain', data', p - 1)
  <2>1. \A i \in DOMAIN chain : data[chain[i]] \in Data
    BY <1>2
  <2>2. \A i \in DOMAIN chain : i # q => data'[chain[i]] = data[chain[i]]
    BY <1>2, <1>4 DEF Distinct
  <2>3. Rest(RemoveAt(chain, q), data', p - 1) = Rest(chain, data, p)
    BY <1>2, <1>3, <2>1, <2>2, RestLessened
  <2> QED
    BY <1>1, <1>4, <2>3
<1>9. \A j \in p - 1 .. Len(chain') : data'[chain'[j]] # served'
  <2>1. chain' \in Seq(Cell) /\ Whole'
    BY <1>4 DEF FieldsOK
  <2>2. \A j \in DOMAIN chain' : data'[chain'[j]] \in Data
    BY <2>1 DEF Whole, Cells
  <2>3. \A j \in p - 1 .. Len(chain') : j \in DOMAIN chain'
    BY <1>3, <1>6, <2>1
  <2> QED
    BY <2>2, <2>3, ListAssumption
<1> QED
  BY <1>6, <1>7, <1>8, <1>9 DEF Walking

LEMMA TakenKeepsInv ==
  ASSUME ListInv, Taken
  PROVE  ListInv'
<1>1. /\ FieldsOK /\ LoopOK /\ WalkerOK /\ ResultOK /\ Whole /\ Iterating /\ Searching
      /\ op = "take"
      /\ current # NULL => Walking /\ match = {served}
  BY DEF ListInv, Taken, Gone, Iterating
<1>2. /\ Returns(op, match, data[tmp]) /\ data[tmp] \in match /\ tmp # tail
      /\ op' = "none" /\ match' = {} /\ tmp' = NULL /\ handler' = handler
      /\ Delete(tmp) /\ served' = NULL
      /\ current' = current /\ todo' = todo
  BY DEF Taken, Finish
<1>3. PICK q \in 1 .. Len(chain) + 1 : tmp = Nth(chain, q)
  BY <1>1 DEF Searching
<1>4. q \in DOMAIN chain /\ tmp = chain[q]
  BY <1>1, <1>2, <1>3, WholeLeads, AtPlace
<1>5. FieldsOK' /\ Whole'
  BY <1>1, <1>2, <1>4, DeleteKeepsWhole
<1>6. LoopOK' /\ WalkerOK'
  BY <1>1, <1>2 DEF LoopOK, WalkerOK
<1>7. ResultOK'
  BY <1>1, <1>2 DEF Returns, ResultOK, LoopOK
<1>8. Iterating'
  <2>1. ASSUME current # NULL
        PROVE  Walking'
    BY <1>1, <1>2, <1>4, <2>1, TakenBehindIterator
  <2> QED
    BY <1>2, <2>1 DEF Iterating
<1> QED
  BY <1>2, <1>5, <1>6, <1>7, <1>8 DEF ListInv, Gone

LEMMA FreeKeepsInv ==
  ASSUME ListInv, ll_free_linked_list
  PROVE  ListInv'
<1>1. FieldsOK /\ LoopOK /\ WalkerOK /\ ResultOK /\ Whole
  BY DEF ListInv, ll_free_linked_list, Gone
<1>2. /\ op' = "free" /\ match' = Data /\ tmp' = next[head] /\ handler' = handler
      /\ UNCHANGED fields /\ result' = result
      /\ current' = current /\ served' = served /\ todo' = todo
      /\ next' = next /\ chain' = chain /\ allocated' = allocated
  BY DEF ll_free_linked_list, Start, fields, walker
<1>3. next[head] \in Node /\ Leading /\ allocated = Cells(chain)
  BY <1>1, Ends, WholeLeads
<1>4. FieldsOK' /\ LoopOK' /\ WalkerOK' /\ ResultOK' /\ Leading'
  BY <1>1, <1>2, <1>3, FieldsSame DEF LoopOK, WalkerOK, ResultOK
<1>5. Doomed'
  <2>1. \E x \in Node : allocated' \subseteq Cells(chain') \cup {x}
    BY <1>2, <1>3
  <2> QED
    BY <1>2, <1>3, <1>4, <2>1 DEF Doomed
<1> QED
  BY <1>2, <1>4, <1>5 DEF ListInv, Gone

\* A destruction frees the first node of a list that leads.
LEMMA DoomedFirst ==
  ASSUME FieldsOK, Doomed, tmp # tail
  PROVE  /\ 1 \in DOMAIN chain /\ tmp = chain[1]
         /\ prev[chain[1]] = head /\ Nth(chain, 0) = head /\ 1 - 1 = 0
         /\ next[tmp] = Nth(chain, 2) /\ Nth(chain, 2) \in Node
         /\ Nth(chain, 2) \in Cells(chain) \cup {tail}
<1>1. chain \in Seq(Cell) /\ Leading /\ tmp = next[head]
  BY DEF FieldsOK, Doomed
<1>2. Len(chain) \in Nat /\ Nth(chain, 0) = head
  BY <1>1, NthType
<1>3. 1 \in 1 .. Len(chain) + 1 /\ 0 \in 0 .. Len(chain) /\ 0 + 1 = 1
  BY <1>2
<1>4. tmp = Nth(chain, 1)
  BY <1>1, <1>2, <1>3 DEF Leading, Forward
<1>5. /\ 1 \in DOMAIN chain /\ tmp = chain[1] /\ 1 + 1 \in 1 .. Len(chain) + 1
      /\ next[chain[1]] = Nth(chain, 1 + 1)
  BY <1>1, <1>3, <1>4, AtPlace
<1>6. Nth(chain, 1 + 1) \in Node /\ Nth(chain, 1 + 1) \in Cells(chain) \cup {tail}
  BY <1>1, <1>5, AtPlace
<1>7. 1 + 1 = 2 /\ 1 - 1 = 0
  OBVIOUS
<1>8. prev[chain[1]] = head
  BY <1>1, <1>4, <1>5 DEF Leading
<1> QED
  BY <1>2, <1>5, <1>6, <1>7, <1>8

LEMMA FreeNodeKeepsInv ==
  ASSUME ListInv, FreeNode
  PROVE  ListInv'
<1>1. /\ FieldsOK /\ LoopOK /\ WalkerOK /\ ResultOK /\ Doomed
      /\ op = "free" /\ tmp # tail
  BY DEF ListInv, FreeNode
<1>2. /\ op' = op /\ match' = match /\ tmp' = next[tmp] /\ handler' = handler
      /\ Delete(tmp) /\ result' = result
      /\ current' = current /\ served' = served /\ todo' = todo
  BY DEF FreeNode, walker
<1>3. /\ 1 \in DOMAIN chain /\ tmp = chain[1]
      /\ prev[chain[1]] = Nth(chain, 1 - 1)
      /\ next[tmp] = Nth(chain, 2) /\ Nth(chain, 2) \in Node
  BY <1>1, DoomedFirst
<1>4. /\ FieldsOK' /\ Leading' /\ chain' = RemoveAt(chain, 1)
      /\ Cells(chain') = Cells(chain) \ {chain[1]}
      /\ allocated' = allocated \ {chain[1]}
  BY <1>1, <1>2, <1>3, DeleteStep DEF Doomed
<1>5. tmp' = next'[head]
  <2>1. chain \in Seq(Cell) /\ Distinct(chain) /\ chain' \in Seq(Cell) /\ Forward(next', chain')
    BY <1>1, <1>4 DEF FieldsOK, Doomed, Leading
  <2>2. LessenedAt(chain', chain, 1)
    BY <1>3, <1>4, <2>1, Lessened
  <2>3. Len(chain) \in Nat /\ DOMAIN chain = 1 .. Len(chain)
    BY <2>1
  <2>4. 1 \in 1 .. Len(chain) /\ 1 + 1 = 2
    BY <1>3, <2>3
  <2>5. Nth(chain', 1) = Nth(chain, 2)
    BY <2>2, <2>4 DEF LessenedAt
  <2>6. Nth(chain', 0) = head /\ 0 \in 0 .. Len(chain') /\ 0 + 1 = 1
    <3>1. Nth(chain', 0) = head /\ Len(chain') \in Nat
      BY <2>1, NthType
    <3> QED
      BY <3>1
  <2>7. next'[head] = Nth(chain', 1)
    BY <2>1, <2>6 DEF Forward
  <2> QED
    BY <1>2, <1>3, <2>5, <2>7
<1>6. Doomed'
  <2>1. Cells(chain') \subseteq allocated' /\ (~ handler' => allocated' = Cells(chain'))
    BY <1>1, <1>2, <1>4 DEF Doomed
  <2>2. PICK x \in Node : allocated \subseteq Cells(chain) \cup {x}
    BY <1>1 DEF Doomed
  <2>3. allocated' \subseteq Cells(chain') \cup {x}
    BY <1>4, <2>2
  <2> QED
    BY <1>4, <1>5, <2>1, <2>3 DEF Doomed
<1>7. LoopOK' /\ WalkerOK' /\ ResultOK'
  BY <1>1, <1>2, <1>3 DEF LoopOK, WalkerOK, ResultOK
<1> QED
  BY <1>1, <1>2, <1>4, <1>6, <1>7 DEF ListInv, Gone

\* When a destruction reaches tail, the list is empty.
LEMMA DoomedEnd ==
  ASSUME FieldsOK, Doomed, tmp = tail
  PROVE  Cells(chain) = {} /\ chain = <<>>
<1>1. chain \in Seq(Cell) /\ Leading /\ tmp = next[head]
  BY DEF FieldsOK, Doomed
<1>2. Len(chain) \in Nat /\ Nth(chain, 0) = head
  BY <1>1, NthType
<1>3. 1 \in 1 .. Len(chain) + 1 /\ 0 \in 0 .. Len(chain) /\ 0 + 1 = 1
  BY <1>2
<1>4. tmp = Nth(chain, 1)
  BY <1>1, <1>2, <1>3 DEF Leading, Forward
<1>5. 1 = Len(chain) + 1
  BY <1>1, <1>3, <1>4, AtPlace
<1>6. Len(chain) = 0
  BY <1>2, <1>5
<1>7. chain = <<>>
  BY <1>1, <1>6
<1> QED
  BY <1>7 DEF Cells

LEMMA FreeSentinelsKeepsInv ==
  ASSUME ListInv, FreeSentinels
  PROVE  ListInv'
<1>1. /\ FieldsOK /\ LoopOK /\ WalkerOK /\ ResultOK /\ Doomed /\ tmp = tail
  BY DEF ListInv, FreeSentinels
<1>2. /\ op' = "freed" /\ match' = match /\ tmp' = tmp /\ handler' = handler
      /\ UNCHANGED fields /\ result' = result /\ allocated' = allocated
      /\ current' = current /\ served' = served /\ todo' = todo
  BY DEF FreeSentinels, fields, walker
<1>3. FieldsOK' /\ LoopOK' /\ WalkerOK' /\ ResultOK'
  BY <1>1, <1>2, FieldsSame DEF LoopOK, WalkerOK, ResultOK
<1>4. \E x \in Node : allocated' \subseteq {x}
  <2>1. PICK x \in Node : allocated \subseteq Cells(chain) \cup {x}
    BY <1>1 DEF Doomed
  <2> QED
    BY <1>1, <1>2, <2>1, DoomedEnd
<1> QED
  BY <1>2, <1>3, <1>4 DEF ListInv, Gone

\* The handler dooms every list that leads, and loses one node at most.
LEMMA HandleDooms ==
  ASSUME LoopOK, WalkerOK, ResultOK, Handle, FieldsOK', Leading',
         Cells(chain') \subseteq allocated',
         \E x \in Node : allocated' \subseteq Cells(chain') \cup {x}
  PROVE  ListInv'
<1>1. /\ op' = "free" /\ match' = Data /\ tmp' = next'[head] /\ handler' = TRUE
      /\ current' = current /\ served' = served /\ todo' = todo /\ result' = result
  BY DEF Handle, walker
<1>2. next'[head] \in Node \cup {NULL}
  BY DEF FieldsOK, Pointers, Node
<1>3. LoopOK' /\ WalkerOK' /\ ResultOK'
  BY <1>1, <1>2 DEF LoopOK, WalkerOK, ResultOK
<1>4. Doomed'
  BY <1>1 DEF Doomed
<1> QED
  BY <1>1, <1>3, <1>4 DEF ListInv, Gone

\* What SIGINT may find: a whole list, or one that main is destroying.
LEMMA BeforeSigint ==
  ASSUME ListInv, Handle
  PROVE  /\ FieldsOK /\ LoopOK /\ WalkerOK /\ ResultOK
         /\ Leading /\ allocated = Cells(chain)
         /\ ~ Gone => Whole
         /\ op = "free" => Doomed
<1>1. /\ FieldsOK /\ LoopOK /\ WalkerOK /\ ResultOK
      /\ ~ handler /\ op \notin {"freed", "crashed"}
  BY DEF ListInv, Handle
<1>2. ~ Gone => Whole
  BY DEF ListInv
<1>3. op = "free" => Doomed
  BY DEF ListInv
<1>4. ~ Gone \/ op = "free"
  BY <1>1 DEF Gone
<1>5. Leading /\ allocated = Cells(chain)
  BY <1>1, <1>2, <1>3, <1>4, WholeLeads DEF Doomed
<1> QED
  BY <1>1, <1>2, <1>3, <1>5

LEMMA SigintKeepsInv ==
  ASSUME ListInv, Sigint
  PROVE  ListInv'
<1>1. Handle /\ UNCHANGED fields /\ allocated' = allocated /\ chain' = chain
  BY DEF Sigint, fields
<1>2. /\ FieldsOK /\ LoopOK /\ WalkerOK /\ ResultOK
      /\ Leading /\ allocated = Cells(chain)
  BY <1>1, BeforeSigint
<1>3. FieldsOK' /\ Leading'
  BY <1>1, <1>2, FieldsSame
<1>4. /\ Cells(chain') \subseteq allocated'
      /\ \E x \in Node : allocated' \subseteq Cells(chain') \cup {x}
  <2>1. head \in Node
    BY DEF Node
  <2> QED
    BY <1>1, <1>2, <2>1
<1> QED
  BY <1>1, <1>2, <1>3, <1>4, HandleDooms

LEMMA SigintInAddKeepsInv ==
  ASSUME ListInv, NEW n \in Cell, NEW d \in Data, NEW k \in 0 .. 4, SigintInAdd(n, d, k)
  PROVE  ListInv'
<1>1. Handle /\ Insert(n, d, k) /\ ~ Gone
  BY DEF SigintInAdd, Insert, Idle, Gone
<1>2. FieldsOK /\ LoopOK /\ WalkerOK /\ ResultOK /\ Whole
  BY <1>1, BeforeSigint
<1>3. /\ FieldsOK' /\ Leading'
      /\ Cells(chain') \subseteq allocated' /\ allocated' \subseteq Cells(chain') \cup {n}
  BY <1>1, <1>2, InsertStep DEF Leading
<1>4. n \in Node
  BY DEF Node
<1> QED
  BY <1>1, <1>2, <1>3, <1>4, HandleDooms

\* The node that an operation is about to detach has a place, and a node before it.
LEMMA DetachingPlace ==
  ASSUME ListInv, Handle, NEW node, Detaching(node)
  PROVE  \E p \in DOMAIN chain : node = chain[p] /\ prev[chain[p]] = Nth(chain, p - 1)
<1>1. /\ FieldsOK /\ Leading /\ chain \in Seq(Cell)
      /\ ~ Gone => Whole
      /\ op = "free" => Doomed
  BY BeforeSigint DEF FieldsOK
<1>2. ASSUME Whole, NEW p \in DOMAIN chain
      PROVE  prev[chain[p]] = Nth(chain, p - 1)
  <2>1. Distinct(chain) /\ Backward(prev, chain)
    BY <1>2 DEF Whole
  <2>2. p - 1 \in 0 .. Len(chain) /\ (p - 1) + 1 = p /\ Nth(chain, p) = chain[p]
    BY <1>1, <2>1, Around
  <2> QED
    BY <2>1, <2>2 DEF Backward
<1>3. CASE Idle /\ node = prev[tail] /\ node # head
  <2>1. Whole
    BY <1>1, <1>3 DEF Idle, Gone
  <2>2. /\ Len(chain) \in Nat /\ DOMAIN chain = 1 .. Len(chain)
        /\ prev[tail] = Nth(chain, Len(chain))
        /\ Nth(chain, Len(chain)) = head <=> Len(chain) = 0
    BY <1>1, <2>1, Ends
  <2>3. Len(chain) \in DOMAIN chain
    BY <1>3, <2>2
  <2>4. Nth(chain, Len(chain)) = chain[Len(chain)]
    BY <1>1, <2>3, NthType
  <2> QED
    BY <1>2, <1>3, <2>1, <2>2, <2>3, <2>4
<1>4. CASE op = "take" /\ tmp # tail /\ node = tmp
  <2>1. Whole /\ Searching
    BY <1>1, <1>4 DEF Gone, ListInv
  <2>2. PICK p \in 1 .. Len(chain) + 1 : tmp = Nth(chain, p)
    BY <2>1 DEF Searching
  <2>3. p \in DOMAIN chain /\ tmp = chain[p]
    BY <1>1, <1>4, <2>2, AtPlace
  <2> QED
    BY <1>2, <1>4, <2>1, <2>3
<1>5. CASE op = "free" /\ tmp # tail /\ node = tmp
  <2>1. /\ 1 \in DOMAIN chain /\ tmp = chain[1]
        /\ prev[chain[1]] = Nth(chain, 1 - 1)
    BY <1>1, <1>5, DoomedFirst
  <2> QED
    BY <1>5, <2>1
<1> QED
  BY <1>3, <1>4, <1>5 DEF Detaching

LEMMA SigintInDetachKeepsInv ==
  ASSUME ListInv, NEW n \in Cell, NEW k \in 0 .. 4, SigintInDetach(n, k)
  PROVE  ListInv'
<1>1. /\ Handle /\ Detaching(n) /\ ll_dettach_node(n, k)
      /\ chain' = IF k >= 2 THEN RemoveAt(chain, Position(n)) ELSE chain
      /\ data' = data /\ allocated' = allocated
  BY DEF SigintInDetach
<1>2. /\ FieldsOK /\ LoopOK /\ WalkerOK /\ ResultOK
      /\ Leading /\ allocated = Cells(chain)
  BY <1>1, BeforeSigint
<1>3. PICK p \in DOMAIN chain : n = chain[p] /\ prev[chain[p]] = Nth(chain, p - 1)
  BY <1>1, DetachingPlace
<1>4. /\ next' \in Pointers /\ prev' \in Pointers /\ chain' \in Seq(Cell)
      /\ Leading'
      /\ Cells(chain') = IF k >= 2 THEN Cells(chain) \ {chain[p]} ELSE Cells(chain)
  BY <1>1, <1>2, <1>3, DetachStep
<1>5. FieldsOK'
  BY <1>1, <1>2, <1>4 DEF FieldsOK
<1>6. /\ Cells(chain') \subseteq allocated' /\ allocated' \subseteq Cells(chain') \cup {n}
      /\ n \in Node
  BY <1>1, <1>2, <1>3, <1>4 DEF Node
<1> QED
  BY <1>1, <1>2, <1>4, <1>5, <1>6, HandleDooms

LEMMA SigintTooLateKeepsInv ==
  ASSUME ListInv, SigintTooLate
  PROVE  ListInv'
<1>1. /\ FieldsOK /\ LoopOK /\ WalkerOK /\ ResultOK
      /\ UNCHANGED fields /\ match' = match /\ tmp' = tmp /\ handler' = handler
      /\ current' = current /\ served' = served /\ todo' = todo /\ result' = result
      /\ op' = "crashed"
  BY DEF ListInv, SigintTooLate, fields, walker
<1>2. FieldsOK' /\ LoopOK' /\ WalkerOK' /\ ResultOK'
  BY <1>1, FieldsSame DEF LoopOK, WalkerOK, ResultOK
<1> QED
  BY <1>1, <1>2 DEF ListInv, Gone

\* The nodes of a whole list hold data.
LEMMA WholeHolds ==
  ASSUME FieldsOK, Whole
  PROVE  /\ chain \in Seq(Cell) /\ Distinct(chain)
         /\ \A i \in DOMAIN chain : chain[i] \in allocated /\ data[chain[i]] \in Data
         /\ \A i, j \in DOMAIN chain : data[chain[i]] = data[chain[j]] => i = j
<1>1. /\ chain \in Seq(Cell) /\ Distinct(chain) /\ allocated = Cells(chain)
      /\ \A a \in allocated : data[a] \in Data
      /\ \A a, b \in allocated : data[a] = data[b] => a = b
  BY DEF FieldsOK, Whole
<1>2. \A i \in DOMAIN chain : chain[i] \in allocated /\ data[chain[i]] \in Data
  BY <1>1 DEF Cells
<1>3. \A i, j \in DOMAIN chain : data[chain[i]] = data[chain[j]] => i = j
  BY <1>1, <1>2 DEF Distinct
<1> QED
  BY <1>1, <1>2, <1>3

LEMMA BeginKeepsInv ==
  ASSUME ListInv, get_base_iterator
  PROVE  ListInv'
<1>1. /\ FieldsOK /\ LoopOK /\ WalkerOK /\ ResultOK /\ Whole
      /\ op = "none" /\ served = NULL
  BY DEF ListInv, get_base_iterator, Idle, Gone, Iterating
<1>2. /\ op' = op /\ match' = match /\ tmp' = tmp /\ handler' = handler
      /\ UNCHANGED fields /\ result' = result /\ chain' = chain /\ data' = data
      /\ current' = next[head] /\ served' = served
      /\ todo' = [i \in DOMAIN chain |-> data[chain[i]]]
  BY DEF get_base_iterator, loop, fields
<1>3. /\ Len(chain) \in Nat /\ next[head] = Nth(chain, 1) /\ Nth(chain, 1) \in Node
      /\ DOMAIN chain = 1 .. Len(chain)
  BY <1>1, Ends
<1>4. /\ chain \in Seq(Cell)
      /\ \A i \in DOMAIN chain : data[chain[i]] \in Data
  BY <1>1, WholeHolds
<1>5. 1 \in 1 .. Len(chain) + 1
  BY <1>3
<1>6. todo' = Rest(chain, data, 1) /\ Rest(chain, data, 1) \in Seq(Data)
  BY <1>2, <1>4, <1>5, RestFirst, RestType DEF Items
<1>7. FieldsOK' /\ Whole' /\ LoopOK' /\ WalkerOK' /\ ResultOK'
  BY <1>1, <1>2, <1>3, <1>6, FieldsSame DEF LoopOK, WalkerOK, ResultOK
<1>8. Walking'
  <2>1. \A j \in 1 .. Len(chain') : data'[chain'[j]] # served'
    BY <1>1, <1>2, <1>3, <1>4, ListAssumption
  <2> QED
    BY <1>2, <1>3, <1>5, <1>6, <2>1 DEF Walking
<1>9. Iterating'
  <2>1. Nth(chain, 1) # NULL
    BY <1>3, ListAssumption DEF Node
  <2> QED
    BY <1>1, <1>2, <1>3, <1>8, <2>1 DEF Iterating
<1> QED
  BY <1>1, <1>2, <1>7, <1>9 DEF ListInv, Gone

\* Where the iterator stands while it has a next item.
LEMMA WalkingPlace ==
  ASSUME FieldsOK, Whole, Walking, current # tail
  PROVE  \E p \in DOMAIN chain :
           /\ current = chain[p] /\ p + 1 \in 1 .. Len(chain) + 1
           /\ next[current] = Nth(chain, p + 1) /\ Nth(chain, p + 1) \in Node
           /\ todo # <<>> /\ Head(todo) = data[current]
           /\ Tail(todo) = Rest(chain, data, p + 1)
           /\ Rest(chain, data, p + 1) \in Seq(Data)
<1>1. PICK p \in 1 .. Len(chain) + 1 : current = Nth(chain, p) /\ todo = Rest(chain, data, p)
  BY DEF Walking
<1>2. /\ p \in DOMAIN chain /\ p + 1 \in 1 .. Len(chain) + 1
      /\ current = chain[p] /\ next[chain[p]] = Nth(chain, p + 1)
  BY <1>1, WholeLeads, AtPlace
<1>3. Nth(chain, p + 1) \in Node
  BY <1>2, WholeLeads, AtPlace
<1>4. chain \in Seq(Cell) /\ \A i \in DOMAIN chain : data[chain[i]] \in Data
  BY WholeHolds
<1>5. /\ todo # <<>> /\ Head(todo) = data[chain[p]]
      /\ Tail(todo) = Rest(chain, data, p + 1)
  BY <1>1, <1>2, <1>4, RestTail
<1>6. Rest(chain, data, p + 1) \in Seq(Data)
  BY <1>2, <1>4, RestType
<1> QED
  BY <1>2, <1>3, <1>5, <1>6

LEMMA NextKeepsInv ==
  ASSUME ListInv, base_iterator_next
  PROVE  ListInv'
<1>1. /\ FieldsOK /\ LoopOK /\ WalkerOK /\ ResultOK /\ Whole /\ Walking
      /\ op = "none" /\ current # NULL /\ current # tail
  BY DEF ListInv, base_iterator_next, Gone, Iterating
<1>2. /\ op' = op /\ match' = match /\ tmp' = tmp /\ handler' = handler
      /\ UNCHANGED fields /\ chain' = chain /\ data' = data
      /\ Returns("next", {}, data[current]) /\ served' = data[current]
      /\ current' = next[current] /\ todo' = Tail(todo)
  BY DEF base_iterator_next, loop, fields
<1>3. PICK p \in DOMAIN chain :
        /\ current = chain[p] /\ p + 1 \in 1 .. Len(chain) + 1
        /\ next[current] = Nth(chain, p + 1) /\ Nth(chain, p + 1) \in Node
        /\ Tail(todo) = Rest(chain, data, p + 1)
        /\ Rest(chain, data, p + 1) \in Seq(Data)
  BY <1>1, WalkingPlace
<1>4. /\ chain \in Seq(Cell) /\ \A i \in DOMAIN chain : data[chain[i]] \in Data
      /\ \A i, j \in DOMAIN chain : data[chain[i]] = data[chain[j]] => i = j
  BY <1>1, WholeHolds
<1>5. FieldsOK' /\ Whole' /\ LoopOK' /\ WalkerOK' /\ ResultOK'
  <2>1. FieldsOK' /\ Whole'
    BY <1>1, <1>2, FieldsSame
  <2>2. LoopOK' /\ WalkerOK'
    BY <1>1, <1>2, <1>3, <1>4 DEF LoopOK, WalkerOK
  <2>3. ResultOK'
    BY <1>2, <1>3, <1>4 DEF Returns, ResultOK
  <2> QED
    BY <2>1, <2>2, <2>3
<1>6. Walking'
  <2>1. \A j \in p + 1 .. Len(chain) : j \in DOMAIN chain /\ j # p
    BY <1>4
  <2>2. \A j \in p + 1 .. Len(chain) : data[chain[j]] # data[chain[p]]
    BY <1>4, <2>1
  <2> QED
    BY <1>2, <1>3, <2>2 DEF Walking
<1>7. Iterating'
  <2>1. Nth(chain, p + 1) # NULL
    BY <1>3, ListAssumption DEF Node
  <2> QED
    BY <1>1, <1>2, <1>3, <1>6, <2>1 DEF Iterating
<1> QED
  BY <1>1, <1>2, <1>5, <1>7 DEF ListInv, Gone

LEMMA EndKeepsInv ==
  ASSUME ListInv, base_iterator_free
  PROVE  ListInv'
<1>1. /\ FieldsOK /\ LoopOK /\ WalkerOK /\ ResultOK /\ Whole /\ op = "none"
  BY DEF ListInv, base_iterator_free, Gone
<1>2. /\ op' = op /\ match' = match /\ tmp' = tmp /\ handler' = handler
      /\ UNCHANGED fields /\ result' = result
      /\ current' = NULL /\ served' = NULL /\ todo' = todo
  BY DEF base_iterator_free, loop, fields
<1>3. FieldsOK' /\ Whole' /\ LoopOK' /\ WalkerOK' /\ ResultOK'
  BY <1>1, <1>2, FieldsSame DEF LoopOK, WalkerOK, ResultOK
<1>4. Iterating'
  BY <1>1, <1>2 DEF Iterating
<1> QED
  BY <1>1, <1>2, <1>3, <1>4 DEF ListInv, Gone

LEMMA StutterKeepsInv ==
  ASSUME ListInv, UNCHANGED vars
  PROVE  ListInv'
<1>1. /\ UNCHANGED fields /\ chain' = chain /\ data' = data /\ next' = next
      /\ allocated' = allocated
      /\ op' = op /\ match' = match /\ tmp' = tmp /\ handler' = handler
      /\ current' = current /\ served' = served /\ todo' = todo /\ result' = result
  BY DEF vars, fields, loop, walker
<1>2. FieldsOK' /\ LoopOK' /\ WalkerOK' /\ ResultOK' /\ (Whole => Whole') /\ (Leading => Leading')
  BY <1>1, FieldsSame DEF LoopOK, WalkerOK, ResultOK, ListInv
<1>3. Iterating => Iterating'
  <2>1. Walking => Walking'
    BY <1>1 DEF Walking
  <2> QED
    BY <1>1, <2>1 DEF Iterating
<1>4. Searching => Searching'
  BY <1>1 DEF Searching
<1>5. Doomed => Doomed'
  BY <1>1, <1>2 DEF Doomed
<1> QED
  BY <1>1, <1>2, <1>3, <1>4, <1>5 DEF ListInv, Gone

LEMMA InitHoldsInv ==
  ASSUME Init
  PROVE  ListInv
<1>1. chain = <<>> /\ chain \in Seq(Cell) /\ Len(chain) = 0 /\ DOMAIN chain = {}
  BY DEF Init
<1>2. /\ head # tail /\ head \in Node /\ tail \in Node
      /\ Nth(chain, 0) = head /\ Nth(chain, 1) = tail /\ 0 .. Len(chain) = {0} /\ 0 + 1 = 1
  BY <1>1, ListAssumption DEF Node, Nth
<1>3. next[head] = tail /\ prev[tail] = head
  BY <1>2 DEF Init
<1>4. Whole
  <2>1. Forward(next, chain) /\ Backward(prev, chain)
    BY <1>2, <1>3 DEF Forward, Backward
  <2>2. Distinct(chain) /\ Cells(chain) = {} /\ allocated = {}
    BY <1>1 DEF Init, Distinct, Cells
  <2> QED
    BY <2>1, <2>2 DEF Whole
<1>5. FieldsOK
  BY <1>1, <1>2 DEF Init, FieldsOK, Pointers, Contents
<1>6. LoopOK /\ WalkerOK /\ ResultOK /\ Iterating
  <2>1. LoopOK
    BY DEF Init, LoopOK
  <2>2. WalkerOK
    BY DEF Init, WalkerOK
  <2>3. result = [of |-> "none", match |-> {}, is |-> NULL]
    BY DEF Init
  <2>4. ResultOK
    BY <2>3 DEF ResultOK
  <2>5. Iterating
    BY DEF Init, Iterating
  <2> QED
    BY <2>1, <2>2, <2>4, <2>5
<1>7. op = "none"
  BY DEF Init
<1> QED
  BY <1>4, <1>5, <1>6, <1>7 DEF ListInv, Gone

LEMMA StepKeepsInv ==
  ASSUME ListInv, [Next]_vars
  PROVE  ListInv'
<1>1. CASE \E n \in Cell, d \in Data : ll_add_node(n, d)
  BY <1>1, AddKeepsInv
<1>2. CASE \E M \in SUBSET Data : ll_find_by_matching_data(M) \/ ll_pop_on_match(M)
  BY <1>2, FindKeepsInv, TakeKeepsInv
<1>3. CASE ll_pop_node \/ PopEmpty \/ ll_peek
  BY <1>3, PopKeepsInv, PopEmptyKeepsInv, PeekKeepsInv
<1>4. CASE Skip \/ Found \/ Taken \/ Missed
  BY <1>4, SkipKeepsInv, FoundKeepsInv, TakenKeepsInv, MissedKeepsInv
<1>5. CASE ll_free_linked_list \/ FreeNode \/ FreeSentinels
  BY <1>5, FreeKeepsInv, FreeNodeKeepsInv, FreeSentinelsKeepsInv
<1>6. CASE Sigint \/ SigintTooLate
  BY <1>6, SigintKeepsInv, SigintTooLateKeepsInv
<1>7. CASE \E n \in Cell, k \in 0 .. 4 :
             SigintInDetach(n, k) \/ \E d \in Data : SigintInAdd(n, d, k)
  BY <1>7, SigintInDetachKeepsInv, SigintInAddKeepsInv
<1>8. CASE get_base_iterator \/ base_iterator_next \/ base_iterator_free
  BY <1>8, BeginKeepsInv, NextKeepsInv, EndKeepsInv
<1>9. CASE UNCHANGED vars
  BY <1>9, StutterKeepsInv
<1> QED
  BY <1>1, <1>2, <1>3, <1>4, <1>5, <1>6, <1>7, <1>8, <1>9 DEF Next

LEMMA ListInvHolds == Spec => []ListInv
<1>1. Init => ListInv
  BY InitHoldsInv
<1>2. ListInv /\ [Next]_vars => ListInv'
  BY StepKeepsInv
<1> QED
  BY <1>1, <1>2, PTL DEF Spec

-----------------------------------------------------------------------------
(* Theorems about the pointers.                                            *)

\* The fields of the nodes, the loops and the iterator of base_linked_list.c keep their
\* types, and the history variables hold nodes and data.
THEOREM TypeCorrect == Spec => []TypeOK
<1>1. ListInv => TypeOK
  BY DEF ListInv, FieldsOK, LoopOK, WalkerOK, ResultOK, Pointers, Contents, TypeOK
<1> QED
  BY <1>1, ListInvHolds, PTL

\* After every call, and in every loop, of base_linked_list.c the nodes that are allocated
\* form one list, linked in both directions from sentinel to sentinel.
THEOREM AlwaysLinked == Spec => []Linked
<1>1. ListInv => Linked
  <2> SUFFICES ASSUME ListInv, ~ Gone
               PROVE  /\ \A i \in 0 .. Len(chain) :
                           next[At(i)] = At(i + 1) /\ prev[At(i + 1)] = At(i)
                      /\ \A i, j \in DOMAIN chain : chain[i] = chain[j] => i = j
                      /\ allocated = {chain[i] : i \in DOMAIN chain}
    BY DEF Linked
  <2>1. Whole
    BY DEF ListInv
  <2>2. \A i : At(i) = Nth(chain, i)
    BY DEF At, Nth
  <2>3. \A i \in 0 .. Len(chain) : next[At(i)] = At(i + 1) /\ prev[At(i + 1)] = At(i)
    BY <2>1, <2>2 DEF Whole, Forward, Backward
  <2> QED
    BY <2>1, <2>3 DEF Whole, Distinct, Cells
<1> QED
  BY <1>1, ListInvHolds, PTL

\* While resend_pending_messages iterates, and detaches the contact it was given last, the
\* iterator of base_linked_list.c never stands on a node that was freed.
THEOREM IteratorNeverDangles == Spec => []IteratorIsValid
<1>1. ListInv => IteratorIsValid
  <2> SUFFICES ASSUME ListInv, ~ Gone, current # NULL
               PROVE  current \in allocated \cup {tail}
    BY DEF IteratorIsValid
  <2>1. FieldsOK /\ Whole /\ Walking
    BY DEF ListInv, Iterating
  <2>2. PICK p \in 1 .. Len(chain) + 1 : current = Nth(chain, p)
    BY <2>1 DEF Walking
  <2> QED
    BY <2>1, <2>2, WholeLeads, AtPlace
<1> QED
  BY <1>1, ListInvHolds, PTL

\* Wherever SIGINT interrupts an insertion, a detachment or a destruction that main began,
\* ll_free_linked_list frees allocated nodes only and loses at most one node.
THEOREM DestructionNeverDangles == Spec => []DestructionIsSafe
<1>1. ListInv => DestructionIsSafe
  <2> SUFFICES ASSUME ListInv
               PROVE  DestructionIsSafe
    OBVIOUS
  <2>1. ASSUME op = "free", tmp # tail
        PROVE  tmp \in allocated /\ {next[tmp], prev[tmp]} \subseteq allocated \cup {head, tail}
    <3>1. FieldsOK /\ Doomed
      BY <2>1 DEF ListInv
    <3>2. /\ 1 \in DOMAIN chain /\ tmp = chain[1] /\ prev[chain[1]] = head
          /\ next[tmp] = Nth(chain, 2) /\ Nth(chain, 2) \in Cells(chain) \cup {tail}
      BY <2>1, <3>1, DoomedFirst
    <3>3. Cells(chain) \subseteq allocated /\ chain[1] \in Cells(chain)
      BY <3>1, <3>2 DEF Doomed, Cells
    <3> QED
      BY <3>2, <3>3
  <2>2. ASSUME op = "freed"
        PROVE  Cardinality(allocated) <= 1
    <3>1. PICK x \in Node : allocated \subseteq {x}
      BY <2>2 DEF ListInv
    <3>2. CASE allocated = {}
      BY <3>2, FS_EmptySet
    <3>3. CASE allocated = {x}
      <4>1. Cardinality({x}) = 1
        BY FS_Singleton
      <4>2. Cardinality(allocated) = 1
        BY <3>3, <4>1
      <4> QED
        BY <4>2
    <3> QED
      BY <3>1, <3>2, <3>3
  <2> QED
    BY <2>1, <2>2 DEF DestructionIsSafe
<1> QED
  BY <1>1, ListInvHolds, PTL

-----------------------------------------------------------------------------
(* The list implements OrderedList.                                        *)

\* The oldest and the newest item.
LEMMA EndsOfSequence ==
  ASSUME NEW S, NEW s \in Seq(S), s # <<>>
  PROVE  /\ Last(s) = s[Len(s)] /\ Front(s) = RemoveAt(s, Len(s))
         /\ Tail(s) = RemoveAt(s, 1)
<1>1. Len(s) \in Nat /\ Len(s) >= 1 /\ \A i \in 1 .. Len(s) : s[i] \in S
  OBVIOUS
<1>2. Last(s) = s[Len(s)]
  BY DEF Last
<1>3. Front(s) = RemoveAt(s, Len(s))
  <2>1. SubSeq(s, 1, Len(s) - 1) \in Seq(S)
    BY <1>1
  <2>2. SubSeq(s, Len(s) + 1, Len(s)) = <<>>
    BY <1>1, SubSeqEmpty
  <2>3. SubSeq(s, 1, Len(s) - 1) \o <<>> = SubSeq(s, 1, Len(s) - 1)
    BY <2>1, ConcatEmptySeq
  <2> QED
    BY <2>2, <2>3 DEF Front, RemoveAt
<1>4. Tail(s) = RemoveAt(s, 1)
  <2>1. Tail(s) = SubSeq(s, 2, Len(s)) /\ Tail(s) \in Seq(S)
    BY TailIsSubSeq, HeadTailProperties
  <2>2. SubSeq(s, 1, 1 - 1) = <<>>
    BY SubSeqEmpty
  <2>3. <<>> \o Tail(s) = Tail(s)
    BY <2>1, ConcatEmptySeq
  <2>4. 1 + 1 = 2
    OBVIOUS
  <2> QED
    BY <2>1, <2>2, <2>3, <2>4 DEF RemoveAt
<1> QED
  BY <1>2, <1>3, <1>4

\* Both modules take their operators on sequences from the same one.
LEMMA SameOperators ==
  \A s, i : /\ List!RemoveAt(s, i) = RemoveAt(s, i)
            /\ List!Last(s) = Last(s)
            /\ List!Front(s) = Front(s)
BY DEF List!RemoveAt, RemoveAt, List!Last, Last, List!Front, Front

\* A list that stays, its iterator as it was.
Staying == ~ Gone /\ ~ Gone' /\ (current' # NULL <=> current # NULL)

LEMMA StayingKeeps ==
  ASSUME Staying
  PROVE  Gone' = Gone /\ (current # NULL)' = (current # NULL)
BY DEF Staying, Gone

\* A list that is destroyed by this step.
LEMMA Destroyed ==
  ASSUME ~ Gone, Gone', todo' = todo, result' = result, current' = current,
         \/ Items(chain', data') = Items(chain, data)
         \/ \E d \in Data : Items(chain', data') = <<d>> \o Items(chain, data)
         \/ \E i \in DOMAIN Items(chain, data) :
              Items(chain', data') = RemoveAt(Items(chain, data), i)
  PROVE  List!Destroy
<1>1. (current # NULL)' = (current # NULL)
  OBVIOUS
<1>2. Gone' = TRUE
  BY DEF Gone
<1> QED
  BY <1>1, <1>2, SameOperators DEF List!Destroy, Items

\* A destroyed list that loses its first item.
LEMMA Released ==
  ASSUME Gone, Gone', todo' = todo, result' = result, current' = current,
         Items(chain, data) # <<>>, Items(chain', data') = Tail(Items(chain, data))
  PROVE  List!Release
<1>1. (current # NULL)' = (current # NULL)
  OBVIOUS
<1>2. Gone' = Gone
  BY DEF Gone
<1> QED
  BY <1>1, <1>2 DEF List!Release, Items

\* A step that the abstract list does not see.
LEMMA Unseen ==
  ASSUME Gone' <=> Gone, todo' = todo, result' = result, current' = current,
         Items(chain', data') = Items(chain, data)
  PROVE  UNCHANGED List!vars
<1>1. (current # NULL)' = (current # NULL)
  OBVIOUS
<1>2. Gone' = Gone
  BY DEF Gone
<1> QED
  BY <1>1, <1>2 DEF List!vars, Items

LEMMA AddRefines ==
  ASSUME ListInv, NEW n \in Cell, NEW d \in Data, ll_add_node(n, d)
  PROVE  ~ Gone /\ List!Add(d)
<1>1. /\ FieldsOK /\ Whole /\ op = "none"
  BY DEF ListInv, ll_add_node, Insert, Idle, Gone
<1>2. /\ Insert(n, d, 4) /\ Returns("add", {d}, NULL)
      /\ op' = op /\ current' = current /\ todo' = todo
  BY DEF ll_add_node, loop, walker
<1>3. Items(chain', data') = <<d>> \o Items(chain, data)
  <2>1. 4 \in 0 .. 4 /\ 4 >= 3
    OBVIOUS
  <2>2. Items(chain', data') = IF 4 >= 3 THEN <<d>> \o Items(chain, data)
                                         ELSE Items(chain, data)
    BY <1>1, <1>2, <2>1, InsertStep
  <2> QED
    BY <2>1, <2>2
<1>4. ~ Gone /\ Gone' = Gone /\ (current # NULL)' = (current # NULL)
  BY <1>1, <1>2, StayingKeeps DEF Staying, Gone
<1> QED
  BY <1>2, <1>3, <1>4 DEF List!Add, List!Returns, Returns, Items

\* The items of a whole list.
LEMMA WholeItems ==
  ASSUME FieldsOK, Whole
  PROVE  /\ Items(chain, data) \in Seq(Data \cup {NULL})
         /\ Len(Items(chain, data)) = Len(chain)
         /\ Len(chain) \in Nat /\ DOMAIN chain = 1 .. Len(chain)
         /\ DOMAIN Items(chain, data) = DOMAIN chain
         /\ \A i \in DOMAIN chain : Items(chain, data)[i] = data[chain[i]]
         /\ Items(chain, data) = <<>> <=> Len(chain) = 0
<1>1. chain \in Seq(Cell) /\ data \in Contents
  BY DEF FieldsOK
<1>2. /\ Items(chain, data) \in Seq(Data \cup {NULL})
      /\ Len(Items(chain, data)) = Len(chain)
      /\ DOMAIN Items(chain, data) = DOMAIN chain
      /\ \A i \in DOMAIN chain : Items(chain, data)[i] = data[chain[i]]
  BY <1>1, ItemsType
<1>3. Len(chain) \in Nat /\ DOMAIN chain = 1 .. Len(chain)
  BY <1>1
<1>4. Items(chain, data) = <<>> <=> Len(chain) = 0
  BY <1>2
<1> QED
  BY <1>2, <1>3, <1>4

\* The node that a pop detaches, if there is one, holds the oldest item.
LEMMA OldestItem ==
  ASSUME FieldsOK, Whole
  PROVE  /\ prev[tail] = head <=> Len(chain) = 0
         /\ next[head] = tail <=> Len(chain) = 0
         /\ Len(chain) # 0 => /\ Len(chain) \in DOMAIN chain
                              /\ prev[tail] = chain[Len(chain)]
                              /\ data[prev[tail]] = Last(Items(chain, data))
<1>1. /\ Len(chain) \in Nat /\ DOMAIN chain = 1 .. Len(chain)
      /\ next[head] = Nth(chain, 1)
      /\ prev[tail] = Nth(chain, Len(chain))
      /\ Nth(chain, 1) = tail <=> Len(chain) = 0
      /\ Nth(chain, Len(chain)) = head <=> Len(chain) = 0
  BY Ends
<1>2. ASSUME Len(chain) # 0
      PROVE  /\ Len(chain) \in DOMAIN chain
             /\ prev[tail] = chain[Len(chain)]
             /\ data[prev[tail]] = Last(Items(chain, data))
  <2>1. Len(chain) \in DOMAIN chain /\ chain \in Seq(Cell)
    BY <1>1, <1>2 DEF FieldsOK
  <2>2. Nth(chain, Len(chain)) = chain[Len(chain)]
    BY <2>1, NthType
  <2>3. /\ Items(chain, data) \in Seq(Data \cup {NULL}) /\ Items(chain, data) # <<>>
        /\ Len(Items(chain, data)) = Len(chain)
        /\ Items(chain, data)[Len(chain)] = data[chain[Len(chain)]]
    BY <1>2, <2>1, WholeItems
  <2>4. Last(Items(chain, data)) = Items(chain, data)[Len(chain)]
    BY <2>3, EndsOfSequence
  <2> QED
    BY <1>1, <2>1, <2>2, <2>3, <2>4
<1> QED
  BY <1>1, <1>2

LEMMA PopRefines ==
  ASSUME ListInv, ll_pop_node
  PROVE  ~ Gone /\ List!Pop
<1>1. /\ FieldsOK /\ Whole /\ op = "none"
  BY DEF ListInv, ll_pop_node, Idle, Gone
<1>2. /\ Delete(prev[tail]) /\ Returns("pop", {}, data[prev[tail]]) /\ prev[tail] # head
      /\ op' = op /\ current' = current /\ todo' = todo
  BY DEF ll_pop_node, loop, walker
<1>3. /\ Len(chain) \in DOMAIN chain /\ prev[tail] = chain[Len(chain)]
      /\ data[prev[tail]] = Last(Items(chain, data)) /\ Len(chain) # 0
  BY <1>1, <1>2, OldestItem
<1>4. /\ Items(chain, data) \in Seq(Data \cup {NULL}) /\ Items(chain, data) # <<>>
      /\ Len(Items(chain, data)) = Len(chain)
  BY <1>1, <1>3, WholeItems
<1>5. Items(chain', data') = RemoveAt(Items(chain, data), Len(chain))
  BY <1>1, <1>2, <1>3, DeleteKeepsWhole
<1>6. Items(chain', data') = Front(Items(chain, data))
  BY <1>4, <1>5, EndsOfSequence
<1>7. ~ Gone /\ Gone' = Gone /\ (current # NULL)' = (current # NULL)
  BY <1>1, <1>2, StayingKeeps DEF Staying, Gone
<1> QED
  BY <1>2, <1>3, <1>4, <1>6, <1>7, SameOperators DEF List!Pop, List!Returns, Returns, Items

LEMMA PeekRefines ==
  ASSUME ListInv, ll_peek
  PROVE  ~ Gone /\ List!Peek
<1>1. /\ FieldsOK /\ Whole /\ op = "none"
  BY DEF ListInv, ll_peek, Idle, Gone
<1>2. /\ Returns("peek", {}, IF next[head] # tail THEN data[prev[tail]] ELSE NULL)
      /\ op' = op /\ current' = current /\ todo' = todo
      /\ chain' = chain /\ data' = data
  BY DEF ll_peek, loop, walker, fields
<1>3. (IF next[head] # tail THEN data[prev[tail]] ELSE NULL)
        = IF Items(chain, data) = <<>> THEN NULL ELSE Last(Items(chain, data))
  BY <1>1, OldestItem, WholeItems
<1>4. ~ Gone /\ Gone' = Gone /\ (current # NULL)' = (current # NULL)
  BY <1>1, <1>2, StayingKeeps DEF Staying, Gone
<1>5. Returns("peek", {}, IF Items(chain, data) = <<>> THEN NULL ELSE Last(Items(chain, data)))
  BY <1>2, <1>3
<1> QED
  BY <1>2, <1>4, <1>5, SameOperators DEF List!Peek, List!Returns, Returns, Items

LEMMA SearchStepUnseen ==
  ASSUME ListInv,
         \/ \E M \in SUBSET Data : ll_find_by_matching_data(M) \/ ll_pop_on_match(M)
         \/ Skip
  PROVE  UNCHANGED List!vars
<1>1. /\ op \notin {"free", "freed", "crashed"} /\ op' \in {"find", "take"}
      /\ chain' = chain /\ data' = data
      /\ todo' = todo /\ result' = result /\ current' = current
  BY DEF ll_find_by_matching_data, ll_pop_on_match, Start, Skip, Idle, fields, walker
<1>2. ~ Gone /\ ~ Gone'
  BY <1>1 DEF Gone
<1>3. Items(chain', data') = Items(chain, data)
  BY <1>1
<1> QED
  BY <1>1, <1>2, <1>3, Unseen

\* Where a search that found something stands.
LEMMA FirstMatch ==
  ASSUME FieldsOK, Whole, Searching, tmp # tail, data[tmp] \in match
  PROVE  \E q \in DOMAIN chain :
           /\ tmp = chain[q] /\ q \in DOMAIN Items(chain, data)
           /\ Items(chain, data)[q] = data[tmp]
           /\ List!IsFirst(q, match)
<1>1. PICK q \in 1 .. Len(chain) + 1 :
        tmp = Nth(chain, q) /\ \A j \in 1 .. q - 1 : data[chain[j]] \notin match
  BY DEF Searching
<1>2. q \in DOMAIN chain /\ tmp = chain[q]
  BY <1>1, WholeLeads, AtPlace
<1>3. /\ DOMAIN Items(chain, data) = DOMAIN chain
      /\ Len(chain) \in Nat /\ DOMAIN chain = 1 .. Len(chain)
      /\ \A i \in DOMAIN chain : Items(chain, data)[i] = data[chain[i]]
  BY WholeItems
<1>4. \A j \in 1 .. q - 1 : j \in DOMAIN chain
  BY <1>2, <1>3
<1>5. /\ q \in DOMAIN Items(chain, data) /\ Items(chain, data)[q] \in match
      /\ \A j \in 1 .. q - 1 : Items(chain, data)[j] \notin match
  BY <1>1, <1>2, <1>3, <1>4
<1>6. List!IsFirst(q, match)
  BY <1>5 DEF List!IsFirst, Items
<1> QED
  BY <1>2, <1>3, <1>5, <1>6

\* A search that reaches tail has seen every item.
LEMMA NoMatch ==
  ASSUME FieldsOK, Whole, Searching, tmp = tail
  PROVE  ~ List!Matches(match)
<1>1. PICK q \in 1 .. Len(chain) + 1 :
        tmp = Nth(chain, q) /\ \A j \in 1 .. q - 1 : data[chain[j]] \notin match
  BY DEF Searching
<1>2. q = Len(chain) + 1
  BY <1>1, WholeLeads, AtPlace
<1>3. /\ DOMAIN Items(chain, data) = DOMAIN chain
      /\ Len(chain) \in Nat /\ DOMAIN chain = 1 .. Len(chain)
      /\ \A i \in DOMAIN chain : Items(chain, data)[i] = data[chain[i]]
  BY WholeItems
<1>4. \A i \in DOMAIN Items(chain, data) : Items(chain, data)[i] \notin match
  BY <1>1, <1>2, <1>3
<1> QED
  BY <1>4 DEF List!Matches, Items

LEMMA FoundRefines ==
  ASSUME ListInv, Found
  PROVE  ~ Gone /\ \E M \in SUBSET Data : List!Find(M)
<1>1. /\ FieldsOK /\ LoopOK /\ Whole /\ Searching /\ op = "find"
      /\ tmp # tail /\ data[tmp] \in match
  BY DEF ListInv, Found, Gone
<1>2. /\ Returns("find", match, data[tmp]) /\ op' = "none"
      /\ chain' = chain /\ data' = data /\ todo' = todo /\ current' = current
  BY <1>1 DEF Found, Finish, walker, fields
<1>3. PICK q \in DOMAIN chain :
        /\ q \in DOMAIN Items(chain, data) /\ Items(chain, data)[q] = data[tmp]
        /\ List!IsFirst(q, match)
  BY <1>1, FirstMatch
<1>4. ~ Gone /\ Gone' = Gone /\ (current # NULL)' = (current # NULL)
  BY <1>1, <1>2, StayingKeeps DEF Staying, Gone
<1>5. Returns("find", match, Items(chain, data)[q])
  BY <1>2, <1>3
<1>6. match \in SUBSET Data
  BY <1>1 DEF LoopOK
<1>7. List!Find(match)
  BY <1>2, <1>3, <1>4, <1>5 DEF List!Find, List!Returns, Returns, Items
<1> QED
  BY <1>4, <1>6, <1>7

LEMMA MissedRefines ==
  ASSUME ListInv, Missed
  PROVE  ~ Gone /\ \E M \in SUBSET Data : List!Find(M) \/ List!Take(M)
<1>1. /\ FieldsOK /\ LoopOK /\ Whole /\ Searching /\ op \in {"find", "take"}
      /\ tmp = tail
  BY DEF ListInv, Missed, Gone
<1>2. PICK M \in SUBSET Data : M = match
  BY <1>1 DEF LoopOK
<1>3. /\ Returns(op, M, NULL) /\ op' = "none"
      /\ chain' = chain /\ data' = data /\ todo' = todo /\ current' = current
  BY <1>2 DEF Missed, Finish, walker, fields, Returns
<1>4. ~ List!Matches(M)
  BY <1>1, <1>2, NoMatch
<1>5. ~ Gone /\ Gone' = Gone /\ (current # NULL)' = (current # NULL)
  BY <1>1, <1>3, StayingKeeps DEF Staying, Gone
<1>6. /\ UNCHANGED [i \in DOMAIN chain |-> data[chain[i]]]
      /\ UNCHANGED <<todo, current # NULL, Gone>>
  BY <1>3, <1>5
<1>7. CASE op = "find"
  <2>1. List!Returns("find", M, NULL)
    BY <1>3, <1>7 DEF List!Returns, Returns
  <2>2. List!Find(M)
    BY <1>4, <1>6, <2>1 DEF List!Find
  <2> QED
    BY <1>5, <2>2
<1>8. CASE op = "take"
  <2>1. List!Returns("take", M, NULL)
    BY <1>3, <1>8 DEF List!Returns, Returns
  <2>2. List!Take(M)
    BY <1>4, <1>6, <2>1 DEF List!Take
  <2> QED
    BY <1>5, <2>2
<1> QED
  BY <1>1, <1>7, <1>8

LEMMA TakenRefines ==
  ASSUME ListInv, Taken
  PROVE  ~ Gone /\ \E M \in SUBSET Data : List!Take(M)
<1>1. /\ FieldsOK /\ LoopOK /\ Whole /\ Searching /\ op = "take"
      /\ tmp # tail /\ data[tmp] \in match
  BY DEF ListInv, Taken, Gone
<1>2. /\ Returns("take", match, data[tmp]) /\ op' = "none" /\ Delete(tmp)
      /\ todo' = todo /\ current' = current
  BY <1>1 DEF Taken, Finish
<1>3. PICK q \in DOMAIN chain :
        /\ tmp = chain[q] /\ q \in DOMAIN Items(chain, data)
        /\ Items(chain, data)[q] = data[tmp]
        /\ List!IsFirst(q, match)
  BY <1>1, FirstMatch
<1>4. Items(chain', data') = RemoveAt(Items(chain, data), q)
  BY <1>1, <1>2, <1>3, DeleteKeepsWhole
<1>5. ~ Gone /\ Gone' = Gone /\ (current # NULL)' = (current # NULL)
  BY <1>1, <1>2, StayingKeeps DEF Staying, Gone
<1>6. Returns("take", match, Items(chain, data)[q])
  BY <1>2, <1>3
<1>7. match \in SUBSET Data
  BY <1>1 DEF LoopOK
<1>8. List!Take(match)
  BY <1>2, <1>3, <1>4, <1>5, <1>6, SameOperators DEF List!Take, List!Returns, Returns, Items
<1> QED
  BY <1>5, <1>7, <1>8

LEMMA BeginRefines ==
  ASSUME ListInv, get_base_iterator
  PROVE  ~ Gone /\ List!Iterate
<1>1. /\ FieldsOK /\ Whole /\ op = "none" /\ current = NULL
      /\ op' = op /\ chain' = chain /\ data' = data /\ result' = result
      /\ current' = next[head]
      /\ todo' = [i \in DOMAIN chain |-> data[chain[i]]]
  BY DEF ListInv, get_base_iterator, Idle, Gone, loop, fields
<1>2. next[head] # NULL
  BY <1>1, Ends, ListAssumption DEF Node
<1>3. ~ (current # NULL) /\ (current # NULL)' = TRUE
  BY <1>1, <1>2
<1>4. ~ Gone /\ ~ Gone'
  BY <1>1 DEF Gone
<1>5. Gone' = Gone
  BY <1>4 DEF Gone
<1> QED
  BY <1>1, <1>3, <1>4, <1>5 DEF List!Iterate

LEMMA NextRefines ==
  ASSUME ListInv, base_iterator_next
  PROVE  ~ Gone /\ List!Yield
<1>1. /\ FieldsOK /\ Whole /\ Walking
      /\ op = "none" /\ current # NULL /\ current # tail
  BY DEF ListInv, base_iterator_next, Gone, Iterating
<1>2. /\ op' = op /\ chain' = chain /\ data' = data
      /\ Returns("next", {}, data[current])
      /\ current' = next[current] /\ todo' = Tail(todo)
  BY DEF base_iterator_next, loop, fields
<1>3. /\ todo # <<>> /\ Head(todo) = data[current] /\ next[current] \in Node
  BY <1>1, WalkingPlace
<1>4. current' # NULL
  BY <1>2, <1>3, ListAssumption DEF Node
<1>5. ~ Gone /\ Gone' = Gone /\ (current # NULL)' = (current # NULL)
  BY <1>1, <1>2, <1>4, StayingKeeps DEF Staying, Gone
<1>6. Returns("next", {}, Head(todo))
  BY <1>2, <1>3
<1> QED
  BY <1>1, <1>2, <1>3, <1>5, <1>6 DEF List!Yield, List!Returns, Returns

LEMMA EndRefines ==
  ASSUME ListInv, base_iterator_free
  PROVE  ~ Gone /\ List!EndIteration
<1>1. /\ FieldsOK /\ Whole /\ op = "none" /\ current = tail
      /\ op' = op /\ chain' = chain /\ data' = data /\ result' = result
      /\ current' = NULL /\ todo' = todo
  BY DEF ListInv, base_iterator_free, Gone, loop, fields
<1>2. tail # NULL
  BY ListAssumption
<1>3. todo = <<>>
  <2>1. Walking
    BY <1>1, <1>2 DEF ListInv, Iterating, Gone
  <2>2. PICK p \in 1 .. Len(chain) + 1 : current = Nth(chain, p) /\ todo = Rest(chain, data, p)
    BY <2>1 DEF Walking
  <2>3. p = Len(chain) + 1
    BY <1>1, <2>2, WholeLeads, AtPlace
  <2>4. chain \in Seq(Cell) /\ \A i \in DOMAIN chain : data[chain[i]] \in Data
    BY <1>1, WholeHolds
  <2>5. todo \in Seq(Data) /\ Len(todo) = Len(chain) + 1 - p
    BY <2>2, <2>4, RestType
  <2>6. Len(todo) = 0
    BY <2>3, <2>4, <2>5
  <2> QED
    BY <2>5, <2>6
<1>4. (current # NULL) /\ (current # NULL)' = FALSE
  BY <1>1, <1>2
<1>5. ~ Gone /\ ~ Gone'
  BY <1>1 DEF Gone
<1>6. Gone' = Gone
  BY <1>5 DEF Gone
<1> QED
  BY <1>1, <1>3, <1>4, <1>5, <1>6 DEF List!EndIteration

LEMMA FreeRefines ==
  ASSUME ListInv, ll_free_linked_list \/ PopEmpty
  PROVE  List!Destroy
<1>1. /\ op = "none" /\ op' \in {"free", "crashed"}
      /\ chain' = chain /\ data' = data
      /\ todo' = todo /\ result' = result /\ current' = current
  BY DEF ll_free_linked_list, Start, PopEmpty, Idle, fields, walker
<1>2. ~ Gone /\ Gone'
  BY <1>1 DEF Gone
<1>3. Items(chain', data') = Items(chain, data)
  BY <1>1
<1> QED
  BY <1>1, <1>2, <1>3, Destroyed

LEMMA SentinelsUnseen ==
  ASSUME FreeSentinels \/ SigintTooLate
  PROVE  UNCHANGED List!vars
<1>1. /\ op \in {"free", "freed"} /\ op' \in {"freed", "crashed"}
      /\ chain' = chain /\ data' = data
      /\ todo' = todo /\ result' = result /\ current' = current
  BY DEF FreeSentinels, SigintTooLate, fields, walker
<1>2. Gone /\ Gone'
  BY <1>1 DEF Gone
<1>3. Items(chain', data') = Items(chain, data)
  BY <1>1
<1> QED
  BY <1>1, <1>2, <1>3, Unseen

\* Taking out the first node takes out the newest item.
LEMMA FirstItem ==
  ASSUME FieldsOK, 1 \in DOMAIN chain
  PROVE  /\ Items(chain, data) # <<>>
         /\ Tail(Items(chain, data)) = RemoveAt(Items(chain, data), 1)
<1>1. /\ Items(chain, data) \in Seq(Data \cup {NULL})
      /\ DOMAIN Items(chain, data) = DOMAIN chain
  BY ItemsType DEF FieldsOK
<1>2. Items(chain, data) # <<>>
  BY <1>1
<1> QED
  BY <1>1, <1>2, EndsOfSequence

LEMMA FreeNodeRefines ==
  ASSUME ListInv, FreeNode
  PROVE  List!Release
<1>1. /\ FieldsOK /\ Doomed /\ Leading /\ op = "free" /\ tmp # tail
  BY DEF ListInv, FreeNode, Doomed
<1>2. /\ op' = op /\ Delete(tmp) /\ result' = result
      /\ current' = current /\ todo' = todo
  BY DEF FreeNode, walker
<1>3. /\ 1 \in DOMAIN chain /\ tmp = chain[1]
      /\ prev[chain[1]] = Nth(chain, 1 - 1)
  BY <1>1, DoomedFirst
<1>4. Items(chain', data') = RemoveAt(Items(chain, data), 1)
  BY <1>1, <1>2, <1>3, DeleteStep
<1>5. Items(chain, data) # <<>> /\ Items(chain', data') = Tail(Items(chain, data))
  BY <1>1, <1>3, <1>4, FirstItem
<1>6. Gone /\ Gone'
  BY <1>1, <1>2 DEF Gone
<1> QED
  BY <1>2, <1>5, <1>6, Released

LEMMA SigintRefines ==
  ASSUME ListInv, Sigint
  PROVE  List!Destroy \/ UNCHANGED List!vars
<1>1. /\ op' = "free" /\ chain' = chain /\ data' = data
      /\ todo' = todo /\ result' = result /\ current' = current
  BY DEF Sigint, Handle, fields, walker
<1>2. Gone' /\ Items(chain', data') = Items(chain, data)
  BY <1>1 DEF Gone
<1>3. CASE Gone
  BY <1>1, <1>2, <1>3, Unseen
<1>4. CASE ~ Gone
  BY <1>1, <1>2, <1>4, Destroyed
<1> QED
  BY <1>3, <1>4

LEMMA SigintInAddRefines ==
  ASSUME ListInv, NEW n \in Cell, NEW d \in Data, NEW k \in 0 .. 4, SigintInAdd(n, d, k)
  PROVE  List!Destroy
<1>1. /\ Handle /\ Insert(n, d, k) /\ ~ Gone
      /\ op' = "free" /\ todo' = todo /\ result' = result /\ current' = current
  BY DEF SigintInAdd, Insert, Idle, Gone, Handle, walker
<1>2. FieldsOK /\ Whole
  BY <1>1, BeforeSigint
<1>3. Items(chain', data') = IF k >= 3 THEN <<d>> \o Items(chain, data)
                                       ELSE Items(chain, data)
  BY <1>1, <1>2, InsertStep
<1>4. \/ Items(chain', data') = Items(chain, data)
      \/ \E e \in Data : Items(chain', data') = <<e>> \o Items(chain, data)
  BY <1>3
<1>5. Gone'
  BY <1>1 DEF Gone
<1> QED
  BY <1>1, <1>4, <1>5, Destroyed

LEMMA SigintInDetachRefines ==
  ASSUME ListInv, NEW n \in Cell, NEW k \in 0 .. 4, SigintInDetach(n, k)
  PROVE  List!Destroy \/ List!Release \/ UNCHANGED List!vars
<1>1. /\ Handle /\ Detaching(n) /\ ll_dettach_node(n, k)
      /\ chain' = IF k >= 2 THEN RemoveAt(chain, Position(n)) ELSE chain
      /\ data' = data /\ op' = "free"
      /\ todo' = todo /\ result' = result /\ current' = current
  BY DEF SigintInDetach, Handle, walker
<1>2. /\ FieldsOK /\ Leading
      /\ op = "free" => Doomed
      /\ chain \in Seq(Cell) /\ Distinct(chain) /\ data \in Contents
  BY <1>1, BeforeSigint DEF FieldsOK, Leading
<1>3. PICK p \in DOMAIN chain : n = chain[p] /\ prev[chain[p]] = Nth(chain, p - 1)
  BY <1>1, DetachingPlace
<1>4. chain' = IF k >= 2 THEN RemoveAt(chain, p) ELSE chain
  BY <1>1, <1>2, <1>3, DetachStep
<1>5. Gone'
  BY <1>1 DEF Gone
<1>6. p \in DOMAIN Items(chain, data)
  BY <1>2, ItemsType
<1>7. CASE k < 2
  <2>1. Items(chain', data') = Items(chain, data)
    BY <1>1, <1>4, <1>7
  <2>2. CASE Gone
    BY <1>1, <1>5, <2>1, <2>2, Unseen
  <2>3. CASE ~ Gone
    BY <1>1, <1>5, <2>1, <2>3, Destroyed
  <2> QED
    BY <2>2, <2>3
<1>8. CASE k >= 2
  <2>1. Items(chain', data') = RemoveAt(Items(chain, data), p)
    <3>1. chain' = RemoveAt(chain, p)
      BY <1>4, <1>8
    <3>2. Items(RemoveAt(chain, p), data) = RemoveAt(Items(chain, data), p)
      BY <1>2, ItemsLessened
    <3> QED
      BY <1>1, <3>1, <3>2
  <2>2. CASE ~ Gone
    BY <1>1, <1>5, <1>6, <2>1, <2>2, Destroyed
  <2>3. CASE Gone
    <3>1. op = "free" /\ tmp # tail /\ n = tmp
      BY <1>1, <2>3 DEF Detaching, Idle, Gone
    <3>2. 1 \in DOMAIN chain /\ tmp = chain[1]
      BY <1>2, <3>1, DoomedFirst
    <3>3. p = 1
      BY <1>2, <1>3, <3>1, <3>2 DEF Distinct
    <3>4. Items(chain, data) # <<>> /\ Items(chain', data') = Tail(Items(chain, data))
      <4>1. Items(chain', data') = RemoveAt(Items(chain, data), 1)
        BY <2>1, <3>3
      <4> QED
        BY <1>2, <3>2, <4>1, FirstItem
    <3> QED
      BY <1>1, <1>5, <2>3, <3>4, Released
  <2> QED
    BY <2>2, <2>3
<1> QED
  BY <1>7, <1>8

LEMMA StutterUnseen ==
  ASSUME UNCHANGED vars
  PROVE  UNCHANGED List!vars
<1>1. /\ op' = op /\ chain' = chain /\ data' = data
      /\ todo' = todo /\ result' = result /\ current' = current
  BY DEF vars, fields, loop, walker
<1>2. (Gone' <=> Gone) /\ Items(chain', data') = Items(chain, data)
  BY <1>1 DEF Gone
<1> QED
  BY <1>1, <1>2, Unseen

LEMMA InitRefines ==
  ASSUME Init
  PROVE  List!Init
<1>1. /\ chain = <<>> /\ todo = <<>> /\ current = NULL /\ op = "none"
      /\ result = [of |-> "none", match |-> {}, is |-> NULL]
  BY DEF Init
<1>2. [i \in DOMAIN chain |-> data[chain[i]]] = <<>>
  BY <1>1
<1>3. (current # NULL) = FALSE /\ Gone = FALSE
  BY <1>1 DEF Gone
<1> QED
  BY <1>1, <1>2, <1>3 DEF List!Init

LEMMA StepRefines ==
  ASSUME ListInv, [Next]_vars
  PROVE  [List!Next]_(List!vars)
<1>1. CASE \E n \in Cell, d \in Data : ll_add_node(n, d)
  BY <1>1, AddRefines DEF List!Next
<1>2. CASE (\E M \in SUBSET Data : ll_find_by_matching_data(M) \/ ll_pop_on_match(M)) \/ Skip
  BY <1>2, SearchStepUnseen
<1>3. CASE ll_pop_node \/ ll_peek
  BY <1>3, PopRefines, PeekRefines DEF List!Next
<1>4. CASE ll_free_linked_list \/ PopEmpty
  BY <1>4, FreeRefines DEF List!Next
<1>5. CASE Found
  BY <1>5, FoundRefines DEF List!Next
<1>6. CASE Taken
  BY <1>6, TakenRefines DEF List!Next
<1>7. CASE Missed
  BY <1>7, MissedRefines DEF List!Next
<1>8. CASE FreeNode
  BY <1>8, FreeNodeRefines DEF List!Next
<1>9. CASE FreeSentinels \/ SigintTooLate
  BY <1>9, SentinelsUnseen
<1>10. CASE Sigint
  BY <1>10, SigintRefines DEF List!Next
<1>11. CASE \E n \in Cell, k \in 0 .. 4 : SigintInDetach(n, k)
  BY <1>11, SigintInDetachRefines DEF List!Next
<1>12. CASE \E n \in Cell, k \in 0 .. 4 : \E d \in Data : SigintInAdd(n, d, k)
  BY <1>12, SigintInAddRefines DEF List!Next
<1>13. CASE get_base_iterator \/ base_iterator_next \/ base_iterator_free
  BY <1>13, BeginRefines, NextRefines, EndRefines DEF List!Next
<1>14. CASE UNCHANGED vars
  BY <1>14, StutterUnseen
<1> QED
  BY <1>1, <1>2, <1>3, <1>4, <1>5, <1>6, <1>7, <1>8, <1>9, <1>10, <1>11, <1>12, <1>13, <1>14
     DEF Next

\* The pointers of base_linked_list.c, in every order of calls and wherever SIGINT cuts one
\* off, implement a sequence that is searched from the newest item, popped at the oldest
\* and iterated over once and in order.
THEOREM ImplementsOrderedList == Spec => IsOrderedList
<1>1. Init => List!Init
  BY InitRefines
<1>2. ListInv /\ [Next]_vars => [List!Next]_(List!vars)
  BY StepRefines
<1> QED
  BY <1>1, <1>2, ListInvHolds, PTL DEF Spec, IsOrderedList, List!Spec
=============================================================================
