------------------------------ MODULE StoreProofs ------------------------------
(***************************************************************************)
(* Proofs about Store: for every set of events, starts, cameras, clients   *)
(* and readers, every history bound, page size and channel capacity.       *)
(***************************************************************************)
EXTENDS Store, WellFoundedInduction, TLAPS

------------------------------------------------------------------------------
(***************************************************************************)
(* Searching a sequence.                                                   *)
(***************************************************************************)
\* A set of numbers that is not empty has a smallest one.
LEMMA Smallest ==
  ASSUME NEW B \in SUBSET Nat, B # {}
  PROVE  \E n \in B : \A i \in B : n <= i
<1>1. IsWellFoundedOn(OpToRel(<, Nat), Nat)
  BY NatLessThanWellFounded
<1>2. PICK n \in B : \A i \in B : <<i, n>> \notin OpToRel(<, Nat)
  BY <1>1, WFMin
<1>3. \A i \in B : ~ (i < n)
  BY <1>2 DEF OpToRel
<1> QED BY <1>3

\* So has a set of numbers up to n a largest.
LEMMA Largest ==
  ASSUME NEW n \in Nat, NEW B \in SUBSET (1 .. n), B # {}
  PROVE  Max(B) \in B /\ \A i \in B : i <= Max(B)
<1> DEFINE C == {n - i : i \in B}
<1>1. C \in SUBSET Nat /\ C # {}
  <2>1. \A i \in B : n - i \in Nat
    OBVIOUS
  <2> QED BY <2>1
<1>2. PICK k \in C : \A i \in C : k <= i
  <2> HIDE DEF C
  <2> QED BY <1>1, Smallest
<1>3. PICK m \in B : k = n - m
  BY <1>2
<1>4. \A i \in B : n - i \in C
  OBVIOUS
<1>5. ASSUME NEW i \in B PROVE m >= i
  <2>1. i \in 1 .. n /\ m \in 1 .. n
    BY <1>3
  <2>2. n - m <= n - i
    BY <1>2, <1>3, <1>4
  <2> QED BY <2>1, <2>2
<1>6. Max(B) \in B /\ \A i \in B : Max(B) >= i
  <2>1. m \in B
    BY <1>3
  <2> QED BY <1>5, <2>1, Zenon DEF Max
<1> QED BY <1>6

\* The least of a set of indices, or the one past the end.
FirstOf(n, I) == IF I # {} THEN Min(I) ELSE n + 1

\* Which one that is.
LEMMA FirstIs ==
  ASSUME NEW n \in Nat, NEW I \in SUBSET (1 .. n)
  PROVE  /\ FirstOf(n, I) \in 1 .. n + 1
         /\ FirstOf(n, I) = n + 1 <=> I = {}
         /\ FirstOf(n, I) # n + 1 => FirstOf(n, I) \in I
         /\ \A j \in I : FirstOf(n, I) <= j
<1>1. CASE I = {}
  BY <1>1 DEF FirstOf
<1>2. CASE I # {}
  <2>1. \E m \in I : \A i \in I : m <= i
    <3>1. I \in SUBSET Nat
      OBVIOUS
    <3> QED BY <1>2, <3>1, Smallest
  <2>2. Min(I) \in I /\ \A i \in I : Min(I) <= i
    BY <2>1, Zenon DEF Min
  <2>3. FirstOf(n, I) = Min(I)
    BY <1>2 DEF FirstOf
  <2> DEFINE m == FirstOf(n, I)
  <2>4. m \in I /\ \A i \in I : m <= i
    BY <2>2, <2>3
  <2> HIDE DEF m
  <2>5. m \in 1 .. n + 1 /\ m # n + 1
    BY <2>4
  <2> QED BY <1>2, <2>4, <2>5 DEF m
<1> QED BY <1>1, <1>2

\* The places of a part of a sequence.
LEMMA PartIs ==
  ASSUME NEW S, NEW s \in Seq(S), NEW i \in 1 .. Len(s) + 1, NEW n \in i - 1 .. Len(s)
  PROVE  /\ SubSeq(s, i, n) \in Seq(S) /\ Len(SubSeq(s, i, n)) = n - (i - 1)
         /\ \A j \in 1 .. n - (i - 1) : SubSeq(s, i, n)[j] = s[(i - 1) + j]
<1> DEFINE p == SubSeq(s, i, n)
<1>0. Len(s) \in Nat /\ i \in Nat /\ n \in Nat
  OBVIOUS
<1>1. p \in Seq(S)
  <2>1. \A j \in i .. n : s[j] \in S
    OBVIOUS
  <2> QED BY <1>0, <2>1
<1>2. Len(p) = IF i <= n THEN n - i + 1 ELSE 0
  BY <1>0
<1>3. \A j \in 1 .. n - i + 1 : p[j] = s[i + j - 1]
  BY <1>0
<1> HIDE DEF p
<1>4. Len(p) = n - (i - 1)
  BY <1>0, <1>2
<1>5. ASSUME NEW j \in 1 .. n - (i - 1) PROVE p[j] = s[(i - 1) + j]
  <2>1. j \in 1 .. n - i + 1 /\ i + j - 1 = (i - 1) + j
    BY <1>0
  <2> QED BY <1>3, <2>1
<1> QED BY <1>1, <1>4, <1>5 DEF p

\* An element put at place i, and the element at place i taken out.
LEMMA InsertAtIs ==
  ASSUME NEW S, NEW s \in Seq(S), NEW e \in S, NEW i \in 1 .. Len(s) + 1
  PROVE  /\ InsertAt(s, i, e) \in Seq(S) /\ Len(InsertAt(s, i, e)) = Len(s) + 1
         /\ \A j \in 1 .. Len(s) + 1 :
              InsertAt(s, i, e)[j] = IF j < i THEN s[j] ELSE IF j = i THEN e ELSE s[j - 1]
<1> DEFINE n == Len(s)
           a == SubSeq(s, 1, i - 1)
           b == SubSeq(s, i, n)
           c == a \o <<e>>
           w == c \o b
<1>0. n \in Nat /\ i \in 1 .. n + 1
  OBVIOUS
<1>1. a \in Seq(S) /\ Len(a) = i - 1 /\ \A j \in 1 .. i - 1 : a[j] = s[j]
  <2>1. 1 \in 1 .. Len(s) + 1 /\ i - 1 \in 1 - 1 .. Len(s)
    BY <1>0
  <2>2. /\ SubSeq(s, 1, i - 1) \in Seq(S) /\ Len(SubSeq(s, 1, i - 1)) = (i - 1) - (1 - 1)
        /\ \A j \in 1 .. (i - 1) - (1 - 1) : SubSeq(s, 1, i - 1)[j] = s[(1 - 1) + j]
    BY <2>1, PartIs
  <2> QED BY <1>0, <2>2
<1>2. b \in Seq(S) /\ Len(b) = n + 1 - i /\ \A j \in 1 .. n + 1 - i : b[j] = s[(i - 1) + j]
  <2>1. Len(s) \in i - 1 .. Len(s)
    BY <1>0
  <2>2. /\ SubSeq(s, i, Len(s)) \in Seq(S) /\ Len(SubSeq(s, i, Len(s))) = Len(s) - (i - 1)
        /\ \A j \in 1 .. Len(s) - (i - 1) : SubSeq(s, i, Len(s))[j] = s[(i - 1) + j]
    BY <2>1, PartIs
  <2>3. Len(s) - (i - 1) = n + 1 - i
    BY <1>0
  <2> QED BY <2>2, <2>3
<1>3. InsertAt(s, i, e) = w
  BY DEF InsertAt
<1> HIDE DEF a, b, n
<1>4. c \in Seq(S) /\ Len(c) = i /\ (\A j \in 1 .. i - 1 : c[j] = a[j]) /\ c[i] = e
  BY <1>0, <1>1
<1> HIDE DEF c
<1>5. /\ w \in Seq(S) /\ Len(w) = n + 1
      /\ \A j \in 1 .. i : w[j] = c[j]
      /\ \A j \in 1 .. n + 1 - i : w[i + j] = b[j]
  <2>0. w = c \o b
    OBVIOUS
  <2> HIDE DEF w
  <2>1. w \in Seq(S) /\ Len(w) = Len(c) + Len(b)
    <3>1. c \in Seq(S) /\ b \in Seq(S)
      BY <1>2, <1>4
    <3> QED BY <2>0, <3>1
  <2>2. ASSUME NEW j \in 1 .. i PROVE w[j] = c[j]
    BY <1>0, <1>2, <1>4, <2>0
  <2>3. ASSUME NEW j \in 1 .. n + 1 - i PROVE w[i + j] = b[j]
    BY <1>0, <1>2, <1>4, <2>0, SMTT(30)
  <2>4. Len(w) = n + 1
    BY <1>0, <1>2, <1>4, <2>1
  <2> QED BY <2>1, <2>2, <2>3, <2>4
<1> HIDE DEF w
<1>6. ASSUME NEW j \in 1 .. n + 1
      PROVE  w[j] = IF j < i THEN s[j] ELSE IF j = i THEN e ELSE s[j - 1]
  <2>1. CASE j < i
    <3>1. j \in 1 .. i - 1 /\ j \in 1 .. i
      BY <1>0, <2>1
    <3> QED BY <1>1, <1>4, <1>5, <2>1, <3>1
  <2>2. CASE j = i
    <3>1. i \in 1 .. i /\ ~ (j < i)
      BY <1>0, <2>2
    <3> QED BY <1>4, <1>5, <2>2, <3>1
  <2>3. CASE j > i
    <3>1. j - i \in 1 .. n + 1 - i /\ i + (j - i) = j /\ (i - 1) + (j - i) = j - 1 /\ ~ (j < i) /\ j # i
      BY <1>0, <2>3
    <3>2. w[j] = b[j - i] /\ b[j - i] = s[j - 1]
      BY <1>2, <1>5, <3>1
    <3> QED BY <3>1, <3>2
  <2> QED BY <1>0, <2>1, <2>2, <2>3
<1> QED BY <1>3, <1>5, <1>6 DEF n

\* What removing an element leaves.
LEMMA RemoveAtIs ==
  ASSUME NEW S, NEW s \in Seq(S), NEW i \in 1 .. Len(s)
  PROVE  /\ RemoveAt(s, i) \in Seq(S) /\ Len(RemoveAt(s, i)) = Len(s) - 1
         /\ \A j \in 1 .. Len(s) - 1 : RemoveAt(s, i)[j] = IF j < i THEN s[j] ELSE s[j + 1]
<1> DEFINE n == Len(s)
           a == SubSeq(s, 1, i - 1)
           b == SubSeq(s, i + 1, n)
           w == a \o b
<1>0. n \in Nat /\ i \in 1 .. n
  OBVIOUS
<1>1. a \in Seq(S) /\ Len(a) = i - 1 /\ \A j \in 1 .. i - 1 : a[j] = s[j]
  <2>1. 1 \in 1 .. Len(s) + 1 /\ i - 1 \in 1 - 1 .. Len(s)
    BY <1>0
  <2>2. /\ SubSeq(s, 1, i - 1) \in Seq(S) /\ Len(SubSeq(s, 1, i - 1)) = (i - 1) - (1 - 1)
        /\ \A j \in 1 .. (i - 1) - (1 - 1) : SubSeq(s, 1, i - 1)[j] = s[(1 - 1) + j]
    BY <2>1, PartIs
  <2> QED BY <1>0, <2>2
<1>2. b \in Seq(S) /\ Len(b) = n - i /\ \A j \in 1 .. n - i : b[j] = s[i + j]
  <2>1. i + 1 \in 1 .. Len(s) + 1 /\ Len(s) \in (i + 1) - 1 .. Len(s)
    BY <1>0
  <2>2. /\ SubSeq(s, i + 1, Len(s)) \in Seq(S) /\ Len(SubSeq(s, i + 1, Len(s))) = Len(s) - ((i + 1) - 1)
        /\ \A j \in 1 .. Len(s) - ((i + 1) - 1) : SubSeq(s, i + 1, Len(s))[j] = s[((i + 1) - 1) + j]
    BY <2>1, PartIs
  <2>3. Len(s) - ((i + 1) - 1) = n - i /\ (i + 1) - 1 = i
    BY <1>0
  <2> QED BY <2>2, <2>3
<1>3. RemoveAt(s, i) = w
  BY DEF RemoveAt
<1> HIDE DEF a, b, n
<1>4. /\ w \in Seq(S) /\ Len(w) = n - 1
      /\ \A j \in 1 .. i - 1 : w[j] = a[j]
      /\ \A j \in 1 .. n - i : w[(i - 1) + j] = b[j]
  <2>0. w = a \o b
    OBVIOUS
  <2> HIDE DEF w
  <2>1. w \in Seq(S) /\ Len(w) = Len(a) + Len(b)
    <3>1. a \in Seq(S) /\ b \in Seq(S)
      BY <1>1, <1>2
    <3> QED BY <2>0, <3>1
  <2>2. ASSUME NEW j \in 1 .. i - 1 PROVE w[j] = a[j]
    BY <1>0, <1>1, <1>2, <2>0
  <2>3. ASSUME NEW j \in 1 .. n - i PROVE w[(i - 1) + j] = b[j]
    BY <1>0, <1>1, <1>2, <2>0
  <2>4. Len(w) = n - 1
    BY <1>0, <1>1, <1>2, <2>1
  <2> QED BY <2>1, <2>2, <2>3, <2>4
<1> HIDE DEF w
<1>5. ASSUME NEW j \in 1 .. n - 1 PROVE w[j] = IF j < i THEN s[j] ELSE s[j + 1]
  <2>1. CASE j < i
    <3>1. j \in 1 .. i - 1
      BY <1>0, <2>1
    <3> QED BY <1>1, <1>4, <2>1, <3>1
  <2>2. CASE ~ (j < i)
    <3>1. j - (i - 1) \in 1 .. n - i /\ (i - 1) + (j - (i - 1)) = j /\ i + (j - (i - 1)) = j + 1
      BY <1>0, <2>2
    <3>2. w[j] = b[j - (i - 1)] /\ b[j - (i - 1)] = s[j + 1]
      BY <1>2, <1>4, <3>1
    <3> QED BY <2>2, <3>2
  <2> QED BY <2>1, <2>2
<1> QED BY <1>3, <1>4, <1>5 DEF n

------------------------------------------------------------------------------
(***************************************************************************)
(* The order of the list, and what insert and remove make of it.           *)
(***************************************************************************)
Below(x, y) == Older(x, Cursor(y))

Sorted(s) == \A j, k \in 1 .. Len(s) : j < k => Below(s[k], s[j])

\* StartedAt desc, then ID desc, is a strict order, total on different ids.
LEMMA BelowIsOrder ==
  ASSUME NEW x \in Entry, NEW y \in Entry, NEW z \in Entry
  PROVE  /\ ~ Below(x, x)
         /\ Below(x, y) => ~ Below(y, x)
         /\ Below(x, y) /\ Below(y, z) => Below(x, z)
         /\ x.id # y.id => Below(x, y) \/ Below(y, x)
         /\ Newer(x, Cursor(y)) <=> Below(y, x)
<1>1. /\ x.id \in Nat /\ y.id \in Nat /\ z.id \in Nat
      /\ x.start \in Nat /\ y.start \in Nat /\ z.start \in Nat
  BY StoreAssumption DEF Entry
<1> QED BY <1>1 DEF Below, Older, Newer, Cursor

\* insert keeps the order when the event is not in the list.
LEMMA InsertOK ==
  ASSUME NEW s \in Seq(Entry), Sorted(s), NEW e \in Entry, \A x \in ToSet(s) : x.id # e.id
  PROVE  /\ InsertEntry(s, e) \in Seq(Entry) /\ Sorted(InsertEntry(s, e))
         /\ ToSet(InsertEntry(s, e)) = ToSet(s) \cup {e}
<1> DEFINE n == Len(s)
           I == {i \in 1 .. n : Older(s[i], Cursor(e))}
           p == FirstOf(n, I)
           w == InsertEntry(s, e)
<1>0. n \in Nat /\ DOMAIN s = 1 .. n /\ I \in SUBSET (1 .. n) /\ \A i \in 1 .. n : s[i] \in Entry
  OBVIOUS
<1>1. /\ p \in 1 .. n + 1
      /\ p = n + 1 <=> I = {}
      /\ p # n + 1 => p \in I
      /\ \A j \in I : p <= j
  BY <1>0, FirstIs
<1>2. w = InsertAt(s, p, e)
  <2>1. CASE I = {}
    BY <2>1 DEF InsertEntry, Search, SelectInSeq, FirstOf
  <2>2. CASE I # {}
    <3>1. p = Min(I) /\ p # 0
      BY <1>0, <1>1, <2>2 DEF FirstOf
    <3> QED BY <2>2, <3>1 DEF InsertEntry, Search, SelectInSeq
  <2> QED BY <2>1, <2>2
<1>3. \A j \in 1 .. n : j < p => Below(e, s[j])
  <2> SUFFICES ASSUME NEW j \in 1 .. n, j < p PROVE Below(e, s[j])
    OBVIOUS
  <2>1. j \notin I
    BY <1>0, <1>1
  <2>2. ~ Below(s[j], e) /\ s[j] \in Entry /\ s[j].id # e.id
    BY <1>0, <2>1 DEF Below, ToSet
  <2> QED BY <2>2, BelowIsOrder
<1>4. \A j \in 1 .. n : p <= j => Below(s[j], e)
  <2> SUFFICES ASSUME NEW j \in 1 .. n, p <= j PROVE Below(s[j], e)
    OBVIOUS
  <2>1. p \in I /\ p \in 1 .. n /\ Below(s[p], e)
    BY <1>0, <1>1 DEF Below
  <2>2. CASE j = p
    BY <2>1, <2>2
  <2>3. CASE j # p
    <3>1. Below(s[j], s[p])
      BY <1>0, <2>1, <2>3 DEF Sorted
    <3> QED BY <1>0, <2>1, <3>1, BelowIsOrder
  <2> QED BY <2>2, <2>3
<1> HIDE DEF I, p
<1>5. /\ InsertAt(s, p, e) \in Seq(Entry) /\ Len(InsertAt(s, p, e)) = Len(s) + 1
      /\ \A j \in 1 .. Len(s) + 1 :
           InsertAt(s, p, e)[j] = IF j < p THEN s[j] ELSE IF j = p THEN e ELSE s[j - 1]
  <2>1. PICK i \in 1 .. Len(s) + 1 : i = p
    BY <1>1
  <2>2. /\ InsertAt(s, i, e) \in Seq(Entry) /\ Len(InsertAt(s, i, e)) = Len(s) + 1
        /\ \A j \in 1 .. Len(s) + 1 :
             InsertAt(s, i, e)[j] = IF j < i THEN s[j] ELSE IF j = i THEN e ELSE s[j - 1]
    BY InsertAtIs
  <2> QED BY <2>1, <2>2
<1>6. /\ w \in Seq(Entry) /\ Len(w) = n + 1 /\ DOMAIN w = 1 .. n + 1
      /\ \A j \in 1 .. n + 1 : w[j] = IF j < p THEN s[j] ELSE IF j = p THEN e ELSE s[j - 1]
  <2> HIDE DEF w
  <2>1. w \in Seq(Entry) /\ Len(w) = n + 1
    BY <1>2, <1>5
  <2>2. \A j \in 1 .. n + 1 : w[j] = IF j < p THEN s[j] ELSE IF j = p THEN e ELSE s[j - 1]
    BY <1>2, <1>5, Zenon
  <2> QED BY <2>1, <2>2
<1> HIDE DEF w
<1>7. ASSUME NEW j \in 1 .. n + 1, NEW k \in 1 .. n + 1, j < k PROVE Below(w[k], w[j])
  <2>1. CASE k < p
    <3>1. j \in 1 .. n /\ k \in 1 .. n /\ j < p /\ w[j] = s[j] /\ w[k] = s[k]
      BY <1>0, <1>1, <1>6, <1>7, <2>1
    <3> QED BY <1>7, <3>1 DEF Sorted
  <2>2. CASE k = p
    <3>1. j \in 1 .. n /\ j < p /\ w[j] = s[j] /\ w[k] = e
      BY <1>0, <1>1, <1>6, <1>7, <2>2
    <3> QED BY <1>3, <3>1
  <2>3. CASE k > p
    <3>1. k - 1 \in 1 .. n /\ w[k] = s[k - 1] /\ p <= k - 1
      BY <1>0, <1>1, <1>6, <2>3
    <3>2. CASE j < p
      <4>1. j \in 1 .. n /\ w[j] = s[j] /\ j < k - 1
        BY <1>0, <1>1, <1>6, <2>3, <3>2
      <4> QED BY <3>1, <4>1 DEF Sorted
    <3>3. CASE j = p
      <4>1. w[j] = e
        BY <1>6, <3>3
      <4> QED BY <1>4, <3>1, <4>1
    <3>4. CASE j > p
      <4>1. j - 1 \in 1 .. n /\ w[j] = s[j - 1] /\ j - 1 < k - 1
        BY <1>0, <1>1, <1>6, <1>7, <3>4
      <4> QED BY <3>1, <4>1 DEF Sorted
    <3> QED BY <1>1, <3>2, <3>3, <3>4
  <2> QED BY <1>1, <2>1, <2>2, <2>3
<1>8. Sorted(w)
  BY <1>6, <1>7 DEF Sorted
<1>9. ToSet(w) = ToSet(s) \cup {e}
  <2>1. ASSUME NEW j \in 1 .. n + 1 PROVE w[j] \in ToSet(s) \cup {e}
    <3>1. CASE j < p
      <4>1. j \in 1 .. n
        BY <1>0, <1>1, <3>1
      <4> QED BY <1>0, <1>6, <3>1, <4>1 DEF ToSet
    <3>2. CASE j = p
      BY <1>6, <3>2
    <3>3. CASE j > p
      <4>1. j - 1 \in 1 .. n /\ w[j] = s[j - 1]
        BY <1>0, <1>1, <1>6, <3>3
      <4> QED BY <1>0, <4>1 DEF ToSet
    <3> QED BY <1>1, <3>1, <3>2, <3>3
  <2>2. ASSUME NEW j \in 1 .. n PROVE s[j] \in ToSet(w)
    <3>1. CASE j < p
      <4>1. j \in 1 .. n + 1 /\ w[j] = s[j]
        BY <1>0, <1>6, <3>1
      <4> QED BY <1>6, <4>1 DEF ToSet
    <3>2. CASE ~ (j < p)
      <4>1. j + 1 \in 1 .. n + 1 /\ w[j + 1] = s[(j + 1) - 1] /\ (j + 1) - 1 = j
        BY <1>0, <1>1, <1>6, <3>2
      <4> QED BY <1>6, <4>1 DEF ToSet
    <3> QED BY <3>1, <3>2
  <2>3. e \in ToSet(w)
    <3>1. w[p] = e
      BY <1>0, <1>1, <1>6
    <3> QED BY <1>1, <1>6, <3>1 DEF ToSet
  <2>4. ToSet(w) \subseteq ToSet(s) \cup {e}
    BY <1>6, <2>1 DEF ToSet
  <2>5. ToSet(s) \subseteq ToSet(w)
    BY <1>0, <2>2 DEF ToSet
  <2> QED BY <2>3, <2>4, <2>5
<1> QED BY <1>6, <1>8, <1>9 DEF w

\* remove finds the entry by its place, and takes it out.
LEMMA RemoveOK ==
  ASSUME NEW s \in Seq(Entry), Sorted(s), NEW e \in ToSet(s)
  PROVE  /\ RemoveEntry(s, e) \in Seq(Entry) /\ Sorted(RemoveEntry(s, e))
         /\ ToSet(RemoveEntry(s, e)) = ToSet(s) \ {e}
<1> DEFINE n == Len(s)
           I == {i \in 1 .. n : ~ Newer(s[i], Cursor(e))}
           p == FirstOf(n, I)
           w == RemoveAt(s, p)
<1>0. n \in Nat /\ DOMAIN s = 1 .. n /\ I \in SUBSET (1 .. n) /\ \A i \in 1 .. n : s[i] \in Entry
  OBVIOUS
<1>1. PICK q \in 1 .. n : s[q] = e
  BY <1>0 DEF ToSet
<1>2. /\ p \in 1 .. n + 1
      /\ p = n + 1 <=> I = {}
      /\ p # n + 1 => p \in I
      /\ \A j \in I : p <= j
  BY <1>0, FirstIs
<1>3. q \in I /\ \A j \in 1 .. n : j < q => j \notin I
  <2>1. ~ Newer(s[q], Cursor(e))
    BY <1>0, <1>1, BelowIsOrder
  <2>2. ASSUME NEW j \in 1 .. n, j < q PROVE Newer(s[j], Cursor(e))
    <3>1. Below(s[q], s[j])
      BY <2>2 DEF Sorted
    <3> QED BY <1>0, <1>1, <3>1, BelowIsOrder
  <2> QED BY <2>1, <2>2
<1>4. p = q
  <2>1. p <= q /\ p \in 1 .. n /\ p \in I
    BY <1>0, <1>2, <1>3
  <2> QED BY <1>3, <2>1
<1>5. RemoveEntry(s, e) = w
  <2>1. p = Min(I) /\ I # {} /\ p # 0 /\ p <= n /\ s[p] = e
    BY <1>0, <1>1, <1>3, <1>4 DEF FirstOf
  <2> QED BY <2>1 DEF RemoveEntry, Search, SelectInSeq
<1> HIDE DEF I, p
<1>6. /\ w \in Seq(Entry) /\ Len(w) = n - 1 /\ DOMAIN w = 1 .. n - 1
      /\ \A j \in 1 .. n - 1 : w[j] = IF j < q THEN s[j] ELSE s[j + 1]
  <2>1. /\ RemoveAt(s, q) \in Seq(Entry) /\ Len(RemoveAt(s, q)) = Len(s) - 1
        /\ \A j \in 1 .. Len(s) - 1 : RemoveAt(s, q)[j] = IF j < q THEN s[j] ELSE s[j + 1]
    BY <1>1, RemoveAtIs
  <2>2. w = RemoveAt(s, q)
    BY <1>4
  <2> HIDE DEF w
  <2> QED BY <2>1, <2>2
<1> HIDE DEF w
<1>7. \A j \in 1 .. n - 1 : \E i \in 1 .. n : /\ i = IF j < q THEN j ELSE j + 1
                                             /\ w[j] = s[i] /\ i # q
  BY <1>0, <1>1, <1>6
<1>8. Sorted(w)
  <2> SUFFICES ASSUME NEW j \in 1 .. n - 1, NEW k \in 1 .. n - 1, j < k PROVE Below(w[k], w[j])
    BY <1>6 DEF Sorted
  <2>1. PICK x \in 1 .. n : x = (IF j < q THEN j ELSE j + 1) /\ w[j] = s[x]
    BY <1>7
  <2>2. PICK y \in 1 .. n : y = (IF k < q THEN k ELSE k + 1) /\ w[k] = s[y]
    BY <1>7
  <2>3. x < y
    BY <1>0, <1>1, <2>1, <2>2
  <2> QED BY <2>1, <2>2, <2>3 DEF Sorted
<1>9. ToSet(w) = ToSet(s) \ {e}
  <2>1. \A i \in 1 .. n : i # q => s[i] # e
    <3> SUFFICES ASSUME NEW i \in 1 .. n, i # q PROVE s[i] # e
      OBVIOUS
    <3>1. Below(s[i], s[q]) \/ Below(s[q], s[i])
      BY <1>0, <1>1 DEF Sorted
    <3> QED BY <1>0, <1>1, <3>1, BelowIsOrder
  <2>2. ToSet(w) \subseteq ToSet(s) \ {e}
    <3> SUFFICES ASSUME NEW j \in 1 .. n - 1 PROVE w[j] \in ToSet(s) \ {e}
      BY <1>6 DEF ToSet
    <3>1. PICK i \in 1 .. n : w[j] = s[i] /\ i # q
      BY <1>7
    <3> QED BY <1>0, <2>1, <3>1 DEF ToSet
  <2>3. ToSet(s) \ {e} \subseteq ToSet(w)
    <3>0. SUFFICES ASSUME NEW x \in ToSet(s) \ {e} PROVE x \in ToSet(w)
      OBVIOUS
    <3> PICK i \in 1 .. n : x = s[i]
      BY <1>0 DEF ToSet
    <3>3. i # q
      BY <1>1
    <3> SUFFICES \E j \in 1 .. n - 1 : w[j] = s[i]
      BY <1>6 DEF ToSet
    <3>1. CASE i < q
      <4>1. i \in 1 .. n - 1
        BY <1>0, <1>1, <3>1
      <4> QED BY <1>6, <3>1, <4>1
    <3>2. CASE i > q
      <4>1. i - 1 \in 1 .. n - 1 /\ ~ (i - 1 < q) /\ (i - 1) + 1 = i
        BY <1>0, <1>1, <3>2
      <4> QED BY <1>6, <4>1
    <3> QED BY <1>0, <1>1, <3>1, <3>2, <3>3
  <2> QED BY <2>2, <2>3
<1> QED BY <1>5, <1>6, <1>8, <1>9

\* Cutting the old end off leaves the order.
LEMMA CutOK ==
  ASSUME NEW s \in Seq(Entry), Sorted(s), NEW n \in 0 .. Len(s)
  PROVE  /\ SubSeq(s, 1, n) \in Seq(Entry) /\ Sorted(SubSeq(s, 1, n))
         /\ ToSet(SubSeq(s, 1, n)) = {s[j] : j \in 1 .. n}
<1> DEFINE w == SubSeq(s, 1, n)
<1>1. 1 \in 1 .. Len(s) + 1 /\ n \in 1 - 1 .. Len(s) /\ n - (1 - 1) = n /\ Len(s) \in Nat
  OBVIOUS
<1>2. /\ SubSeq(s, 1, n) \in Seq(Entry) /\ Len(SubSeq(s, 1, n)) = n - (1 - 1)
      /\ \A j \in 1 .. n - (1 - 1) : SubSeq(s, 1, n)[j] = s[(1 - 1) + j]
  BY <1>1, PartIs
<1>3. w \in Seq(Entry) /\ Len(w) = n /\ DOMAIN w = 1 .. n /\ \A j \in 1 .. n : w[j] = s[j]
  BY <1>1, <1>2
<1> HIDE DEF w
<1>4. Sorted(w)
  BY <1>1, <1>3 DEF Sorted
<1>5. ToSet(w) = {s[j] : j \in 1 .. n}
  BY <1>3 DEF ToSet
<1> QED BY <1>3, <1>4, <1>5 DEF w

------------------------------------------------------------------------------
(***************************************************************************)
(* The map and the list, under every writer.                               *)
(***************************************************************************)
EntriesOK ==
  /\ applied \in Nat /\ now \in Nat
  /\ byID \in [Ids -> Entry \cup {None}]
  /\ \A i \in Ids : byID[i] # None => byID[i].id = i /\ byID[i].updatedAt <= now

Stored == {byID[i] : i \in {j \in Ids : byID[j] # None}}

ListOK == ordered \in Seq(Entry) /\ Sorted(ordered) /\ ToSet(ordered) = Stored

\* What an entry remembers: the revision it began with, then some later ones, the
\* newest last.
HistoryOK ==
  /\ first \in [Ids -> Nat]
  /\ \A i \in Ids : byID[i] # None =>
       LET h == byID[i].history
       IN  /\ Len(h) \in 1 .. MaxHistory
           /\ h[1] = first[i] /\ h[Len(h)] = byID[i].rev /\ byID[i].rev <= applied
           /\ \A j, k \in 1 .. Len(h) : j < k => h[j] < h[k]

ListInv == world \in World /\ EntriesOK /\ ListOK /\ HistoryOK

\* Appending a revision and dropping the middle keeps the ends and the order.
LEMMA BoundedOK ==
  ASSUME NEW h \in Seq(Nat), NEW r \in Nat, Len(h) <= MaxHistory,
         \A j, k \in 1 .. Len(h) : j < k => h[j] < h[k],
         \A j \in 1 .. Len(h) : h[j] < r
  PROVE  LET b == Bounded(Append(h, r))
         IN  /\ b \in Seq(Nat) /\ Len(b) \in 1 .. MaxHistory
             /\ b[1] = (IF h = <<>> THEN r ELSE h[1]) /\ b[Len(b)] = r
             /\ \A j, k \in 1 .. Len(b) : j < k => b[j] < b[k]
<1> DEFINE n == Len(h)
           a == Append(h, r)
           b == Bounded(a)
<1>0. n \in Nat /\ MaxHistory \in Nat /\ MaxHistory > 1 /\ n <= MaxHistory
  BY StoreAssumption
<1>1. /\ a \in Seq(Nat) /\ Len(a) = n + 1 /\ a[n + 1] = r /\ \A j \in 1 .. n : a[j] = h[j]
  OBVIOUS
<1>2. h = <<>> <=> n = 0
  OBVIOUS
<1> HIDE DEF a, n
<1>3. \A j, k \in 1 .. n + 1 : j < k => a[j] < a[k]
  <2> SUFFICES ASSUME NEW j \in 1 .. n + 1, NEW k \in 1 .. n + 1, j < k PROVE a[j] < a[k]
    OBVIOUS
  <2>1. j \in 1 .. n /\ a[j] = h[j]
    BY <1>0, <1>1
  <2>2. CASE k = n + 1
    BY <1>1, <2>1, <2>2 DEF n
  <2>3. CASE k # n + 1
    <3>1. k \in 1 .. n /\ a[k] = h[k]
      BY <1>0, <1>1, <2>3
    <3> QED BY <2>1, <3>1 DEF n
  <2> QED BY <2>2, <2>3
<1>4. a[1] = IF h = <<>> THEN r ELSE h[1]
  BY <1>0, <1>1, <1>2
<1>5. CASE ~ (Len(a) > MaxHistory)
  <2>1. b = a
    BY <1>5 DEF Bounded
  <2>2. Len(a) \in 1 .. MaxHistory
    BY <1>0, <1>1, <1>5
  <2> QED BY <1>1, <1>3, <1>4, <2>1, <2>2 DEF a
<1>6. CASE Len(a) > MaxHistory
  <2> DEFINE m == MaxHistory
             t == SubSeq(a, Len(a) - MaxHistory + 2, Len(a))
  <2>1. n = m
    BY <1>0, <1>1, <1>6
  <2>2. t \in Seq(Nat) /\ Len(t) = m - 1 /\ \A j \in 1 .. m - 1 : t[j] = a[2 + j]
    <3>1. Len(a) - MaxHistory + 2 = 3 /\ Len(a) = m + 1
      BY <1>0, <1>1, <2>1
    <3>2. 3 \in 1 .. Len(a) + 1 /\ Len(a) \in 3 - 1 .. Len(a)
      BY <1>0, <3>1
    <3>3. /\ SubSeq(a, 3, Len(a)) \in Seq(Nat) /\ Len(SubSeq(a, 3, Len(a))) = Len(a) - (3 - 1)
          /\ \A j \in 1 .. Len(a) - (3 - 1) : SubSeq(a, 3, Len(a))[j] = a[(3 - 1) + j]
      BY <1>1, <3>2, PartIs, SMTT(30)
    <3>4. t = SubSeq(a, 3, Len(a)) /\ Len(a) - (3 - 1) = m - 1 /\ 3 - 1 = 2
      BY <1>0, <3>1
    <3> HIDE DEF t, m
    <3> QED BY <3>3, <3>4
  <2>3. b = <<a[1]>> \o t
    BY <1>6 DEF Bounded
  <2> HIDE DEF t, b
  <2>4. a[1] \in Nat
    BY <1>0, <1>1
  <2>5. b \in Seq(Nat) /\ Len(b) = m /\ b[1] = a[1] /\ \A j \in 1 .. m - 1 : b[1 + j] = a[2 + j]
    <3>1. b \in Seq(Nat) /\ Len(b) = 1 + Len(t)
      BY <2>2, <2>3, <2>4
    <3>2. b[1] = a[1]
      BY <2>2, <2>3, <2>4
    <3>3. ASSUME NEW j \in 1 .. m - 1 PROVE b[1 + j] = a[2 + j]
      BY <1>0, <2>2, <2>3, <2>4
    <3> HIDE DEF m
    <3> QED BY <1>0, <2>2, <3>1, <3>2, <3>3 DEF m
  <2>6. \A j \in 2 .. m : b[j] = a[j + 1]
    <3> SUFFICES ASSUME NEW j \in 2 .. m PROVE b[j] = a[j + 1]
      OBVIOUS
    <3>1. j - 1 \in 1 .. m - 1 /\ 1 + (j - 1) = j /\ 2 + (j - 1) = j + 1
      BY <1>0
    <3> QED BY <2>5, <3>1
  <2>7. b[m] = r
    BY <1>0, <1>1, <2>1, <2>6
  <2>8. ASSUME NEW j \in 1 .. m, NEW k \in 1 .. m, j < k PROVE b[j] < b[k]
    <3>1. k \in 2 .. m /\ b[k] = a[k + 1] /\ k + 1 \in 1 .. n + 1
      BY <1>0, <2>1, <2>6, <2>8
    <3>2. CASE j = 1
      BY <1>0, <1>3, <2>1, <2>5, <3>1, <3>2
    <3>3. CASE j # 1
      <4>1. j \in 2 .. m /\ b[j] = a[j + 1] /\ j + 1 \in 1 .. n + 1 /\ j + 1 < k + 1
        BY <1>0, <2>1, <2>6, <2>8, <3>3
      <4> QED BY <1>3, <3>1, <4>1
    <3> QED BY <3>2, <3>3
  <2> QED BY <1>0, <1>4, <2>5, <2>7, <2>8 DEF a, b
<1> QED BY <1>5, <1>6

\* At the start the list and its index are empty.
LEMMA ListInvInit == Init => ListInv
<1> SUFFICES ASSUME Init PROVE ListInv
  OBVIOUS
<1>1. /\ world \in World /\ applied = 0 /\ now = 1 /\ ordered = <<>>
      /\ \A i \in Ids : byID[i] = None
      /\ byID = [i \in Ids |-> None] /\ first = [i \in Ids |-> 0]
  BY StoreAssumption DEF Init
<1>2. EntriesOK /\ HistoryOK
  BY <1>1 DEF EntriesOK, HistoryOK
<1>3. ListOK
  <2>1. Stored = {}
    BY <1>1 DEF Stored
  <2>2. ordered \in Seq(Entry) /\ Len(ordered) = 0 /\ ToSet(ordered) = {}
    BY <1>1 DEF ToSet
  <2> QED BY <2>1, <2>2 DEF ListOK, Sorted
<1> QED BY <1>1, <1>2, <1>3 DEF ListInv

\* What Apply does to what the readers are owed.
Paged(id, old, e) ==
  pager' = [p \in Pagers |->
              [pager[p] EXCEPT !.owed = IF Overtakes(pager[p], old, e) THEN @ \ {id} ELSE @]]

\* Apply: the event's old entry leaves the list, its new one enters it, with the
\* history it had and the new revision.
LEMMA ApplyKeepsList ==
  ASSUME ListInv, NEW id \in world.ids, NEW start \in world.starts, NEW camera \in world.cameras,
         NEW at \in Later, Apply(id, start, camera, at)
  PROVE  /\ ListInv'
         /\ \E e \in Entry :
              /\ e.id = id /\ byID' = [byID EXCEPT ![id] = e]
              /\ subs' = [s \in Subs |-> IF subs[s].open THEN Offer(subs[s], e) ELSE subs[s]]
              /\ Paged(id, byID[id], e)
<1> DEFINE old == byID[id]
           rev == applied + 1
           before == IF old = None THEN <<>> ELSE old.history
           history == Bounded(Append(before, rev))
           e == [id |-> id, start |-> start, camera |-> camera,
                 rev |-> rev, updatedAt |-> at, history |-> history]
           rest == IF old = None THEN ordered ELSE RemoveEntry(ordered, old)
<1>1. /\ id \in Ids /\ start \in Starts /\ camera \in Cameras
      /\ applied \in Nat /\ now \in Nat /\ at \in Nat /\ now <= at /\ rev \in Nat
      /\ old \in Entry \cup {None} /\ byID \in [Ids -> Entry \cup {None}] /\ None \notin Entry
      /\ old # None => old.id = id
  BY StoreAssumption DEF ListInv, EntriesOK, World, Later
<1>2. /\ applied' = rev /\ now' = at /\ world' = world
      /\ subs' = [s \in Subs |-> IF subs[s].open THEN Offer(subs[s], e) ELSE subs[s]]
      /\ byID' = [byID EXCEPT ![id] = e]
      /\ Paged(id, old, e)
      /\ ordered' = InsertEntry(rest, e)
      /\ first' = [first EXCEPT ![id] = IF old = None THEN rev ELSE @]
  BY DEF Apply, Paged
<1>3. /\ before \in Seq(Nat) /\ Len(before) <= MaxHistory
      /\ \A j, k \in 1 .. Len(before) : j < k => before[j] < before[k]
      /\ \A j \in 1 .. Len(before) : before[j] < rev
      /\ old # None => before # <<>> /\ before[1] = first[id]
  <2>1. CASE old = None
    <3>1. before = <<>> /\ Len(before) = 0 /\ before \in Seq(Nat)
      BY <2>1
    <3> QED BY <2>1, <3>1, StoreAssumption
  <2>2. CASE old # None
    <3> DEFINE h == old.history
    <3>1. h \in Seq(Nat)
      BY <1>1, <2>2 DEF Entry
    <3>2. /\ Len(h) \in 1 .. MaxHistory
          /\ h[1] = first[id] /\ h[Len(h)] = old.rev /\ old.rev <= applied
          /\ \A j, k \in 1 .. Len(h) : j < k => h[j] < h[k]
      BY <1>1, <2>2 DEF ListInv, HistoryOK
    <3>3. before = h
      BY <2>2
    <3> HIDE DEF h, before
    <3>4. h # <<>>
      BY <3>2
    <3>5. ASSUME NEW j \in 1 .. Len(h) PROVE h[j] < rev
      <4>1. Len(h) \in 1 .. Len(h) /\ h[j] \in Nat /\ h[Len(h)] \in Nat
        BY <3>1, <3>2
      <4>2. CASE j = Len(h)
        BY <1>1, <3>2, <4>1, <4>2
      <4>3. CASE j # Len(h)
        <5>1. j < Len(h)
          BY <3>2, <4>3
        <5>2. h[j] < h[Len(h)]
          BY <3>2, <4>1, <5>1
        <5> QED BY <1>1, <3>2, <4>1, <5>2
      <4> QED BY <4>2, <4>3
    <3>6. Len(h) <= MaxHistory
      BY <3>2, StoreAssumption
    <3> QED BY <3>1, <3>2, <3>3, <3>4, <3>5, <3>6
  <2> QED BY <2>1, <2>2
<1> HIDE DEF before
<1>4. /\ history \in Seq(Nat) /\ Len(history) \in 1 .. MaxHistory
      /\ history[1] = (IF before = <<>> THEN rev ELSE before[1]) /\ history[Len(history)] = rev
      /\ \A j, k \in 1 .. Len(history) : j < k => history[j] < history[k]
  BY <1>1, <1>3, BoundedOK
<1> HIDE DEF history
<1>5. /\ e \in Entry /\ e.id = id /\ e.rev = rev /\ e.updatedAt = at /\ e.history = history
      /\ e # None /\ e.start = start
  BY <1>1, <1>4 DEF Entry
<1> HIDE DEF e
<1>6. EntriesOK'
  <2>1. byID' \in [Ids -> Entry \cup {None}]
    BY <1>1, <1>2, <1>5
  <2>2. ASSUME NEW i \in Ids, byID'[i] # None PROVE byID'[i].id = i /\ byID'[i].updatedAt <= now'
    <3>1. CASE i = id
      BY <1>1, <1>2, <1>5, <3>1
    <3>2. CASE i # id
      <4>1. byID'[i] = byID[i] /\ byID[i] # None
        BY <1>1, <1>2, <2>2, <3>2
      <4>2. byID[i].id = i /\ byID[i].updatedAt <= now /\ byID[i].updatedAt \in Nat
        BY <1>1, <4>1 DEF ListInv, EntriesOK, Entry
      <4> QED BY <1>1, <1>2, <4>1, <4>2
    <3> QED BY <3>1, <3>2
  <2> QED BY <1>1, <1>2, <2>1, <2>2 DEF EntriesOK
<1>7. HistoryOK'
  <2>1. first' \in [Ids -> Nat] /\ first \in [Ids -> Nat] /\ first'[id] = IF old = None THEN rev ELSE first[id]
    BY <1>1, <1>2 DEF ListInv, HistoryOK
  <2>2. ASSUME NEW i \in Ids, byID'[i] # None
        PROVE  LET h == byID'[i].history
               IN  /\ Len(h) \in 1 .. MaxHistory
                   /\ h[1] = first'[i] /\ h[Len(h)] = byID'[i].rev /\ byID'[i].rev <= applied'
                   /\ \A j, k \in 1 .. Len(h) : j < k => h[j] < h[k]
    <3>1. CASE i = id
      <4>1. byID'[i] = e
        BY <1>1, <1>2, <3>1
      <4>2. history[1] = first'[i]
        BY <1>3, <1>4, <2>1, <3>1 DEF before
      <4> QED BY <1>1, <1>2, <1>4, <1>5, <4>1, <4>2
    <3>2. CASE i # id
      <4>1. byID'[i] = byID[i] /\ byID[i] # None /\ first'[i] = first[i]
        BY <1>1, <1>2, <2>1, <2>2, <3>2
      <4> DEFINE h == byID[i].history
      <4>2. /\ Len(h) \in 1 .. MaxHistory
            /\ h[1] = first[i] /\ h[Len(h)] = byID[i].rev /\ byID[i].rev <= applied
            /\ \A j, k \in 1 .. Len(h) : j < k => h[j] < h[k]
        BY <4>1 DEF ListInv, HistoryOK
      <4>3. byID[i].rev <= applied'
        <5>1. byID[i].rev \in Nat
          BY <1>1, <4>1 DEF Entry
        <5> QED BY <1>1, <1>2, <4>2, <5>1
      <4> QED BY <4>1, <4>2, <4>3
    <3> QED BY <3>1, <3>2
  <2> QED BY <2>1, <2>2 DEF HistoryOK
<1>8. /\ rest \in Seq(Entry) /\ Sorted(rest)
      /\ ToSet(rest) = {byID[i] : i \in {j \in Ids \ {id} : byID[j] # None}}
  <2>1. ordered \in Seq(Entry) /\ Sorted(ordered) /\ ToSet(ordered) = Stored
    BY DEF ListInv, ListOK
  <2>2. CASE old = None
    BY <2>1, <2>2 DEF Stored
  <2>3. CASE old # None
    <3>1. old \in ToSet(ordered)
      BY <1>1, <2>1, <2>3 DEF Stored
    <3>2. /\ RemoveEntry(ordered, old) \in Seq(Entry) /\ Sorted(RemoveEntry(ordered, old))
          /\ ToSet(RemoveEntry(ordered, old)) = ToSet(ordered) \ {old}
      BY <2>1, <3>1, RemoveOK
    <3>3. \A j \in Ids : byID[j] # None => (byID[j] = old <=> j = id)
      BY <1>1, <2>3 DEF ListInv, EntriesOK
    <3>4. Stored \ {old} = {byID[i] : i \in {j \in Ids \ {id} : byID[j] # None}}
      BY <3>3 DEF Stored
    <3> QED BY <2>1, <2>3, <3>2, <3>4
  <2> QED BY <2>2, <2>3
<1> HIDE DEF rest
<1>9. ListOK'
  <2>1. \A x \in ToSet(rest) : x.id # e.id
    BY <1>5, <1>8 DEF ListInv, EntriesOK
  <2>2. /\ InsertEntry(rest, e) \in Seq(Entry) /\ Sorted(InsertEntry(rest, e))
        /\ ToSet(InsertEntry(rest, e)) = ToSet(rest) \cup {e}
    BY <1>5, <1>8, <2>1, InsertOK
  <2>3. Stored' = {byID[i] : i \in {j \in Ids \ {id} : byID[j] # None}} \cup {e}
    <3>1. /\ byID'[id] = e /\ e # None /\ id \in Ids
          /\ \A i \in Ids \ {id} : byID'[i] = byID[i]
      BY <1>1, <1>2, <1>5
    <3> QED BY <3>1 DEF Stored
  <2> QED BY <1>2, <1>8, <2>2, <2>3 DEF ListOK
<1>10. ListInv'
  BY <1>2, <1>6, <1>7, <1>9 DEF ListInv
<1> QED BY <1>2, <1>5, <1>10

\* Where Prune cuts: every event after the place is too old, and the one at it
\* is not.
LEMMA KeptIs ==
  ASSUME ListInv, NEW at \in Nat
  PROVE  /\ Kept(at) \in 0 .. Len(ordered)
         /\ Kept(at) > 0 => ordered[Kept(at)].start >= at - Retention
         /\ \A j \in (Kept(at) + 1) .. Len(ordered) : ordered[j].start < at - Retention
<1> DEFINE n == Len(ordered)
           old(j) == ordered[j].start < at - Retention
           B == {i \in 0 .. n : \A j \in (i + 1) .. n : old(j)}
<1>1. n \in Nat /\ \A j \in 1 .. n : ordered[j].start \in Nat /\ Retention \in Nat
  <2>1. ordered \in Seq(Entry)
    BY DEF ListInv, ListOK
  <2>2. \A j \in 1 .. n : ordered[j] \in Entry
    BY <2>1
  <2>3. \A x \in Entry : x.start \in Nat
    BY StoreAssumption DEF Entry
  <2>4. n \in Nat /\ Retention \in Nat
    BY <2>1, StoreAssumption
  <2> HIDE DEF n
  <2> QED BY <2>2, <2>3, <2>4
<1>2. n \in B /\ B \in SUBSET Nat
  BY <1>1
<1>3. PICK m \in B : \A i \in B : m <= i
  BY <1>2, Smallest
<1>4. m > 0 => ordered[m].start >= at - Retention
  <2> SUFFICES ASSUME m > 0, old(m) PROVE FALSE
    BY <1>1, <1>3
  <2>1. m - 1 \in 0 .. n /\ \A j \in ((m - 1) + 1) .. n : j = m \/ j \in (m + 1) .. n
    BY <1>1, <1>3
  <2>2. m - 1 \in B
    BY <1>3, <2>1
  <2>3. m \in Nat /\ m <= m - 1
    BY <1>2, <1>3, <2>2
  <2> QED BY <2>3
<1>5. \E i \in 0 .. n : /\ i > 0 => ordered[i].start >= at - Retention
                       /\ \A j \in (i + 1) .. n : ordered[j].start < at - Retention
  BY <1>3, <1>4
<1> QED BY <1>5, Zenon DEF Kept

\* Prune: what is cut leaves the list and the map alike.
LEMMA PruneKeepsList ==
  ASSUME ListInv, NEW at \in Later, Prune(at)
  PROVE  ListInv'
<1> DEFINE n == Kept(at)
           cut == {ordered[j].id : j \in (n + 1) .. Len(ordered)}
<1>1. at \in Nat /\ now <= at /\ now \in Nat /\ None \notin Entry
  BY StoreAssumption DEF ListInv, EntriesOK, Later
<1>2. n \in 0 .. Len(ordered)
  BY <1>1, KeptIs
<1>3. /\ ordered' = SubSeq(ordered, 1, n)
      /\ byID' = [i \in Ids |-> IF i \in cut THEN None ELSE byID[i]]
      /\ now' = at /\ world' = world /\ applied' = applied /\ first' = first
  BY DEF Prune
<1> HIDE DEF n
<1>4. /\ ordered \in Seq(Entry) /\ Sorted(ordered) /\ ToSet(ordered) = Stored
      /\ byID \in [Ids -> Entry \cup {None}]
      /\ \A i \in Ids : byID[i] # None => byID[i].id = i /\ byID[i].updatedAt <= now
  BY DEF ListInv, ListOK, EntriesOK
<1>5. ASSUME NEW i \in Ids, byID'[i] # None PROVE byID'[i] = byID[i] /\ byID[i] # None /\ i \notin cut
  BY <1>3, <1>5
<1>6. EntriesOK'
  <2>1. byID' \in [Ids -> Entry \cup {None}]
    BY <1>3, <1>4
  <2>2. ASSUME NEW i \in Ids, byID'[i] # None PROVE byID'[i].id = i /\ byID'[i].updatedAt <= now'
    <3>1. byID'[i] = byID[i] /\ byID[i].id = i /\ byID[i].updatedAt <= now /\ byID[i].updatedAt \in Nat
      BY <1>4, <1>5, <2>2 DEF Entry
    <3> QED BY <1>1, <1>3, <3>1
  <2> QED BY <1>1, <1>3, <2>1, <2>2 DEF ListInv, EntriesOK
<1>7. HistoryOK'
  <2>1. HistoryOK /\ first' = first /\ applied' = applied
    BY <1>3 DEF ListInv
  <2>2. ASSUME NEW i \in Ids, byID'[i] # None PROVE byID'[i] = byID[i] /\ byID[i] # None
    BY <1>5, <2>2
  <2> QED BY <2>1, <2>2 DEF HistoryOK
<1>8. ListOK'
  <2>1. /\ SubSeq(ordered, 1, n) \in Seq(Entry) /\ Sorted(SubSeq(ordered, 1, n))
        /\ ToSet(SubSeq(ordered, 1, n)) = {ordered[j] : j \in 1 .. n}
    BY <1>2, <1>4, CutOK
  <2>2. Len(ordered) \in Nat /\ DOMAIN ordered = 1 .. Len(ordered)
    BY <1>4
  <2>3. ASSUME NEW j \in 1 .. Len(ordered)
        PROVE  /\ ordered[j].id \in Ids /\ byID[ordered[j].id] = ordered[j] /\ ordered[j] # None
               /\ ordered[j].id \in cut <=> j > n
    <3>1. ASSUME NEW k \in 1 .. Len(ordered)
          PROVE  /\ ordered[k].id \in Ids /\ byID[ordered[k].id] = ordered[k]
                 /\ ordered[k] \in Entry
      <4>1. ordered[k] \in Stored /\ ordered[k] \in Entry
        BY <1>4, <2>2 DEF ToSet
      <4>2. PICK i \in Ids : byID[i] # None /\ ordered[k] = byID[i]
        BY <4>1 DEF Stored
      <4> QED BY <1>4, <4>1, <4>2
    <3>2. ASSUME NEW k \in (n + 1) .. Len(ordered), ordered[j].id = ordered[k].id PROVE j = k
      <4>1. ordered[j] = ordered[k] /\ k \in 1 .. Len(ordered)
        BY <1>2, <2>2, <3>1, <3>2
      <4>2. ~ (j < k) /\ ~ (k < j)
        BY <1>4, <3>1, <4>1, BelowIsOrder DEF Sorted
      <4> QED BY <2>2, <4>1, <4>2
    <3>3. j > n <=> j \in (n + 1) .. Len(ordered)
      BY <1>2, <2>2
    <3> QED BY <1>1, <3>1, <3>2, <3>3
  <2>4. Stored' = {ordered[j] : j \in 1 .. n}
    <3>1. ASSUME NEW j \in 1 .. n PROVE ordered[j] \in Stored'
      <4>1. j \in 1 .. Len(ordered) /\ ~ (j > n)
        BY <1>2, <2>2
      <4>2. byID'[ordered[j].id] = ordered[j] /\ ordered[j].id \in Ids /\ ordered[j] # None
        BY <1>3, <2>3, <4>1
      <4> QED BY <4>2 DEF Stored
    <3>2. ASSUME NEW i \in Ids, byID'[i] # None PROVE byID'[i] \in {ordered[j] : j \in 1 .. n}
      <4>1. byID'[i] = byID[i] /\ byID[i] # None /\ i \notin cut
        BY <1>5, <3>2
      <4>2. byID[i] \in ToSet(ordered) /\ byID[i].id = i
        BY <1>4, <4>1 DEF Stored
      <4>3. PICK j \in 1 .. Len(ordered) : byID[i] = ordered[j]
        BY <2>2, <4>2 DEF ToSet
      <4>4. ~ (j > n)
        BY <2>3, <4>1, <4>2, <4>3
      <4>5. j \in 1 .. n
        BY <1>2, <2>2, <4>4
      <4> QED BY <4>1, <4>3, <4>5
    <3> QED BY <3>1, <3>2 DEF Stored
  <2> QED BY <1>3, <2>1, <2>4 DEF ListOK
<1> QED BY <1>3, <1>6, <1>7, <1>8 DEF ListInv

\* No step breaks it.
LEMMA ListInvStep == ListInv /\ [Next]_vars => ListInv'
<1> SUFFICES ASSUME ListInv, [Next]_vars PROVE ListInv'
  OBVIOUS
<1>1. ASSUME UNCHANGED <<world, byID, ordered, applied, now, first>> PROVE ListInv'
  BY <1>1 DEF ListInv, EntriesOK, ListOK, HistoryOK, Stored
<1>2. ASSUME NEW id \in world.ids, NEW start \in world.starts, NEW camera \in world.cameras,
             NEW at \in Later, Apply(id, start, camera, at)
      PROVE  ListInv'
  BY <1>2, ApplyKeepsList
<1>3. ASSUME NEW at \in Later, Prune(at) PROVE ListInv'
  BY <1>3, PruneKeepsList
<1>4. CASE UNCHANGED vars
  BY <1>1, <1>4 DEF vars
<1>5. ASSUME NEW camera, SawCamera(camera) PROVE ListInv'
  BY <1>1, <1>5 DEF SawCamera
<1>6. ASSUME NEW c, NEW s, NEW since, NEW w, WatchEvents(c, s, since, w) PROVE ListInv'
  BY <1>1, <1>6 DEF WatchEvents, Subscribe, storeVars
<1>7. ASSUME NEW c, NEW s, WatchAgain(c, s) PROVE ListInv'
  BY <1>1, <1>7 DEF WatchAgain, Subscribe, storeVars
<1>8. ASSUME NEW c, Receive(c) \/ CutOff(c) \/ Leave(c) PROVE ListInv'
  BY <1>1, <1>8 DEF Receive, CutOff, Leave, storeVars
<1>9. ASSUME NEW s, Drop(s) PROVE ListInv'
  BY <1>1, <1>9 DEF Drop, storeVars
<1>10. ASSUME NEW p, NEW since, Scan(p, since) PROVE ListInv'
  BY <1>1, <1>10 DEF Scan, storeVars
<1> QED BY <1>2, <1>3, <1>4, <1>5, <1>6, <1>7, <1>8, <1>9, <1>10 DEF Next, ListEvents, HousePage

\* So it holds in every state.
LEMMA ListInvHolds == Spec => []ListInv
  BY ListInvInit, ListInvStep, PTL DEF Spec

\* store.go insert, remove, Prune: for any number of events, however they move,
\* the list and the map hold the same entries and the list is in its order.
THEOREM IndexAlwaysConsistent == Spec => []IndexConsistent
<1>1. ListInv => IndexConsistent
  <2> SUFFICES ASSUME ListInv PROVE IndexConsistent
    OBVIOUS
  <2>1. ordered \in Seq(Entry) /\ DOMAIN ordered = 1 .. Len(ordered)
    BY DEF ListInv, ListOK
  <2> QED BY <2>1 DEF ListInv, ListOK, EntriesOK, Stored, Sorted, Below, IndexConsistent
<1> QED BY <1>1, ListInvHolds, PTL

\* store.go Apply: for every bound on the revisions and any number of changes, an
\* entry's history keeps the first revision and the newest ones, in order.
THEOREM HistoryAlwaysKeepsEnds == Spec => []HistoryKeepsEnds
<1>1. ListInv => HistoryKeepsEnds
  <2> SUFFICES ASSUME ListInv, NEW i \in Ids, byID[i] # None
               PROVE  LET h == byID[i].history
                      IN  /\ Len(h) \in 1 .. MaxHistory
                          /\ h[1] = first[i] /\ Last(h) = byID[i].rev
                          /\ \A j, k \in DOMAIN h : j < k => h[j] < h[k]
    BY DEF HistoryKeepsEnds
  <2>1. byID[i].history \in Seq(Nat)
    BY DEF ListInv, EntriesOK, Entry
  <2>2. DOMAIN byID[i].history = 1 .. Len(byID[i].history)
    BY <2>1
  <2> QED BY <2>2 DEF ListInv, HistoryOK, Last
<1> QED BY <1>1, ListInvHolds, PTL

------------------------------------------------------------------------------
(***************************************************************************)
(* Subscriptions: what a client will have once it has drained its channel. *)
(***************************************************************************)
Message == [id : Ids, rev : Nat]

Sub == [open : BOOLEAN, ctxDone : BOOLEAN, dead : BOOLEAN, closes : Nat,
        want : SUBSET Cameras, ch : Seq(Message)]

\* A channel is closed when its subscription ends, and only then.
Shape(sub) == sub \in Sub /\ sub.closes = IF sub.dead THEN 1 ELSE 0

\* The rev a reader of ch will have of event i, having r of it now.
PendingOf(ch, i, r) ==
  LET last == SelectLastInSeq(ch, LAMBDA m : m.id = i)
  IN  IF last # 0 THEN ch[last].rev ELSE r

\* It is the last message of that id, if there is one.
LEMMA PendingIs ==
  ASSUME NEW ch \in Seq(Message), NEW i, NEW r
  PROVE  \/ (\A j \in 1 .. Len(ch) : ch[j].id # i) /\ PendingOf(ch, i, r) = r
         \/ \E j \in 1 .. Len(ch) : /\ ch[j].id = i /\ PendingOf(ch, i, r) = ch[j].rev
                                    /\ \A k \in 1 .. Len(ch) : k > j => ch[k].id # i
<1> DEFINE I == {j \in 1 .. Len(ch) : ch[j].id = i}
<1>1. CASE I = {}
  <2>1. PendingOf(ch, i, r) = r
    BY <1>1 DEF PendingOf, SelectLastInSeq
  <2> QED BY <1>1, <2>1
<1>2. CASE I # {}
  <2> DEFINE j == Max(I)
  <2>1. j \in I /\ \A k \in I : k <= j
    <3>1. Len(ch) \in Nat /\ I \in SUBSET (1 .. Len(ch))
      OBVIOUS
    <3> QED BY <1>2, <3>1, Largest
  <2>2. PendingOf(ch, i, r) = ch[j].rev
    <3>1. j # 0
      BY <2>1
    <3> QED BY <1>2, <3>1 DEF PendingOf, SelectLastInSeq
  <2> HIDE DEF j
  <2>3. \A k \in 1 .. Len(ch) : k > j => k \notin I
    BY <2>1
  <2> QED BY <2>1, <2>2, <2>3
<1> QED BY <1>1, <1>2

\* A message appended is the last of its id.
LEMMA PendingAppend ==
  ASSUME NEW ch \in Seq(Message), NEW m \in Message, NEW i, NEW r
  PROVE  PendingOf(Append(ch, m), i, r) = IF m.id = i THEN m.rev ELSE PendingOf(ch, i, r)
<1> DEFINE a == Append(ch, m)
           n == Len(ch)
<1>1. /\ a \in Seq(Message) /\ Len(a) = n + 1 /\ n \in Nat /\ a[n + 1] = m
      /\ \A j \in 1 .. n : a[j] = ch[j]
  OBVIOUS
<1> HIDE DEF a
<1>2. \/ (\A j \in 1 .. Len(a) : a[j].id # i) /\ PendingOf(a, i, r) = r
      \/ \E j \in 1 .. Len(a) : /\ a[j].id = i /\ PendingOf(a, i, r) = a[j].rev
                                /\ \A k \in 1 .. Len(a) : k > j => a[k].id # i
  BY <1>1, PendingIs
<1>3. \/ (\A j \in 1 .. Len(ch) : ch[j].id # i) /\ PendingOf(ch, i, r) = r
      \/ \E j \in 1 .. Len(ch) : /\ ch[j].id = i /\ PendingOf(ch, i, r) = ch[j].rev
                                 /\ \A k \in 1 .. Len(ch) : k > j => ch[k].id # i
  BY PendingIs
<1> HIDE DEF n
<1>4. n + 1 \in 1 .. Len(a) /\ \A j \in 1 .. n : j \in 1 .. Len(a) /\ n + 1 > j
  BY <1>1
<1>5. CASE m.id = i
  <2>1. PICK j \in 1 .. Len(a) : /\ a[j].id = i /\ PendingOf(a, i, r) = a[j].rev
                                 /\ \A k \in 1 .. Len(a) : k > j => a[k].id # i
    BY <1>1, <1>2, <1>4, <1>5
  <2>2. j = n + 1
    BY <1>1, <1>4, <1>5, <2>1
  <2> QED BY <1>1, <1>5, <2>1, <2>2 DEF a
<1>6. CASE m.id # i
  <2>1. CASE \A j \in 1 .. Len(a) : a[j].id # i
    <3>1. \A j \in 1 .. Len(ch) : ch[j].id # i
      BY <1>1, <1>4, <2>1 DEF n
    <3>2. PendingOf(a, i, r) = r /\ PendingOf(ch, i, r) = r
      BY <1>2, <1>3, <2>1, <3>1
    <3> QED BY <1>6, <3>2 DEF a
  <2>2. CASE \E j \in 1 .. Len(a) : /\ a[j].id = i /\ PendingOf(a, i, r) = a[j].rev
                                    /\ \A k \in 1 .. Len(a) : k > j => a[k].id # i
    <3>1. PICK j \in 1 .. Len(a) : /\ a[j].id = i /\ PendingOf(a, i, r) = a[j].rev
                                   /\ \A k \in 1 .. Len(a) : k > j => a[k].id # i
      BY <2>2
    <3>2. j \in 1 .. n /\ a[j] = ch[j]
      BY <1>1, <1>6, <3>1
    <3>3. PICK l \in 1 .. n : /\ ch[l].id = i /\ PendingOf(ch, i, r) = ch[l].rev
                              /\ \A k \in 1 .. n : k > l => ch[k].id # i
      BY <1>3, <3>1, <3>2 DEF n
    <3>4. a[l] = ch[l] /\ l \in 1 .. Len(a)
      BY <1>1, <1>4
    <3>5. ~ (l > j) /\ ~ (j > l)
      BY <3>1, <3>2, <3>3, <3>4
    <3>6. l = j
      BY <1>1, <3>2, <3>5
    <3> QED BY <1>6, <3>1, <3>2, <3>3, <3>6 DEF a
  <2> QED BY <1>2, <2>1, <2>2
<1> QED BY <1>5, <1>6

\* Taking the first message out of the channel and applying it changes nothing of
\* what is to come.
LEMMA PendingTail ==
  ASSUME NEW ch \in Seq(Message), ch # <<>>, NEW i, NEW r, NEW q,
         q = IF Head(ch).id = i THEN Head(ch).rev ELSE r
  PROVE  PendingOf(Tail(ch), i, q) = PendingOf(ch, i, r)
<1> DEFINE t == Tail(ch)
           n == Len(ch)
<1>1. /\ t \in Seq(Message) /\ Len(t) = n - 1 /\ n \in Nat /\ n >= 1 /\ Head(ch) = ch[1]
      /\ \A j \in 1 .. n - 1 : t[j] = ch[j + 1]
  OBVIOUS
<1> HIDE DEF t
<1>2. \/ (\A j \in 1 .. Len(t) : t[j].id # i) /\ PendingOf(t, i, q) = q
      \/ \E j \in 1 .. Len(t) : /\ t[j].id = i /\ PendingOf(t, i, q) = t[j].rev
                                /\ \A k \in 1 .. Len(t) : k > j => t[k].id # i
  BY <1>1, PendingIs
<1>3. \/ (\A j \in 1 .. Len(ch) : ch[j].id # i) /\ PendingOf(ch, i, r) = r
      \/ \E j \in 1 .. Len(ch) : /\ ch[j].id = i /\ PendingOf(ch, i, r) = ch[j].rev
                                 /\ \A k \in 1 .. Len(ch) : k > j => ch[k].id # i
  BY PendingIs
<1> HIDE DEF n
<1>4. /\ 1 \in 1 .. n /\ \A j \in 2 .. n : j - 1 \in 1 .. n - 1 /\ t[j - 1] = ch[j]
      /\ \A j \in 1 .. n - 1 : j + 1 \in 2 .. n /\ j + 1 \in 1 .. n
  <2>1. ASSUME NEW j \in 2 .. n PROVE j - 1 \in 1 .. n - 1 /\ (j - 1) + 1 = j
    BY <1>1
  <2> QED BY <1>1, <2>1
<1>5. CASE \A j \in 1 .. Len(ch) : ch[j].id # i
  <2>1. PendingOf(ch, i, r) = r
    BY <1>3, <1>5
  <2>2. q = r /\ \A j \in 1 .. Len(t) : t[j].id # i
    BY <1>1, <1>4, <1>5 DEF n
  <2> QED BY <1>2, <2>1, <2>2 DEF t
<1>6. ASSUME NEW j \in 1 .. n, ch[j].id = i, PendingOf(ch, i, r) = ch[j].rev,
             \A k \in 1 .. n : k > j => ch[k].id # i
      PROVE  PendingOf(t, i, q) = PendingOf(ch, i, r)
  <2>1. CASE j = 1
    <3>1. \A k \in 1 .. n - 1 : k + 1 \in 1 .. n /\ k + 1 > j
      BY <1>1, <2>1
    <3>2. \A k \in 1 .. Len(t) : t[k].id # i
      BY <1>1, <1>6, <3>1
    <3>3. q = ch[j].rev
      BY <1>1, <1>6, <2>1
    <3> QED BY <1>2, <1>6, <3>2, <3>3
  <2>2. CASE j # 1
    <3>1. j - 1 \in 1 .. n - 1 /\ t[j - 1] = ch[j] /\ j \in 2 .. n
      BY <1>1, <1>4, <2>2
    <3>2. PICK l \in 1 .. n - 1 : /\ t[l].id = i /\ PendingOf(t, i, q) = t[l].rev
                                  /\ \A k \in 1 .. n - 1 : k > l => t[k].id # i
      BY <1>1, <1>2, <1>6, <3>1
    <3>3. ~ (j - 1 > l)
      BY <1>6, <3>1, <3>2
    <3>4. t[l] = ch[l + 1] /\ l + 1 \in 1 .. n /\ ~ (l + 1 > j)
      BY <1>1, <1>4, <1>6, <3>2
    <3>5. l = j - 1
      BY <1>1, <3>1, <3>3, <3>4
    <3> QED BY <1>6, <3>1, <3>2, <3>5
  <2> QED BY <2>1, <2>2
<1> QED BY <1>3, <1>5, <1>6 DEF t, n

\* offer: what it leaves alone, and what a subscription it does not end has then.
LEMMA OfferIs ==
  ASSUME NEW sub, Shape(sub), NEW e \in Entry
  PROVE  LET o == Offer(sub, e)
         IN  /\ Shape(o) /\ o.open = sub.open /\ o.ctxDone = sub.ctxDone /\ o.want = sub.want
             /\ sub.dead => o.dead
             /\ ~ o.dead => o.ch = IF Wanted(sub.want, e) THEN Append(sub.ch, Change(e)) ELSE sub.ch
<1> DEFINE o == Offer(sub, e)
<1>1. /\ sub \in Sub /\ sub.closes = IF sub.dead THEN 1 ELSE 0
      /\ sub.open \in BOOLEAN /\ sub.ctxDone \in BOOLEAN /\ sub.dead \in BOOLEAN /\ sub.closes \in Nat
      /\ sub.want \in SUBSET Cameras /\ sub.ch \in Seq(Message)
  BY DEF Shape, Sub
<1>2. Change(e) \in Message
  BY DEF Change, Message, Entry
<1>3. CASE sub.dead \/ ~ Wanted(sub.want, e)
  <2>1. o = sub
    BY <1>3 DEF Offer
  <2> HIDE DEF o
  <2> QED BY <1>1, <1>3, <2>1 DEF o
<1>4. CASE ~ (sub.dead \/ ~ Wanted(sub.want, e)) /\ Len(sub.ch) < WatchBuffer
  <2> DEFINE a == Append(sub.ch, Change(e))
  <2>1. a \in Seq(Message)
    BY <1>1, <1>2
  <2>2. o = [sub EXCEPT !.ch = a]
    BY <1>4 DEF Offer
  <2> HIDE DEF a, o
  <2>3. o = [open |-> sub.open, ctxDone |-> sub.ctxDone, dead |-> sub.dead, closes |-> sub.closes,
             want |-> sub.want, ch |-> a]
    BY <1>1, <2>2 DEF Sub
  <2>4. Shape(o)
    BY <1>1, <2>1, <2>3 DEF Shape, Sub
  <2> QED BY <1>4, <2>3, <2>4 DEF o, a
<1>5. CASE ~ (sub.dead \/ ~ Wanted(sub.want, e)) /\ ~ (Len(sub.ch) < WatchBuffer)
  <2>1. o = [sub EXCEPT !.dead = TRUE, !.closes = @ + 1]
    BY <1>5 DEF Offer
  <2> HIDE DEF o
  <2>2. o = [open |-> sub.open, ctxDone |-> sub.ctxDone, dead |-> TRUE, closes |-> sub.closes + 1,
             want |-> sub.want, ch |-> sub.ch]
    BY <1>1, <2>1 DEF Sub
  <2>3. Shape(o)
    BY <1>1, <1>5, <2>2 DEF Shape, Sub
  <2> QED BY <2>2, <2>3 DEF o
<1> QED BY <1>3, <1>4, <1>5

\* The places of the list: each holds its own event's stored entry.
LEMMA OrderedIs ==
  ASSUME ListInv
  PROVE  /\ Len(ordered) \in Nat /\ DOMAIN ordered = 1 .. Len(ordered)
         /\ \A k \in 1 .. Len(ordered) : /\ ordered[k] \in Entry /\ ordered[k].id \in Ids
                                         /\ byID[ordered[k].id] = ordered[k]
         /\ \A j, k \in 1 .. Len(ordered) : ordered[j].id = ordered[k].id => j = k
         /\ \A i \in Ids : byID[i] # None => \E k \in 1 .. Len(ordered) : ordered[k] = byID[i]
<1>1. /\ ordered \in Seq(Entry) /\ Sorted(ordered) /\ ToSet(ordered) = Stored
      /\ \A i \in Ids : byID[i] # None => byID[i].id = i
  BY DEF ListInv, ListOK, EntriesOK
<1>2. Len(ordered) \in Nat /\ DOMAIN ordered = 1 .. Len(ordered)
  BY <1>1
<1>3. ASSUME NEW k \in 1 .. Len(ordered)
      PROVE  ordered[k] \in Entry /\ ordered[k].id \in Ids /\ byID[ordered[k].id] = ordered[k]
  <2>1. ordered[k] \in Stored /\ ordered[k] \in Entry
    BY <1>1, <1>2 DEF ToSet
  <2>2. PICK i \in Ids : byID[i] # None /\ ordered[k] = byID[i]
    BY <2>1 DEF Stored
  <2> QED BY <1>1, <2>1, <2>2
<1>4. ASSUME NEW j \in 1 .. Len(ordered), NEW k \in 1 .. Len(ordered), ordered[j].id = ordered[k].id
      PROVE  j = k
  <2>1. ordered[j] = ordered[k]
    BY <1>3, <1>4
  <2>2. ~ (j < k) /\ ~ (k < j)
    BY <1>1, <1>3, <2>1, BelowIsOrder DEF Sorted
  <2> QED BY <1>2, <2>2
<1>5. ASSUME NEW i \in Ids, byID[i] # None PROVE \E k \in 1 .. Len(ordered) : ordered[k] = byID[i]
  <2>1. byID[i] \in ToSet(ordered)
    BY <1>1, <1>5 DEF Stored
  <2> QED BY <1>2, <2>1 DEF ToSet
<1> QED BY <1>2, <1>3, <1>4, <1>5

\* One turn of the snapshot's loop: the n-th event from the old end.
SnapTurn(x, n, since) ==
  LET e == ordered[Len(ordered) + 1 - n]
  IN  IF e.updatedAt >= since THEN Offer(x, e) ELSE x

SnapTurns(sub, since, m, f) ==
  f = [n \in 0 .. m |-> IF n = 0 THEN sub ELSE SnapTurn(f[n - 1], n, since)]

\* The loop runs: it has as many turns as it is given.
LEMMA SnapTurnsExist ==
  ASSUME NEW sub, NEW since, NEW m \in Nat
  PROVE  \E f : SnapTurns(sub, since, m, f)
<1> DEFINE Bad == {n \in Nat : ~ \E f : SnapTurns(sub, since, n, f)}
<1>1. SUFFICES ASSUME Bad # {} PROVE FALSE
  OBVIOUS
<1>2. PICK n \in Bad : \A i \in Bad : n <= i
  <2>1. Bad \in SUBSET Nat
    OBVIOUS
  <2> QED BY <1>1, <2>1, Smallest
<1>3. CASE n = 0
  <2> DEFINE f == [i \in 0 .. 0 |-> sub]
  <2>1. f = [i \in 0 .. 0 |-> IF i = 0 THEN sub ELSE SnapTurn(f[i - 1], i, since)]
    OBVIOUS
  <2> HIDE DEF f
  <2>2. SnapTurns(sub, since, 0, f)
    BY <2>1 DEF SnapTurns
  <2> QED BY <1>2, <1>3, <2>2
<1>4. CASE n # 0
  <2>1. n - 1 \in Nat /\ ~ (n <= n - 1) /\ n - 1 \notin Bad
    BY <1>2, <1>4
  <2>2. PICK f : SnapTurns(sub, since, n - 1, f)
    BY <2>1
  <2> DEFINE g == [i \in 0 .. n |-> IF i = n THEN SnapTurn(f[n - 1], n, since) ELSE f[i]]
  <2>3. \A i \in 0 .. n - 1 : f[i] = IF i = 0 THEN sub ELSE SnapTurn(f[i - 1], i, since)
    BY <2>2 DEF SnapTurns
  <2>4. ASSUME NEW i \in 0 .. n
        PROVE  g[i] = IF i = 0 THEN sub ELSE SnapTurn(g[i - 1], i, since)
    <3>1. CASE i = n
      <4>1. g[i] = SnapTurn(f[n - 1], n, since) /\ i - 1 \in 0 .. n /\ i - 1 # n
        BY <2>1, <3>1
      <4>2. g[i - 1] = f[n - 1]
        BY <4>1, <3>1
      <4> QED BY <4>1, <4>2, <3>1, <1>4
    <3>2. CASE i # n
      <4>1. i \in 0 .. n - 1 /\ g[i] = f[i]
        BY <3>2, <1>2
      <4>2. CASE i = 0
        BY <4>1, <4>2, <2>3
      <4>3. CASE i # 0
        <5>1. i - 1 \in 0 .. n /\ i - 1 # n
          BY <4>3, <1>2
        <5>2. g[i - 1] = f[i - 1]
          BY <5>1
        <5> QED BY <4>1, <4>3, <5>2, <2>3
      <4> QED BY <4>2, <4>3
    <3> QED BY <3>1, <3>2
  <2>5. g = [i \in 0 .. n |-> g[i]]
    OBVIOUS
  <2> HIDE DEF g
  <2>6. g = [i \in 0 .. n |-> IF i = 0 THEN sub ELSE SnapTurn(g[i - 1], i, since)]
    BY <2>4, <2>5, Zenon
  <2>7. SnapTurns(sub, since, n, g)
    BY <2>6 DEF SnapTurns
  <2> QED BY <1>2, <2>7
<1> QED BY <1>3, <1>4

\* What is the same of a subscription whatever is offered to it.
SameSub(x, y) == Shape(y) /\ y.open = x.open /\ y.ctxDone = x.ctxDone /\ y.want = x.want

\* After the oldest n events: unless it was ended, the subscription's channel
\* holds the stored state of each of them that was touched since and is wanted.
Told(x, since, n, m) ==
  ~ x.dead =>
    \A k \in 1 .. m : k > m - n /\ ordered[k].updatedAt >= since /\ Wanted(x.want, ordered[k]) =>
      \A r : PendingOf(x.ch, ordered[k].id, r) = ordered[k].rev

\* One turn tells of one event more, and overwrites nothing told before.
LEMMA SnapTurnOK ==
  ASSUME ListInv, NEW x, Shape(x), NEW since, NEW n \in 1 .. Len(ordered),
         Told(x, since, n - 1, Len(ordered))
  PROVE  /\ SameSub(x, SnapTurn(x, n, since))
         /\ Told(SnapTurn(x, n, since), since, n, Len(ordered))
<1> DEFINE m == Len(ordered)
           p == m + 1 - n
           e == ordered[p]
           y == SnapTurn(x, n, since)
<1>1. /\ m \in Nat
      /\ \A k \in 1 .. m : ordered[k] \in Entry
      /\ \A j, k \in 1 .. m : ordered[j].id = ordered[k].id => j = k
  BY OrderedIs
<1> HIDE DEF m
<1>2. n \in 1 .. m /\ p \in 1 .. m
  BY <1>1 DEF m
<1>3. ASSUME NEW k \in 1 .. m, k > m - n PROVE k = p \/ k > m - (n - 1)
  BY <1>1, <1>2, <1>3
<1>4. ASSUME NEW k \in 1 .. m, k > m - (n - 1) PROVE k # p
  BY <1>1, <1>2, <1>4
<1>5. Shape(x) /\ Told(x, since, n - 1, m) /\ e \in Entry
  BY <1>1, <1>2 DEF m
<1>6. y = IF e.updatedAt >= since THEN Offer(x, e) ELSE x
  BY DEF SnapTurn, m
<1> HIDE DEF y, p
<1>7. CASE ~ (e.updatedAt >= since)
  <2>1. y = x
    BY <1>6, <1>7
  <2>2. SameSub(x, y)
    BY <1>5, <2>1 DEF SameSub
  <2>3. Told(y, since, n, m)
    BY <1>3, <1>5, <1>7, <2>1 DEF Told
  <2> QED BY <2>2, <2>3 DEF y, m
<1>8. CASE e.updatedAt >= since
  <2>1. y = Offer(x, e)
    BY <1>6, <1>8
  <2> HIDE DEF e
  <2>2. /\ Shape(y) /\ y.open = x.open /\ y.ctxDone = x.ctxDone /\ y.want = x.want
        /\ x.dead => y.dead
        /\ ~ y.dead => y.ch = IF Wanted(x.want, e) THEN Append(x.ch, Change(e)) ELSE x.ch
    <3>1. LET o == Offer(x, e)
          IN  /\ Shape(o) /\ o.open = x.open /\ o.ctxDone = x.ctxDone /\ o.want = x.want
              /\ x.dead => o.dead
              /\ ~ o.dead => o.ch = IF Wanted(x.want, e) THEN Append(x.ch, Change(e)) ELSE x.ch
      BY <1>5, OfferIs
    <3> QED BY <2>1, <3>1
  <2>3. SameSub(x, y)
    BY <2>2 DEF SameSub
  <2>4. x.ch \in Seq(Message) /\ Change(e) \in Message /\ Change(e).id = e.id /\ Change(e).rev = e.rev
    BY <1>5 DEF Shape, Sub, Change, Message, Entry
  <2>5. ASSUME ~ y.dead, NEW k \in 1 .. m, k > m - n, ordered[k].updatedAt >= since,
               Wanted(y.want, ordered[k]), NEW r
        PROVE  PendingOf(y.ch, ordered[k].id, r) = ordered[k].rev
    <3>1. CASE k = p
      <4>1. ordered[k] = e /\ y.ch = Append(x.ch, Change(e))
        BY <2>2, <2>5, <3>1 DEF e
      <4>2. PendingOf(Append(x.ch, Change(e)), e.id, r) = Change(e).rev
        BY <2>4, PendingAppend
      <4> QED BY <2>4, <4>1, <4>2
    <3>2. CASE k # p
      <4>1. k > m - (n - 1)
        BY <1>3, <2>5, <3>2
      <4>2. PendingOf(x.ch, ordered[k].id, r) = ordered[k].rev
        BY <1>5, <2>2, <2>5, <4>1 DEF Told
      <4>3. ordered[k].id # e.id
        BY <1>1, <1>2, <3>2 DEF e
      <4>4. CASE Wanted(x.want, e)
        <5>1. PendingOf(Append(x.ch, Change(e)), ordered[k].id, r) = PendingOf(x.ch, ordered[k].id, r)
          BY <2>4, <4>3, PendingAppend
        <5> QED BY <2>2, <2>5, <4>2, <4>4, <5>1
      <4>5. CASE ~ Wanted(x.want, e)
        BY <2>2, <2>5, <4>2, <4>5
      <4> QED BY <4>4, <4>5
    <3> QED BY <3>1, <3>2
  <2>6. Told(y, since, n, m)
    BY <2>5 DEF Told
  <2> QED BY <2>3, <2>6 DEF y, m
<1> QED BY <1>7, <1>8

\* store.go Watch: a new subscription that its snapshot does not end has, in its
\* channel, the stored state of every event touched since.
LEMMA SnapshotOK ==
  ASSUME ListInv, NEW sub, Shape(sub), NEW since
  PROVE  /\ SameSub(sub, Snapshot(sub, since))
         /\ Told(Snapshot(sub, since), since, Len(ordered), Len(ordered))
<1> DEFINE m == Len(ordered)
<1>1. m \in Nat
  BY OrderedIs
<1>2. Snapshot(sub, since) = (CHOOSE f : SnapTurns(sub, since, m, f))[m]
  BY DEF Snapshot, SnapTurns, SnapTurn
<1>3. PICK f : SnapTurns(sub, since, m, f) /\ Snapshot(sub, since) = f[m]
  BY <1>1, <1>2, SnapTurnsExist
<1>4. \A n \in 0 .. m : f[n] = IF n = 0 THEN sub ELSE SnapTurn(f[n - 1], n, since)
  BY <1>3 DEF SnapTurns
<1> DEFINE good(n) == SameSub(sub, f[n]) /\ Told(f[n], since, n, m)
           Bad == {n \in 0 .. m : ~ good(n)}
<1>5. ASSUME Bad # {} PROVE FALSE
  <2>1. PICK n \in Bad : \A i \in Bad : n <= i
    <3>1. Bad \in SUBSET Nat
      BY <1>1
    <3> HIDE DEF Bad
    <3> QED BY <1>5, <3>1, Smallest
  <2>2. CASE n = 0
    <3>1. f[0] = sub
      BY <1>1, <1>4
    <3>2. Told(sub, since, 0, m)
      BY <1>1 DEF Told
    <3>3. good(0)
      BY <3>1, <3>2 DEF SameSub
    <3> QED BY <2>1, <2>2, <3>3
  <2>3. CASE n # 0
    <3>1. n \in 1 .. m /\ n - 1 \in 0 .. m /\ n - 1 \notin Bad
      BY <1>1, <2>1, <2>3
    <3>2. good(n - 1)
      BY <3>1
    <3> DEFINE x == f[n - 1]
    <3>3. f[n] = SnapTurn(x, n, since)
      BY <1>4, <2>3, <3>1
    <3>4. SameSub(sub, x) /\ Shape(x) /\ Told(x, since, n - 1, m)
      BY <3>2 DEF SameSub
    <3> HIDE DEF x
    <3>5. SameSub(x, SnapTurn(x, n, since)) /\ Told(SnapTurn(x, n, since), since, n, m)
      BY <3>1, <3>4, SnapTurnOK
    <3>6. good(n)
      BY <3>3, <3>4, <3>5 DEF SameSub
    <3> QED BY <2>1, <3>6
  <2> QED BY <2>2, <2>3
<1>6. good(m)
  BY <1>1, <1>5
<1> QED BY <1>3, <1>6

------------------------------------------------------------------------------
(***************************************************************************)
(* Streams, under every operation.                                         *)
(***************************************************************************)
\* An open stream's subscription is registered and is its client's alone, and
\* until it is ended it holds what its client is owed.
StreamOK(c) ==
  cur[c] # None =>
    LET sub == subs[cur[c]]
    IN  /\ sub.open /\ ~ sub.ctxDone /\ sub.want = want[c]
        /\ ~ sub.dead =>
             \A i \in Ids : byID[i] # None /\ Owed(c, byID[i]) =>
               PendingOf(sub.ch, i, replica[c][i]) = byID[i].rev

\* A subscription that is over has been ended, so its channel was closed.
SubOK(sub) == Shape(sub) /\ (sub.ctxDone /\ ~ sub.open => sub.dead)

ClientsOK ==
  /\ cur \in [Clients -> Subs \cup {None}]
  /\ base \in [Clients -> Nat] /\ want \in [Clients -> SUBSET Cameras]
  /\ replica \in [Clients -> [Ids -> Nat]]

SubsInv ==
  /\ ClientsOK
  /\ subs \in [Subs -> Sub] /\ \A s \in Subs : SubOK(subs[s])
  /\ \A c \in Clients : StreamOK(c)
  /\ \A c, d \in Clients : cur[c] # None /\ cur[c] = cur[d] => c = d

\* A new subscriber has no channel to close yet.
LEMMA NewSubOK ==
  ASSUME NEW w \in SUBSET Cameras
  PROVE  LET sub == [NewSub EXCEPT !.open = TRUE, !.want = w]
         IN  /\ Shape(sub) /\ sub.open /\ ~ sub.ctxDone /\ ~ sub.dead /\ sub.want = w
             /\ SubOK(NewSub)
<1> DEFINE sub == [NewSub EXCEPT !.open = TRUE, !.want = w]
<1>2. <<>> \in Seq(Message)
  OBVIOUS
<1>1. sub = [open |-> TRUE, ctxDone |-> FALSE, dead |-> FALSE, closes |-> 0, want |-> w, ch |-> <<>>]
  <2>1. /\ NewSub \in Sub /\ ~ NewSub.ctxDone /\ ~ NewSub.dead /\ NewSub.closes = 0
        /\ NewSub.ch = <<>>
    BY <1>2 DEF NewSub, Sub
  <2>2. sub = [open |-> TRUE, ctxDone |-> NewSub.ctxDone, dead |-> NewSub.dead,
               closes |-> NewSub.closes, want |-> w, ch |-> NewSub.ch]
    <3> DEFINE r == NewSub
    <3>1. r \in Sub /\ sub = [r EXCEPT !.open = TRUE, !.want = w]
      BY <2>1
    <3> HIDE DEF sub, r
    <3>2. sub = [open |-> TRUE, ctxDone |-> r.ctxDone, dead |-> r.dead,
                 closes |-> r.closes, want |-> w, ch |-> r.ch]
      BY <3>1 DEF Sub
    <3> QED BY <3>2 DEF r
  <2>3. NewSub.ctxDone = FALSE /\ NewSub.dead = FALSE
    BY DEF NewSub
  <2> HIDE DEF sub
  <2> QED BY <2>1, <2>2, <2>3
<1> HIDE DEF sub
<1>3. Shape(sub) /\ sub.open /\ ~ sub.ctxDone /\ ~ sub.dead /\ sub.want = w
  BY <1>1, <1>2 DEF Shape, Sub
<1>4. SubOK(NewSub)
  BY <1>2 DEF NewSub, SubOK, Shape, Sub
<1> QED BY <1>3, <1>4 DEF sub

\* No stream is open at the start.
LEMMA SubsInvInit == Init => SubsInv
<1> SUFFICES ASSUME Init PROVE SubsInv
  OBVIOUS
<1>1. /\ cur = [c \in Clients |-> None] /\ base = [c \in Clients |-> 0]
      /\ want = [c \in Clients |-> {}] /\ replica = [c \in Clients |-> [i \in Ids |-> 0]]
      /\ subs = [s \in Subs |-> NewSub]
  BY DEF Init
<1>2. ClientsOK
  BY <1>1 DEF ClientsOK
<1>3. SubOK(NewSub) /\ NewSub \in Sub
  <2>1. {} \in SUBSET Cameras
    OBVIOUS
  <2>2. SubOK(NewSub)
    BY <2>1, NewSubOK
  <2> QED BY <2>2 DEF SubOK, Shape
<1>4. subs \in [Subs -> Sub] /\ \A s \in Subs : SubOK(subs[s])
  BY <1>1, <1>3
<1>5. \A c \in Clients : cur[c] = None
  BY <1>1
<1> QED BY <1>2, <1>4, <1>5 DEF SubsInv, StreamOK

\* A step that leaves the watchers alone, and stores nothing, owes them no more.
LEMMA StoreStepKeepsSubs ==
  ASSUME SubsInv, UNCHANGED watchVars, \A i \in Ids : byID'[i] # None => byID'[i] = byID[i]
  PROVE  SubsInv'
<1>1. /\ subs' = subs /\ cur' = cur /\ base' = base /\ want' = want /\ replica' = replica
  BY DEF watchVars
<1>2. ClientsOK'
  BY <1>1 DEF SubsInv, ClientsOK
<1>3. ASSUME NEW c \in Clients PROVE StreamOK(c)'
  <2>1. StreamOK(c)
    BY DEF SubsInv
  <2>2. \A i \in Ids : byID'[i] # None => byID'[i] = byID[i]
    OBVIOUS
  <2> QED BY <1>1, <2>1, <2>2 DEF StreamOK, Owed
<1>4. /\ subs' \in [Subs -> Sub] /\ \A s \in Subs : SubOK(subs'[s])
      /\ \A c, d \in Clients : cur'[c] # None /\ cur'[c] = cur'[d] => c = d
  BY <1>1 DEF SubsInv
<1> QED BY <1>2, <1>3, <1>4 DEF SubsInv

\* A step of one subscription: no other client's, and of its own client's stream.
LEMMA OneStreamStep ==
  ASSUME SubsInv, NEW c \in Clients, NEW s \in Subs, NEW x, SubOK(x),
         subs' = [subs EXCEPT ![s] = x], byID' = byID, ClientsOK',
         \A d \in Clients : d # c => cur[d] # s,
         \A d \in Clients : d # c => /\ cur'[d] = cur[d] /\ base'[d] = base[d]
                                     /\ want'[d] = want[d] /\ replica'[d] = replica[d],
         cur'[c] \in {s, None}, StreamOK(c)'
  PROVE  SubsInv'
<1>1. x \in Sub /\ subs \in [Subs -> Sub] /\ \A t \in Subs : SubOK(subs[t])
  BY DEF SubsInv, SubOK, Shape
<1>2. subs' \in [Subs -> Sub] /\ \A t \in Subs : subs'[t] = IF t = s THEN x ELSE subs[t]
  BY <1>1
<1>3. \A t \in Subs : SubOK(subs'[t])
  BY <1>1, <1>2
<1>4. ASSUME NEW d \in Clients, d # c PROVE StreamOK(d)'
  <2>1. cur[d] # None => cur[d] \in Subs /\ cur[d] # s /\ subs'[cur[d]] = subs[cur[d]]
    BY <1>2, <1>4 DEF SubsInv, ClientsOK
  <2>2. StreamOK(d)
    BY DEF SubsInv
  <2>3. cur'[d] = cur[d] /\ base'[d] = base[d] /\ want'[d] = want[d] /\ replica'[d] = replica[d]
    BY <1>4
  <2> QED BY <2>1, <2>2, <2>3 DEF StreamOK, Owed
<1>5. ASSUME NEW d \in Clients, NEW f \in Clients, cur'[d] # None, cur'[d] = cur'[f] PROVE d = f
  <2>1. CASE d # c /\ f # c
    BY <1>5, <2>1 DEF SubsInv
  <2>2. CASE d = c /\ f # c
    <3>1. cur'[f] = s /\ cur[f] = cur'[f]
      BY <1>5, <2>2
    <3> QED BY <2>2, <3>1
  <2>3. CASE d # c /\ f = c
    <3>1. cur'[d] = s /\ cur[d] = cur'[d]
      BY <1>5, <2>3
    <3> QED BY <2>3, <3>1
  <2> QED BY <2>1, <2>2, <2>3
<1>6. \A d \in Clients : StreamOK(d)'
  BY <1>4
<1> QED BY <1>2, <1>3, <1>5, <1>6 DEF SubsInv

\* store.go Apply, offer: a change is added to every open subscription that wants
\* it, or ends the one that has no room.
LEMMA ApplyKeepsSubs ==
  ASSUME ListInv, SubsInv, NEW id \in world.ids, NEW start \in world.starts,
         NEW camera \in world.cameras, NEW at \in Later, Apply(id, start, camera, at)
  PROVE  SubsInv'
<1>1. PICK e \in Entry : /\ e.id = id /\ byID' = [byID EXCEPT ![id] = e]
                         /\ subs' = [s \in Subs |-> IF subs[s].open THEN Offer(subs[s], e) ELSE subs[s]]
  BY ApplyKeepsList
<1>2. cur' = cur /\ base' = base /\ want' = want /\ replica' = replica
  BY DEF Apply
<1>3. byID \in [Ids -> Entry \cup {None}] /\ id \in Ids
  BY DEF ListInv, EntriesOK, World
<1>4. Change(e) \in Message /\ Change(e).id = id /\ Change(e).rev = e.rev
  BY <1>1 DEF Change, Message, Entry
<1>5. ASSUME NEW s \in Subs
      PROVE  /\ SameSub(subs[s], subs'[s]) /\ (subs[s].dead => subs'[s].dead)
             /\ subs[s].open /\ ~ subs'[s].dead =>
                  subs'[s].ch = IF Wanted(subs[s].want, e) THEN Append(subs[s].ch, Change(e))
                                ELSE subs[s].ch
  <2> DEFINE x == subs[s]
             y == subs'[s]
  <2>1. Shape(x) /\ y = IF x.open THEN Offer(x, e) ELSE x
    BY <1>1 DEF SubsInv, SubOK
  <2> HIDE DEF x, y
  <2>2. LET o == Offer(x, e)
        IN  /\ Shape(o) /\ o.open = x.open /\ o.ctxDone = x.ctxDone /\ o.want = x.want
            /\ x.dead => o.dead
            /\ ~ o.dead => o.ch = IF Wanted(x.want, e) THEN Append(x.ch, Change(e)) ELSE x.ch
    BY <2>1, OfferIs
  <2>3. /\ SameSub(x, y) /\ (x.dead => y.dead)
        /\ x.open /\ ~ y.dead => y.ch = IF Wanted(x.want, e) THEN Append(x.ch, Change(e)) ELSE x.ch
    BY <2>1, <2>2 DEF SameSub
  <2> QED BY <2>3 DEF x, y
<1>6. ClientsOK'
  BY <1>2 DEF SubsInv, ClientsOK
<1>7. subs' \in [Subs -> Sub] /\ \A s \in Subs : SubOK(subs'[s])
  <2>1. ASSUME NEW s \in Subs PROVE SubOK(subs'[s]) /\ subs'[s] \in Sub
    <3>1. SubOK(subs[s])
      BY DEF SubsInv
    <3> QED BY <1>5, <3>1 DEF SubOK, SameSub, Shape
  <2> QED BY <1>1, <2>1
<1>8. ASSUME NEW c \in Clients PROVE StreamOK(c)'
  <2> SUFFICES ASSUME cur[c] # None PROVE StreamOK(c)'
    BY <1>2 DEF StreamOK
  <2> DEFINE s == cur[c]
             x == subs[s]
             y == subs'[s]
  <2>1. s \in Subs
    BY DEF SubsInv, ClientsOK
  <2>2. /\ x.open /\ ~ x.ctxDone /\ x.want = want[c] /\ x.ch \in Seq(Message)
        /\ ~ x.dead => \A i \in Ids : byID[i] # None /\ Owed(c, byID[i]) =>
                          PendingOf(x.ch, i, replica[c][i]) = byID[i].rev
    <3>1. StreamOK(c) /\ Shape(x)
      BY <2>1 DEF SubsInv, SubOK
    <3> QED BY <3>1 DEF StreamOK, Shape, Sub
  <2>3. /\ y.open = x.open /\ y.ctxDone = x.ctxDone /\ y.want = x.want /\ (x.dead => y.dead)
        /\ ~ y.dead => y.ch = IF Wanted(x.want, e) THEN Append(x.ch, Change(e)) ELSE x.ch
    BY <1>5, <2>1, <2>2 DEF SameSub
  <2> HIDE DEF x, y
  <2>4. ASSUME ~ y.dead, NEW i \in Ids, byID'[i] # None, Owed(c, byID'[i])
        PROVE  PendingOf(y.ch, i, replica[c][i]) = byID'[i].rev
    <3>1. PendingOf(Append(x.ch, Change(e)), i, replica[c][i])
            = IF id = i THEN e.rev ELSE PendingOf(x.ch, i, replica[c][i])
      BY <1>4, <2>2, PendingAppend
    <3>2. CASE i = id
      <4>1. byID'[i] = e
        BY <1>1, <1>3, <3>2
      <4>2. y.ch = Append(x.ch, Change(e))
        BY <2>2, <2>3, <2>4, <4>1 DEF Owed
      <4> QED BY <3>1, <3>2, <4>1, <4>2
    <3>3. CASE i # id
      <4>1. byID'[i] = byID[i]
        BY <1>1, <1>3, <3>3
      <4>2. PendingOf(x.ch, i, replica[c][i]) = byID[i].rev
        BY <2>2, <2>3, <2>4, <4>1
      <4> QED BY <2>3, <2>4, <3>1, <3>3, <4>1, <4>2
    <3> QED BY <3>2, <3>3
  <2>5. /\ y.open /\ ~ y.ctxDone /\ y.want = want[c]
    BY <2>2, <2>3
  <2> QED BY <1>2, <2>4, <2>5 DEF StreamOK, Owed, y
<1>9. \A c, d \in Clients : cur'[c] # None /\ cur'[c] = cur'[d] => c = d
  BY <1>2 DEF SubsInv
<1> QED BY <1>6, <1>7, <1>8, <1>9 DEF SubsInv

\* store.go Watch: the snapshot and the registration are one step, so what is
\* stored when a stream begins is in its channel and what is stored later is
\* offered; a live stream is owed nothing that is stored already.
LEMMA SubscribeKeepsSubs ==
  ASSUME ListInv, SubsInv, NEW c \in Clients, NEW s \in Subs, NEW since \in Nat,
         NEW w \in SUBSET Cameras, NEW b \in Nat, b = (IF since = 0 THEN now + 1 ELSE since),
         Subscribe(c, s, since, w), base' = [base EXCEPT ![c] = b], want' = [want EXCEPT ![c] = w]
  PROVE  SubsInv'
<1> DEFINE sub == [NewSub EXCEPT !.open = TRUE, !.want = w]
           x == IF since = 0 THEN sub ELSE Snapshot(sub, since)
<1>1. /\ cur[c] = None /\ ~ subs[s].open
      /\ subs' = [subs EXCEPT ![s] = x] /\ cur' = [cur EXCEPT ![c] = s]
      /\ byID' = byID /\ replica' = replica
  BY DEF Subscribe, storeVars
<1>2. Shape(sub) /\ sub.open /\ ~ sub.ctxDone /\ ~ sub.dead /\ sub.want = w
  BY NewSubOK
<1> HIDE DEF sub
<1>3. SameSub(sub, Snapshot(sub, since)) /\ Told(Snapshot(sub, since), since, Len(ordered), Len(ordered))
  BY <1>2, SnapshotOK
<1>4. /\ SameSub(sub, x)
      /\ since # 0 => Told(x, since, Len(ordered), Len(ordered))
  BY <1>2, <1>3 DEF SameSub
<1> HIDE DEF x
<1>5. SubOK(x) /\ x.open /\ ~ x.ctxDone /\ x.want = w
  BY <1>2, <1>4 DEF SameSub, SubOK
<1>6. ASSUME ~ x.dead, NEW i \in Ids, byID[i] # None, byID[i].updatedAt >= b, Wanted(w, byID[i]), NEW r
      PROVE  PendingOf(x.ch, i, r) = byID[i].rev
  <2>1. byID[i].id = i /\ byID[i].updatedAt <= now /\ byID[i].updatedAt \in Nat /\ now \in Nat
    BY <1>6 DEF ListInv, EntriesOK, Entry
  <2>2. since # 0 /\ b = since
    BY <1>6, <2>1
  <2>3. PICK k \in 1 .. Len(ordered) : ordered[k] = byID[i]
    BY <1>6, OrderedIs
  <2>4. k > Len(ordered) - Len(ordered)
    BY OrderedIs
  <2> QED BY <1>4, <1>5, <1>6, <2>1, <2>2, <2>3, <2>4 DEF Told
<1>7. /\ cur \in [Clients -> Subs \cup {None}] /\ base \in [Clients -> Nat]
      /\ want \in [Clients -> SUBSET Cameras] /\ replica \in [Clients -> [Ids -> Nat]]
  BY DEF SubsInv, ClientsOK
<1>8. ClientsOK'
  BY <1>1, <1>7 DEF ClientsOK
<1>9. /\ cur'[c] = s /\ base'[c] = b /\ want'[c] = w /\ subs'[s] = x
      /\ \A d \in Clients : d # c => cur'[d] = cur[d] /\ base'[d] = base[d] /\ want'[d] = want[d]
  BY <1>1, <1>7 DEF SubsInv
<1>10. StreamOK(c)'
  BY <1>1, <1>5, <1>6, <1>9 DEF StreamOK, Owed
<1>11. ASSUME NEW d \in Clients, d # c PROVE cur[d] # s
  <2>1. StreamOK(d) /\ s # None
    BY StoreAssumption DEF SubsInv
  <2> QED BY <1>1, <2>1 DEF StreamOK
<1>12. \A d \in Clients : d # c => /\ cur'[d] = cur[d] /\ base'[d] = base[d]
                                   /\ want'[d] = want[d] /\ replica'[d] = replica[d]
  BY <1>1, <1>9
<1> QED BY <1>1, <1>5, <1>8, <1>9, <1>10, <1>11, <1>12, OneStreamStep

\* WatchEvents: a first watch, and another after being cut off.
LEMMA WatchKeepsSubs ==
  ASSUME ListInv, SubsInv, NEW c \in Clients, NEW s \in Subs,
         \/ \E since \in 0 .. world.maxNow, w \in Wants : WatchEvents(c, s, since, w)
         \/ WatchAgain(c, s)
  PROVE  SubsInv'
<1>0. /\ base \in [Clients -> Nat] /\ want \in [Clients -> SUBSET Cameras]
      /\ now \in Nat /\ world.maxNow \in Nat /\ Wants \subseteq SUBSET Cameras
  BY StoreAssumption DEF SubsInv, ClientsOK, ListInv, EntriesOK, World
<1>1. ASSUME NEW since \in 0 .. world.maxNow, NEW w \in Wants, WatchEvents(c, s, since, w)
      PROVE  SubsInv'
  <2> DEFINE b == IF since = 0 THEN now + 1 ELSE since
  <2>1. /\ Subscribe(c, s, since, w)
        /\ base' = [base EXCEPT ![c] = b] /\ want' = [want EXCEPT ![c] = w]
    BY <1>1 DEF WatchEvents
  <2>2. since \in Nat /\ b \in Nat /\ w \in SUBSET Cameras /\ b = (IF since = 0 THEN now + 1 ELSE since)
    BY <1>0
  <2> HIDE DEF b
  <2> QED BY <2>1, <2>2, SubscribeKeepsSubs
<1>2. ASSUME WatchAgain(c, s) PROVE SubsInv'
  <2> DEFINE b == base[c]
             w == want[c]
  <2>1. Subscribe(c, s, b, w) /\ b # 0 /\ base' = base /\ want' = want
    BY <1>2 DEF WatchAgain
  <2>2. b \in Nat /\ w \in SUBSET Cameras /\ b = (IF b = 0 THEN now + 1 ELSE b)
    BY <1>0, <2>1
  <2>3. base' = [base EXCEPT ![c] = b] /\ want' = [want EXCEPT ![c] = w]
    BY <1>0, <2>1
  <2> HIDE DEF b, w
  <2> QED BY <2>1, <2>2, <2>3, SubscribeKeepsSubs
<1> QED BY <1>1, <1>2

\* WatchEvents: a change that leaves the channel reaches the client.
LEMMA ReceiveKeepsSubs ==
  ASSUME SubsInv, NEW c \in Clients, Receive(c)
  PROVE  SubsInv'
<1> DEFINE s == cur[c]
           x == subs[s]
           m == Head(x.ch)
           q == [replica[c] EXCEPT ![m.id] = m.rev]
           y == [x EXCEPT !.ch = Tail(x.ch)]
<1>0. /\ s # None /\ x.ch # <<>> /\ byID' = byID
      /\ cur' = cur /\ base' = base /\ want' = want
  BY DEF Receive, storeVars
<1>1. replica' = [replica EXCEPT ![c] = q] /\ subs' = [subs EXCEPT ![s] = y]
  BY Zenon DEF Receive
<1>2. /\ cur \in [Clients -> Subs \cup {None}] /\ base \in [Clients -> Nat]
      /\ want \in [Clients -> SUBSET Cameras] /\ replica \in [Clients -> [Ids -> Nat]]
      /\ subs \in [Subs -> Sub]
  BY DEF SubsInv, ClientsOK
<1>3. s \in Subs /\ SubOK(x) /\ StreamOK(c)
  BY <1>0, <1>2 DEF SubsInv
<1>4. /\ x.open /\ ~ x.ctxDone /\ x.want = want[c]
      /\ ~ x.dead => \A i \in Ids : byID[i] # None /\ Owed(c, byID[i]) =>
                        PendingOf(x.ch, i, replica[c][i]) = byID[i].rev
  BY <1>0, <1>3 DEF StreamOK
<1> HIDE DEF x
<1>5. x \in Sub /\ Shape(x) /\ x.ch \in Seq(Message)
  BY <1>3 DEF SubOK, Shape, Sub
<1>6. m \in Message /\ Tail(x.ch) \in Seq(Message) /\ m.id \in Ids /\ m.rev \in Nat
  <2> DEFINE ch == x.ch
  <2>1. ch \in Seq(Message) /\ ch # <<>>
    BY <1>0, <1>5 DEF x
  <2> HIDE DEF ch
  <2>2. Head(ch) \in Message /\ Tail(ch) \in Seq(Message)
    BY <2>1
  <2> QED BY <2>2 DEF ch, Message
<1> HIDE DEF m, y
<1>7. y = [open |-> x.open, ctxDone |-> x.ctxDone, dead |-> x.dead, closes |-> x.closes,
           want |-> x.want, ch |-> Tail(x.ch)]
  <2> DEFINE t == Tail(x.ch)
  <2>1. y = [x EXCEPT !.ch = t]
    BY DEF y
  <2> HIDE DEF t
  <2>2. y = [open |-> x.open, ctxDone |-> x.ctxDone, dead |-> x.dead, closes |-> x.closes,
             want |-> x.want, ch |-> t]
    BY <1>5, <2>1 DEF Sub
  <2> QED BY <2>2 DEF t
<1>8. SubOK(y)
  BY <1>4, <1>5, <1>6, <1>7 DEF SubOK, Shape, Sub
<1>9. q \in [Ids -> Nat] /\ \A i \in Ids : q[i] = IF m.id = i THEN m.rev ELSE replica[c][i]
  BY <1>2, <1>6
<1> HIDE DEF q
<1>10. replica' \in [Clients -> [Ids -> Nat]] /\ replica'[c] = q
       /\ \A d \in Clients : d # c => replica'[d] = replica[d]
  BY <1>1, <1>2, <1>9
<1>11. ClientsOK'
  BY <1>0, <1>2, <1>10 DEF ClientsOK
<1>12. ASSUME NEW i \in Ids PROVE PendingOf(y.ch, i, q[i]) = PendingOf(x.ch, i, replica[c][i])
  <2>1. q[i] = IF Head(x.ch).id = i THEN Head(x.ch).rev ELSE replica[c][i]
    BY <1>9 DEF m
  <2>2. PendingOf(Tail(x.ch), i, q[i]) = PendingOf(x.ch, i, replica[c][i])
    BY <1>0, <1>5, <2>1, PendingTail
  <2> QED BY <1>7, <2>2
<1>13. subs'[s] = y
  BY <1>1, <1>2, <1>3
<1>14. StreamOK(c)'
  <2>1. y.open /\ ~ y.ctxDone /\ y.want = want[c] /\ y.dead = x.dead
    BY <1>4, <1>7
  <2>2. cur'[c] = s /\ subs'[cur'[c]] = y /\ replica'[c] = q /\ want'[c] = want[c] /\ base'[c] = base[c]
    BY <1>0, <1>10, <1>13
  <2>3. ASSUME ~ y.dead, NEW i \in Ids, byID'[i] # None, Owed(c, byID[i])'
        PROVE  PendingOf(y.ch, i, q[i]) = byID'[i].rev
    <3>1. byID'[i] = byID[i] /\ Owed(c, byID[i])
      BY <1>0, <2>3 DEF Owed
    <3> QED BY <1>4, <1>12, <2>1, <2>3, <3>1
  <2> HIDE DEF s, y, q
  <2> QED BY <2>1, <2>2, <2>3 DEF StreamOK, Owed
<1>15. \A d \in Clients : d # c => cur[d] # s
  BY <1>0 DEF SubsInv
<1>16. \A d \in Clients : d # c => /\ cur'[d] = cur[d] /\ base'[d] = base[d]
                                   /\ want'[d] = want[d] /\ replica'[d] = replica[d]
  BY <1>0, <1>10
<1>17. cur'[c] \in {s, None}
  BY <1>0
<1> HIDE DEF s
<1> QED BY <1>0, <1>1, <1>3, <1>8, <1>11, <1>14, <1>15, <1>16, <1>17, OneStreamStep

\* A stream that ends, cut off or left, leaves its subscription to be dropped.
LEMMA EndKeepsSubs ==
  ASSUME SubsInv, NEW c \in Clients, CutOff(c) \/ Leave(c)
  PROVE  SubsInv'
<1> DEFINE s == cur[c]
           x == subs[s]
           y == [x EXCEPT !.ctxDone = TRUE]
<1>0. s # None /\ byID' = byID /\ cur' = [cur EXCEPT ![c] = None]
  BY DEF CutOff, Leave, storeVars
<1>1. subs' = [subs EXCEPT ![s] = y]
  BY Zenon DEF CutOff, Leave
<1>2. /\ cur \in [Clients -> Subs \cup {None}] /\ base \in [Clients -> Nat]
      /\ want \in [Clients -> SUBSET Cameras] /\ replica \in [Clients -> [Ids -> Nat]]
      /\ subs \in [Subs -> Sub]
  BY DEF SubsInv, ClientsOK
<1>3. s \in Subs /\ SubOK(x) /\ StreamOK(c)
  BY <1>0, <1>2 DEF SubsInv
<1>4. x.open /\ x \in Sub
  BY <1>0, <1>3 DEF StreamOK, SubOK, Shape
<1>5. SubOK(y)
  <2> HIDE DEF x, y
  <2>1. y = [x EXCEPT !.ctxDone = TRUE]
    BY DEF y
  <2>2. y = [open |-> x.open, ctxDone |-> TRUE, dead |-> x.dead, closes |-> x.closes,
             want |-> x.want, ch |-> x.ch]
    BY <1>4, <2>1 DEF Sub
  <2> QED BY <1>3, <1>4, <2>2 DEF SubOK, Shape, Sub
<1> HIDE DEF x, y
<1>6. /\ base' \in [Clients -> Nat] /\ want' \in [Clients -> SUBSET Cameras]
      /\ replica' \in [Clients -> [Ids -> Nat]]
      /\ \A d \in Clients : d # c => base'[d] = base[d] /\ want'[d] = want[d] /\ replica'[d] = replica[d]
  <2>1. CASE CutOff(c)
    BY <1>2, <2>1 DEF CutOff
  <2>2. CASE Leave(c)
    <3>1. /\ base' = [base EXCEPT ![c] = 0] /\ want' = [want EXCEPT ![c] = {}]
          /\ replica' = [replica EXCEPT ![c] = [i \in Ids |-> 0]]
      BY <2>2 DEF Leave
    <3>2. 0 \in Nat /\ {} \in SUBSET Cameras /\ [i \in Ids |-> 0] \in [Ids -> Nat]
      OBVIOUS
    <3> QED BY <1>2, <3>1, <3>2
  <2> QED BY <2>1, <2>2
<1>7. cur' \in [Clients -> Subs \cup {None}] /\ cur'[c] = None /\ \A d \in Clients : d # c => cur'[d] = cur[d]
  BY <1>0, <1>2
<1>8. ClientsOK'
  BY <1>6, <1>7 DEF ClientsOK
<1>9. StreamOK(c)'
  BY <1>7 DEF StreamOK
<1>10. \A d \in Clients : d # c => cur[d] # s
  BY <1>0 DEF SubsInv
<1>11. \A d \in Clients : d # c => /\ cur'[d] = cur[d] /\ base'[d] = base[d]
                                   /\ want'[d] = want[d] /\ replica'[d] = replica[d]
  BY <1>6, <1>7
<1>12. cur'[c] \in {s, None}
  BY <1>7
<1> HIDE DEF s
<1> QED BY <1>0, <1>1, <1>3, <1>5, <1>8, <1>9, <1>10, <1>11, <1>12, OneStreamStep

\* store.go drop: a subscription whose context is over is unregistered, its channel
\* closed if offer has not closed it.
LEMMA DropKeepsSubs ==
  ASSUME SubsInv, NEW s \in Subs, Drop(s)
  PROVE  SubsInv'
<1> DEFINE x == subs[s]
           z == Dropped(x)
           y == [z EXCEPT !.open = FALSE]
<1>0. /\ x.open /\ x.ctxDone /\ byID' = byID /\ cur' = cur /\ base' = base /\ want' = want
      /\ replica' = replica
  BY DEF Drop, storeVars
<1>1. subs' = [subs EXCEPT ![s] = y]
  BY Zenon DEF Drop
<1>2. /\ subs \in [Subs -> Sub] /\ SubOK(x) /\ x \in Sub
  BY DEF SubsInv, SubOK, Shape
<1>3. Shape(x)
  BY <1>2 DEF SubOK
<1> HIDE DEF x
<1>4. z \in Sub /\ z.dead /\ z.closes = 1
  <2>1. CASE x.dead
    BY <1>2, <1>3, <2>1 DEF Dropped, Shape, Sub
  <2>2. CASE ~ x.dead
    <3>1. z = [x EXCEPT !.dead = TRUE, !.closes = @ + 1]
      BY <2>2 DEF Dropped
    <3> HIDE DEF z
    <3>2. z = [open |-> x.open, ctxDone |-> x.ctxDone, dead |-> TRUE, closes |-> x.closes + 1,
               want |-> x.want, ch |-> x.ch]
      BY <1>2, <3>1 DEF Sub
    <3> QED BY <1>2, <1>3, <2>2, <3>2 DEF Shape, Sub
  <2> QED BY <2>1, <2>2
<1> HIDE DEF z
<1>5. SubOK(y)
  <2>0. y = [z EXCEPT !.open = FALSE]
    OBVIOUS
  <2> HIDE DEF y
  <2>1. y = [open |-> FALSE, ctxDone |-> z.ctxDone, dead |-> z.dead, closes |-> z.closes,
             want |-> z.want, ch |-> z.ch]
    BY <1>4, <2>0 DEF Sub
  <2> QED BY <1>4, <2>1 DEF SubOK, Shape, Sub
<1> HIDE DEF y
<1>6. subs' \in [Subs -> Sub] /\ \A t \in Subs : SubOK(subs'[t])
  <2>1. y \in Sub
    BY <1>5 DEF SubOK, Shape
  <2> QED BY <1>1, <1>2, <1>5, <2>1 DEF SubsInv
<1>7. ASSUME NEW d \in Clients PROVE StreamOK(d)'
  <2>1. StreamOK(d)
    BY DEF SubsInv
  <2>2. cur[d] # None => cur[d] # s /\ subs'[cur[d]] = subs[cur[d]]
    BY <1>0, <1>1, <1>2, <2>1 DEF StreamOK, x, SubsInv, ClientsOK
  <2> QED BY <1>0, <2>1, <2>2 DEF StreamOK, Owed
<1>8. ClientsOK'
  BY <1>0 DEF SubsInv, ClientsOK
<1>9. \A c, d \in Clients : cur'[c] # None /\ cur'[c] = cur'[d] => c = d
  BY <1>0 DEF SubsInv
<1> QED BY <1>6, <1>7, <1>8, <1>9 DEF SubsInv

\* Every step keeps every stream, given that it keeps the list.
LEMMA SubsInvStep == ListInv /\ SubsInv /\ [Next]_vars => SubsInv'
<1> SUFFICES ASSUME ListInv, SubsInv, [Next]_vars PROVE SubsInv'
  OBVIOUS
<1>0. world.clients \subseteq Clients
  BY DEF ListInv, World
<1>1. ASSUME UNCHANGED watchVars, byID' = byID PROVE SubsInv'
  BY <1>1, StoreStepKeepsSubs
<1>2. ASSUME NEW id \in world.ids, NEW start \in world.starts, NEW camera \in world.cameras,
             NEW at \in Later, Apply(id, start, camera, at)
      PROVE  SubsInv'
  BY <1>2, ApplyKeepsSubs
<1>3. ASSUME NEW at, Prune(at) PROVE SubsInv'
  <2>1. UNCHANGED watchVars /\ \A i \in Ids : byID'[i] # None => byID'[i] = byID[i]
    BY <1>3 DEF Prune
  <2> QED BY <2>1, StoreStepKeepsSubs
<1>4. CASE UNCHANGED vars
  BY <1>1, <1>4 DEF vars, watchVars
<1>5. ASSUME NEW camera, SawCamera(camera) PROVE SubsInv'
  BY <1>1, <1>5 DEF SawCamera
<1>6. ASSUME NEW c \in world.clients, NEW s \in Subs, NEW since \in 0 .. world.maxNow, NEW w \in Wants,
             WatchEvents(c, s, since, w)
      PROVE  SubsInv'
  BY <1>0, <1>6, WatchKeepsSubs
<1>7. ASSUME NEW c \in Clients, NEW s \in Subs, WatchAgain(c, s) PROVE SubsInv'
  BY <1>7, WatchKeepsSubs
<1>8. ASSUME NEW c \in Clients, Receive(c) PROVE SubsInv'
  BY <1>8, ReceiveKeepsSubs
<1>9. ASSUME NEW c \in Clients, CutOff(c) \/ Leave(c) PROVE SubsInv'
  BY <1>9, EndKeepsSubs
<1>10. ASSUME NEW s \in Subs, Drop(s) PROVE SubsInv'
  BY <1>10, DropKeepsSubs
<1>11. ASSUME NEW p, NEW since, Scan(p, since) PROVE SubsInv'
  BY <1>1, <1>11 DEF Scan, storeVars
<1> QED BY <1>2, <1>3, <1>4, <1>5, <1>6, <1>7, <1>8, <1>9, <1>10, <1>11 DEF Next, ListEvents, HousePage

\* The streams' invariant holds throughout.
LEMMA SubsInvHolds == Spec => []SubsInv
<1>1. ListInv /\ SubsInv /\ [Next]_vars => SubsInv'
  BY SubsInvStep
<1>2. Init => SubsInv
  BY SubsInvInit
<1> QED BY <1>1, <1>2, ListInvHolds, PTL DEF Spec

\* store.go offer, drop: for any number of subscribers, a channel is closed at most
\* once, and one whose subscription is over has been closed.
THEOREM AlwaysClosedOnce == Spec => []ClosedOnce
<1>1. SubsInv => ClosedOnce
  <2> SUFFICES ASSUME SubsInv, NEW s \in Subs
               PROVE  /\ subs[s].closes <= 1
                      /\ subs[s].dead <=> subs[s].closes = 1
                      /\ subs[s].ctxDone /\ ~ subs[s].open => subs[s].dead
    BY DEF ClosedOnce
  <2>1. SubOK(subs[s])
    BY DEF SubsInv
  <2>2. subs[s].closes = IF subs[s].dead THEN 1 ELSE 0
    BY <2>1 DEF SubOK, Shape
  <2> QED BY <2>1, <2>2 DEF SubOK
<1> QED BY <1>1, SubsInvHolds, PTL

\* store.go Watch: for any channel capacity and any number of clients, a stream
\* that is not cut off holds, or has in its channel, the stored state of every
\* event its client is owed.
THEOREM NothingEverSlips == Spec => []NothingSlips
<1>1. SubsInv => NothingSlips
  <2> SUFFICES ASSUME SubsInv, NEW c \in Clients, cur[c] # None, ~ subs[cur[c]].dead,
                      NEW i \in Ids, byID[i] # None, Owed(c, byID[i])
               PROVE  Pending(c, i) = byID[i].rev
    BY DEF NothingSlips
  <2>1. StreamOK(c)
    BY DEF SubsInv
  <2>2. PendingOf(subs[cur[c]].ch, i, replica[c][i]) = byID[i].rev
    BY <2>1 DEF StreamOK
  <2> QED BY <2>2 DEF Pending, PendingOf, SelectLastInSeq
<1> QED BY <1>1, SubsInvHolds, PTL

------------------------------------------------------------------------------
(***************************************************************************)
(* Paging.                                                                 *)
(***************************************************************************)
CursorValue == [start : Nat, id : Nat]

Scanning == [phase : {"idle", "scan", "done"}, since : Nat, cursor : CursorValue \cup {None},
             listed : SUBSET Ids, owed : SUBSET Ids]

\* An entry the scan has not come to.
Ahead(e, cursor) == cursor = None \/ Older(e, cursor)

\* Of what it owes, a scan has listed what it has passed; all the rest is ahead.
ScanOK(x) ==
  /\ x.phase = "idle" => x.cursor = None
  /\ x.phase = "scan" =>
       \A i \in x.owed : byID[i] # None /\ (i \in x.listed \/ Ahead(byID[i], x.cursor))
  /\ x.phase = "done" => x.owed \subseteq x.listed

ScanInv == pager \in [Pagers -> Scanning] /\ \A p \in Pagers : ScanOK(pager[p])

\* store.go List: what is ahead of the cursor is on the page, or behind the page's
\* last entry; an empty page has nothing ahead of it.
LEMMA PageIs ==
  ASSUME ListInv, NEW cursor
  PROVE  /\ Page(cursor) \in Seq(Entry)
         /\ \A e \in ToSet(Page(cursor)) : e.id \in Ids /\ byID[e.id] = e
         /\ \A i \in Ids : byID[i] # None /\ Ahead(byID[i], cursor) =>
              /\ Page(cursor) # <<>>
              /\ byID[i] \in ToSet(Page(cursor)) \/ Below(byID[i], Last(Page(cursor)))
<1> DEFINE n == Len(ordered)
           I == {k \in 1 .. n : Older(ordered[k], cursor)}
           a == IF cursor = None THEN 1 ELSE Search(ordered, LAMBDA e : Older(e, cursor))
           b == IF a + PageSize - 1 < n THEN a + PageSize - 1 ELSE n
           w == SubSeq(ordered, a, b)
<1>0. /\ n \in Nat /\ ordered \in Seq(Entry) /\ PageSize \in Nat /\ PageSize >= 1
      /\ Sorted(ordered) /\ I \in SUBSET (1 .. n)
  BY StoreAssumption DEF ListInv, ListOK
<1>1. Page(cursor) = w
  BY DEF Page
<1>2. a \in 1 .. n + 1 /\ \A k \in 1 .. n : Ahead(ordered[k], cursor) => a <= k
  <2>1. CASE cursor = None
    BY <1>0, <2>1
  <2>2. CASE cursor # None
    <3>1. a = FirstOf(n, I)
      <4>1. CASE I = {}
        BY <2>2, <4>1 DEF Search, SelectInSeq, FirstOf
      <4>2. CASE I # {}
        <5>1. FirstOf(n, I) = Min(I) /\ FirstOf(n, I) \in I
          <6>1. FirstOf(n, I) = n + 1 <=> I = {}
            BY <1>0, FirstIs
          <6>2. FirstOf(n, I) # n + 1 => FirstOf(n, I) \in I
            BY <1>0, FirstIs
          <6> QED BY <4>2, <6>1, <6>2 DEF FirstOf
        <5>2. Min(I) # 0
          BY <5>1
        <5> QED BY <2>2, <4>2, <5>1, <5>2 DEF Search, SelectInSeq
      <4> QED BY <4>1, <4>2
    <3>2. FirstOf(n, I) \in 1 .. n + 1 /\ \A k \in I : FirstOf(n, I) <= k
      BY <1>0, FirstIs
    <3>3. \A k \in 1 .. n : Ahead(ordered[k], cursor) => k \in I
      BY <2>2 DEF Ahead
    <3> HIDE DEF a, I
    <3> QED BY <3>1, <3>2, <3>3
  <2> QED BY <2>1, <2>2
<1> HIDE DEF a
<1>3. b \in a - 1 .. n
  BY <1>0, <1>2
<1>4. /\ SubSeq(ordered, a, b) \in Seq(Entry) /\ Len(SubSeq(ordered, a, b)) = b - (a - 1)
      /\ \A j \in 1 .. b - (a - 1) : SubSeq(ordered, a, b)[j] = ordered[(a - 1) + j]
  BY <1>0, <1>2, <1>3, PartIs
<1>5. /\ w \in Seq(Entry) /\ Len(w) = b - (a - 1) /\ DOMAIN w = 1 .. b - (a - 1)
      /\ \A j \in 1 .. b - (a - 1) : w[j] = ordered[(a - 1) + j]
  BY <1>4
<1> HIDE DEF w
<1>6. ASSUME NEW e \in ToSet(w) PROVE e.id \in Ids /\ byID[e.id] = e
  <2>1. PICK j \in 1 .. b - (a - 1) : e = w[j]
    BY <1>5 DEF ToSet
  <2>2. (a - 1) + j \in 1 .. n
    BY <1>0, <1>2, <1>3
  <2> QED BY <1>5, <2>1, <2>2, OrderedIs
<1>7. ASSUME NEW i \in Ids, byID[i] # None, Ahead(byID[i], cursor)
      PROVE  w # <<>> /\ (byID[i] \in ToSet(w) \/ Below(byID[i], Last(w)))
  <2>1. PICK k \in 1 .. n : ordered[k] = byID[i]
    BY <1>7, OrderedIs
  <2>2. a <= k
    BY <1>2, <1>7, <2>1
  <2>3. a <= b
    BY <1>0, <1>2, <2>2
  <2>4. w # <<>>
    BY <1>2, <1>3, <1>5, <2>3
  <2>5. CASE k <= b
    <3>1. k - (a - 1) \in 1 .. b - (a - 1) /\ (a - 1) + (k - (a - 1)) = k
      BY <1>2, <1>3, <2>2, <2>5
    <3>2. w[k - (a - 1)] = byID[i]
      BY <1>5, <2>1, <3>1
    <3> QED BY <1>5, <2>4, <3>1, <3>2 DEF ToSet
  <2>6. CASE k > b
    <3>1. b \in 1 .. n /\ b < k
      BY <1>2, <1>3, <2>3, <2>6
    <3>2. Below(ordered[k], ordered[b])
      BY <1>0, <3>1 DEF Sorted
    <3>3. b - (a - 1) \in 1 .. b - (a - 1) /\ (a - 1) + (b - (a - 1)) = b
      BY <1>2, <1>3, <2>3
    <3>4. Last(w) = ordered[b]
      BY <1>5, <3>3 DEF Last
    <3> QED BY <2>1, <2>4, <3>2, <3>4
  <2> QED BY <1>0, <1>3, <2>5, <2>6
<1> QED BY <1>1, <1>5, <1>6, <1>7

\* Before anything is read, nothing is owed.
LEMMA ScanInvInit == Init => ScanInv
<1> SUFFICES ASSUME Init PROVE ScanInv
  OBVIOUS
<1>1. pager = [p \in Pagers |-> NewScan]
  BY DEF Init
<1>2. NewScan \in Scanning /\ ScanOK(NewScan)
  BY DEF NewScan, Scanning, ScanOK
<1> QED BY <1>1, <1>2 DEF ScanInv

\* store.go List, house.go ServeHTTP: a page lists what it comes to, and passes
\* nothing else that is owed.
LEMMA ScanKeepsScans ==
  ASSUME ListInv, ScanInv, NEW p \in Pagers, NEW since \in Nat, Scan(p, since)
  PROVE  ScanInv'
<1> DEFINE x == pager[p]
           page == Page(x.cursor)
           shown == {e.id : e \in {f \in ToSet(page) : f.start >= since}}
           ends == page = <<>> \/ Last(page).start < since
           owed == IF x.phase = "idle" THEN {e.id : e \in ToSet(ordered)} ELSE x.owed
           y == [phase  |-> IF ends THEN "done" ELSE "scan",
                 since  |-> since,
                 cursor |-> IF page = <<>> THEN x.cursor ELSE Cursor(Last(page)),
                 listed |-> x.listed \cup shown,
                 owed   |-> IF ends THEN {i \in owed : byID[i].start >= since} ELSE owed]
<1>1. /\ x.phase # "done" /\ (x.phase = "scan" => since = x.since)
      /\ pager' = [pager EXCEPT ![p] = y] /\ byID' = byID
  BY DEF Scan, storeVars
<1>2. /\ x.phase \in {"idle", "scan", "done"} /\ x.cursor \in CursorValue \cup {None}
      /\ x.listed \in SUBSET Ids /\ x.owed \in SUBSET Ids
      /\ ScanOK(x) /\ pager \in [Pagers -> Scanning]
  BY DEF ScanInv, Scanning
<1> HIDE DEF x
<1>3. /\ page \in Seq(Entry)
      /\ \A e \in ToSet(page) : e.id \in Ids /\ byID[e.id] = e
      /\ \A i \in Ids : byID[i] # None /\ Ahead(byID[i], x.cursor) =>
           /\ page # <<>>
           /\ byID[i] \in ToSet(page) \/ Below(byID[i], Last(page))
  BY PageIs
<1> HIDE DEF page
<1>4. \A e \in Entry : e.start \in Nat /\ e.id \in Nat
  BY StoreAssumption DEF Entry
<1>5. page # <<>> => Last(page) \in Entry
  BY <1>3 DEF Last
<1>6. shown \in SUBSET Ids /\ \A i \in Ids : byID[i] \in ToSet(page) /\ byID[i].start >= since /\ byID[i].id = i => i \in shown
  BY <1>3
<1>7. owed \in SUBSET Ids
  <2>1. \A e \in ToSet(ordered) : e.id \in Ids
    BY OrderedIs DEF ToSet
  <2> QED BY <1>2, <2>1
<1> HIDE DEF shown
<1>8. ASSUME NEW i \in owed
      PROVE  /\ byID[i] # None /\ byID[i] \in Entry /\ byID[i].id = i
             /\ i \in x.listed \/ Ahead(byID[i], x.cursor)
  <2>1. CASE x.phase = "idle"
    <3>1. PICK k \in 1 .. Len(ordered) : i = ordered[k].id
      BY <2>1, OrderedIs DEF ToSet
    <3>2. ordered[k] \in Entry /\ byID[i] = ordered[k] /\ None \notin Entry
      BY <3>1, OrderedIs, StoreAssumption
    <3> QED BY <1>2, <2>1, <3>1, <3>2 DEF ScanOK, Ahead
  <2>2. CASE x.phase = "scan"
    <3>1. i \in Ids /\ byID[i] # None /\ (i \in x.listed \/ Ahead(byID[i], x.cursor))
      BY <1>1, <1>2, <2>2 DEF ScanOK
    <3> QED BY <3>1 DEF ListInv, EntriesOK
  <2> QED BY <1>1, <1>2, <2>1, <2>2
<1> HIDE DEF owed
<1>9. ASSUME NEW i \in owed, i \notin x.listed, i \notin shown, ~ (byID[i].start < since)
      PROVE  page # <<>> /\ Below(byID[i], Last(page))
  <2>1. /\ i \in Ids /\ byID[i] # None /\ byID[i] \in Entry /\ byID[i].id = i
        /\ Ahead(byID[i], x.cursor)
    BY <1>7, <1>8, <1>9
  <2>2. byID[i].start >= since
    BY <1>4, <1>9, <2>1
  <2> QED BY <1>3, <1>6, <1>9, <2>1, <2>2
<1>10. y.phase = "done" => y.owed \subseteq y.listed
  <2> SUFFICES ASSUME ends, NEW i \in owed, byID[i].start >= since, i \notin x.listed, i \notin shown
               PROVE  FALSE
    OBVIOUS
  <2>1. byID[i] \in Entry /\ byID[i].start \in Nat
    BY <1>4, <1>8
  <2>2. page # <<>> /\ Below(byID[i], Last(page)) /\ Last(page).start < since
    BY <1>9, <2>1
  <2>3. Last(page).start \in Nat
    BY <1>4, <1>5, <2>2
  <2> QED BY <2>1, <2>2, <2>3 DEF Below, Older, Cursor
<1>11. ASSUME y.phase = "scan", NEW i \in y.owed
       PROVE  byID[i] # None /\ (i \in y.listed \/ Ahead(byID[i], y.cursor))
  <2>1. i \in owed /\ page # <<>> /\ ~ (Last(page).start < since)
    BY <1>11
  <2>2. y.cursor = Cursor(Last(page))
    BY <2>1
  <2>3. byID[i].start < since => Below(byID[i], Last(page))
    <3>1. byID[i].start \in Nat /\ Last(page).start \in Nat
      BY <1>4, <1>5, <1>8, <2>1
    <3> QED BY <2>1, <3>1 DEF Below, Older, Cursor
  <2>4. byID[i] # None /\ (i \in x.listed \/ i \in shown \/ Below(byID[i], Last(page)))
    BY <1>8, <1>9, <2>1, <2>3
  <2> QED BY <2>2, <2>4 DEF Below, Ahead
<1>12. y.phase # "idle"
  OBVIOUS
<1>13. ScanOK(y)
  <2> HIDE DEF y
  <2> QED BY <1>10, <1>11, <1>12 DEF ScanOK
<1>14. y \in Scanning
  <2>1. page # <<>> => Cursor(Last(page)) \in CursorValue
    BY <1>4, <1>5 DEF Cursor, CursorValue
  <2> QED BY <1>2, <1>6, <1>7, <2>1 DEF Scanning
<1> HIDE DEF y
<1>15. pager' \in [Pagers -> Scanning] /\ \A q \in Pagers : pager'[q] = IF q = p THEN y ELSE pager[q]
  BY <1>1, <1>2, <1>14
<1>16. ASSUME NEW q \in Pagers PROVE ScanOK(pager[q])'
  <2>1. ScanOK(pager[q])
    BY DEF ScanInv
  <2> QED BY <1>1, <1>13, <1>15, <2>1 DEF ScanOK
<1> QED BY <1>15, <1>16 DEF ScanInv

\* store.go Apply: the event that moved is still ahead of a scan it was ahead of, or
\* has overtaken it.
LEMMA ApplyKeepsScans ==
  ASSUME ListInv, ScanInv, NEW id \in world.ids, NEW start \in world.starts,
         NEW camera \in world.cameras, NEW at \in Later, Apply(id, start, camera, at)
  PROVE  ScanInv'
<1>1. PICK e \in Entry : /\ e.id = id /\ byID' = [byID EXCEPT ![id] = e]
                         /\ Paged(id, byID[id], e)
  BY ApplyKeepsList
<1>2. byID \in [Ids -> Entry \cup {None}] /\ None \notin Entry /\ id \in Ids
  BY StoreAssumption DEF ListInv, EntriesOK, World
<1>3. \A i \in Ids : byID'[i] = IF i = id THEN e ELSE byID[i]
  BY <1>1, <1>2
<1>4. ASSUME NEW p \in Pagers PROVE pager'[p] \in Scanning /\ ScanOK(pager[p])'
  <2>1. PICK x : x = pager[p]
    OBVIOUS
  <2>2. PICK owed : owed = IF Overtakes(x, byID[id], e) THEN x.owed \ {id} ELSE x.owed
    OBVIOUS
  <2>3. x \in Scanning /\ ScanOK(x)
    BY <2>1 DEF ScanInv
  <2>4. pager'[p] = [x EXCEPT !.owed = owed]
    BY <1>1, <2>1, <2>2 DEF Paged
  <2>5. PICK y : y = pager'[p]
    OBVIOUS
  <2>6. y = [phase |-> x.phase, since |-> x.since, cursor |-> x.cursor, listed |-> x.listed,
             owed |-> owed]
    BY <2>3, <2>4, <2>5 DEF Scanning
  <2>7. owed \subseteq x.owed /\ y \in Scanning
    BY <2>2, <2>3, <2>6 DEF Scanning
  <2>8. ASSUME x.phase = "scan", NEW i \in owed
        PROVE  byID'[i] # None /\ (i \in x.listed \/ Ahead(byID'[i], x.cursor))
    <3>1. i \in Ids /\ byID[i] # None /\ (i \in x.listed \/ Ahead(byID[i], x.cursor))
      BY <2>3, <2>7, <2>8 DEF ScanOK, Scanning
    <3>2. CASE i # id
      BY <1>3, <3>1, <3>2
    <3>3. CASE i = id
      <4>1. ~Overtakes(x, byID[id], e) /\ byID'[i] = e /\ e # None
        BY <1>2, <1>3, <2>2, <3>3
      <4> QED BY <3>1, <3>3, <4>1 DEF Overtakes, Ahead
    <3> QED BY <3>2, <3>3
  <2>9. /\ y.phase = x.phase /\ y.cursor = x.cursor /\ y.listed = x.listed /\ y.owed = owed
    BY <2>6
  <2>10. ScanOK(pager[p])'
    BY <2>3, <2>5, <2>7, <2>8, <2>9 DEF ScanOK
  <2> QED BY <2>5, <2>7, <2>10
<1>5. pager' \in [Pagers -> Scanning]
  BY <1>1, <1>4 DEF Paged
<1> QED BY <1>4, <1>5 DEF ScanInv

\* Prune: what it cuts is owed no longer.
LEMMA PruneKeepsScans ==
  ASSUME ListInv, ScanInv, NEW at, Prune(at)
  PROVE  ScanInv'
<1> DEFINE cut == {ordered[j].id : j \in (Kept(at) + 1) .. Len(ordered)}
<1>1. /\ byID' = [i \in Ids |-> IF i \in cut THEN None ELSE byID[i]]
      /\ pager' = [p \in Pagers |-> [pager[p] EXCEPT !.owed = @ \ cut]]
  BY DEF Prune
<1> HIDE DEF cut
<1>2. ASSUME NEW p \in Pagers
      PROVE  /\ pager'[p] \in Scanning
             /\ pager'[p].phase = pager[p].phase /\ pager'[p].since = pager[p].since
             /\ pager'[p].cursor = pager[p].cursor /\ pager'[p].listed = pager[p].listed
             /\ pager'[p].owed = pager[p].owed \ cut
             /\ pager[p].owed \in SUBSET Ids
  <2> DEFINE x == pager[p]
             y == pager'[p]
             o == x.owed \ cut
  <2>1. x \in Scanning /\ y = [x EXCEPT !.owed = o]
    BY <1>1 DEF ScanInv
  <2> HIDE DEF x, y, o
  <2>2. y = [phase |-> x.phase, since |-> x.since, cursor |-> x.cursor, listed |-> x.listed, owed |-> o]
    BY <2>1 DEF Scanning
  <2>3. x.owed \in SUBSET Ids /\ o \in SUBSET Ids
    BY <2>1 DEF Scanning, o
  <2>4. y \in Scanning
    BY <2>1, <2>2, <2>3 DEF Scanning
  <2> QED BY <2>2, <2>3, <2>4 DEF x, y, o
<1>3. pager' \in [Pagers -> Scanning]
  BY <1>1, <1>2
<1>4. ASSUME NEW p \in Pagers PROVE ScanOK(pager[p])'
  <2>1. ScanOK(pager[p])
    BY DEF ScanInv
  <2>2. \A i \in Ids : i \notin cut => byID'[i] = byID[i]
    BY <1>1
  <2>3. /\ pager'[p].phase = pager[p].phase /\ pager'[p].since = pager[p].since
        /\ pager'[p].cursor = pager[p].cursor /\ pager'[p].listed = pager[p].listed
        /\ pager'[p].owed = pager[p].owed \ cut /\ pager[p].owed \in SUBSET Ids
    BY <1>2
  <2> QED BY <2>1, <2>2, <2>3 DEF ScanOK
<1> QED BY <1>3, <1>4 DEF ScanInv

\* Every step keeps every scan, given the list.
LEMMA ScanInvStep == ListInv /\ ScanInv /\ [Next]_vars => ScanInv'
<1> SUFFICES ASSUME ListInv, ScanInv, [Next]_vars PROVE ScanInv'
  OBVIOUS
<1>0. world.pagers \subseteq Pagers /\ world.sinces \subseteq Nat
  BY DEF ListInv, World
<1>1. ASSUME pager' = pager, byID' = byID PROVE ScanInv'
  BY <1>1 DEF ScanInv, ScanOK
<1>2. ASSUME NEW id \in world.ids, NEW start \in world.starts, NEW camera \in world.cameras,
             NEW at \in Later, Apply(id, start, camera, at)
      PROVE  ScanInv'
  BY <1>2, ApplyKeepsScans
<1>3. ASSUME NEW at, Prune(at) PROVE ScanInv'
  BY <1>3, PruneKeepsScans
<1>4. CASE UNCHANGED vars
  BY <1>1, <1>4 DEF vars
<1>5. ASSUME NEW camera, SawCamera(camera) PROVE ScanInv'
  BY <1>1, <1>5 DEF SawCamera
<1>6. ASSUME NEW c, NEW s, NEW since, NEW w, WatchEvents(c, s, since, w) PROVE ScanInv'
  BY <1>1, <1>6 DEF WatchEvents, Subscribe, storeVars
<1>7. ASSUME NEW c, NEW s, WatchAgain(c, s) PROVE ScanInv'
  BY <1>1, <1>7 DEF WatchAgain, Subscribe, storeVars
<1>8. ASSUME NEW c, Receive(c) \/ CutOff(c) \/ Leave(c) PROVE ScanInv'
  BY <1>1, <1>8 DEF Receive, CutOff, Leave, storeVars
<1>9. ASSUME NEW s, Drop(s) PROVE ScanInv'
  BY <1>1, <1>9 DEF Drop, storeVars
<1>10. ASSUME NEW p \in world.pagers, ListEvents(p) \/ \E since \in world.sinces : HousePage(p, since)
       PROVE  ScanInv'
  <2>1. p \in Pagers /\ \E since \in Nat : Scan(p, since)
    BY <1>0, <1>10 DEF ListEvents, HousePage
  <2> QED BY <2>1, ScanKeepsScans
<1> QED BY <1>2, <1>3, <1>4, <1>5, <1>6, <1>7, <1>8, <1>9, <1>10 DEF Next

\* store.go List, house.go ServeHTTP: for any page size, any number of readers and
\* however events move, a scan that reaches its end has shown every event that was
\* there when it began and was neither pruned nor overtook the reader.
THEOREM PagingNeverMisses == Spec => []PagingMissesNothing
<1>1. ScanInv => PagingMissesNothing
  BY DEF ScanInv, ScanOK, PagingMissesNothing
<1>2. ListInv /\ ScanInv /\ [Next]_vars => ScanInv'
  BY ScanInvStep
<1>3. Init => ScanInv
  BY ScanInvInit
<1> QED BY <1>1, <1>2, <1>3, ListInvHolds, PTL DEF Spec
==============================================================================
