-------------------------- MODULE TokenizerProofs ---------------------------
(***************************************************************************)
(* For any vocabulary, merges, hash functions and texts: the hash tables   *)
(* find what was inserted into them; the chunks cover the text and are the *)
(* matches of the documented expression; the tokens fit into their arrays  *)
(* and spell the text, so that decoding them gives it back; and the greedy *)
(* merges of a chunk are the merges applied rule by rule.                  *)
(***************************************************************************)
EXTENDS Tokenizer, FiniteSetTheorems, WellFoundedInduction, TLAPS

LEMMA FirstFacts ==
    ASSUME NEW S \in SUBSET Nat, S # {}
    PROVE  First(S) \in S /\ \A y \in S : First(S) <= y
<1>1. PICK x \in S : \A y \in S : <<y, x>> \notin OpToRel(<, Nat)
  BY WFMin, NatLessThanWellFounded, Zenon
<1>2. ASSUME NEW y \in S PROVE ~(y < x)
  <2>1. <<y, x>> \in Nat \X Nat /\ <<y, x>>[1] = y /\ <<y, x>>[2] = x
    OBVIOUS
  <2>. QED BY <1>1, <2>1, Zenon DEF OpToRel
<1>3. ASSUME NEW y \in S PROVE x <= y
  BY <1>2
<1>4. \E z \in S : \A y \in S : z <= y
  BY <1>3
<1>. QED BY <1>4, Zenon DEF First

LEMMA FirstIs ==
    ASSUME NEW S \in SUBSET Nat, NEW x \in S, \A y \in S : x <= y
    PROVE  First(S) = x
<1>1. First(S) \in S /\ First(S) <= x
  BY FirstFacts
<1>2. x <= First(S) /\ First(S) \in Nat /\ x \in Nat
  BY <1>1
<1>. QED BY <1>1, <1>2

-----------------------------------------------------------------------------
(* Sequences.                                                              *)

(* x is a, of m elements, and then b, of n elements.                       *)
IsConcat(x, a, m, b, n) ==
    /\ Len(x) = m + n
    /\ \A k \in 1..m : x[k] = a[k]
    /\ \A k \in 1..n : x[m + k] = b[k]

LEMMA ConcatFacts ==
    ASSUME NEW S, NEW a \in Seq(S), NEW m, Len(a) = m, NEW b \in Seq(S), NEW n, Len(b) = n
    PROVE  a \o b \in Seq(S) /\ IsConcat(a \o b, a, m, b, n)
<1>1. /\ a \o b \in Seq(S) /\ Len(a \o b) = Len(a) + Len(b)
      /\ \A k \in 1..Len(a) : (a \o b)[k] = a[k]
      /\ \A k \in 1..Len(b) : (a \o b)[Len(a) + k] = b[k]
  OBVIOUS
<1>. QED BY <1>1, Zenon DEF IsConcat

LEMMA SeqOf ==
    ASSUME NEW S, NEW T, NEW seq \in Seq(S), \A k \in 1..Len(seq) : seq[k] \in T
    PROVE  seq \in Seq(T)
<1>1. Len(seq) \in Nat /\ seq \in [1..Len(seq) -> T]
  OBVIOUS
<1>. QED BY <1>1

LEMMA SeqEqual ==
    ASSUME NEW S, NEW seq \in Seq(S), NEW new \in Seq(S), NEW n, Len(seq) = n, Len(new) = n,
           \A k \in 1..n : seq[k] = new[k]
    PROVE  seq = new
<1>1. seq \in [1..n -> S] /\ new \in [1..n -> S]
  OBVIOUS
<1>. QED BY <1>1

LEMMA SubSeqFacts ==
    ASSUME NEW S, NEW seq \in Seq(S), NEW a \in Nat, NEW b \in Nat,
           a >= 1, a <= b + 1, b <= Len(seq)
    PROVE  /\ SubSeq(seq, a, b) \in Seq(S) /\ Len(SubSeq(seq, a, b)) = b - a + 1
           /\ \A k \in 1..b-a+1 : SubSeq(seq, a, b)[k] = seq[a + k - 1]
OBVIOUS

LEMMA TwoOf ==
    ASSUME NEW S, NEW q \in Seq(S), Len(q) = 2
    PROVE  q[1] \in S /\ q[2] \in S /\ q = <<q[1], q[2]>>
OBVIOUS

LEMMA LastFacts ==
    ASSUME NEW n \in Nat, NEW s \in SUBSET (0..n), s # {}
    PROVE  Last(s) \in s /\ \A y \in s : Last(s) >= y
<1>. DEFINE Bounds == {b \in Nat : \A y \in s : y <= b}
<1>1. Bounds \in SUBSET Nat /\ n \in Bounds
  OBVIOUS
<1>2. PICK b : b = First(Bounds)
  OBVIOUS
<1>3. b \in Bounds /\ \A x \in Bounds : b <= x
  <2>. HIDE DEF Bounds
  <2>. QED BY <1>1, <1>2, FirstFacts
<1>4. b \in Nat /\ \A y \in s : y <= b
  BY <1>3
<1>5. ASSUME b \notin s PROVE FALSE
  <2>0. PICK y : y \in s
    OBVIOUS
  <2>1. y \in Nat /\ y <= b /\ y # b
    BY <1>4, <1>5, <2>0
  <2>2. b - 1 \in Nat /\ \A x \in s : x <= b - 1
    BY <1>4, <1>5, <2>0, <2>1
  <2>. QED BY <1>3, <1>4, <2>2
<1>6. \E x \in s : \A y \in s : x >= y
  BY <1>4, <1>5
<1>. QED BY <1>6, Zenon DEF Last

LEMMA LastIs ==
    ASSUME NEW S \in SUBSET Nat, NEW x \in S, \A y \in S : x >= y
    PROVE  Last(S) = x
<1>1. PICK z : z = Last(S)
  OBVIOUS
<1>2. z \in S /\ \A y \in S : z >= y
  <2>1. \E u \in S : \A y \in S : u >= y
    OBVIOUS
  <2>. QED BY <1>1, <2>1, Zenon DEF Last
<1>3. z \in Nat /\ x \in Nat /\ z >= x /\ x >= z
  BY <1>2
<1>. QED BY <1>1, <1>3

-----------------------------------------------------------------------------
(* A fold of a sequence of n elements, as the library defines it: over the  *)
(* sets of its positions, each without its last one.                       *)

Top(s) == CHOOSE x \in s : \A y \in s : x >= y

LEMMA TopFacts ==
    ASSUME NEW n \in Nat, NEW s \in SUBSET (1..n), s # {}
    PROVE  Top(s) \in s /\ \A y \in s : Top(s) >= y
<1>1. s \in SUBSET (0..n)
  OBVIOUS
<1>2. Top(s) = Last(s)
  BY Zenon DEF Top, Last
<1>. QED BY <1>1, <1>2, LastFacts, Zenon

LEMMA TopOfPrefix ==
    ASSUME NEW k \in Nat, k # 0
    PROVE  Top(1..k) = k /\ (1..k) \ {Top(1..k)} = 1..k-1 /\ 1..k # {}
<1>1. 1..k \in SUBSET (1..k) /\ k \in 1..k
  OBVIOUS
<1>2. PICK x : x = Top(1..k)
  OBVIOUS
<1>3. x \in 1..k /\ x >= k
  BY <1>1, <1>2, TopFacts
<1>4. x = k
  BY <1>3
<1>5. (1..k) \ {k} = 1..k-1
  OBVIOUS
<1>. QED BY <1>1, <1>2, <1>4, <1>5

(* f has the value of the fold of each set of positions.                   *)
IsFold(f, G, base, seq, n) ==
    f = [s \in SUBSET (1..n) |-> IF s = {} THEN base ELSE G[<<f[s \ {Top(s)}], seq[Top(s)]>>]]

FoldsInto(f, A, n) == \A s \in SUBSET (1..n) : f[s] \in A

(* The fold is defined: a function that has its values for the positions    *)
(* up to m gives one that has them up to m + 1.                            *)
LEMMA FoldExists ==
    ASSUME NEW A, NEW X, NEW base \in A, NEW n \in Nat, NEW seq, \A k \in 1..n : seq[k] \in X,
           NEW G \in [A \X X -> A]
    PROVE  \E f : IsFold(f, G, base, seq, n) /\ FoldsInto(f, A, n)
<1>. DEFINE Term(f, t) == IF t = {} THEN base ELSE G[<<f[t \ {Top(t)}], seq[Top(t)]>>]
            Upto(f, m) == \A t \in SUBSET (1..m) : f[t] = Term(f, t) /\ f[t] \in A
            Improved(f) == [t \in SUBSET (1..n) |-> Term(f, t)]
            Bad        == {m \in 0..n : ~ \E f : Upto(f, m)}
<1>1. ASSUME NEW m \in Nat, m < n, NEW f, Upto(f, m), NEW g, g = Improved(f)
      PROVE  Upto(g, m + 1)
  <2>. SUFFICES ASSUME NEW t \in SUBSET (1..m+1) PROVE g[t] = Term(g, t) /\ g[t] \in A
    OBVIOUS
  <2>0. t \in SUBSET (1..n) /\ 1..m \in SUBSET (1..n) /\ m + 1 \in Nat
    BY <1>1
  <2>1. g[t] = Term(f, t)
    BY <1>1, <2>0
  <2>2. CASE t # {}
    <3>1. PICK u : u = t \ {Top(t)}
      OBVIOUS
    <3>2. Top(t) \in t /\ \A y \in t : Top(t) >= y
      BY <2>0, <2>2, TopFacts, Zenon
    <3>3. u \in SUBSET (1..m) /\ u \in SUBSET (1..n) /\ Top(t) \in 1..n
      <4>1. PICK x : x = Top(t)
        OBVIOUS
      <4>2. x \in t /\ \A y \in t : x >= y
        BY <3>2, <4>1, Zenon
      <4>3. ASSUME NEW y \in u PROVE y \in 1..m
        <5>1. y \in t /\ y # x
          BY <3>1, <4>1
        <5>2. x \in 1..m+1 /\ y \in 1..m+1 /\ x >= y
          BY <4>2, <5>1
        <5>. QED BY <5>1, <5>2
      <4>4. x \in 1..n /\ 1..m \subseteq 1..n
        BY <2>0, <4>2
      <4>. QED BY <4>1, <4>3, <4>4
    <3>4. f[u] = Term(f, u) /\ f[u] \in A
      BY <1>1, <3>3, Zenon
    <3>5. f[u] = g[u]
      BY <1>1, <3>3, <3>4, Zenon
    <3>6. G[<<f[u], seq[Top(t)]>>] \in A
      <4>1. PICK x : x = seq[Top(t)]
        OBVIOUS
      <4>2. x \in X
        BY <3>3, <4>1
      <4>3. <<f[u], x>> \in A \X X
        BY <3>4, <4>2
      <4>. QED BY <4>1, <4>3, Zenon
    <3>. QED BY <2>1, <2>2, <3>1, <3>5, <3>6, Zenon
  <2>3. CASE t = {}
    BY <2>1, <2>3, Zenon
  <2>. QED BY <2>2, <2>3
<1>2. \E f : Upto(f, 0)
  <2>1. PICK f : f = [t \in SUBSET (1..n) |-> base]
    OBVIOUS
  <2>2. 1..0 = {}
    OBVIOUS
  <2>3. Upto(f, 0)
    BY <2>1, <2>2
  <2>. QED BY <2>3
<1>3. ASSUME Bad # {} PROVE FALSE
  <2>1. PICK m : m = First(Bad)
    OBVIOUS
  <2>2. m \in Bad /\ \A x \in Bad : m <= x
    <3>1. Bad \in SUBSET Nat
      OBVIOUS
    <3>. HIDE DEF Bad
    <3>. QED BY <1>3, <2>1, <3>1, FirstFacts
  <2>3. m \in 0..n /\ ~ \E f : Upto(f, m)
    BY <2>2, Zenon
  <2>. HIDE DEF Upto
  <2>4. m # 0
    BY <1>2, <2>3
  <2>5. m - 1 \in 0..n /\ ~(m <= m - 1) /\ (m - 1) + 1 = m /\ m - 1 < n /\ m - 1 \in Nat
    BY <2>3, <2>4
  <2>6. PICK f : Upto(f, m - 1)
    BY <2>2, <2>5
  <2>7. Upto(Improved(f), (m - 1) + 1)
    BY <1>1, <2>5, <2>6, Zenon
  <2>. QED BY <2>3, <2>5, <2>7
<1>4. PICK f : Upto(f, n)
  <2>1. n \in 0..n
    OBVIOUS
  <2>. HIDE DEF Upto
  <2>. QED BY <1>3, <2>1
<1>5. PICK g : g = Improved(f)
  OBVIOUS
<1>6. ASSUME NEW t \in SUBSET (1..n) PROVE f[t] = g[t]
  BY <1>4, <1>5, <1>6, Zenon
<1>7. ASSUME NEW t \in SUBSET (1..n) PROVE Term(f, t) = Term(g, t)
  <2>1. t \ {Top(t)} \in SUBSET (1..n)
    OBVIOUS
  <2>. QED BY <1>6, <2>1, Zenon
<1>8. [t \in SUBSET (1..n) |-> Term(f, t)] = [t \in SUBSET (1..n) |-> Term(g, t)]
  <2>. HIDE DEF Term
  <2>. QED BY <1>7
<1>9. IsFold(g, G, base, seq, n)
  BY <1>5, <1>8, Zenon DEF IsFold
<1>10. FoldsInto(g, A, n)
  BY <1>4, <1>6, Zenon DEF FoldsInto
<1>. QED BY <1>9, <1>10, Zenon
(* The width of a text is a number, and that of no text is zero.           *)
LEMMA TextWidthType ==
    ASSUME TokenizerAssumption, NEW t \in Seq(Bytes)
    PROVE  TextWidth(t) \in Nat /\ (t = <<>> => TextWidth(t) = 0)
<1>. DEFINE n == Len(t)
            G == [p \in Nat \X Bytes |-> p[1] + Width[p[2]]]
            IsF(f) == f = [s \in SUBSET DOMAIN t |->
                             IF s = {} THEN 0 ELSE f[s \ {Top(s)}] + Width[t[Top(s)]]]
<1>1. n \in Nat /\ DOMAIN t = 1..n /\ \A k \in 1..n : t[k] \in Bytes
  OBVIOUS
<1>2. \A x \in Nat, b \in Bytes :
          x + Width[b] \in Nat /\ <<x, b>> \in Nat \X Bytes /\ G[<<x, b>>] = x + Width[b]
  <2>1. \A b \in Bytes : Width[b] \in Nat
    BY DEF TokenizerAssumption
  <2>. QED BY <2>1
<1>3. G \in [Nat \X Bytes -> Nat] /\ 0 \in Nat
  BY <1>2
<1>. HIDE DEF G
<1>4. PICK f : IsFold(f, G, 0, t, n) /\ FoldsInto(f, Nat, n)
  BY <1>1, <1>3, FoldExists, Zenon
<1>5. IsF(f)
  <2>1. ASSUME NEW s \in SUBSET (1..n)
        PROVE  (IF s = {} THEN 0 ELSE G[<<f[s \ {Top(s)}], t[Top(s)]>>])
                 = IF s = {} THEN 0 ELSE f[s \ {Top(s)}] + Width[t[Top(s)]]
    <3>1. CASE s # {}
      <4>1. PICK u, k : u = s \ {Top(s)} /\ k = Top(s)
        OBVIOUS
      <4>2. k \in 1..n /\ u \in SUBSET (1..n)
        BY <1>1, <3>1, <4>1, TopFacts
      <4>3. f[u] \in Nat /\ t[k] \in Bytes
        BY <1>1, <1>4, <4>2, Zenon DEF FoldsInto
      <4>. QED BY <1>2, <4>1, <4>3, Zenon
    <3>. QED BY <3>1, Zenon
  <2>2. [s \in SUBSET (1..n) |-> IF s = {} THEN 0 ELSE G[<<f[s \ {Top(s)}], t[Top(s)]>>]]
          = [s \in SUBSET (1..n) |-> IF s = {} THEN 0 ELSE f[s \ {Top(s)}] + Width[t[Top(s)]]]
    BY <2>1, Zenon
  <2>. QED BY <1>1, <1>4, <2>2, Zenon DEF IsFold
<1>6. PICK g : g = CHOOSE h : IsF(h)
  OBVIOUS
<1>7. IsF(g)
  <2>. HIDE DEF IsF
  <2>. QED BY <1>5, <1>6, Zenon
<1>8. TextWidth(t) = (CHOOSE h : IsF(h))[DOMAIN t]
  BY Zenon DEF TextWidth, Seqs!FoldLeft, Seqs!MapThenFoldSet, Seqs!Max, Top
<1>9. TextWidth(t) = g[1..n]
  <2>. HIDE DEF IsF
  <2>. QED BY <1>1, <1>6, <1>8, Zenon
<1>10. g[{}] = 0
  <2>1. {} \in SUBSET (1..n)
    OBVIOUS
  <2>. QED BY <1>1, <1>7, <2>1, Zenon
<1>11. ASSUME NEW k \in 1..n, g[1..k-1] \in Nat PROVE g[1..k] \in Nat
  <2>1. k \in Nat /\ k # 0 /\ 1..k \in SUBSET (1..n)
    BY <1>1
  <2>2. Top(1..k) = k /\ (1..k) \ {Top(1..k)} = 1..k-1 /\ 1..k # {}
    BY <2>1, TopOfPrefix, Zenon
  <2>3. g[1..k] = g[(1..k) \ {Top(1..k)}] + Width[t[Top(1..k)]]
    BY <1>1, <1>7, <2>1, <2>2, Zenon
  <2>4. PICK x, b : x = g[1..k-1] /\ b = t[k]
    OBVIOUS
  <2>5. x \in Nat /\ b \in Bytes
    BY <1>1, <1>11, <2>4, Zenon
  <2>6. x + Width[b] \in Nat
    BY <1>2, <2>5, Zenon
  <2>. QED BY <2>2, <2>3, <2>4, <2>6, Zenon
<1>. DEFINE Bad == {x \in 0..n : g[1..x] \notin Nat}
<1>12. ASSUME Bad # {} PROVE FALSE
  <2>1. PICK x : x = First(Bad)
    OBVIOUS
  <2>2. x \in Bad /\ \A y \in Bad : x <= y
    <3>1. Bad \in SUBSET Nat
      OBVIOUS
    <3>. HIDE DEF Bad
    <3>. QED BY <1>12, <2>1, <3>1, FirstFacts
  <2>3. x \in 0..n /\ g[1..x] \notin Nat
    BY <2>2
  <2>4. x # 0
    <3>1. 1..0 = {}
      OBVIOUS
    <3>. QED BY <1>10, <2>3, <3>1
  <2>5. x \in 1..n /\ x - 1 \in 0..n /\ ~(x <= x - 1)
    BY <1>1, <2>3, <2>4
  <2>6. g[1..x-1] \in Nat
    BY <2>2, <2>5
  <2>. QED BY <1>11, <2>3, <2>5, <2>6, Zenon
<1>13. n \in 0..n
  BY <1>1
<1>14. t = <<>> => g[1..n] = 0
  <2>1. t = <<>> => 1..n = {}
    BY <1>1
  <2>. QED BY <1>10, <2>1
<1>. QED BY <1>9, <1>12, <1>13, <1>14

-----------------------------------------------------------------------------
(* A table holds each of the entries 1..n at most once.                    *)

IsTable(table, n) ==
    /\ table \in [Hashes -> 1..n \cup {None}]
    /\ \A a, b \in Hashes : table[a] = table[b] /\ table[a] # None => a = b

Finds(table, h, wanted) ==
    /\ Ends(table, h, wanted) # {}
    /\ table[Probe(table, h, wanted)] = First(wanted)

LEMMA SlotFacts ==
    ASSUME TokenizerAssumption, NEW h \in Hashes
    PROVE  /\ \A k \in Hashes : Slot(h, k) \in Hashes
           /\ \A s \in Hashes : \E k \in Hashes : Slot(h, k) = s
<1>1. Slots \in Nat \ {0} /\ h \in 0..Slots-1
  BY DEF TokenizerAssumption, Hashes
<1>2. \A k \in Hashes : Slot(h, k) \in Hashes
  BY <1>1 DEF Slot, Hashes
<1>3. ASSUME NEW s \in Hashes PROVE \E k \in Hashes : Slot(h, k) = s
  <2>1. CASE s >= h
    <3>1. s - h \in Hashes /\ Slot(h, s - h) = s
      BY <1>1, <2>1 DEF Slot, Hashes
    <3>. QED BY <3>1
  <2>2. CASE s < h
    <3>1. s - h + Slots \in Hashes /\ Slot(h, s - h + Slots) = s
      BY <1>1, <2>2 DEF Slot, Hashes
    <3>. QED BY <3>1
  <2>. QED BY <1>1, <2>1, <2>2 DEF Hashes
<1>. QED BY <1>2, <1>3

(* With fewer entries than slots every search comes to an end.             *)
LEMMA SearchEnds ==
    ASSUME TokenizerAssumption, NEW n \in Nat, n < Slots,
           NEW table, IsTable(table, n), NEW h \in Hashes, NEW wanted
    PROVE  Ends(table, h, wanted) # {}
<1>1. Slots \in Nat \ {0}
  BY DEF TokenizerAssumption
<1>2. \E s \in Hashes : table[s] = None
  <2>1. SUFFICES ASSUME \A s \in Hashes : table[s] # None PROVE FALSE
    OBVIOUS
  <2>2. table \in [Hashes -> 1..n]
    BY <2>1 DEF IsTable
  <2>3. /\ IsFiniteSet(Hashes) /\ Cardinality(Hashes) = Slots
        /\ IsFiniteSet(1..n) /\ Cardinality(1..n) = n
    <3>1. 0 \in Int /\ Slots - 1 \in Int /\ 0 <= Slots - 1 /\ Slots - 1 - 0 + 1 = Slots
      BY <1>1
    <3>2. IsFiniteSet(0..Slots-1) /\ Cardinality(0..Slots-1) = Slots
      BY <3>1, FS_Interval
    <3>3. IsFiniteSet(1..n) /\ Cardinality(1..n) = n
      <4>1. 1 \in Int /\ n \in Int /\ IF 1 > n THEN n = 0 ELSE n - 1 + 1 = n
        OBVIOUS
      <4>. QED BY <4>1, FS_Interval
    <3>. QED BY <3>2, <3>3 DEF Hashes
  <2>4. \E a, b \in Hashes : a # b /\ table[a] = table[b]
    BY <2>2, <2>3, FS_PigeonHole
  <2>. QED BY <2>1, <2>4 DEF IsTable
<1>3. PICK s \in Hashes : table[s] = None
  BY <1>2
<1>4. PICK k \in Hashes : Slot(h, k) = s
  BY SlotFacts
<1>5. k \in Ends(table, h, wanted)
  BY <1>3, <1>4 DEF Ends, Hashes
<1>. QED BY <1>5

(* The probe at which a search ends: the first that is wanted or empty.    *)
LEMMA ProbeFacts ==
    ASSUME TokenizerAssumption, NEW table, NEW h \in Hashes, NEW wanted,
           Ends(table, h, wanted) # {}
    PROVE  \E k \in Hashes :
              /\ Probe(table, h, wanted) = Slot(h, k)
              /\ table[Slot(h, k)] \in wanted \cup {None}
              /\ \A j \in Hashes : j < k => table[Slot(h, j)] \notin wanted \cup {None}
<1>1. Slots \in Nat \ {0} /\ Ends(table, h, wanted) \in SUBSET Nat
  BY DEF TokenizerAssumption, Ends
<1>2. PICK k : k = First(Ends(table, h, wanted))
  OBVIOUS
<1>3. k \in Ends(table, h, wanted) /\ \A j \in Ends(table, h, wanted) : k <= j
  BY <1>1, <1>2, FirstFacts
<1>4. k \in Hashes /\ table[Slot(h, k)] \in wanted \cup {None}
  BY <1>3 DEF Ends, Hashes
<1>5. ASSUME NEW j \in Hashes, j < k PROVE table[Slot(h, j)] \notin wanted \cup {None}
  <2>1. j \in Nat /\ k \in Nat
    BY <1>1, <1>3, <1>5 DEF Hashes
  <2>2. j \notin Ends(table, h, wanted)
    BY <1>3, <1>5, <2>1
  <2>. QED BY <2>2 DEF Ends, Hashes
<1>. QED BY <1>2, <1>4, <1>5 DEF Probe

(* Conversely, such a probe is the one at which the search ends.           *)
EndsAt(table, h, wanted, k) ==
    /\ k \in Hashes /\ table[Slot(h, k)] \in wanted \cup {None}
    /\ \A j \in Hashes : j < k => table[Slot(h, j)] \notin wanted \cup {None}

LEMMA ProbeIs ==
    ASSUME TokenizerAssumption, NEW table, NEW h, NEW wanted, NEW k,
           EndsAt(table, h, wanted, k)
    PROVE  Ends(table, h, wanted) # {} /\ Probe(table, h, wanted) = Slot(h, k)
<1>1. Slots \in Nat \ {0} /\ Ends(table, h, wanted) \in SUBSET Nat
  BY DEF TokenizerAssumption, Ends
<1>2. k \in Ends(table, h, wanted)
  BY DEF EndsAt, Ends, Hashes
<1>3. ASSUME NEW j \in Ends(table, h, wanted) PROVE k <= j
  <2>1. j \in Hashes /\ table[Slot(h, j)] \in wanted \cup {None}
    BY <1>3 DEF Ends, Hashes
  <2>2. ~(j < k)
    BY <2>1 DEF EndsAt
  <2>. QED BY <1>1, <1>2, <2>2
<1>4. First(Ends(table, h, wanted)) = k
  BY <1>1, <1>2, <1>3, FirstIs
<1>. QED BY <1>2, <1>4 DEF Probe

(* What an insertion does: it fills one empty slot, the first from its     *)
(* hash on.                                                                *)
LEMMA InsertedFacts ==
    ASSUME TokenizerAssumption, NEW n \in Nat, n < Slots,
           NEW table, IsTable(table, n), NEW g \in Hashes
    PROVE  \E p \in Hashes, k \in Hashes :
              /\ table[p] = None /\ p = Slot(g, k)
              /\ \A j \in Hashes : j < k => table[Slot(g, j)] # None
              /\ Inserted(table, g, n + 1) = [table EXCEPT ![p] = n + 1]
              /\ IsTable(Inserted(table, g, n + 1), n + 1)
<1>1. PICK k \in Hashes : /\ Probe(table, g, {}) = Slot(g, k)
                          /\ table[Slot(g, k)] = None
                          /\ \A j \in Hashes : j < k => table[Slot(g, j)] # None
  <2>1. Ends(table, g, {}) # {}
    BY SearchEnds
  <2>2. PICK k \in Hashes :
            /\ Probe(table, g, {}) = Slot(g, k)
            /\ table[Slot(g, k)] \in {} \cup {None}
            /\ \A j \in Hashes : j < k => table[Slot(g, j)] \notin {} \cup {None}
    BY <2>1, ProbeFacts, ZenonT(40)
  <2>. QED BY <2>2
<1>2. Slot(g, k) \in Hashes
  BY SlotFacts
<1>3. PICK new : new = [table EXCEPT ![Slot(g, k)] = n + 1]
  OBVIOUS
<1>4. IsTable(new, n + 1)
  <2>0. None \notin Nat
    BY DEF TokenizerAssumption
  <2>1. table \in [Hashes -> 1..n \cup {None}] /\ new \in [Hashes -> 1..n+1 \cup {None}]
    BY <1>2, <1>3 DEF IsTable
  <2>2. ASSUME NEW a \in Hashes, NEW b \in Hashes, new[a] = new[b], new[a] # None
        PROVE  a = b
    <3>1. n + 1 \notin 1..n \cup {None}
      BY <2>0
    <3>2. /\ new[a] = IF a = Slot(g, k) THEN n + 1 ELSE table[a]
          /\ new[b] = IF b = Slot(g, k) THEN n + 1 ELSE table[b]
      BY <1>2, <1>3, <2>1
    <3>3. table[a] \in 1..n \cup {None} /\ table[b] \in 1..n \cup {None}
      BY <2>1
    <3>. QED BY <2>2, <3>1, <3>2, <3>3 DEF IsTable
  <2>. QED BY <2>1, <2>2 DEF IsTable
<1>. QED BY <1>1, <1>2, <1>3, <1>4 DEF Inserted

(* An insertion leaves every search that found its entry as it was, whether *)
(* or not the new entry has the wanted name.                               *)
LEMMA InsertionKeeps ==
    ASSUME TokenizerAssumption, NEW n \in Nat, n < Slots,
           NEW table, IsTable(table, n), NEW g \in Hashes, NEW h \in Hashes,
           NEW w \in SUBSET (1..n), w # {}, Finds(table, h, w),
           NEW w2, w2 = w \/ w2 = w \cup {n + 1}
    PROVE  Finds(Inserted(table, g, n + 1), h, w2)
<1>0. None \notin Nat
  BY DEF TokenizerAssumption
<1>1. First(w) \in w /\ \A y \in w : First(w) <= y
  BY FirstFacts
<1>2. First(w2) = First(w)
  <2>1. PICK x : x = First(w)
    OBVIOUS
  <2>2. x \in 1..n /\ x \in w2 /\ w2 \in SUBSET Nat
    <3>1. x \in w /\ w \subseteq 1..n
      BY <1>1, <2>1
    <3>. QED BY <3>1
  <2>3. \A y \in w2 : x <= y
    BY <1>1, <2>1, <2>2
  <2>. QED BY <2>1, <2>2, <2>3, FirstIs
<1>3. PICK k \in Hashes : /\ Probe(table, h, w) = Slot(h, k)
                          /\ \A j \in Hashes : j < k => table[Slot(h, j)] \notin w \cup {None}
  BY ProbeFacts DEF Finds
<1>4. table[Slot(h, k)] = First(w)
  BY <1>3 DEF Finds
<1>5. PICK p \in Hashes : /\ table[p] = None
                          /\ Inserted(table, g, n + 1) = [table EXCEPT ![p] = n + 1]
  BY InsertedFacts, ZenonT(40)
<1>6. PICK new : new = Inserted(table, g, n + 1)
  OBVIOUS
<1>7. table \in [Hashes -> 1..n \cup {None}] /\ \A j \in Hashes : Slot(h, j) \in Hashes
  BY SlotFacts DEF IsTable
<1>8. new[Slot(h, k)] = First(w2)
  <2>0. PICK x : x = First(w)
    OBVIOUS
  <2>1. x \in 1..n /\ table[Slot(h, k)] # None
    <3>1. x \in w /\ w \subseteq 1..n /\ table[Slot(h, k)] = x
      BY <1>1, <1>4, <2>0
    <3>2. x \in 1..n
      BY <3>1
    <3>. QED BY <1>0, <3>1, <3>2
  <2>2. Slot(h, k) # p /\ Slot(h, k) \in Hashes
    BY <1>5, <1>7, <2>1
  <2>3. new[Slot(h, k)] = table[Slot(h, k)]
    BY <1>5, <1>6, <1>7, <2>2
  <2>. QED BY <1>2, <1>4, <2>3
<1>9. ASSUME NEW j \in Hashes, j < k PROVE new[Slot(h, j)] \notin w2 \cup {None}
  <2>1. table[Slot(h, j)] \notin w \cup {None}
    BY <1>3, <1>9
  <2>2. new[Slot(h, j)] = table[Slot(h, j)] /\ table[Slot(h, j)] \in 1..n
    BY <1>5, <1>6, <1>7, <2>1
  <2>. QED BY <2>1, <2>2
<1>10. new[Slot(h, k)] \in w2 \cup {None}
  BY <1>1, <1>2, <1>8
<1>11. Ends(new, h, w2) # {} /\ Probe(new, h, w2) = Slot(h, k)
  <2>1. EndsAt(new, h, w2, k)
    BY <1>9, <1>10 DEF EndsAt
  <2>. QED BY <2>1, ProbeIs, ZenonT(40)
<1>. QED BY <1>6, <1>8, <1>11 DEF Finds

(* A name that is new is found where it was inserted.                      *)
LEMMA InsertionFinds ==
    ASSUME TokenizerAssumption, NEW n \in Nat, n < Slots,
           NEW table, IsTable(table, n), NEW g \in Hashes
    PROVE  Finds(Inserted(table, g, n + 1), g, {n + 1})
<1>0. None \notin Nat
  BY DEF TokenizerAssumption
<1>1. First({n + 1}) = n + 1
  <2>1. /\ {n + 1} \in SUBSET Nat /\ n + 1 \in {n + 1}
        /\ \A y \in {n + 1} : n + 1 <= y
    OBVIOUS
  <2>. QED BY <2>1, FirstIs
<1>2. PICK p \in Hashes, k \in Hashes :
          /\ table[p] = None /\ p = Slot(g, k)
          /\ \A j \in Hashes : j < k => table[Slot(g, j)] # None
          /\ Inserted(table, g, n + 1) = [table EXCEPT ![p] = n + 1]
  BY InsertedFacts, ZenonT(40)
<1>3. PICK new : new = Inserted(table, g, n + 1)
  OBVIOUS
<1>4. table \in [Hashes -> 1..n \cup {None}] /\ \A j \in Hashes : Slot(g, j) \in Hashes
  BY SlotFacts DEF IsTable
<1>5. new[Slot(g, k)] = n + 1
  BY <1>2, <1>3, <1>4
<1>6. ASSUME NEW j \in Hashes, j < k PROVE new[Slot(g, j)] \notin {n + 1} \cup {None}
  <2>1. table[Slot(g, j)] # None
    BY <1>2, <1>6
  <2>2. new[Slot(g, j)] = table[Slot(g, j)] /\ table[Slot(g, j)] \in 1..n
    BY <1>2, <1>3, <1>4, <2>1
  <2>. QED BY <1>0, <2>2
<1>7. Ends(new, g, {n + 1}) # {} /\ Probe(new, g, {n + 1}) = Slot(g, k)
  <2>1. EndsAt(new, g, {n + 1}, k)
    BY <1>5, <1>6 DEF EndsAt
  <2>. QED BY <2>1, ProbeIs, ZenonT(40)
<1>. QED BY <1>1, <1>3, <1>5, <1>7 DEF Finds

-----------------------------------------------------------------------------
(* The tables of the tokenizer.                                            *)

Ids == 1..nTokens \cup {None}
Known(m) == None \notin {pairs[m][1], pairs[m][2]}

FindsName(id) == Finds(hashTable, TokenHash(model.tokens[id]), Named(model.tokens[id]))
FindsPair(m) ==
    Finds(mergeTable, MergeHash(pairs[m][1], pairs[m][2]), Ranked(pairs[m][1], pairs[m][2]))

TablesInv ==
    /\ model \in Models
    /\ nTokens \in 0..Len(model.tokens)
    /\ IsTable(hashTable, nTokens)
    /\ pairs \in Seq(Ids \X Ids)
    /\ Len(pairs) <= Len(model.merges)
    /\ pairs # <<>> => nTokens = Len(model.tokens)
    /\ IsTable(mergeTable, Len(pairs))
    /\ \A id \in 1..nTokens : FindsName(id)
    /\ \A m \in 1..Len(pairs) : Known(m) => FindsPair(m)

LEMMA ModelFacts ==
    ASSUME TokenizerAssumption, NEW m \in Models
    PROVE  /\ Len(m.tokens) \in Nat /\ Len(m.tokens) < Slots
           /\ Len(m.merges) \in Nat /\ Len(m.merges) < Slots
           /\ \A k \in 1..Len(m.tokens) : TokenHash(m.tokens[k]) \in Hashes
           /\ \A k, l \in 1..Len(m.tokens) : MergeHash(k, l) \in Hashes
<1>1. m.tokens \in Seq(Seq(Bytes)) /\ m.merges \in Seq(Lines)
  BY DEF TokenizerAssumption
<1>2. Len(m.tokens) \in Nat /\ Len(m.merges) \in Nat
  BY <1>1
<1>. QED BY <1>2 DEF TokenizerAssumption

(* A search of any name or pair finds an entry of it, or nothing.           *)
LEMMA TokenFindNames ==
    ASSUME TokenizerAssumption, TablesInv, NEW t, TokenHash(t) \in Hashes
    PROVE  TokenFind(t) \in Named(t) \cup {None}
<1>1. nTokens \in Nat /\ nTokens < Slots /\ IsTable(hashTable, nTokens)
  BY ModelFacts DEF TablesInv
<1>2. PICK h, w : h = TokenHash(t) /\ w = Named(t)
  OBVIOUS
<1>3. h \in Hashes /\ Ends(hashTable, h, w) # {}
  BY <1>1, <1>2, SearchEnds
<1>4. PICK k \in Hashes :
          /\ Probe(hashTable, h, w) = Slot(h, k)
          /\ hashTable[Slot(h, k)] \in w \cup {None}
          /\ \A j \in Hashes : j < k => hashTable[Slot(h, j)] \notin w \cup {None}
  BY <1>3, ProbeFacts, ZenonT(40)
<1>. QED BY <1>2, <1>4, Zenon DEF TokenFind

LEMMA TokenFindType ==
    ASSUME TokenizerAssumption, TablesInv, NEW t, TokenHash(t) \in Hashes
    PROVE  TokenFind(t) \in Ids
<1>1. Named(t) \subseteq 1..nTokens
  BY DEF Named
<1>. QED BY <1>1, TokenFindNames DEF Ids

(* The words of a line of the merges, and their beginnings, have hashes.    *)
LEMMA LineFacts ==
    ASSUME TokenizerAssumption, model \in Models, NEW m \in 1..Len(model.merges),
           NEW line, line = model.merges[m]
    PROVE  /\ line \in Seq(Seq(Bytes)) /\ Len(line) \in Nat \ {0}
           /\ \A w \in 1..Len(line) :
                 /\ line[w] \in Seq(Bytes) /\ TokenHash(line[w]) \in Hashes
                 /\ \A n \in 0..Len(line[w]) : TokenHash(SubSeq(line[w], 1, n)) \in Hashes
<1>1. line \in Lines /\ Hashed(line)
  BY DEF TokenizerAssumption
<1>2. line \in Seq(Seq(Bytes)) /\ line # <<>>
  BY <1>1 DEF Lines
<1>3. Len(line) \in Nat \ {0} /\ \A w \in 1..Len(line) : line[w] \in Seq(Bytes)
  BY <1>2
<1>4. \A w \in 1..Len(line) : \A n \in 0..Len(line[w]) : TokenHash(SubSeq(line[w], 1, n)) \in Hashes
  BY <1>1 DEF Hashed
<1>5. ASSUME NEW w \in 1..Len(line) PROVE TokenHash(line[w]) \in Hashes
  <2>1. PICK x : x = line[w] /\ x \in Seq(Bytes)
    BY <1>3
  <2>2. Len(x) \in 0..Len(x) /\ SubSeq(x, 1, Len(x)) = x
    BY <2>1
  <2>. QED BY <1>4, <2>1, <2>2
<1>. QED BY <1>2, <1>3, <1>4, <1>5

(* What the buffer keeps of the second word is a beginning of it, and all   *)
(* of it if there is room.                                                 *)
LEMMA KeptFacts ==
    ASSUME TokenizerAssumption, NEW line \in Seq(Seq(Bytes)), Len(line) >= 2, Room(line) >= 0
    PROVE  /\ \E n \in 0..Len(line[2]) : Kept(line) = SubSeq(line[2], 1, n)
           /\ TextWidth(line[2]) <= Room(line) => Kept(line) = line[2]
<1>1. PICK v, w, r : v = line[1] /\ w = line[2] /\ r = Room(line)
  OBVIOUS
<1>2. v \in Seq(Bytes) /\ w \in Seq(Bytes) /\ Len(w) \in Nat
  BY <1>1
<1>3. r \in Int /\ r >= 0
  <2>1. r = LineSize - 1 - (TextWidth(v) + 1)
    BY <1>1 DEF Room
  <2>2. TextWidth(v) \in Nat /\ LineSize \in Nat
    BY <1>2, TextWidthType DEF TokenizerAssumption
  <2>. QED BY <1>1, <2>1, <2>2
<1>4. PICK S : S = {n \in 0..Len(w) : TextWidth(SubSeq(w, 1, n)) <= r}
  OBVIOUS
<1>5. 0 \in S /\ S \in SUBSET (0..Len(w))
  <2>1. SubSeq(w, 1, 0) = <<>> /\ <<>> \in Seq(Bytes)
    BY <1>2
  <2>2. TextWidth(<<>>) = 0
    BY <2>1, TextWidthType
  <2>. DEFINE W(n) == TextWidth(SubSeq(w, 1, n))
  <2>3. W(0) <= r
    BY <1>3, <2>1, <2>2
  <2>4. S = {n \in 0..Len(w) : W(n) <= r}
    BY <1>4
  <2>. HIDE DEF W
  <2>. QED BY <1>2, <2>3, <2>4
<1>6. PICK z : z = Last(S)
  OBVIOUS
<1>7. z \in S /\ \A y \in S : z >= y
  BY <1>2, <1>5, <1>6, LastFacts
<1>8. Kept(line) = SubSeq(w, 1, z)
  BY <1>1, <1>4, <1>6, Zenon DEF Kept
<1>9. ASSUME TextWidth(w) <= r PROVE SubSeq(w, 1, z) = w
  <2>1. Len(w) \in 0..Len(w) /\ SubSeq(w, 1, Len(w)) = w
    BY <1>2
  <2>2. Len(w) \in S
    BY <1>4, <1>9, <2>1
  <2>3. z = Len(w)
    BY <1>2, <1>5, <1>7, <2>2
  <2>. QED BY <2>1, <2>3
<1>10. z \in 0..Len(w)
  BY <1>5, <1>7
<1>. QED BY <1>1, <1>8, <1>9, <1>10

LEMMA PairOfType ==
    ASSUME TokenizerAssumption, TablesInv, NEW m \in 1..Len(model.merges)
    PROVE  \E l \in Ids, r \in Ids : PairOf(model.merges[m]) = <<l, r>>
<1>1. PICK line : line = model.merges[m]
  OBVIOUS
<1>2. model \in Models
  BY DEF TablesInv
<1>3. /\ line \in Seq(Seq(Bytes)) /\ Len(line) \in Nat \ {0}
      /\ \A w \in 1..Len(line) :
            /\ line[w] \in Seq(Bytes) /\ TokenHash(line[w]) \in Hashes
            /\ \A n \in 0..Len(line[w]) : TokenHash(SubSeq(line[w], 1, n)) \in Hashes
  BY <1>1, <1>2, LineFacts
<1>4. None \in Ids
  BY DEF Ids
<1>5. CASE Len(line) = 1 \/ Room(line) < 0
  BY <1>1, <1>4, <1>5, Zenon DEF PairOf
<1>6. CASE ~(Len(line) = 1 \/ Room(line) < 0)
  <2>0. PICK k \in Nat \ {0} : k = Len(line) /\ k # 1
    BY <1>3, <1>6, Zenon
  <2>1. Len(line) >= 2 /\ 1 \in 1..Len(line) /\ 2 \in 1..Len(line)
    BY <2>0
  <2>2. Room(line) >= 0
    <3>1. PICK r : r = TextWidth(line[1])
      OBVIOUS
    <3>2. r \in Nat /\ LineSize \in Nat
      BY <1>3, <2>1, <3>1, TextWidthType DEF TokenizerAssumption
    <3>3. Room(line) = LineSize - 1 - (r + 1)
      BY <3>1 DEF Room
    <3>. QED BY <1>6, <3>2, <3>3
  <2>3. PICK n \in 0..Len(line[2]) : Kept(line) = SubSeq(line[2], 1, n)
    BY <1>3, <2>1, <2>2, KeptFacts, Zenon
  <2>4. TokenHash(Kept(line)) \in Hashes /\ TokenHash(line[1]) \in Hashes
    BY <1>3, <2>1, <2>3
  <2>5. TokenFind(Kept(line)) \in Ids /\ TokenFind(line[1]) \in Ids
    BY <2>4, TokenFindType
  <2>. QED BY <1>1, <1>4, <1>6, <2>5, Zenon DEF PairOf
<1>. QED BY <1>5, <1>6

LEMMA MergeFindRanks ==
    ASSUME TokenizerAssumption, TablesInv, NEW l, NEW r, MergeHash(l, r) \in Hashes
    PROVE  MergeFind(l, r) \in Ranked(l, r) \cup {None}
<1>1. Len(pairs) \in Nat /\ Len(pairs) < Slots /\ IsTable(mergeTable, Len(pairs))
  <2>1. /\ model \in Models /\ Len(pairs) \in Nat /\ Len(pairs) <= Len(model.merges)
        /\ IsTable(mergeTable, Len(pairs))
    BY DEF TablesInv
  <2>2. Len(model.merges) \in Nat /\ Len(model.merges) < Slots
    BY <2>1, ModelFacts, Zenon
  <2>3. Slots \in Nat
    BY DEF TokenizerAssumption
  <2>. QED BY <2>1, <2>2, <2>3
<1>2. PICK h, w : h = MergeHash(l, r) /\ w = Ranked(l, r)
  OBVIOUS
<1>3. h \in Hashes /\ Ends(mergeTable, h, w) # {}
  BY <1>1, <1>2, SearchEnds
<1>4. PICK k \in Hashes :
          /\ Probe(mergeTable, h, w) = Slot(h, k)
          /\ mergeTable[Slot(h, k)] \in w \cup {None}
          /\ \A j \in Hashes : j < k => mergeTable[Slot(h, j)] \notin w \cup {None}
  BY <1>3, ProbeFacts, ZenonT(40)
<1>. QED BY <1>2, <1>4, Zenon DEF MergeFind

LEMMA TablesInit == TokenizerAssumption /\ Init => TablesInv
<1>. SUFFICES ASSUME TokenizerAssumption, Init PROVE TablesInv
  OBVIOUS
<1>1. Len(model.tokens) \in Nat /\ Len(model.merges) \in Nat /\ model \in Models
  BY ModelFacts DEF Init
<1>2. nTokens = 0 /\ pairs = <<>> /\ pairs \in Seq(Ids \X Ids) /\ Len(pairs) = 0
  BY DEF Init
<1>3. IsTable(hashTable, 0) /\ IsTable(mergeTable, 0)
  BY DEF Init, IsTable
<1>. QED BY <1>1, <1>2, <1>3 DEF TablesInv

LEMMA InsertTokenKeepsTables ==
    ASSUME TokenizerAssumption, TablesInv, InsertToken
    PROVE  TablesInv'
<1>. DEFINE n == nTokens
            toks == model.tokens
            g == TokenHash(toks[n + 1])
<1>1. /\ model \in Models /\ model' = model /\ pairs' = pairs /\ mergeTable' = mergeTable
      /\ n \in Nat /\ n < Len(toks) /\ Len(toks) \in Nat /\ nTokens' = n + 1
      /\ n < Slots /\ g \in Hashes
      /\ hashTable' = Inserted(hashTable, g, n + 1)
  <2>1. /\ model' = model /\ pairs' = pairs /\ mergeTable' = mergeTable /\ n < Len(toks)
        /\ nTokens' = n + 1 /\ hashTable' = Inserted(hashTable, g, n + 1)
    BY DEF InsertToken
  <2>2. model \in Models /\ n \in 0..Len(toks)
    BY DEF TablesInv
  <2>3. Len(toks) \in Nat /\ Len(toks) < Slots /\ \A k \in 1..Len(toks) : TokenHash(toks[k]) \in Hashes
    BY <2>2, ModelFacts
  <2>4. n \in Nat /\ n < Slots /\ n + 1 \in 1..Len(toks)
    BY <2>1, <2>2, <2>3
  <2>5. g \in Hashes
    BY <2>3, <2>4
  <2>. QED BY <2>1, <2>2, <2>3, <2>4, <2>5
<1>2. pairs = <<>>
  BY <1>1 DEF TablesInv
<1>3. IsTable(hashTable, n) /\ IsTable(hashTable', n + 1)
  <2>1. IsTable(hashTable, n)
    BY DEF TablesInv
  <2>. QED BY <1>1, <2>1, InsertedFacts
<1>4. pairs' \in Seq(Ids' \X Ids') /\ Len(pairs') = 0
  BY <1>1, <1>2
<1>5. ASSUME NEW id \in 1..n + 1
      PROVE  Finds(hashTable', TokenHash(toks[id]), Named(toks[id])')
  <2>1. PICK w, w2 : w = Named(toks[id]) /\ w2 = {k \in 1..n + 1 : toks[k] = toks[id]}
    OBVIOUS
  <2>2. Named(toks[id])' = w2
    BY <1>1, <2>1 DEF Named
  <2>3. w \in SUBSET (1..n) /\ w2 = IF toks[n + 1] = toks[id] THEN w \cup {n + 1} ELSE w
    BY <1>1, <2>1 DEF Named
  <2>4. CASE w # {}
    <3>1. PICK k \in 1..n : toks[k] = toks[id]
      BY <2>1, <2>4 DEF Named
    <3>2. Finds(hashTable, TokenHash(toks[id]), w) /\ TokenHash(toks[id]) \in Hashes
      <4>1. Finds(hashTable, TokenHash(toks[k]), Named(toks[k]))
        BY DEF TablesInv, FindsName
      <4>2. TokenHash(toks[k]) \in Hashes
        BY <1>1, ModelFacts
      <4>. QED BY <2>1, <3>1, <4>1, <4>2
    <3>. QED BY <1>1, <1>3, <2>2, <2>3, <2>4, <3>2, InsertionKeeps
  <2>5. CASE w = {}
    <3>1. id = n + 1
      <4>1. id \notin 1..nTokens
        BY <2>1, <2>5, Zenon DEF Named
      <4>. QED BY <1>1, <4>1
    <3>2. w2 = {n + 1}
      BY <2>3, <2>5, <3>1
    <3>. QED BY <1>1, <1>3, <2>2, <3>1, <3>2, InsertionFinds
  <2>. QED BY <2>4, <2>5
<1>6. \A id \in 1..nTokens' : FindsName(id)'
  BY <1>1, <1>5 DEF FindsName
<1>7. IsTable(mergeTable', Len(pairs'))
  BY <1>1 DEF TablesInv
<1>. QED BY <1>1, <1>2, <1>3, <1>4, <1>6, <1>7 DEF TablesInv

LEMMA InsertMergeKeepsTables ==
    ASSUME TokenizerAssumption, TablesInv, InsertMerge
    PROVE  TablesInv'
<1>. DEFINE n == Len(pairs)
            m == model.merges[n + 1]
<1>0. PICK l, r : /\ n + 1 \in 1..Len(model.merges) => l \in Ids /\ r \in Ids
                  /\ n + 1 \in 1..Len(model.merges) => PairOf(m) = <<l, r>>
  BY PairOfType, Zenon
<1>00. n + 1 \in 1..Len(model.merges)
  <2>1. n \in Nat /\ model \in Models /\ n < Len(model.merges)
    BY DEF TablesInv, InsertMerge
  <2>2. Len(model.merges) \in Nat
    BY <2>1, ModelFacts
  <2>. QED BY <2>1, <2>2
<1>1. /\ model' = model /\ nTokens' = nTokens /\ hashTable' = hashTable
      /\ nTokens = Len(model.tokens) /\ n < Len(model.merges)
      /\ pairs' = Append(pairs, <<l, r>>)
      /\ mergeTable' = IF None \in {l, r} THEN mergeTable
                       ELSE Inserted(mergeTable, MergeHash(l, r), n + 1)
  <2>1. PICK p : p = PairOf(m) /\ p = <<l, r>>
    BY <1>0, <1>00, Zenon
  <2>2. p[1] = l /\ p[2] = r
    BY <2>1
  <2>3. /\ nTokens = Len(model.tokens) /\ n < Len(model.merges)
        /\ pairs' = Append(pairs, p)
        /\ mergeTable' = IF None \in {p[1], p[2]} THEN mergeTable
                         ELSE Inserted(mergeTable, MergeHash(p[1], p[2]), n + 1)
        /\ model' = model /\ nTokens' = nTokens /\ hashTable' = hashTable
    BY <2>1, Zenon DEF InsertMerge
  <2>. QED BY <2>1, <2>2, <2>3
<1>2. /\ n \in Nat /\ n < Slots /\ n + 1 \in 1..Len(model.merges)
      /\ nTokens \in Nat /\ pairs \in Seq(Ids \X Ids)
  <2>1. /\ model \in Models /\ nTokens \in 0..Len(model.tokens)
        /\ pairs \in Seq(Ids \X Ids) /\ n \in Nat
    BY DEF TablesInv
  <2>2. Len(model.tokens) \in Nat /\ Len(model.merges) \in Nat /\ Len(model.merges) < Slots
    BY <2>1, ModelFacts
  <2>. QED BY <1>1, <2>1, <2>2
<1>3. l \in Ids /\ r \in Ids
  BY <1>0, <1>00, Zenon
<1>4. /\ pairs' \in Seq(Ids \X Ids) /\ Len(pairs') = n + 1
      /\ pairs'[n + 1] = <<l, r>>
      /\ \A a \in 1..n : pairs'[a] = pairs[a]
  BY <1>1, <1>2, <1>3
<1>5. IsTable(mergeTable, n) /\ None \notin Nat
  BY DEF TablesInv, TokenizerAssumption
<1>6. Ids' = Ids
  BY <1>1 DEF Ids
<1>7. \A x, y : Ranked(x, y)' = IF <<l, r>> = <<x, y>> THEN Ranked(x, y) \cup {n + 1}
                                                     ELSE Ranked(x, y)
  BY <1>2, <1>4 DEF Ranked
<1>8. \A x, y : Ranked(x, y) \in SUBSET (1..n)
  BY DEF Ranked
<1>9. \A id \in 1..nTokens : FindsName(id)'
  BY <1>1 DEF TablesInv, FindsName, Named
<1>10. CASE None \in {l, r}
  <2>1. IsTable(mergeTable', Len(pairs'))
    BY <1>1, <1>2, <1>4, <1>5, <1>10 DEF IsTable
  <2>2. ASSUME NEW a \in 1..n + 1, Known(a)' PROVE FindsPair(a)'
    <3>1. a \in 1..n /\ pairs'[a] = pairs[a]
      BY <1>2, <1>4, <1>10, <2>2 DEF Known
    <3>2. Known(a)
      BY <2>2, <3>1 DEF Known
    <3>3. PICK x, y : x = pairs[a][1] /\ y = pairs[a][2]
      OBVIOUS
    <3>4. Finds(mergeTable, MergeHash(x, y), Ranked(x, y))
      BY <3>1, <3>2, <3>3 DEF TablesInv, FindsPair
    <3>5. <<l, r>> # <<x, y>>
      BY <1>10, <3>2, <3>3 DEF Known
    <3>6. Ranked(x, y)' = Ranked(x, y) /\ mergeTable' = mergeTable
      BY <1>1, <1>7, <1>10, <3>5
    <3>7. x = pairs'[a][1] /\ y = pairs'[a][2]
      BY <3>1, <3>3
    <3>. QED BY <3>4, <3>6, <3>7 DEF FindsPair, Ranked
  <2>. QED BY <1>1, <1>2, <1>4, <1>6, <1>9, <2>1, <2>2 DEF TablesInv
<1>11. CASE None \notin {l, r}
  <2>. DEFINE g == MergeHash(l, r)
  <2>1. mergeTable' = Inserted(mergeTable, g, n + 1)
    BY <1>1, <1>11
  <2>2. ASSUME NEW x \in Ids, NEW y \in Ids, None \notin {x, y}
        PROVE  MergeHash(x, y) \in Hashes
    <3>1. x \in 1..Len(model.tokens) /\ y \in 1..Len(model.tokens)
      BY <1>1, <2>2 DEF Ids
    <3>. QED BY <3>1, ModelFacts DEF TablesInv
  <2>3. g \in Hashes
    BY <1>3, <1>11, <2>2
  <2>4. IsTable(mergeTable', n + 1)
    BY <1>2, <1>5, <2>1, <2>3, InsertedFacts
  <2>5. ASSUME NEW a \in 1..n + 1, Known(a)' PROVE FindsPair(a)'
    <3>1. PICK x, y, w, w2 : /\ x = pairs'[a][1] /\ y = pairs'[a][2]
                             /\ w = Ranked(x, y) /\ w2 = Ranked(x, y)'
      OBVIOUS
    <3>2. pairs'[a] = <<x, y>> /\ x \in Ids /\ y \in Ids /\ None \notin {x, y}
      <4>1. pairs'[a] \in Ids \X Ids
        BY <1>4
      <4>. QED BY <2>5, <3>1, <4>1 DEF Known
    <3>3. /\ w \in SUBSET (1..n)
          /\ w2 = IF <<l, r>> = <<x, y>> THEN w \cup {n + 1} ELSE w
      BY <1>7, <1>8, <3>1
    <3>4. PICK h \in Hashes : h = MergeHash(x, y)
      BY <2>2, <3>2
    <3>5. CASE w # {}
      <4>1. PICK b \in 1..n : pairs[b] = <<x, y>>
        BY <3>1, <3>5 DEF Ranked
      <4>2. Known(b)
        BY <3>2, <4>1 DEF Known
      <4>3. Finds(mergeTable, h, w)
        BY <3>1, <3>4, <4>1, <4>2 DEF TablesInv, FindsPair
      <4>4. Finds(mergeTable', h, w2)
        BY <1>2, <1>5, <2>1, <2>3, <3>3, <3>5, <4>3, InsertionKeeps
      <4>. QED BY <3>1, <3>4, <4>4 DEF FindsPair, Ranked
    <3>6. CASE w = {}
      <4>1. a \notin 1..n
        <5>1. SUFFICES ASSUME a \in 1..n PROVE FALSE
          OBVIOUS
        <5>2. pairs[a] = <<x, y>>
          BY <1>4, <3>2, <5>1
        <5>3. a \in w
          BY <3>1, <5>1, <5>2 DEF Ranked
        <5>. QED BY <3>6, <5>3
      <4>2. a = n + 1
        BY <1>2, <4>1
      <4>3. x = l /\ y = r /\ w2 = {n + 1}
        BY <1>4, <3>2, <3>3, <3>6, <4>2
      <4>4. Finds(mergeTable', h, w2)
        BY <1>2, <1>5, <2>1, <2>3, <3>4, <4>3, InsertionFinds
      <4>. QED BY <3>1, <3>4, <4>4 DEF FindsPair, Ranked
    <3>. QED BY <3>5, <3>6
  <2>. QED BY <1>1, <1>2, <1>4, <1>6, <1>9, <2>4, <2>5 DEF TablesInv
<1>. QED BY <1>10, <1>11

LEMMA TablesSame ==
    ASSUME TablesInv, UNCHANGED init
    PROVE  TablesInv'
<1>1. /\ model' = model /\ hashTable' = hashTable /\ nTokens' = nTokens
      /\ mergeTable' = mergeTable /\ pairs' = pairs
  BY DEF init
<1>2. Ids' = Ids
  BY <1>1 DEF Ids
<1>3. \A id : FindsName(id)' = FindsName(id)
  BY <1>1 DEF FindsName, Named
<1>4. \A m : FindsPair(m)' = FindsPair(m) /\ Known(m)' = Known(m)
  BY <1>1 DEF FindsPair, Ranked, Known
<1>. QED BY <1>1, <1>2, <1>3, <1>4 DEF TablesInv

LEMMA TablesStep ==
    ASSUME TokenizerAssumption, TablesInv, [Step]_vars
    PROVE  TablesInv'
<1>1. CASE InsertToken
  BY <1>1, InsertTokenKeepsTables
<1>2. CASE InsertMerge
  BY <1>2, InsertMergeKeepsTables
<1>3. CASE CutContraction \/ CutWord \/ CutLastBlanks \/ CutBlanks
  <2>1. UNCHANGED init
    BY <1>3 DEF CutContraction, CutWord, CutLastBlanks, CutBlanks, Cutting
  <2>. QED BY <2>1, TablesSame
<1>4. CASE Encode \/ CutEnds \/ StartChunk \/ Merge \/ MergeEnds \/ Emit \/ EncodeEnds
           \/ DecodeOne \/ Finish \/ UNCHANGED vars
  <2>1. UNCHANGED init
    BY <1>4 DEF Encode, CutEnds, StartChunk, Merge, MergeEnds, Emit, EncodeEnds,
                DecodeOne, Finish, vars
  <2>. QED BY <2>1, TablesSame
<1>. QED BY <1>1, <1>2, <1>3, <1>4 DEF Step

(* The tables are injective, have an empty slot, and every search of a name *)
(* they hold ends at its first entry (tokenizer.c:62-115, :319-347).       *)
THEOREM TablesInvariance == Spec => []TablesInv
<1>1. Init => TablesInv
  BY TokenizerAssumption, TablesInit
<1>2. TablesInv /\ [Step]_vars => TablesInv'
  BY TokenizerAssumption, TablesStep
<1>. QED BY <1>1, <1>2, PTL DEF Spec

(* However the hashes collide, the tables find what was inserted into them, *)
(* for every vocabulary smaller than the table (tokenizer.c:62-100).       *)
THEOREM TablesCorrect == Spec => []TablesFind
<1>1. ASSUME TablesInv PROVE TablesFind
  <2>1. ASSUME NEW id \in 1..nTokens
        PROVE  TokenFind(model.tokens[id]) = First(Named(model.tokens[id]))
    <3>1. FindsName(id)
      BY <1>1 DEF TablesInv
    <3>. QED BY <3>1 DEF FindsName, Finds, TokenFind
  <2>2. ASSUME NEW m \in 1..Len(pairs), None \notin {pairs[m][1], pairs[m][2]}
        PROVE  MergeFind(pairs[m][1], pairs[m][2]) = First(Ranked(pairs[m][1], pairs[m][2]))
    <3>1. FindsPair(m)
      BY <1>1, <2>2 DEF TablesInv, Known
    <3>. QED BY <3>1 DEF FindsPair, Finds, MergeFind
  <2>. QED BY <2>1, <2>2 DEF TablesFind
<1>. QED BY <1>1, TablesInvariance, PTL

-----------------------------------------------------------------------------
(* The chunks cover the text.                                              *)

Pieces == [start : Nat, len : Nat]

ChunkInv ==
    /\ pc = "vocab" => i = 1 /\ chunks = <<>>
    /\ text \in Seq(Bytes)
    /\ i \in 1..Len(text)+1
    /\ chunks \in Seq(Pieces)
    /\ Len(chunks) <= i - 1
    /\ \A k \in 1..Len(chunks) : chunks[k].start >= 1 /\ Next1(k) <= i
    /\ ChunksCover

LEMMA RunEndFacts ==
    ASSUME text \in Seq(Bytes), NEW j \in 1..Len(text), NEW cat
    PROVE  RunEnd(j, cat) \in j..Len(text)+1 /\ (Cat(text[j]) = cat => RunEnd(j, cat) > j)
<1>. DEFINE S == {e \in j..Len(text)+1 : e > Len(text) \/ Cat(text[e]) # cat}
<1>1. Len(text) \in Nat /\ S \in SUBSET Nat /\ Len(text) + 1 \in S
  OBVIOUS
<1>2. PICK e : e = First(S)
  OBVIOUS
<1>3. e \in S
  BY <1>1, <1>2, FirstFacts
<1>4. e \in j..Len(text)+1 /\ (Cat(text[j]) = cat => e # j)
  BY <1>1, <1>3
<1>5. RunEnd(j, cat) = e
  BY <1>2 DEF RunEnd
<1>. QED BY <1>1, <1>4, <1>5

LEMMA WordFacts ==
    ASSUME text \in Seq(Bytes), NEW j \in 1..Len(text),
           Cat(text[j]) = "blank" => j + 1 <= Len(text)
    PROVE  /\ Word(j) \in Pieces /\ Word(j).start = j /\ Word(j).len >= 1
           /\ j + Word(j).len <= Len(text) + 1
<1>. DEFINE w == IF Cat(text[j]) = "blank" THEN j + 1 ELSE j
            e == RunEnd(w, Cat(text[w]))
<1>1. Len(text) \in Nat /\ w \in 1..Len(text) /\ w >= j
  OBVIOUS
<1>2. e \in w..Len(text)+1 /\ e > w
  BY <1>1, RunEndFacts
<1>3. Word(j) = [start |-> j, len |-> e - j]
  BY DEF Word, Piece
<1>4. e - j \in Nat /\ e - j >= 1 /\ j + (e - j) <= Len(text) + 1
  <2>. HIDE DEF w, e
  <2>. QED BY <1>1, <1>2
<1>. QED BY <1>3, <1>4 DEF Pieces

LEMMA ContractionFacts ==
    ASSUME TokenizerAssumption, text \in Seq(Bytes), NEW j \in 1..Len(text)+1,
           ContractionLen(j) > 0
    PROVE  ContractionLen(j) \in {2, 3} /\ j + ContractionLen(j) <= Len(text) + 1
<1>1. Len(text) \in Nat
  OBVIOUS
<1>2. \A k, s : At(k) = s /\ s \in {"s", "t", "m", "d", "e", "l"} => k \in 1..Len(text)
  BY DEF At, TokenizerAssumption
<1>3. CASE At(j) = "'" /\ At(j + 1) \in {"s", "t", "m", "d"}
  <2>1. ContractionLen(j) = 2
    BY <1>3 DEF ContractionLen
  <2>2. j + 1 \in 1..Len(text)
    BY <1>2, <1>3
  <2>. QED BY <1>1, <2>1, <2>2
<1>4. CASE ~(At(j) = "'" /\ At(j + 1) \in {"s", "t", "m", "d"})
  <2>1. ContractionLen(j) = 3 /\ At(j + 2) \in {"e", "l"}
    BY <1>4 DEF ContractionLen
  <2>2. j + 2 \in 1..Len(text)
    BY <1>2, <2>1
  <2>. QED BY <1>1, <2>1, <2>2
<1>. QED BY <1>3, <1>4

(* A round appends one or two pieces, one after the other, from i on.      *)
Cuts(cs) ==
    /\ cs \in Seq(Pieces) /\ Len(cs) \in {1, 2} /\ Cutting(cs)
    /\ cs[1].start = i
    /\ \A k \in 1..Len(cs) : cs[k].len >= 1
    /\ \A k \in 2..Len(cs) : cs[k].start = cs[k - 1].start + cs[k - 1].len
    /\ cs[Len(cs)].start + cs[Len(cs)].len <= Len(text) + 1

LEMMA CuttingKeeps ==
    ASSUME ChunkInv, pc = "cut", NEW cs, Cuts(cs)
    PROVE  ChunkInv'
<1>0. PICK n, m : n = Len(chunks) /\ m = Len(cs)
  OBVIOUS
<1>1. /\ chunks' = chunks \o cs /\ i' = cs[m].start + cs[m].len
      /\ pc' = "cut" /\ text' = text
  BY <1>0 DEF Cuts, Cutting, input
<1>2. /\ chunks \in Seq(Pieces) /\ n \in Nat /\ m \in {1, 2}
      /\ text \in Seq(Bytes) /\ Len(text) \in Nat /\ i \in Nat
  BY <1>0 DEF ChunkInv, Cuts
<1>3. /\ chunks' \in Seq(Pieces) /\ Len(chunks') = n + m
      /\ \A k \in 1..n : chunks'[k] = chunks[k]
      /\ \A k \in 1..m : chunks'[n + k] = cs[k]
  BY <1>0, <1>1, <1>2 DEF Cuts
<1>4. ASSUME NEW k \in 1..m
      PROVE  cs[k].start \in Nat /\ cs[k].len \in Nat /\ cs[k].len >= 1
  <2>1. cs[k] \in Pieces /\ cs[k].len >= 1
    BY <1>0, <1>4 DEF Cuts
  <2>. QED BY <2>1 DEF Pieces
<1>5. /\ \A k \in 1..n : /\ chunks[k].len >= 1
                         /\ chunks[k].start = IF k = 1 THEN 1 ELSE Next1(k - 1)
      /\ i = IF n = 0 THEN 1 ELSE Next1(n)
  BY <1>0, <1>2 DEF ChunkInv, ChunksCover
<1>6. \A k \in 1..n : Next1(k)' = Next1(k)
  BY <1>3 DEF Next1
<1>7. ASSUME NEW k \in 1..m PROVE Next1(n + k)' = cs[k].start + cs[k].len
  <2>1. chunks'[n + k] = cs[k]
    BY <1>3
  <2>. QED BY <2>1 DEF Next1
<1>8. ASSUME NEW k \in 1..n + m
      PROVE  /\ chunks'[k].len >= 1
             /\ chunks'[k].start = IF k = 1 THEN 1 ELSE Next1(k - 1)'
  <2>1. CASE k <= n
    <3>1. k \in 1..n /\ (k # 1 => k - 1 \in 1..n)
      BY <1>2, <2>1
    <3>. QED BY <1>3, <1>5, <1>6, <3>1
  <2>2. CASE k = n + 1
    <3>1. chunks'[k] = cs[1] /\ (k # 1 <=> n # 0) /\ (n # 0 => k - 1 = n /\ n \in 1..n)
      BY <1>2, <1>3, <2>2
    <3>2. cs[1].start = i /\ cs[1].len >= 1
      BY <1>0, <1>2 DEF Cuts
    <3>. QED BY <1>2, <1>5, <1>6, <3>1, <3>2
  <2>3. CASE k > n + 1
    <3>1. PICK l \in 2..m : k = n + l
      <4>1. k - n \in 2..m /\ k = n + (k - n)
        BY <1>2, <2>3
      <4>. QED BY <4>1
    <3>2. /\ l \in 1..m /\ l - 1 \in 1..m /\ k - 1 = n + (l - 1) /\ k # 1
      BY <1>2, <3>1
    <3>3. chunks'[k] = cs[l]
      BY <1>3, <3>1, <3>2
    <3>4. Next1(k - 1)' = cs[l - 1].start + cs[l - 1].len
      BY <1>7, <3>2
    <3>5. cs[l].start = cs[l - 1].start + cs[l - 1].len /\ cs[l].len >= 1
      BY <1>0, <3>1, <3>2 DEF Cuts
    <3>. QED BY <3>2, <3>3, <3>4, <3>5
  <2>. QED BY <1>2, <2>1, <2>2, <2>3
<1>9. i' = Next1(n + m)' /\ m \in 1..m
  BY <1>1, <1>2, <1>7
<1>10. /\ i' \in 1..Len(text)+1 /\ i' >= i + m
       /\ \A k \in 1..m : cs[k].start >= i /\ cs[k].start + cs[k].len <= i'
  <2>1. /\ cs[1].start = i /\ cs[m].start + cs[m].len <= Len(text) + 1
        /\ m = 2 => cs[2].start = cs[1].start + cs[1].len
    BY <1>0, <1>2 DEF Cuts
  <2>2. cs[1].start \in Nat /\ cs[1].len \in Nat /\ cs[1].len >= 1
    BY <1>2, <1>4
  <2>3. CASE m = 1
    BY <1>1, <1>2, <2>1, <2>2, <2>3
  <2>4. CASE m = 2
    <3>1. cs[2].start \in Nat /\ cs[2].len \in Nat /\ cs[2].len >= 1
      BY <1>4, <2>4
    <3>2. i' = cs[2].start + cs[2].len
      BY <1>1, <2>4
    <3>3. PICK x, y, z : x = cs[1].start /\ y = cs[1].len /\ z = cs[2].len
      OBVIOUS
    <3>4. /\ x = i /\ y \in Nat /\ y >= 1 /\ z \in Nat /\ z >= 1
          /\ cs[2].start = x + y /\ i' = x + y + z /\ x + y + z <= Len(text) + 1
      BY <1>2, <2>1, <2>2, <2>4, <3>1, <3>2, <3>3
    <3>5. i' \in 1..Len(text)+1 /\ i' >= i + m
      BY <1>2, <2>4, <3>4
    <3>6. cs[1].start >= i /\ cs[1].start + cs[1].len <= i'
      <4>1. x >= i /\ x + y <= i'
        BY <1>2, <3>4
      <4>. QED BY <3>3, <4>1
    <3>7. cs[2].start >= i /\ cs[2].start + cs[2].len <= i'
      BY <1>2, <3>3, <3>4
    <3>. QED BY <2>4, <3>5, <3>6, <3>7
  <2>. QED BY <1>2, <2>3, <2>4
<1>11. chunks' # <<>>
  BY <1>2, <1>3
<1>12. ChunksCover'
  <2>1. \A k \in 1..Len(chunks') :
          /\ chunks'[k].len >= 1
          /\ chunks'[k].start = IF k = 1 THEN 1 ELSE Next1(k - 1)'
    BY <1>3, <1>8
  <2>2. i' = Next1(Len(chunks))'
    BY <1>3, <1>9
  <2>. QED BY <1>1, <1>11, <2>1, <2>2 DEF ChunksCover
<1>13. ASSUME NEW k \in 1..n + m PROVE chunks'[k].start >= 1 /\ Next1(k)' <= i'
  <2>1. CASE k <= n
    <3>1. k \in 1..n /\ chunks[k].start >= 1 /\ Next1(k) <= i
      BY <1>0, <1>2, <2>1 DEF ChunkInv
    <3>2. chunks[k] \in Pieces
      BY <1>0, <1>2, <3>1
    <3>3. Next1(k) \in Nat
      BY <3>2 DEF Pieces, Next1
    <3>4. i <= i' /\ i' \in Nat
      BY <1>2, <1>10
    <3>. QED BY <1>2, <1>3, <1>6, <3>1, <3>3, <3>4
  <2>2. CASE k > n
    <3>1. PICK l \in 1..m : k = n + l
      <4>1. k - n \in 1..m /\ k = n + (k - n)
        BY <1>2, <2>2
      <4>. QED BY <4>1
    <3>2. chunks'[k].start >= i
      BY <1>3, <1>10, <3>1
    <3>3. chunks'[k].start \in Nat /\ i \in Nat /\ i >= 1
      <4>1. chunks'[k] = cs[l] /\ cs[l].start \in Nat
        BY <1>3, <1>4, <3>1
      <4>2. i \in 1..Len(text)+1
        BY DEF ChunkInv
      <4>. QED BY <1>2, <4>1, <4>2
    <3>4. Next1(k)' <= i'
      BY <1>7, <1>10, <3>1, Zenon
    <3>. QED BY <3>2, <3>3, <3>4
  <2>. QED BY <1>2, <2>1, <2>2
<1>14. Len(chunks') <= i' - 1
  <2>1. PICK x, y : x = i' /\ y = Len(chunks')
    OBVIOUS
  <2>2. n <= i - 1
    BY <1>0 DEF ChunkInv
  <2>3. y = n + m
    BY <1>3, <2>1, Zenon
  <2>4. x >= i + m /\ x \in 1..Len(text)+1
    BY <1>10, <2>1, Zenon
  <2>5. x \in Nat
    BY <1>2, <2>4
  <2>6. n \in Nat /\ m \in {1, 2} /\ i \in Nat
    BY <1>2, Zenon
  <2>7. y <= x - 1
    BY <2>2, <2>3, <2>4, <2>5, <2>6
  <2>. QED BY <2>1, <2>7, Zenon
<1>. QED BY <1>1, <1>2, <1>3, <1>10, <1>12, <1>13, <1>14 DEF ChunkInv

LEMMA OnePieceCuts ==
    ASSUME NEW p \in Pieces, Cutting(<<p>>),
           p.start = i, p.len >= 1, p.start + p.len <= Len(text) + 1
    PROVE  Cuts(<<p>>)
<1>. DEFINE cs == <<p>>
<1>1. cs \in Seq(Pieces) /\ Len(cs) = 1 /\ cs[1] = p /\ Cutting(cs)
  OBVIOUS
<1>2. /\ \A k \in 1..Len(cs) : cs[k].len >= 1
      /\ \A k \in 2..Len(cs) : cs[k].start = cs[k - 1].start + cs[k - 1].len
  BY <1>1
<1>. HIDE DEF cs
<1>3. Cuts(cs)
  BY <1>1, <1>2 DEF Cuts
<1>. QED BY <1>3 DEF cs

LEMMA CutFacts ==
    ASSUME TokenizerAssumption, ChunkInv,
           CutContraction \/ CutWord \/ CutLastBlanks \/ CutBlanks
    PROVE  \E cs : Cuts(cs)
<1>1. /\ pc = "cut" /\ text \in Seq(Bytes) /\ Len(text) \in Nat
      /\ i \in 1..Len(text)+1
  BY DEF ChunkInv, CutContraction, CutWord, CutLastBlanks, CutBlanks
<1>2. CASE CutContraction
  <2>1. ContractionLen(i) \in {2, 3} /\ i + ContractionLen(i) <= Len(text) + 1
    BY <1>1, <1>2, ContractionFacts DEF CutContraction
  <2>2. PICK p : p = Piece(i, i + ContractionLen(i))
    OBVIOUS
  <2>3. p \in Pieces /\ p.start = i /\ p.len = ContractionLen(i) /\ Cutting(<<p>>)
    BY <1>1, <1>2, <2>1, <2>2 DEF Piece, Pieces, CutContraction
  <2>4. p.len >= 1 /\ p.start + p.len <= Len(text) + 1
    BY <2>1, <2>3
  <2>. QED BY <2>3, <2>4, OnePieceCuts, Zenon
<1>3. CASE CutWord
  <2>1. i \in 1..Len(text) /\ Cat(text[i]) # "blank" /\ Cutting(<<Word(i)>>)
    BY <1>1, <1>3 DEF CutWord
  <2>2. PICK p : p = Word(i)
    OBVIOUS
  <2>3. p \in Pieces /\ p.start = i /\ p.len >= 1 /\ i + p.len <= Len(text) + 1
    BY <1>1, <2>1, <2>2, WordFacts
  <2>. QED BY <1>1, <2>1, <2>2, <2>3, OnePieceCuts
<1>4. CASE CutLastBlanks
  <2>1. i \in 1..Len(text) /\ Cat(text[i]) = "blank"
    BY <1>1, <1>4 DEF CutLastBlanks
  <2>2. RunEnd(i, "blank") \in i..Len(text)+1 /\ RunEnd(i, "blank") > i
    BY <1>1, <2>1, RunEndFacts
  <2>3. PICK p : p = Piece(i, RunEnd(i, "blank"))
    OBVIOUS
  <2>4. p = [start |-> i, len |-> RunEnd(i, "blank") - i] /\ Cutting(<<p>>)
    BY <1>4, <2>3 DEF Piece, CutLastBlanks
  <2>5. p \in Pieces /\ p.start = i /\ p.len >= 1 /\ p.start + p.len <= Len(text) + 1
    BY <1>1, <2>2, <2>4 DEF Pieces
  <2>. QED BY <1>1, <2>4, <2>5, OnePieceCuts
<1>5. CASE CutBlanks
  <2>1. PICK last : last = RunEnd(i, "blank") - 1
    OBVIOUS
  <2>2. /\ i \in 1..Len(text) /\ Cat(text[i]) = "blank" /\ RunEnd(i, "blank") <= Len(text)
        /\ Cutting(IF last > i THEN <<Piece(i, last), Word(last)>> ELSE <<Word(i)>>)
    BY <1>1, <1>5, <2>1 DEF CutBlanks
  <2>3. RunEnd(i, "blank") \in i..Len(text)+1 /\ RunEnd(i, "blank") > i
    BY <1>1, <2>2, RunEndFacts
  <2>4. last \in i..Len(text)-1
    BY <1>1, <2>1, <2>2, <2>3
  <2>5. CASE last > i
    <3>1. PICK p, q : p = Piece(i, last) /\ q = Word(last)
      OBVIOUS
    <3>2. last \in 1..Len(text) /\ last + 1 <= Len(text)
      BY <1>1, <2>4
    <3>3. q \in Pieces /\ q.start = last /\ q.len >= 1 /\ last + q.len <= Len(text) + 1
      BY <1>1, <3>1, <3>2, WordFacts
    <3>4. p \in Pieces /\ p.start = i /\ p.len = last - i /\ p.len >= 1
      BY <1>1, <2>4, <2>5, <3>1 DEF Piece, Pieces
    <3>5. PICK cs : cs = <<p, q>>
      OBVIOUS
    <3>6. cs \in Seq(Pieces) /\ cs # <<>> /\ Len(cs) = 2 /\ cs[1] = p /\ cs[2] = q
      BY <3>3, <3>4, <3>5
    <3>7. Cutting(cs)
      BY <2>2, <2>5, <3>1, <3>5
    <3>8. \A k \in 1..Len(cs) : cs[k].len >= 1
      BY <3>3, <3>4, <3>6
    <3>9. p.start + p.len = last
      BY <1>1, <2>4, <3>4
    <3>10. \A k \in 2..Len(cs) : cs[k].start = cs[k - 1].start + cs[k - 1].len
      BY <3>3, <3>6, <3>9
    <3>11. cs[1].start = i /\ cs[Len(cs)].start + cs[Len(cs)].len <= Len(text) + 1
      BY <3>3, <3>4, <3>6
    <3>. QED BY <3>6, <3>7, <3>8, <3>10, <3>11 DEF Cuts
  <2>6. CASE ~(last > i)
    <3>1. i + 1 <= Len(text) /\ Cutting(<<Word(i)>>)
      BY <1>1, <2>2, <2>4, <2>6
    <3>2. PICK p : p = Word(i)
      OBVIOUS
    <3>3. p \in Pieces /\ p.start = i /\ p.len >= 1 /\ i + p.len <= Len(text) + 1
      BY <1>1, <2>2, <3>1, <3>2, WordFacts
    <3>. QED BY <1>1, <3>1, <3>2, <3>3, OnePieceCuts
  <2>. QED BY <2>5, <2>6
<1>. QED BY <1>2, <1>3, <1>4, <1>5

LEMMA CutStep ==
    ASSUME TokenizerAssumption, ChunkInv,
           CutContraction \/ CutWord \/ CutLastBlanks \/ CutBlanks
    PROVE  ChunkInv'
<1>1. pc = "cut"
  BY DEF CutContraction, CutWord, CutLastBlanks, CutBlanks
<1>2. PICK cs : Cuts(cs)
  BY CutFacts, Zenon
<1>. QED BY <1>1, <1>2, CuttingKeeps

(* No chunk is empty or goes past what was cut, for any text and any        *)
(* categories of its bytes (tokenizer.c:157-200).                          *)
THEOREM ChunkInvariance == Spec => []ChunkInv
<1>. USE TokenizerAssumption
<1>1. Init => ChunkInv
  <2>. SUFFICES ASSUME Init PROVE ChunkInv
    OBVIOUS
  <2>1. pc = "vocab" /\ i = 1 /\ chunks = <<>> /\ text = <<>>
    BY DEF Init
  <2>. QED BY <2>1 DEF ChunkInv, ChunksCover
<1>2. ASSUME ChunkInv, [Step]_vars PROVE ChunkInv'
  <2>1. CASE CutContraction \/ CutWord \/ CutLastBlanks \/ CutBlanks
    BY <1>2, <2>1, CutStep
  <2>2. CASE Encode
    <3>1. /\ pc = "vocab" /\ pc' = "cut" /\ text' \in Seq(Bytes)
          /\ i' = i /\ chunks' = chunks
      BY <2>2 DEF Encode, cut, TokenizerAssumption
    <3>2. i' = 1 /\ chunks' = <<>> /\ Len(text') \in Nat
      BY <1>2, <3>1 DEF ChunkInv
    <3>. QED BY <3>1, <3>2 DEF ChunkInv, ChunksCover
  <2>3. CASE CutEnds
    <3>1. /\ pc = "cut" /\ pc' = "chunk" /\ i > Len(text)
          /\ text' = text /\ i' = i /\ chunks' = chunks
      BY <2>3 DEF CutEnds, cut, input
    <3>2. i = Len(text) + 1
      <4>1. i \in 1..Len(text)+1 /\ Len(text) \in Nat
        BY <1>2 DEF ChunkInv
      <4>2. i > Len(text)
        BY <3>1
      <4>. QED BY <4>1, <4>2
    <3>. QED BY <1>2, <3>1, <3>2 DEF ChunkInv, ChunksCover, Next1
  <2>4. CASE InsertToken \/ InsertMerge \/ UNCHANGED vars
    <3>1. pc' = pc /\ text' = text /\ i' = i /\ chunks' = chunks
      BY <2>4 DEF InsertToken, InsertMerge, vars, cut, input
    <3>. QED BY <1>2, <3>1 DEF ChunkInv, ChunksCover, Next1
  <2>5. CASE StartChunk \/ Merge \/ MergeEnds \/ Emit \/ EncodeEnds \/ DecodeOne \/ Finish
    <3>1. /\ text' = text /\ i' = i /\ chunks' = chunks
          /\ pc \notin {"vocab", "cut"} /\ pc' \notin {"vocab", "cut"}
      BY <2>5 DEF StartChunk, Merge, MergeEnds, Emit, EncodeEnds, DecodeOne, Finish,
                  cut, input
    <3>. QED BY <1>2, <3>1 DEF ChunkInv, ChunksCover, Next1
  <2>. QED BY <1>2, <2>1, <2>2, <2>3, <2>4, <2>5 DEF Step
<1>. QED BY <1>1, <1>2, PTL DEF Spec

(* Every byte of every text is in one chunk, for any categories of bytes    *)
(* (tokenizer.c:157-200).                                                  *)
THEOREM ChunksCoverTheText == Spec => []ChunksCover
<1>1. ChunkInv => ChunksCover
  BY DEF ChunkInv
<1>. QED BY <1>1, ChunkInvariance, PTL

-----------------------------------------------------------------------------
(* The symbols and the tokens.                                             *)

SymbolIds == 1..nTokens \cup {UnkId}

EncodeInv ==
    /\ pc \in {"vocab", "cut", "chunk", "merge", "emit", "decode", "done"}
    /\ text \in Texts \cup {<<>>} /\ maxTokens \in Nat \ {0}
    /\ pc # "vocab" => nTokens = Len(model.tokens)
    /\ pc \in {"vocab", "cut"} => c = 0 /\ symbols = <<>> /\ tokens = <<>>
    /\ pc \notin {"decode", "done"} => d = 0 /\ decoded = <<>>
    /\ c \in 0..Len(chunks)
    /\ symbols \in Seq(SymbolIds) /\ Len(symbols) <= Len(text)
    /\ tokens \in Seq(SymbolIds) /\ Len(tokens) <= maxTokens
    /\ d \in 0..Len(tokens)
    /\ pc \in {"merge", "emit"} => c >= 1 /\ Len(tokens) < maxTokens
    /\ pc = "done" => d = Len(tokens)

(* The last byte of the first k chunks. *)
Behind(k) == IF k = 0 THEN 0 ELSE Next1(k) - 1

(* Chunk k is the bytes behind the chunks before it.                       *)
LEMMA ChunkBytesFacts ==
    ASSUME ChunkInv, NEW k \in 1..Len(chunks)
    PROVE  /\ Behind(k - 1) \in Nat /\ Behind(k) \in Nat
           /\ Behind(k - 1) < Behind(k) /\ Behind(k) <= Len(text)
           /\ ChunkBytes(k) = SubSeq(text, Behind(k - 1) + 1, Behind(k))
           /\ ChunkBytes(k) \in Seq(Bytes)
           /\ Len(ChunkBytes(k)) = Behind(k) - Behind(k - 1)
<1>1. /\ chunks \in Seq(Pieces) /\ Len(chunks) \in Nat
      /\ text \in Seq(Bytes) /\ Len(text) \in Nat /\ i \in 1..Len(text)+1
  BY DEF ChunkInv
<1>2. PICK x, y : x = chunks[k].start /\ y = chunks[k].len
  OBVIOUS
<1>3. x \in Nat /\ y \in Nat
  <2>1. chunks[k] \in Pieces
    BY <1>1
  <2>. QED BY <1>2, <2>1 DEF Pieces
<1>4. x >= 1 /\ y >= 1 /\ x + y <= i
  BY <1>2 DEF ChunkInv, ChunksCover, Next1
<1>5. Behind(k) = x + y - 1
  <2>1. k # 0
    BY <1>1
  <2>2. Next1(k) = x + y
    BY <1>2 DEF Next1
  <2>. QED BY <1>3, <2>1, <2>2 DEF Behind
<1>6. Behind(k - 1) = x - 1
  <2>1. x = IF k = 1 THEN 1 ELSE Next1(k - 1)
    BY <1>2 DEF ChunkInv, ChunksCover
  <2>2. k = 1 <=> k - 1 = 0
    OBVIOUS
  <2>. QED BY <1>3, <2>1, <2>2 DEF Behind
<1>7. ChunkBytes(k) = SubSeq(text, x, x + y - 1)
  BY <1>2 DEF ChunkBytes
<1>8. Behind(k - 1) + 1 = x /\ x + y - 1 <= Len(text) /\ x + y - 1 - x + 1 = y
  BY <1>1, <1>3, <1>4, <1>6
<1>9. SubSeq(text, x, x + y - 1) \in Seq(Bytes) /\ Len(SubSeq(text, x, x + y - 1)) = y
  <2>1. x + y - 1 \in Nat /\ x <= x + y - 1 + 1
    BY <1>3, <1>4
  <2>. QED BY <1>1, <1>3, <1>4, <1>8, <2>1, SubSeqFacts
<1>10. /\ x - 1 \in Nat /\ x + y - 1 \in Nat /\ x - 1 < x + y - 1
       /\ x + y - 1 - (x - 1) = y
  BY <1>3, <1>4
<1>11. SubSeq(text, Behind(k - 1) + 1, Behind(k)) = SubSeq(text, x, x + y - 1)
  BY <1>5, <1>8
<1>12. PICK t : t = ChunkBytes(k)
  OBVIOUS
<1>13. t \in Seq(Bytes) /\ Len(t) = y /\ t = SubSeq(text, Behind(k - 1) + 1, Behind(k))
  BY <1>7, <1>9, <1>11, <1>12
<1>14. /\ Behind(k - 1) \in Nat /\ Behind(k) \in Nat /\ Behind(k - 1) < Behind(k)
       /\ Behind(k) <= Len(text) /\ Behind(k) - Behind(k - 1) = y
  <2>1. PICK u, v : u = Behind(k - 1) /\ v = Behind(k)
    OBVIOUS
  <2>2. u = x - 1 /\ v = x + y - 1
    BY <1>5, <1>6, <2>1
  <2>3. u \in Nat /\ v \in Nat /\ u < v /\ v <= Len(text) /\ v - u = y
    BY <1>1, <1>3, <1>8, <1>10, <2>2
  <2>. QED BY <2>1, <2>3
<1>. QED BY <1>12, <1>13, <1>14

(* A byte is its token or the id that stands for none.                     *)
LEMMA ByteIdType ==
    ASSUME TokenizerAssumption, LookupAssumption, TablesInv, NEW b \in Bytes
    PROVE  ByteId(b) \in SymbolIds
<1>1. TokenHash(<<b>>) \in Hashes
  BY DEF LookupAssumption
<1>2. PICK f : f = TokenFind(<<b>>)
  OBVIOUS
<1>3. f \in Ids
  BY <1>1, <1>2, TokenFindType
<1>4. ByteId(b) = IF f = None THEN UnkId ELSE f
  BY <1>2 DEF ByteId
<1>. QED BY <1>3, <1>4 DEF Ids, SymbolIds

(* A pair that has a rank is a pair of tokens, and the text it makes is      *)
(* looked up within the table.                                             *)
LEMMA MergingFacts ==
    ASSUME TokenizerAssumption, LookupAssumption, TablesInv,
           nTokens = Len(model.tokens), symbols \in Seq(SymbolIds), NEW j \in Merging
    PROVE  /\ j \in Nat /\ 1 <= j /\ j < Len(symbols)
           /\ symbols[j] \in 1..nTokens /\ symbols[j + 1] \in 1..nTokens
           /\ TokenFind(Joined(j)) \in Named(Joined(j)) \cup {None}
<1>1. Len(symbols) \in Nat /\ j \in 1..Len(symbols)-1 /\ Rank(j) # None
  BY DEF Merging
<1>2. j \in 1..Len(symbols) /\ j + 1 \in 1..Len(symbols)
  BY <1>1
<1>3. PICK l, r : l = symbols[j] /\ r = symbols[j + 1]
  OBVIOUS
<1>4. l \in SymbolIds /\ r \in SymbolIds /\ model \in Models
  BY <1>2, <1>3 DEF TablesInv
<1>5. MergeHash(l, r) \in Hashes
  <2>1. l \in 1..Len(model.tokens) \cup {UnkId} /\ r \in 1..Len(model.tokens) \cup {UnkId}
    BY <1>4 DEF SymbolIds
  <2>. QED BY <1>4, <2>1 DEF LookupAssumption
<1>6. MergeFind(l, r) # None
  BY <1>1, <1>3 DEF Rank
<1>7. PICK m : m \in 1..Len(pairs) /\ pairs[m] = <<l, r>>
  <2>1. MergeFind(l, r) \in Ranked(l, r)
    BY <1>5, <1>6, MergeFindRanks
  <2>. QED BY <2>1 DEF Ranked
<1>8. l \in Ids /\ r \in Ids
  <2>1. pairs[m] \in Ids \X Ids
    BY <1>7 DEF TablesInv
  <2>. QED BY <1>7, <2>1
<1>9. UnkId # None /\ l # None /\ r # None
  <2>1. None \notin Nat /\ UnkId \in Nat
    BY DEF TokenizerAssumption, LookupAssumption
  <2>. QED BY <1>4, <2>1 DEF SymbolIds
<1>10. l \in 1..nTokens /\ r \in 1..nTokens
  BY <1>8, <1>9 DEF Ids
<1>11. TokenHash(model.tokens[l] \o model.tokens[r]) \in Hashes
  BY <1>4, <1>10 DEF LookupAssumption
<1>12. TokenHash(Joined(j)) \in Hashes
  BY <1>3, <1>11 DEF Joined
<1>. QED BY <1>1, <1>3, <1>10, <1>12, TokenFindNames

(* What a merge makes of the symbols.                                      *)
LEMMA MergeFacts ==
    ASSUME TokenizerAssumption, LookupAssumption, TablesInv, EncodeInv, Merge
    PROVE  \E j \in Merging, id \in 1..nTokens :
              /\ j \in Nat /\ 1 <= j /\ j < Len(symbols)
              /\ model.tokens[id] = Joined(j)
              /\ symbols' = SubSeq(symbols, 1, j - 1) \o <<id>>
                            \o SubSeq(symbols, j + 2, Len(symbols))
<1>1. PICK j \in Merging :
          /\ TokenFind(Joined(j)) # None
          /\ symbols' = SubSeq(symbols, 1, j - 1) \o <<TokenFind(Joined(j))>>
                        \o SubSeq(symbols, j + 2, Len(symbols))
  BY DEF Merge
<1>2. nTokens = Len(model.tokens) /\ symbols \in Seq(SymbolIds)
  BY DEF EncodeInv, Merge
<1>3. /\ j \in Nat /\ 1 <= j /\ j < Len(symbols)
      /\ TokenFind(Joined(j)) \in Named(Joined(j)) \cup {None}
  BY <1>2, MergingFacts
<1>4. TokenFind(Joined(j)) \in Named(Joined(j))
  BY <1>1, <1>3
<1>5. PICK id : id = TokenFind(Joined(j))
  OBVIOUS
<1>6. id \in 1..nTokens /\ model.tokens[id] = Joined(j)
  BY <1>4, <1>5 DEF Named
<1>. QED BY <1>1, <1>3, <1>5, <1>6

(* The symbols after the j-th pair was replaced by x.                      *)
Replaced(new, seq, j, x) ==
    /\ Len(new) = Len(seq) - 1
    /\ \A k \in 1..Len(seq)-1 :
          new[k] = IF k < j THEN seq[k] ELSE IF k = j THEN x ELSE seq[k + 1]

LEMMA ReplacedPair ==
    ASSUME NEW S, NEW seq \in Seq(S), NEW j \in Nat, 1 <= j, j < Len(seq), NEW x \in S
    PROVE  \E new \in Seq(S) :
              /\ new = SubSeq(seq, 1, j - 1) \o <<x>> \o SubSeq(seq, j + 2, Len(seq))
              /\ Replaced(new, seq, j, x)
<1>1. PICK n \in Nat : n = Len(seq) /\ j < n
  OBVIOUS
<1>2. PICK a, b : a = SubSeq(seq, 1, j - 1) /\ b = SubSeq(seq, j + 2, n)
  OBVIOUS
<1>4. a \in Seq(S) /\ Len(a) = j - 1 /\ \A k \in 1..j-1 : a[k] = seq[k]
  <2>1. /\ 1 \in Nat /\ j - 1 \in Nat /\ 1 <= j - 1 + 1 /\ j - 1 <= n /\ 1 >= 1
        /\ j - 1 - 1 + 1 = j - 1
    BY <1>1
  <2>2. \A k \in 1..j-1 : 1 + k - 1 = k
    OBVIOUS
  <2>. QED BY <1>1, <1>2, <2>1, <2>2, SubSeqFacts
<1>5. b \in Seq(S) /\ Len(b) = n - j - 1 /\ \A k \in 1..n-j-1 : b[k] = seq[j + 1 + k]
  <2>1. /\ j + 2 \in Nat /\ j + 2 >= 1 /\ j + 2 <= n + 1 /\ n <= n
        /\ n - (j + 2) + 1 = n - j - 1
    BY <1>1
  <2>2. \A k \in 1..n-j-1 : j + 2 + k - 1 = j + 1 + k
    BY <1>1
  <2>. QED BY <1>1, <1>2, <2>1, <2>2, SubSeqFacts
<1>3. <<x>> \in Seq(S) /\ Len(<<x>>) = 1 /\ <<x>>[1] = x
  OBVIOUS
<1>6. PICK m \in Seq(S) : m = a \o <<x>> /\ IsConcat(m, a, j - 1, <<x>>, 1)
  BY <1>3, <1>4, ConcatFacts, Zenon
<1>7. /\ Len(m) = j /\ m[j] = x
       /\ \A k \in 1..j-1 : m[k] = a[k]
  <2>1. j - 1 + 1 = j /\ 1 \in 1..1
    OBVIOUS
  <2>2. IsConcat(m, a, j - 1, <<x>>, 1)
    BY <1>6
  <2>. QED BY <1>3, <2>1, <2>2, Zenon DEF IsConcat
<1>8. PICK new \in Seq(S) : new = m \o b /\ IsConcat(new, m, j, b, n - j - 1)
  BY <1>5, <1>7, ConcatFacts, Zenon
<1>9. /\ Len(new) = j + (n - j - 1)
      /\ \A k \in 1..j : new[k] = m[k]
      /\ \A k \in 1..n-j-1 : new[j + k] = b[k]
  <2>1. IsConcat(new, m, j, b, n - j - 1)
    BY <1>8
  <2>. QED BY <2>1, Zenon DEF IsConcat
<1>10. Len(new) = n - 1
  <2>1. j + (n - j - 1) = n - 1
    OBVIOUS
  <2>. QED BY <1>9, <2>1
<1>11. ASSUME NEW k \in 1..n-1
      PROVE  new[k] = IF k < j THEN seq[k] ELSE IF k = j THEN x ELSE seq[k + 1]
  <2>1. CASE k < j
    <3>1. k \in 1..j-1 /\ k \in 1..j
      BY <2>1
    <3>2. new[k] = seq[k]
      BY <1>4, <1>7, <1>9, <3>1
    <3>. QED BY <2>1, <3>2
  <2>2. CASE k = j
    <3>1. j \in 1..j
      OBVIOUS
    <3>2. new[j] = x
      BY <1>7, <1>9, <3>1
    <3>. QED BY <2>2, <3>2
  <2>3. CASE k > j
    <3>1. PICK l \in 1..n-j-1 : k = j + l
      <4>1. k - j \in 1..n-j-1 /\ k = j + (k - j)
        BY <2>3
      <4>. QED BY <4>1
    <3>2. new[k] = seq[j + 1 + l]
      BY <1>5, <1>9, <3>1
    <3>3. j + 1 + l = k + 1 /\ ~(k < j) /\ k # j
      BY <2>3, <3>1
    <3>. QED BY <3>2, <3>3
  <2>. QED BY <2>1, <2>2, <2>3
<1>12. new = SubSeq(seq, 1, j - 1) \o <<x>> \o SubSeq(seq, j + 2, Len(seq))
  BY <1>1, <1>2, <1>6, <1>8, Zenon
<1>13. Replaced(new, seq, j, x)
  BY <1>1, <1>9, <1>10, <1>11 DEF Replaced
<1>. QED BY <1>12, <1>13

(* What is emitted: all the symbols, or as many as there is room for.      *)
LEMMA EmitFacts ==
    ASSUME EncodeInv, Emit
    PROVE  \E n \in 0..Len(symbols) :
              /\ tokens' = tokens \o SubSeq(symbols, 1, n)
              /\ Len(tokens) + n <= maxTokens
              /\ Len(tokens) + n < maxTokens => n = Len(symbols)
<1>1. /\ symbols \in Seq(SymbolIds) /\ tokens \in Seq(SymbolIds)
      /\ maxTokens \in Nat /\ Len(tokens) < maxTokens
  BY DEF EncodeInv, Emit
<1>2. PICK a, b : a = Len(symbols) /\ b = maxTokens - Len(tokens)
  OBVIOUS
<1>3. a \in Nat /\ b \in Nat
  BY <1>1, <1>2
<1>4. PICK n : n = First({a, b})
  OBVIOUS
<1>5. n \in {a, b} /\ n <= a /\ n <= b
  <2>1. {a, b} \in SUBSET Nat /\ {a, b} # {}
    BY <1>3
  <2>2. n \in {a, b} /\ \A y \in {a, b} : n <= y
    BY <1>4, <2>1, FirstFacts
  <2>. QED BY <2>2
<1>6. /\ n \in 0..Len(symbols) /\ Len(tokens) + n <= maxTokens
      /\ Len(tokens) + n < maxTokens => n = Len(symbols)
  BY <1>1, <1>2, <1>3, <1>5
<1>7. tokens' = tokens \o SubSeq(symbols, 1, n)
  BY <1>2, <1>4 DEF Emit
<1>. QED BY <1>6, <1>7

LEMMA EncodeInit == TokenizerAssumption /\ Init => EncodeInv
<1>. SUFFICES ASSUME TokenizerAssumption, Init PROVE EncodeInv
  OBVIOUS
<1>1. /\ pc = "vocab" /\ text = <<>> /\ maxTokens = 1 /\ chunks = <<>>
      /\ c = 0 /\ symbols = <<>> /\ tokens = <<>> /\ d = 0 /\ decoded = <<>>
  BY DEF Init
<1>. QED BY <1>1 DEF EncodeInv

LEMMA EncodeStep ==
    ASSUME TokenizerAssumption, LookupAssumption, TablesInv, ChunkInv, EncodeInv, [Step]_vars
    PROVE  EncodeInv'
<1>0. /\ text \in Seq(Bytes) /\ Len(text) \in Nat
      /\ symbols \in Seq(SymbolIds) /\ tokens \in Seq(SymbolIds)
      /\ Len(symbols) \in Nat /\ Len(tokens) \in Nat
      /\ chunks \in Seq(Pieces) /\ Len(chunks) \in Nat /\ maxTokens \in Nat
  BY DEF ChunkInv, EncodeInv
<1>1. CASE InsertToken \/ InsertMerge
  <2>1. /\ pc = "vocab" /\ pc' = pc /\ text' = text /\ maxTokens' = maxTokens
        /\ chunks' = chunks /\ c' = c /\ symbols' = symbols /\ tokens' = tokens
        /\ d' = d /\ decoded' = decoded
    BY <1>1 DEF InsertToken, InsertMerge, input, cut, enc, dec
  <2>2. symbols' \in Seq(SymbolIds') /\ tokens' \in Seq(SymbolIds')
    BY <2>1 DEF EncodeInv
  <2>. QED BY <2>1, <2>2 DEF EncodeInv
<1>2. CASE Encode
  <2>1. /\ pc = "vocab" /\ pc' = "cut" /\ text' \in Texts /\ maxTokens' \in MaxTokens
        /\ chunks' = chunks /\ c' = c /\ symbols' = symbols /\ tokens' = tokens
        /\ d' = d /\ decoded' = decoded /\ nTokens' = nTokens /\ model' = model
        /\ nTokens = Len(model.tokens)
    BY <1>2 DEF Encode, init, cut, enc, dec
  <2>2. symbols' \in Seq(SymbolIds') /\ tokens' \in Seq(SymbolIds')
    BY <2>1 DEF EncodeInv
  <2>3. maxTokens' \in Nat \ {0} /\ text' \in Seq(Bytes) /\ Len(text') \in Nat
    BY <2>1 DEF TokenizerAssumption
  <2>. QED BY <2>1, <2>2, <2>3 DEF EncodeInv
<1>3. CASE CutContraction \/ CutWord \/ CutLastBlanks \/ CutBlanks
  <2>1. PICK cs : Cuts(cs)
    BY <1>3, CutFacts, Zenon
  <2>2. /\ chunks' = chunks \o cs /\ cs \in Seq(Pieces)
        /\ pc' = pc /\ text' = text /\ maxTokens' = maxTokens
        /\ c' = c /\ symbols' = symbols /\ tokens' = tokens /\ d' = d /\ decoded' = decoded
        /\ nTokens' = nTokens /\ model' = model
    BY <2>1 DEF Cuts, Cutting, init, input, enc, dec
  <2>3. Len(chunks') \in Nat /\ Len(chunks') >= Len(chunks)
    BY <1>0, <2>2
  <2>4. SymbolIds' = SymbolIds
    BY <2>2 DEF SymbolIds
  <2>5. c' \in 0..Len(chunks')
    BY <1>0, <2>2, <2>3 DEF EncodeInv
  <2>. QED BY <2>2, <2>4, <2>5 DEF EncodeInv
<1>4. CASE CutEnds \/ MergeEnds \/ EncodeEnds \/ Finish \/ UNCHANGED vars
  <2>1. /\ text' = text /\ maxTokens' = maxTokens /\ chunks' = chunks
        /\ c' = c /\ symbols' = symbols /\ tokens' = tokens /\ d' = d /\ decoded' = decoded
        /\ nTokens' = nTokens /\ model' = model
    BY <1>4 DEF CutEnds, MergeEnds, EncodeEnds, Finish, init, input, cut, enc, dec, vars
  <2>2. SymbolIds' = SymbolIds
    BY <2>1 DEF SymbolIds
  <2>3. \/ pc = "cut" /\ pc' = "chunk"
        \/ pc = "merge" /\ pc' = "emit"
        \/ pc = "chunk" /\ pc' = "decode"
        \/ pc = "decode" /\ pc' = "done" /\ d = Len(tokens)
        \/ pc' = pc
    BY <1>4 DEF CutEnds, MergeEnds, EncodeEnds, Finish, vars
  <2>. QED BY <2>1, <2>2, <2>3 DEF EncodeInv
<1>5. CASE StartChunk
  <2>1. /\ pc = "chunk" /\ pc' = "merge" /\ c < Len(chunks) /\ c' = c + 1
        /\ Len(tokens) < maxTokens /\ symbols' = ByteIds(ChunkBytes(c + 1))
        /\ text' = text /\ maxTokens' = maxTokens /\ chunks' = chunks
        /\ tokens' = tokens /\ d' = d /\ decoded' = decoded
        /\ nTokens' = nTokens /\ model' = model
    BY <1>5 DEF StartChunk, init, input, cut, dec
  <2>2. SymbolIds' = SymbolIds
    BY <2>1 DEF SymbolIds
  <2>3. c + 1 \in 1..Len(chunks)
    BY <1>0, <2>1 DEF EncodeInv
  <2>4. PICK t : t = ChunkBytes(c + 1)
    OBVIOUS
  <2>5. t \in Seq(Bytes) /\ Len(t) \in Nat /\ Len(t) <= Len(text)
    <3>1. PICK k \in 1..Len(chunks) : k = c + 1
      BY <2>3
    <3>2. /\ Behind(k - 1) \in Nat /\ Behind(k) \in Nat /\ Behind(k) <= Len(text)
          /\ t \in Seq(Bytes) /\ Len(t) = Behind(k) - Behind(k - 1)
      BY <2>4, <3>1, ChunkBytesFacts
    <3>. QED BY <1>0, <3>2
  <2>6. symbols' = [a \in 1..Len(t) |-> ByteId(t[a])]
    BY <2>1, <2>4, <2>5 DEF ByteIds
  <2>7. ASSUME NEW a \in 1..Len(t) PROVE ByteId(t[a]) \in SymbolIds
    <3>1. t[a] \in Bytes
      BY <2>5
    <3>. QED BY <3>1, ByteIdType
  <2>8. symbols' \in Seq(SymbolIds) /\ Len(symbols') = Len(t)
    BY <2>5, <2>6, <2>7
  <2>. QED BY <1>0, <2>1, <2>2, <2>3, <2>5, <2>8 DEF EncodeInv
<1>6. CASE Merge
  <2>1. /\ pc = "merge" /\ pc' = pc /\ text' = text /\ maxTokens' = maxTokens
        /\ chunks' = chunks /\ c' = c /\ tokens' = tokens /\ d' = d /\ decoded' = decoded
        /\ nTokens' = nTokens /\ model' = model
    BY <1>6 DEF Merge, init, input, cut, dec
  <2>2. SymbolIds' = SymbolIds
    BY <2>1 DEF SymbolIds
  <2>3. PICK j \in Merging, id \in 1..nTokens :
           /\ j \in Nat /\ 1 <= j /\ j < Len(symbols)
           /\ model.tokens[id] = Joined(j)
           /\ symbols' = SubSeq(symbols, 1, j - 1) \o <<id>>
                         \o SubSeq(symbols, j + 2, Len(symbols))
    BY <1>6, MergeFacts, Zenon
  <2>4. id \in SymbolIds
    BY DEF SymbolIds
  <2>5. PICK new \in Seq(SymbolIds) :
           /\ new = SubSeq(symbols, 1, j - 1) \o <<id>> \o SubSeq(symbols, j + 2, Len(symbols))
           /\ Replaced(new, symbols, j, id)
    BY <1>0, <2>3, <2>4, ReplacedPair, Zenon
  <2>6. symbols' = new
    BY <2>3, <2>5, Zenon
  <2>7. symbols' \in Seq(SymbolIds) /\ Len(symbols') = Len(symbols) - 1
    BY <2>5, <2>6 DEF Replaced
  <2>8. Len(symbols') <= Len(text)
    BY <1>0, <2>7 DEF EncodeInv
  <2>. QED BY <2>1, <2>2, <2>7, <2>8 DEF EncodeInv
<1>7. CASE Emit
  <2>1. /\ pc = "emit" /\ pc' = "chunk" /\ text' = text /\ maxTokens' = maxTokens
        /\ chunks' = chunks /\ c' = c /\ symbols' = symbols /\ d' = d /\ decoded' = decoded
        /\ nTokens' = nTokens /\ model' = model
    BY <1>7 DEF Emit, init, input, cut, dec
  <2>2. SymbolIds' = SymbolIds
    BY <2>1 DEF SymbolIds
  <2>3. PICK n \in 0..Len(symbols) : /\ tokens' = tokens \o SubSeq(symbols, 1, n)
                                     /\ Len(tokens) + n <= maxTokens
    BY <1>7, EmitFacts
  <2>4. PICK t : t = SubSeq(symbols, 1, n)
    OBVIOUS
  <2>5. t \in Seq(SymbolIds) /\ Len(t) = n
    BY <1>0, <2>4
  <2>6. tokens' = tokens \o t
    BY <2>3, <2>4
  <2>7. tokens' \in Seq(SymbolIds) /\ Len(tokens') = Len(tokens) + n
    BY <1>0, <2>5, <2>6
  <2>8. d' \in 0..Len(tokens')
    BY <1>0, <2>1, <2>7 DEF EncodeInv
  <2>. QED BY <2>1, <2>2, <2>3, <2>7, <2>8 DEF EncodeInv
<1>8. CASE DecodeOne
  <2>1. /\ pc = "decode" /\ pc' = pc /\ text' = text /\ maxTokens' = maxTokens
        /\ chunks' = chunks /\ c' = c /\ symbols' = symbols /\ tokens' = tokens
        /\ d < Len(tokens) /\ d' = d + 1 /\ nTokens' = nTokens /\ model' = model
    BY <1>8 DEF DecodeOne, init, input, cut, enc
  <2>2. SymbolIds' = SymbolIds
    BY <2>1 DEF SymbolIds
  <2>3. d' \in 0..Len(tokens')
    BY <1>0, <2>1 DEF EncodeInv
  <2>. QED BY <2>1, <2>2, <2>3 DEF EncodeInv
<1>. QED BY <1>1, <1>2, <1>3, <1>4, <1>5, <1>6, <1>7, <1>8 DEF Step

THEOREM EncodeInvariance == Spec => []EncodeInv
<1>1. Init => EncodeInv
  BY TokenizerAssumption, EncodeInit
<1>2. TablesInv /\ ChunkInv /\ EncodeInv /\ [Step]_vars => EncodeInv'
  BY TokenizerAssumption, LookupAssumption, EncodeStep
<1>. QED BY <1>1, <1>2, TablesInvariance, ChunkInvariance, PTL DEF Spec

(* Every variable keeps its type, whatever the vocabulary, the merges and    *)
(* the text: chunks, symbols and tokens fit into their arrays              *)
(* (tokenizer.c:327-412).                                                  *)
THEOREM TypeCorrect == Spec => []TypeOK
<1>1. ASSUME TokenizerAssumption, TablesInv, ChunkInv, EncodeInv PROVE TypeOK
  <2>1. /\ text \in Seq(Bytes) /\ Len(text) \in Nat /\ i \in 1..Len(text)+1
        /\ chunks \in Seq(Pieces) /\ Len(chunks) \in Nat /\ Len(chunks) <= i - 1
    BY <1>1 DEF ChunkInv
  <2>2. chunks \in Seq([start : 1..Len(text), len : 1..Len(text)])
    <3>1. ASSUME NEW k \in 1..Len(chunks)
          PROVE  chunks[k] \in [start : 1..Len(text), len : 1..Len(text)]
      <4>1. chunks[k] \in Pieces
        BY <2>1
      <4>2. PICK x \in Nat, y \in Nat : chunks[k] = [start |-> x, len |-> y]
        BY <4>1 DEF Pieces
      <4>3. x >= 1 /\ y >= 1 /\ x + y <= i
        BY <1>1, <4>2 DEF ChunkInv, ChunksCover, Next1
      <4>4. x \in 1..Len(text) /\ y \in 1..Len(text)
        BY <2>1, <4>3
      <4>. QED BY <4>2, <4>4
    <3>. QED BY <2>1, <3>1, SeqOf
  <2>3. Len(chunks) <= Len(text) + 2 /\ Len(symbols) <= Len(text) + 2
    <3>1. symbols \in Seq(SymbolIds) /\ Len(symbols) <= Len(text) /\ Len(symbols) \in Nat
      BY <1>1 DEF EncodeInv
    <3>. QED BY <2>1, <3>1
  <2>4. /\ model \in Models /\ nTokens \in 0..Len(model.tokens)
        /\ hashTable \in [Hashes -> 1..nTokens \cup {None}]
        /\ mergeTable \in [Hashes -> 1..Len(pairs) \cup {None}]
        /\ pairs \in Seq((1..nTokens \cup {None}) \X (1..nTokens \cup {None}))
    BY <1>1 DEF TablesInv, IsTable, Ids
  <2>5. /\ pc \in {"vocab", "cut", "chunk", "merge", "emit", "decode", "done"}
        /\ text \in Texts \cup {<<>>} /\ maxTokens \in Nat \ {0}
        /\ c \in 0..Len(chunks)
        /\ symbols \in Seq(1..nTokens \cup {UnkId})
        /\ tokens \in Seq(1..nTokens \cup {UnkId}) /\ Len(tokens) <= maxTokens
        /\ d \in 0..Len(tokens)
    BY <1>1 DEF EncodeInv, SymbolIds
  <2>. QED BY <2>1, <2>2, <2>3, <2>4, <2>5 DEF TypeOK
<1>. QED BY <1>1, TokenizerAssumption, TablesInvariance, ChunkInvariance, EncodeInvariance, PTL

-----------------------------------------------------------------------------
(* What the tokens spell.                                                  *)

(* The ids of seq spell the text behind s[0], the k-th of them up to s[k].  *)
Splits(seq) == [0..Len(seq) -> 0..Len(text)]
Spells(seq, s) ==
    \A k \in 1..Len(seq) :
        /\ seq[k] \in 1..nTokens /\ s[k - 1] <= s[k]
        /\ model.tokens[seq[k]] = SubSeq(text, s[k - 1] + 1, s[k])

Spelled(seq, a, b) == \E s \in Splits(seq) : Spells(seq, s) /\ s[0] = a /\ s[Len(seq)] = b

BytesNamed ==
    \A k \in 1..Len(text) : \E id \in 1..Len(model.tokens) : model.tokens[id] = <<text[k]>>
Decodable ==
    /\ \A k \in 1..Len(text) : text[k] # Byte255
    /\ \A id \in 1..nTokens : Len(model.tokens[id]) \in Fits(model.tokens[id])

SymbolsSpell ==
    pc \in {"merge", "emit"} /\ BytesNamed => Spelled(symbols, Behind(c - 1), Behind(c))

(* Until the array is full, the tokens spell the chunks that are done.     *)
TokensAt(p, e, tk, n, out, s) ==
    /\ Spells(tk, s) /\ s[0] = 0
    /\ p \in {"merge", "emit"} => s[Len(tk)] = Behind(e - 1)
    /\ p = "chunk" /\ Len(tk) < maxTokens => s[Len(tk)] = Behind(e)
    /\ p \in {"decode", "done"} /\ Len(tk) < maxTokens => s[Len(tk)] = Len(text)
    /\ Decodable => out = SubSeq(text, 1, s[n])
TokensSpell ==
    pc # "vocab" /\ BytesNamed =>
        \E s \in Splits(tokens) : TokensAt(pc, c, tokens, d, decoded, s)

SpellInv == SymbolsSpell /\ TokensSpell

(* The elements behind position a, up to position b.                       *)
LEMMA SubSeqBehind ==
    ASSUME NEW S, NEW t \in Seq(S), NEW a \in Nat, NEW b \in Nat, a <= b, b <= Len(t)
    PROVE  /\ SubSeq(t, a + 1, b) \in Seq(S) /\ Len(SubSeq(t, a + 1, b)) = b - a
           /\ \A k \in 1..b-a : SubSeq(t, a + 1, b)[k] = t[a + k]
<1>1. PICK f \in Nat : f = a + 1
  OBVIOUS
<1>2. f >= 1 /\ f <= b + 1 /\ b - f + 1 = b - a /\ \A k \in 1..b-a : f + k - 1 = a + k
  BY <1>1
<1>3. /\ SubSeq(t, f, b) \in Seq(S) /\ Len(SubSeq(t, f, b)) = b - f + 1
      /\ \A k \in 1..b-f+1 : SubSeq(t, f, b)[k] = t[f + k - 1]
  BY <1>2, SubSeqFacts
<1>4. PICK x : x = SubSeq(t, f, b)
  OBVIOUS
<1>5. x \in Seq(S) /\ Len(x) = b - a /\ \A k \in 1..b-a : x[k] = t[a + k]
  BY <1>2, <1>3, <1>4, Zenon
<1>6. x = SubSeq(t, a + 1, b)
  BY <1>1, <1>4, Zenon
<1>. QED BY <1>5, <1>6, Zenon

LEMMA SubSeqJoin ==
    ASSUME NEW S, NEW t \in Seq(S), NEW a \in Nat, NEW b \in Nat, NEW e \in Nat,
           a <= b, b <= e, e <= Len(t)
    PROVE  SubSeq(t, a + 1, b) \o SubSeq(t, b + 1, e) = SubSeq(t, a + 1, e)
<1>1. PICK x, y, z : x = SubSeq(t, a + 1, b) /\ y = SubSeq(t, b + 1, e) /\ z = SubSeq(t, a + 1, e)
  OBVIOUS
<1>2. /\ x \in Seq(S) /\ Len(x) = b - a
      /\ \A k \in 1..b-a : x[k] = t[a + k]
  <2>1. a <= b /\ b <= Len(t)
    OBVIOUS
  <2>. QED BY <1>1, <2>1, SubSeqBehind
<1>3. /\ y \in Seq(S) /\ Len(y) = e - b
      /\ \A k \in 1..e-b : y[k] = t[b + k]
  <2>1. b <= e /\ e <= Len(t)
    OBVIOUS
  <2>. QED BY <1>1, <2>1, SubSeqBehind
<1>4. /\ z \in Seq(S) /\ Len(z) = e - a
      /\ \A k \in 1..e-a : z[k] = t[a + k]
  <2>1. a <= e /\ e <= Len(t)
    OBVIOUS
  <2>. QED BY <1>1, <2>1, SubSeqBehind
<1>5. PICK w : w = x \o y
  OBVIOUS
<1>6. w \in Seq(S) /\ IsConcat(w, x, b - a, y, e - b)
  BY <1>2, <1>3, <1>5, ConcatFacts, Zenon
<1>7. Len(w) = e - a
  <2>1. b - a + (e - b) = e - a
    OBVIOUS
  <2>. QED BY <1>6, <2>1 DEF IsConcat
<1>8. ASSUME NEW k \in 1..e-a PROVE w[k] = z[k]
  <2>1. CASE k <= b - a
    <3>1. k \in 1..b-a
      BY <2>1
    <3>. QED BY <1>2, <1>4, <1>6, <3>1 DEF IsConcat
  <2>2. CASE k > b - a
    <3>1. PICK l \in 1..e-b : k = b - a + l
      <4>1. k - (b - a) \in 1..e-b /\ k = b - a + (k - (b - a))
        BY <2>2
      <4>. QED BY <4>1
    <3>2. w[k] = y[l]
      BY <1>6, <3>1 DEF IsConcat
    <3>3. b + l = a + k
      BY <3>1
    <3>4. y[l] = t[b + l] /\ z[k] = t[a + k]
      BY <1>3, <1>4
    <3>. QED BY <3>2, <3>3, <3>4
  <2>. QED BY <2>1, <2>2
<1>9. w = z
  BY <1>4, <1>6, <1>7, <1>8, SeqEqual
<1>. QED BY <1>1, <1>5, <1>9

(* A byte that has a token is encoded as one.                              *)
LEMMA ByteIdNames ==
    ASSUME TokenizerAssumption, TablesInv, nTokens = Len(model.tokens),
           NEW b, NEW id \in 1..Len(model.tokens), model.tokens[id] = <<b>>
    PROVE  ByteId(b) \in 1..nTokens /\ model.tokens[ByteId(b)] = <<b>>
<1>1. PICK w, f : w = Named(<<b>>) /\ f = TokenFind(<<b>>)
  OBVIOUS
<1>2. id \in w /\ w \in SUBSET Nat /\ w \subseteq 1..nTokens
  BY <1>1 DEF Named
<1>3. f = First(w)
  <2>1. FindsName(id)
    BY DEF TablesInv
  <2>2. Finds(hashTable, TokenHash(<<b>>), w)
    BY <1>1, <2>1 DEF FindsName
  <2>. QED BY <1>1, <2>2 DEF Finds, TokenFind
<1>4. f \in w
  BY <1>2, <1>3, FirstFacts
<1>5. f \in 1..nTokens /\ model.tokens[f] = <<b>>
  BY <1>1, <1>4 DEF Named
<1>6. f # None
  BY <1>5 DEF TokenizerAssumption
<1>. QED BY <1>1, <1>5, <1>6 DEF ByteId

(* The symbols of a chunk, before any merge, spell it.                     *)
(* t is the text behind a, up to b.                                        *)
TextPart(t, a, b) ==
    t \in Seq(Bytes) /\ Len(t) = b - a /\ \A k \in 1..b-a : t[k] = text[a + k]

LEMMA TextPartIs ==
    ASSUME text \in Seq(Bytes), NEW a \in Nat, NEW b \in Nat, a <= b, b <= Len(text),
           NEW t, t = SubSeq(text, a + 1, b)
    PROVE  TextPart(t, a, b)
<1>1. /\ SubSeq(text, a + 1, b) \in Seq(Bytes) /\ Len(SubSeq(text, a + 1, b)) = b - a
      /\ \A k \in 1..b-a : SubSeq(text, a + 1, b)[k] = text[a + k]
  BY SubSeqBehind
<1>. QED BY <1>1, Zenon DEF TextPart

LEMMA TextBegins ==
    ASSUME text \in Seq(Bytes), NEW a \in Nat, NEW b \in Nat, a <= b, b <= Len(text)
    PROVE  SubSeq(text, 1, a) \o SubSeq(text, a + 1, b) = SubSeq(text, 1, b)
<1>1. PICK z \in Nat : z = 0
  OBVIOUS
<1>2. z <= a /\ z + 1 = 1
  BY <1>1
<1>3. SubSeq(text, z + 1, a) \o SubSeq(text, a + 1, b) = SubSeq(text, z + 1, b)
  BY <1>2, SubSeqJoin
<1>. QED BY <1>2, <1>3, Zenon

LEMMA WithinText ==
    ASSUME NEW a \in Nat, NEW b \in Nat, NEW l \in Nat, a <= b, b <= l, NEW k \in 1..b-a
    PROVE  a + k \in 1..l
OBVIOUS

LEMMA TextJoins ==
    ASSUME text \in Seq(Bytes), NEW a \in Nat, NEW b \in Nat, NEW e \in Nat,
           a <= b, b <= e, e <= Len(text)
    PROVE  SubSeq(text, a + 1, b) \o SubSeq(text, b + 1, e) = SubSeq(text, a + 1, e)
BY SubSeqJoin

(* s is a way of n steps from a to b.                                      *)
Leads(s, n, l, a, b) == s \in [0..n -> 0..l] /\ s[0] = a /\ s[n] = b

LEMMA OneByOne ==
    ASSUME NEW a \in Nat, NEW b \in Nat, NEW l \in Nat, a <= b, b <= l,
           NEW n \in Nat, n = b - a, NEW s, s = [k \in 0..n |-> a + k]
    PROVE  Leads(s, n, l, a, b)
<1>1. (\A k \in 0..n : a + k \in 0..l) /\ 0 \in 0..n /\ n \in 0..n /\ a + 0 = a /\ a + n = b
  OBVIOUS
<1>. QED BY <1>1 DEF Leads

LEMMA BytesSpell ==
    ASSUME TokenizerAssumption, TablesInv, nTokens = Len(model.tokens), BytesNamed,
           text \in Seq(Bytes), NEW a \in Nat, NEW b \in Nat, a <= b, b <= Len(text),
           NEW t \in Seq(Bytes), t = SubSeq(text, a + 1, b), NEW seq, seq = ByteIds(t)
    PROVE  Spelled(seq, a, b)
<1>1. PICK n \in Nat : n = b - a
  OBVIOUS
<1>2. Len(text) \in Nat /\ Len(t) = n /\ \A k \in 1..n : t[k] = text[a + k]
  BY <1>1, SubSeqBehind
<1>3. /\ seq = [k \in 1..n |-> ByteId(t[k])]
  BY <1>2 DEF ByteIds
<1>4. ASSUME NEW k \in 1..n
      PROVE  /\ seq[k] \in 1..nTokens
             /\ model.tokens[seq[k]] = SubSeq(text, a + k, a + k)
  <2>1. a + k \in 1..Len(text)
    <3>1. k \in 1..b-a
      BY <1>1, Zenon
    <3>. QED BY <1>2, <3>1, WithinText, Zenon
  <2>2. PICK id \in 1..Len(model.tokens) : model.tokens[id] = <<text[a + k]>>
    BY <2>1 DEF BytesNamed
  <2>3. PICK x : x = text[a + k]
    OBVIOUS
  <2>4. ByteId(x) \in 1..nTokens /\ model.tokens[ByteId(x)] = <<x>>
    BY <2>2, <2>3, ByteIdNames
  <2>5. seq[k] = ByteId(x)
    BY <1>2, <1>3, <2>3
  <2>6. SubSeq(text, a + k, a + k) = <<x>>
    <3>1. PICK z : z = SubSeq(text, a + k, a + k)
      OBVIOUS
    <3>2. a + k \in Nat /\ a + k >= 1 /\ a + k <= a + k + 1 /\ a + k - (a + k) + 1 = 1
          /\ a + k + 1 - 1 = a + k /\ 1 \in 1..1
      OBVIOUS
    <3>3. z \in Seq(Bytes) /\ Len(z) = 1 /\ z[1] = x
      BY <2>1, <2>3, <3>1, <3>2, SubSeqFacts
    <3>4. x \in Bytes
      BY <2>1, <2>3
    <3>5. <<x>> \in Seq(Bytes) /\ Len(<<x>>) = 1 /\ <<x>>[1] = x
      BY <3>4
    <3>6. z = <<x>>
      BY <3>3, <3>5, SeqEqual
    <3>. QED BY <3>1, <3>6
  <2>. QED BY <2>4, <2>5, <2>6
<1>5. Len(seq) = n
  BY <1>3
<1>6. PICK s : s = [k \in 0..n |-> a + k]
  OBVIOUS
<1>7. s \in Splits(seq) /\ s[0] = a /\ s[Len(seq)] = b
  <2>1. Leads(s, n, Len(text), a, b)
    BY <1>1, <1>2, <1>6, OneByOne, Zenon
  <2>. QED BY <1>5, <2>1, Zenon DEF Leads, Splits
<1>8. ASSUME NEW k \in 1..n
      PROVE  /\ seq[k] \in 1..nTokens /\ s[k - 1] <= s[k]
             /\ model.tokens[seq[k]] = SubSeq(text, s[k - 1] + 1, s[k])
  <2>1. s[k] = a + k /\ s[k - 1] + 1 = a + k /\ s[k - 1] <= s[k]
    BY <1>6
  <2>. QED BY <1>4, <2>1
<1>9. Spells(seq, s)
  BY <1>5, <1>8 DEF Spells
<1>. QED BY <1>7, <1>9 DEF Spelled

(* A merge spells what the pair did.                                       *)
LEMMA MergeSpells ==
    ASSUME text \in Seq(Bytes), NEW S, NEW seq \in Seq(S), NEW u, NEW v, Spelled(seq, u, v),
           NEW j \in Nat, 1 <= j, j < Len(seq), NEW id \in 1..nTokens,
           model.tokens[id] = model.tokens[seq[j]] \o model.tokens[seq[j + 1]],
           NEW new, Replaced(new, seq, j, id)
    PROVE  Spelled(new, u, v)
<1>0. PICK s \in Splits(seq) : Spells(seq, s) /\ s[0] = u /\ s[Len(seq)] = v
  BY DEF Spelled
<1>1. PICK n \in Nat : n = Len(seq) /\ j < n
  OBVIOUS
<1>2. PICK z : z = [k \in 0..n-1 |-> IF k < j THEN s[k] ELSE s[k + 1]]
  OBVIOUS
<1>3. s \in [0..n -> 0..Len(text)] /\ Len(text) \in Nat
  BY <1>1 DEF Splits
<1>4. Len(new) = n - 1
  BY <1>1 DEF Replaced
<1>5. z \in Splits(new) /\ z[0] = s[0] /\ z[Len(new)] = s[n]
  <2>1. ASSUME NEW k \in 0..n-1 PROVE k \in 0..n /\ k + 1 \in 0..n
    BY <1>1
  <2>2. z \in [0..n-1 -> 0..Len(text)]
    BY <1>2, <1>3, <2>1
  <2>3. 0 \in 0..n-1 /\ n - 1 \in 0..n-1 /\ 0 < j /\ ~(n - 1 < j) /\ n - 1 + 1 = n
    BY <1>1
  <2>4. z[0] = s[0] /\ z[n - 1] = s[n]
    BY <1>2, <2>3
  <2>. QED BY <1>4, <2>2, <2>4 DEF Splits
<1>6. ASSUME NEW k \in 1..n-1
      PROVE  /\ new[k] \in 1..nTokens /\ z[k - 1] <= z[k]
             /\ model.tokens[new[k]] = SubSeq(text, z[k - 1] + 1, z[k])
  <2>0. new[k] = IF k < j THEN seq[k] ELSE IF k = j THEN id ELSE seq[k + 1]
    BY <1>1 DEF Replaced
  <2>1. /\ k - 1 \in 0..n-1 /\ k \in 0..n-1 /\ k \in 1..n /\ k + 1 \in 1..n
        /\ k - 1 + 1 = k /\ k + 1 - 1 = k
    <3>1. k \in Nat /\ n \in Nat /\ 1 <= k /\ k <= n - 1
      BY <1>1
    <3>. QED BY <3>1
  <2>2. CASE k < j
    <3>1. k - 1 < j
      BY <2>2
    <3>2. z[k - 1] = s[k - 1] /\ z[k] = s[k] /\ new[k] = seq[k]
      BY <1>2, <2>0, <2>1, <2>2, <3>1
    <3>3. /\ seq[k] \in 1..nTokens /\ s[k - 1] <= s[k]
          /\ model.tokens[seq[k]] = SubSeq(text, s[k - 1] + 1, s[k])
      BY <1>0, <1>1, <2>1 DEF Spells
    <3>. QED BY <3>2, <3>3
  <2>3. CASE k = j
    <3>1. j - 1 < j /\ ~(j < j)
      OBVIOUS
    <3>2. z[k - 1] = s[j - 1] /\ z[k] = s[j + 1] /\ new[k] = id
      BY <1>2, <2>0, <2>1, <2>3, <3>1
    <3>3. PICK a, b, e : a = s[j - 1] /\ b = s[j] /\ e = s[j + 1]
      OBVIOUS
    <3>4. a \in 0..Len(text) /\ b \in 0..Len(text) /\ e \in 0..Len(text)
      <4>1. j - 1 \in 0..n /\ j \in 0..n /\ j + 1 \in 0..n
        BY <2>1, <2>3
      <4>. QED BY <1>3, <3>3, <4>1
    <3>5. a <= b /\ model.tokens[seq[j]] = SubSeq(text, a + 1, b)
      BY <1>0, <1>1, <2>1, <2>3, <3>3 DEF Spells
    <3>6. b <= e /\ model.tokens[seq[j + 1]] = SubSeq(text, b + 1, e)
      <4>1. PICK m : m = j + 1
        OBVIOUS
      <4>2. m \in 1..n /\ m - 1 = j
        BY <2>1, <2>3, <4>1
      <4>3. s[m - 1] <= s[m] /\ model.tokens[seq[m]] = SubSeq(text, s[m - 1] + 1, s[m])
        BY <1>0, <1>1, <4>2 DEF Spells
      <4>. QED BY <3>3, <4>1, <4>2, <4>3
    <3>7. a \in Nat /\ b \in Nat /\ e \in Nat /\ e <= Len(text) /\ a <= e
      BY <1>3, <3>4, <3>5, <3>6
    <3>8. SubSeq(text, a + 1, b) \o SubSeq(text, b + 1, e) = SubSeq(text, a + 1, e)
      BY <3>5, <3>6, <3>7, TextJoins, Zenon
    <3>9. model.tokens[id] = SubSeq(text, a + 1, e)
      BY <3>5, <3>6, <3>8, Zenon
    <3>. QED BY <3>2, <3>3, <3>7, <3>9
  <2>4. CASE k > j
    <3>1. ~(k - 1 < j) /\ ~(k < j) /\ k # j
      BY <2>4
    <3>2. z[k - 1] = s[k] /\ z[k] = s[k + 1] /\ new[k] = seq[k + 1]
      BY <1>2, <2>0, <2>1, <3>1
    <3>3. PICK m : m = k + 1
      OBVIOUS
    <3>4. m \in 1..n /\ m - 1 = k
      BY <2>1, <3>3
    <3>5. /\ seq[m] \in 1..nTokens /\ s[m - 1] <= s[m]
          /\ model.tokens[seq[m]] = SubSeq(text, s[m - 1] + 1, s[m])
      BY <1>0, <1>1, <3>4 DEF Spells
    <3>. QED BY <3>2, <3>3, <3>4, <3>5
  <2>. QED BY <2>2, <2>3, <2>4
<1>7. Spells(new, z)
  BY <1>4, <1>6 DEF Spells
<1>. QED BY <1>0, <1>1, <1>5, <1>7 DEF Spelled

(* Symbols that begin where the tokens end are appended to them.           *)
Extended(new, u, n, ids, w) == \E x : Spelled(new, u, x) /\ (n = Len(ids) => x = w)

LEMMA AppendSpells ==
    ASSUME text \in Seq(Bytes), NEW seq \in Seq(SymbolIds), NEW ids \in Seq(SymbolIds),
           NEW u, NEW v, NEW w, Spelled(seq, u, v), Spelled(ids, v, w),
           NEW n \in 0..Len(ids), NEW new, new = seq \o SubSeq(ids, 1, n)
    PROVE  Extended(new, u, n, ids, w)
<1>0. PICK s \in Splits(seq) : Spells(seq, s) /\ s[0] = u /\ s[Len(seq)] = v
  BY DEF Spelled
<1>00. PICK r \in Splits(ids) : Spells(ids, r) /\ r[0] = v /\ r[Len(ids)] = w
  BY DEF Spelled
<1>1. PICK l \in Nat : l = Len(seq)
  OBVIOUS
<1>2. n \in Nat /\ Len(ids) \in Nat /\ n <= Len(ids)
  OBVIOUS
<1>3. PICK t : t = SubSeq(ids, 1, n)
  OBVIOUS
<1>4. t \in Seq(SymbolIds) /\ Len(t) = n /\ \A k \in 1..n : t[k] = ids[k]
  <2>1. /\ 1 \in Nat /\ 1 >= 1 /\ 1 <= n + 1 /\ n - 1 + 1 = n
        /\ \A k \in 1..n : 1 + k - 1 = k
    BY <1>2
  <2>. QED BY <1>2, <1>3, <2>1, SubSeqFacts
<1>5. IsConcat(new, seq, l, t, n)
  <2>1. IsConcat(seq \o t, seq, l, t, n)
    BY <1>1, <1>4, ConcatFacts, Zenon
  <2>. QED BY <1>3, <2>1
<1>6. PICK z : z = [k \in 0..l+n |-> IF k <= l THEN s[k] ELSE r[k - l]]
  OBVIOUS
<1>7. /\ s \in [0..l -> 0..Len(text)] /\ r \in [0..Len(ids) -> 0..Len(text)]
  BY <1>1 DEF Splits
<1>8. Len(new) = l + n
  BY <1>5 DEF IsConcat
<1>9. ASSUME NEW k \in l..l+n PROVE z[k] = r[k - l] /\ k - l \in 0..Len(ids)
  <2>1. k \in 0..l+n /\ k - l \in 0..Len(ids)
    BY <1>2
  <2>2. CASE k = l
    <3>1. k - l = 0 /\ k <= l
      BY <2>2
    <3>2. z[k] = s[l]
      BY <1>6, <2>1, <2>2, <3>1
    <3>. QED BY <1>0, <1>00, <1>1, <2>1, <3>1, <3>2
  <2>3. CASE k # l
    <3>1. ~(k <= l)
      BY <2>3
    <3>. QED BY <1>6, <2>1, <3>1
  <2>. QED BY <2>2, <2>3
<1>10. z \in Splits(new) /\ z[0] = s[0] /\ z[Len(new)] = r[n]
  <2>1. ASSUME NEW k \in 0..l+n PROVE (IF k <= l THEN s[k] ELSE r[k - l]) \in 0..Len(text)
    <3>1. CASE k <= l
      <4>1. k \in 0..l
        BY <3>1
      <4>. QED BY <1>7, <3>1, <4>1
    <3>2. CASE ~(k <= l)
      <4>1. k - l \in 0..Len(ids)
        BY <1>2, <3>2
      <4>. QED BY <1>7, <3>2, <4>1
    <3>. QED BY <3>1, <3>2
  <2>2. z \in [0..l+n -> 0..Len(text)]
    BY <1>6, <2>1
  <2>3. 0 \in 0..l+n /\ 0 <= l /\ l + n \in l..l+n /\ l + n - l = n
    BY <1>2
  <2>4. z[0] = s[0]
    BY <1>6, <2>3
  <2>5. z[l + n] = r[n]
    <3>1. PICK e : e = l + n
      OBVIOUS
    <3>2. z[e] = r[e - l] /\ e - l = n
      BY <1>9, <2>3, <3>1
    <3>. QED BY <3>1, <3>2
  <2>. QED BY <1>8, <2>2, <2>4, <2>5 DEF Splits
<1>11. ASSUME NEW k \in 1..l+n
       PROVE  /\ new[k] \in 1..nTokens /\ z[k - 1] <= z[k]
              /\ model.tokens[new[k]] = SubSeq(text, z[k - 1] + 1, z[k])
  <2>1. CASE k <= l
    <3>1. k \in 1..l /\ k \in 0..l+n /\ k - 1 \in 0..l+n /\ k - 1 <= l
      BY <1>2, <2>1
    <3>2. z[k] = s[k] /\ z[k - 1] = s[k - 1]
      BY <1>6, <2>1, <3>1
    <3>3. new[k] = seq[k]
      BY <1>5, <3>1 DEF IsConcat
    <3>4. /\ seq[k] \in 1..nTokens /\ s[k - 1] <= s[k]
          /\ model.tokens[seq[k]] = SubSeq(text, s[k - 1] + 1, s[k])
      BY <1>0, <1>1, <3>1 DEF Spells
    <3>. QED BY <3>2, <3>3, <3>4
  <2>2. CASE ~(k <= l)
    <3>1. PICK m \in 1..n : k = l + m
      <4>1. k - l \in 1..n /\ k = l + (k - l)
        BY <1>2, <2>2
      <4>. QED BY <4>1
    <3>2. /\ k \in l..l+n /\ k - 1 \in l..l+n /\ k - l = m /\ k - 1 - l = m - 1
          /\ m \in 1..Len(ids)
      BY <1>2, <3>1
    <3>3. z[k] = r[m] /\ z[k - 1] = r[m - 1]
      <4>1. z[k] = r[k - l] /\ z[k - 1] = r[k - 1 - l]
        BY <1>9, <3>2
      <4>. QED BY <3>2, <4>1
    <3>4. new[k] = ids[m]
      <4>1. new[l + m] = t[m]
        BY <1>5 DEF IsConcat
      <4>. QED BY <1>4, <3>1, <4>1
    <3>5. /\ ids[m] \in 1..nTokens /\ r[m - 1] <= r[m]
          /\ model.tokens[ids[m]] = SubSeq(text, r[m - 1] + 1, r[m])
      BY <1>00, <3>2 DEF Spells
    <3>. QED BY <3>3, <3>4, <3>5
  <2>. QED BY <2>1, <2>2
<1>12. Spells(new, z)
  BY <1>8, <1>11 DEF Spells
<1>13. Spelled(new, u, r[n])
  BY <1>0, <1>10, <1>12 DEF Spelled
<1>. QED BY <1>00, <1>13 DEF Extended

(* A token without byte 255 that fits into the buffer is decoded to its     *)
(* text.                                                                   *)
LEMMA TokenDecodeIs ==
    ASSUME NEW S, NEW t \in Seq(S), NEW id \in 1..nTokens, model.tokens[id] = t,
           Len(t) \in Fits(t), \A k \in 1..Len(t) : t[k] # Byte255
    PROVE  TokenDecode(id) = t
<1>1. Last(Fits(t)) = Len(t)
  <2>1. Fits(t) \in SUBSET Nat /\ Len(t) \in Nat /\ \A y \in Fits(t) : Len(t) >= y
    BY DEF Fits
  <2>. QED BY <2>1, LastIs
<1>2. TokenDecode(id) = [a \in 1..Last(Fits(t)) |-> Raw(t[a])]
  BY DEF TokenDecode
<1>3. TokenDecode(id) = [a \in 1..Len(t) |-> Raw(t[a])]
  BY <1>1, <1>2
<1>4. [a \in 1..Len(t) |-> Raw(t[a])] = [a \in 1..Len(t) |-> t[a]]
  BY DEF Raw
<1>5. [a \in 1..Len(t) |-> t[a]] = t
  OBVIOUS
<1>. QED BY <1>3, <1>4, <1>5

(* What the next state spells, given its tokens and its symbols.           *)
LEMMA NextSpells ==
    ASSUME UNCHANGED <<text, maxTokens, model, nTokens, chunks>>,
           NEW p, p = pc', NEW e, e = c', NEW tk, tk = tokens', NEW sy, sy = symbols',
           NEW n, n = d', NEW out, out = decoded',
           BytesNamed => \E s \in Splits(tk) : TokensAt(p, e, tk, n, out, s),
           BytesNamed /\ p \in {"merge", "emit"} => Spelled(sy, Behind(e - 1), Behind(e))
    PROVE  SpellInv'
<1>1. /\ BytesNamed' <=> BytesNamed
      /\ Decodable' <=> Decodable
  BY DEF BytesNamed, Decodable, Fits, RawLen
<1>2. \A k : Behind(k)' = Behind(k)
  BY DEF Behind, Next1
<1>3. \A seq : Splits(seq)' = Splits(seq)
  BY DEF Splits
<1>4. \A seq, s : Spells(seq, s)' <=> Spells(seq, s)
  BY DEF Spells
<1>5. SymbolsSpell'
  <2>1. ASSUME pc' \in {"merge", "emit"}, BytesNamed'
        PROVE  Spelled(sy, Behind(e - 1), Behind(e))'
    BY <1>1, <1>2, <1>3, <1>4, <2>1 DEF Spelled
  <2>. QED BY <2>1 DEF SymbolsSpell, Spelled, Splits, Spells, Behind, Next1
<1>6. TokensSpell'
  <2>1. ASSUME BytesNamed'
        PROVE  \E s \in Splits(tk)' : TokensAt(p, e, tk, n, out, s)'
    <3>1. \A s : TokensAt(p, e, tk, n, out, s)' <=> TokensAt(p, e, tk, n, out, s)
      BY <1>1, <1>2, <1>4 DEF TokensAt
    <3>. QED BY <1>1, <1>3, <2>1, <3>1
  <2>. QED BY <2>1 DEF TokensSpell, TokensAt, Splits, Spells, Behind, Next1
<1>. QED BY <1>5, <1>6 DEF SpellInv

(* Before the first chunk there is nothing to spell.                       *)
LEMMA CutSpells ==
    ASSUME pc' = "cut", text' \in Seq(Bytes),
           tokens' = <<>>, d' = 0, decoded' = <<>>
    PROVE  SpellInv'
<1>1. SymbolsSpell'
  BY DEF SymbolsSpell
<1>2. PICK s : s = [k \in 0..0 |-> 0]
  OBVIOUS
<1>3. Len(text') \in Nat
  OBVIOUS
<1>4. s \in [0..0 -> 0..Len(text')] /\ s[0] = 0
  BY <1>2, <1>3
<1>5. s \in Splits(<<>>)'
  BY <1>4 DEF Splits
<1>6. SubSeq(text', 1, 0) = <<>>
  OBVIOUS
<1>7. TokensAt("cut", c, <<>>, 0, <<>>, s)'
  BY <1>4, <1>6 DEF TokensAt, Spells
<1>8. TokensSpell'
  BY <1>5, <1>7 DEF TokensSpell, TokensAt, Spells, Splits
<1>. QED BY <1>1, <1>8 DEF SpellInv

LEMMA SpellStep ==
    ASSUME TokenizerAssumption, LookupAssumption, TablesInv, ChunkInv, EncodeInv, SpellInv,
           [Step]_vars
    PROVE  SpellInv'
<1>0. /\ text \in Seq(Bytes) /\ Len(text) \in Nat
      /\ symbols \in Seq(SymbolIds) /\ tokens \in Seq(SymbolIds)
      /\ Len(symbols) \in Nat /\ Len(tokens) \in Nat
      /\ chunks \in Seq(Pieces) /\ Len(chunks) \in Nat /\ maxTokens \in Nat
  BY DEF ChunkInv, EncodeInv
<1>1. CASE InsertToken \/ InsertMerge
  <2>1. pc' = "vocab"
    BY <1>1 DEF InsertToken, InsertMerge
  <2>. QED BY <2>1 DEF SpellInv, SymbolsSpell, TokensSpell
<1>2. CASE Encode
  <2>1. /\ pc = "vocab" /\ pc' = "cut" /\ text' \in Texts
        /\ tokens' = tokens /\ d' = d /\ decoded' = decoded
    BY <1>2 DEF Encode, enc, dec
  <2>2. tokens = <<>> /\ d = 0 /\ decoded = <<>>
    BY <2>1 DEF EncodeInv
  <2>3. text' \in Seq(Bytes)
    BY <2>1 DEF TokenizerAssumption
  <2>. QED BY <2>1, <2>2, <2>3, CutSpells
<1>3. CASE CutContraction \/ CutWord \/ CutLastBlanks \/ CutBlanks
  <2>1. /\ pc = "cut" /\ pc' = pc /\ text' = text
        /\ tokens' = tokens /\ d' = d /\ decoded' = decoded
    BY <1>3 DEF CutContraction, CutWord, CutLastBlanks, CutBlanks, Cutting, input, enc, dec
  <2>2. tokens = <<>> /\ d = 0 /\ decoded = <<>>
    BY <2>1 DEF EncodeInv
  <2>. QED BY <1>0, <2>1, <2>2, CutSpells
<1>4. CASE CutEnds
  <2>1. /\ pc = "cut" /\ pc' = "chunk"
        /\ UNCHANGED <<text, maxTokens, model, nTokens, chunks>>
        /\ c' = c /\ tokens' = tokens /\ symbols' = symbols /\ d' = d /\ decoded' = decoded
    BY <1>4 DEF CutEnds, init, input, cut, enc, dec
  <2>2. c = 0 /\ Behind(0) = 0 /\ Len(tokens) = 0
    BY <2>1 DEF EncodeInv, Behind
  <2>3. ASSUME BytesNamed
        PROVE  \E s \in Splits(tokens) : TokensAt("chunk", c, tokens, d, decoded, s)
    <3>1. PICK s \in Splits(tokens) : TokensAt("cut", c, tokens, d, decoded, s)
      BY <2>1, <2>3 DEF SpellInv, TokensSpell
    <3>2. TokensAt("chunk", c, tokens, d, decoded, s)
      BY <2>2, <3>1 DEF TokensAt
    <3>. QED BY <3>2
  <2>. QED BY <2>1, <2>3, NextSpells
<1>5. CASE StartChunk
  <2>1. /\ pc = "chunk" /\ pc' = "merge" /\ c < Len(chunks) /\ c' = c + 1
        /\ Len(tokens) < maxTokens /\ symbols' = ByteIds(ChunkBytes(c + 1))
        /\ UNCHANGED <<text, maxTokens, model, nTokens, chunks>>
        /\ tokens' = tokens /\ d' = d /\ decoded' = decoded
    BY <1>5 DEF StartChunk, init, input, cut, dec
  <2>2. nTokens = Len(model.tokens) /\ c \in Nat
    BY <2>1 DEF EncodeInv
  <2>0. PICK k : k = c + 1
    OBVIOUS
  <2>3. k \in 1..Len(chunks) /\ k = c + 1 /\ k - 1 = c
    <3>1. c \in Nat /\ Len(chunks) \in Nat /\ c < Len(chunks)
      BY <1>0, <2>1, <2>2
    <3>. QED BY <2>0, <3>1
  <2>4. PICK a, b, t, sy : a = Behind(c) /\ b = Behind(k) /\ t = ChunkBytes(k) /\ sy = ByteIds(t)
    OBVIOUS
  <2>5. /\ a \in Nat /\ b \in Nat /\ a <= b /\ b <= Len(text)
        /\ t \in Seq(Bytes) /\ t = SubSeq(text, a + 1, b)
    <3>1. /\ Behind(k - 1) \in Nat /\ Behind(k) \in Nat
          /\ Behind(k - 1) < Behind(k) /\ Behind(k) <= Len(text)
          /\ ChunkBytes(k) = SubSeq(text, Behind(k - 1) + 1, Behind(k))
          /\ ChunkBytes(k) \in Seq(Bytes)
      BY <2>3, ChunkBytesFacts, Zenon
    <3>2. a = Behind(k - 1) /\ b = Behind(k) /\ t = ChunkBytes(k)
      BY <2>3, <2>4, Zenon
    <3>3. a \in Nat /\ b \in Nat /\ a < b /\ b <= Len(text)
      BY <3>1, <3>2, Zenon
    <3>4. t \in Seq(Bytes) /\ t = SubSeq(text, a + 1, b)
      BY <3>1, <3>2, Zenon
    <3>5. a <= b
      BY <3>3
    <3>. QED BY <3>3, <3>4, <3>5, Zenon
  <2>6. ASSUME BytesNamed
        PROVE  Spelled(sy, Behind(k - 1), Behind(k))
    <3>1. Spelled(sy, a, b)
      BY <1>0, <2>2, <2>4, <2>5, <2>6, BytesSpell
    <3>. QED BY <2>3, <2>4, <3>1
  <2>7. ASSUME BytesNamed
        PROVE  \E s \in Splits(tokens) : TokensAt("merge", k, tokens, d, decoded, s)
    <3>1. PICK s \in Splits(tokens) : TokensAt("chunk", c, tokens, d, decoded, s)
      BY <2>1, <2>7 DEF SpellInv, TokensSpell
    <3>2. TokensAt("merge", k, tokens, d, decoded, s)
      BY <2>1, <2>3, <3>1 DEF TokensAt
    <3>. QED BY <3>2
  <2>8. symbols' = sy /\ c' = k
    BY <2>1, <2>3, <2>4
  <2>. QED BY <2>1, <2>6, <2>7, <2>8, NextSpells
<1>6. CASE Merge
  <2>1. /\ pc = "merge" /\ pc' = "merge"
        /\ UNCHANGED <<text, maxTokens, model, nTokens, chunks>>
        /\ c' = c /\ tokens' = tokens /\ d' = d /\ decoded' = decoded
    BY <1>6 DEF Merge, init, input, cut, dec
  <2>2. PICK j \in Merging, id \in 1..nTokens :
           /\ j \in Nat /\ 1 <= j /\ j < Len(symbols)
           /\ model.tokens[id] = Joined(j)
           /\ symbols' = SubSeq(symbols, 1, j - 1) \o <<id>>
                         \o SubSeq(symbols, j + 2, Len(symbols))
    BY <1>6, MergeFacts, Zenon
  <2>3. id \in SymbolIds
    BY DEF SymbolIds
  <2>4. PICK new \in Seq(SymbolIds) :
           /\ new = SubSeq(symbols, 1, j - 1) \o <<id>> \o SubSeq(symbols, j + 2, Len(symbols))
           /\ Replaced(new, symbols, j, id)
    BY <1>0, <2>2, <2>3, ReplacedPair, Zenon
  <2>5. symbols' = new
    BY <2>2, <2>4, Zenon
  <2>6. ASSUME BytesNamed
        PROVE  Spelled(new, Behind(c - 1), Behind(c))
    <3>1. Spelled(symbols, Behind(c - 1), Behind(c))
      BY <2>1, <2>6 DEF SpellInv, SymbolsSpell
    <3>2. model.tokens[id] = model.tokens[symbols[j]] \o model.tokens[symbols[j + 1]]
      BY <2>2 DEF Joined
    <3>. QED BY <1>0, <2>2, <2>4, <3>1, <3>2, MergeSpells
  <2>7. BytesNamed => \E s \in Splits(tokens) : TokensAt("merge", c, tokens, d, decoded, s)
    BY <2>1 DEF SpellInv, TokensSpell
  <2>. QED BY <2>1, <2>5, <2>6, <2>7, NextSpells
<1>7. CASE MergeEnds
  <2>1. /\ pc = "merge" /\ pc' = "emit"
        /\ UNCHANGED <<text, maxTokens, model, nTokens, chunks>>
        /\ c' = c /\ tokens' = tokens /\ symbols' = symbols /\ d' = d /\ decoded' = decoded
    BY <1>7 DEF MergeEnds, init, input, cut, enc, dec
  <2>2. BytesNamed => Spelled(symbols, Behind(c - 1), Behind(c))
    BY <2>1 DEF SpellInv, SymbolsSpell
  <2>3. ASSUME BytesNamed
        PROVE  \E s \in Splits(tokens) : TokensAt("emit", c, tokens, d, decoded, s)
    <3>1. PICK s \in Splits(tokens) : TokensAt("merge", c, tokens, d, decoded, s)
      BY <2>1, <2>3 DEF SpellInv, TokensSpell
    <3>2. TokensAt("emit", c, tokens, d, decoded, s)
      BY <3>1 DEF TokensAt
    <3>. QED BY <3>2
  <2>. QED BY <2>1, <2>2, <2>3, NextSpells
<1>8. CASE Emit
  <2>1. /\ pc = "emit" /\ pc' = "chunk"
        /\ UNCHANGED <<text, maxTokens, model, nTokens, chunks>>
        /\ c' = c /\ symbols' = symbols /\ d' = d /\ decoded' = decoded
        /\ d = 0 /\ decoded = <<>>
    BY <1>8 DEF Emit, init, input, cut, dec, EncodeInv
  <2>2. PICK n \in 0..Len(symbols) :
           /\ tokens' = tokens \o SubSeq(symbols, 1, n)
           /\ Len(tokens) + n <= maxTokens
           /\ Len(tokens) + n < maxTokens => n = Len(symbols)
    BY <1>8, EmitFacts, Zenon
  <2>3. PICK new : new = tokens \o SubSeq(symbols, 1, n)
    OBVIOUS
  <2>4. Len(new) = Len(tokens) + n
    <3>1. PICK t : t = SubSeq(symbols, 1, n)
      OBVIOUS
    <3>2. t \in Seq(SymbolIds) /\ Len(t) = n
      BY <1>0, <3>1
    <3>. QED BY <1>0, <2>3, <3>1, <3>2
  <2>5. ASSUME BytesNamed
        PROVE  \E z \in Splits(new) : TokensAt("chunk", c, new, d, decoded, z)
    <3>1. Spelled(symbols, Behind(c - 1), Behind(c))
      BY <2>1, <2>5 DEF SpellInv, SymbolsSpell
    <3>2. PICK s \in Splits(tokens) : TokensAt("emit", c, tokens, d, decoded, s)
      BY <2>1, <2>5 DEF SpellInv, TokensSpell
    <3>3. Spelled(tokens, 0, Behind(c - 1))
      BY <3>2 DEF TokensAt, Spelled
    <3>4. PICK x : Spelled(new, 0, x) /\ (n = Len(symbols) => x = Behind(c))
      <4>1. /\ text \in Seq(Bytes) /\ tokens \in Seq(SymbolIds) /\ symbols \in Seq(SymbolIds)
            /\ n \in 0..Len(symbols)
        BY <1>0
      <4>2. Extended(new, 0, n, symbols, Behind(c))
        BY <2>3, <3>1, <3>3, <4>1, AppendSpells, Zenon
      <4>. QED BY <4>2, Zenon DEF Extended
    <3>8. PICK z \in Splits(new) : Spells(new, z) /\ z[0] = 0 /\ z[Len(new)] = x
      BY <3>4 DEF Spelled
    <3>5. Len(new) < maxTokens => z[Len(new)] = Behind(c)
      BY <2>2, <2>4, <3>4, <3>8
    <3>6. decoded = SubSeq(text, 1, z[d])
      <4>1. SubSeq(text, 1, 0) = <<>>
        BY <1>0
      <4>. QED BY <2>1, <3>8, <4>1
    <3>7. TokensAt("chunk", c, new, d, decoded, z)
      BY <3>5, <3>6, <3>8 DEF TokensAt
    <3>. QED BY <3>7
  <2>. QED BY <2>1, <2>2, <2>3, <2>5, NextSpells
<1>9. CASE EncodeEnds
  <2>1. /\ pc = "chunk" /\ pc' = "decode" /\ (c = Len(chunks) \/ Len(tokens) = maxTokens)
        /\ UNCHANGED <<text, maxTokens, model, nTokens, chunks>>
        /\ c' = c /\ tokens' = tokens /\ symbols' = symbols /\ d' = d /\ decoded' = decoded
    BY <1>9 DEF EncodeEnds, init, input, cut, enc, dec
  <2>2. Behind(Len(chunks)) = Len(text)
    <3>1. /\ i = Len(text) + 1
          /\ i = IF chunks = <<>> THEN 1 ELSE Next1(Len(chunks))
      BY <2>1 DEF ChunkInv, ChunksCover
    <3>2. chunks = <<>> <=> Len(chunks) = 0
      BY <1>0
    <3>. QED BY <1>0, <3>1, <3>2 DEF Behind
  <2>3. ASSUME BytesNamed
        PROVE  \E s \in Splits(tokens) : TokensAt("decode", c, tokens, d, decoded, s)
    <3>1. PICK s \in Splits(tokens) : TokensAt("chunk", c, tokens, d, decoded, s)
      BY <2>1, <2>3 DEF SpellInv, TokensSpell
    <3>2. Len(tokens) < maxTokens => c = Len(chunks)
      BY <1>0, <2>1
    <3>3. TokensAt("decode", c, tokens, d, decoded, s)
      BY <2>2, <3>1, <3>2 DEF TokensAt
    <3>. QED BY <3>3
  <2>. QED BY <2>1, <2>3, NextSpells
<1>10. CASE DecodeOne
  <2>1. /\ pc = "decode" /\ pc' = "decode" /\ d < Len(tokens)
        /\ UNCHANGED <<text, maxTokens, model, nTokens, chunks>>
        /\ c' = c /\ tokens' = tokens /\ symbols' = symbols /\ d' = d + 1
        /\ decoded' = decoded \o TokenDecode(tokens[d + 1])
    BY <1>10 DEF DecodeOne, init, input, cut, enc
  <2>2. PICK e, out : e = d + 1 /\ out = decoded \o TokenDecode(tokens[e])
    OBVIOUS
  <2>3. d \in Nat /\ e \in 1..Len(tokens) /\ e - 1 = d /\ nTokens = Len(model.tokens)
    BY <1>0, <2>1, <2>2 DEF EncodeInv
  <2>4. ASSUME BytesNamed
        PROVE  \E s \in Splits(tokens) : TokensAt("decode", c, tokens, e, out, s)
    <3>1. PICK s \in Splits(tokens) : TokensAt("decode", c, tokens, d, decoded, s)
      BY <2>1, <2>4 DEF SpellInv, TokensSpell
    <3>2. PICK a, b, id : a = s[d] /\ b = s[e] /\ id = tokens[e]
      OBVIOUS
    <3>3. id \in 1..nTokens /\ a <= b /\ model.tokens[id] = SubSeq(text, a + 1, b)
      BY <2>3, <3>1, <3>2 DEF TokensAt, Spells
    <3>4. a \in Nat /\ b \in Nat /\ b <= Len(text)
      <4>1. d \in 0..Len(tokens) /\ e \in 0..Len(tokens)
        BY <1>0, <2>3
      <4>2. a \in 0..Len(text) /\ b \in 0..Len(text)
        BY <3>2, <4>1 DEF Splits
      <4>. QED BY <1>0, <4>2
    <3>5. ASSUME Decodable PROVE out = SubSeq(text, 1, b)
      <4>1. PICK t : t = SubSeq(text, a + 1, b)
        OBVIOUS
      <4>2. t \in Seq(Bytes) /\ Len(t) = b - a /\ \A k \in 1..b-a : t[k] = text[a + k]
        <5>1. TextPart(t, a, b)
          BY <1>0, <3>3, <3>4, <4>1, TextPartIs, Zenon
        <5>. QED BY <5>1, Zenon DEF TextPart
      <4>3. \A k \in 1..Len(t) : t[k] # Byte255
        <5>1. ASSUME NEW k \in 1..b-a PROVE text[a + k] # Byte255
          <6>1. a + k \in 1..Len(text)
            BY <1>0, <3>3, <3>4, WithinText, Zenon
          <6>. QED BY <3>5, <6>1 DEF Decodable
        <5>. QED BY <4>2, <5>1
      <4>4. model.tokens[id] = t /\ Len(t) \in Fits(t)
        BY <3>3, <3>5, <4>1 DEF Decodable
      <4>5. TokenDecode(id) = t
        BY <3>3, <4>2, <4>3, <4>4, TokenDecodeIs
      <4>6. decoded = SubSeq(text, 1, a)
        BY <3>1, <3>2, <3>5 DEF TokensAt
      <4>7. SubSeq(text, 1, a) \o SubSeq(text, a + 1, b) = SubSeq(text, 1, b)
        BY <1>0, <3>3, <3>4, TextBegins, Zenon
      <4>. QED BY <2>2, <3>2, <4>1, <4>5, <4>6, <4>7
    <3>6. TokensAt("decode", c, tokens, e, out, s)
      BY <3>1, <3>2, <3>5 DEF TokensAt
    <3>. QED BY <3>6
  <2>5. d' = e /\ decoded' = out
    BY <2>1, <2>2
  <2>. QED BY <2>1, <2>4, <2>5, NextSpells
<1>11. CASE Finish
  <2>1. /\ pc = "decode" /\ pc' = "done"
        /\ UNCHANGED <<text, maxTokens, model, nTokens, chunks>>
        /\ c' = c /\ tokens' = tokens /\ symbols' = symbols /\ d' = d /\ decoded' = decoded
    BY <1>11 DEF Finish, init, input, cut, enc, dec
  <2>2. ASSUME BytesNamed
        PROVE  \E s \in Splits(tokens) : TokensAt("done", c, tokens, d, decoded, s)
    <3>1. PICK s \in Splits(tokens) : TokensAt("decode", c, tokens, d, decoded, s)
      BY <2>1, <2>2 DEF SpellInv, TokensSpell
    <3>2. TokensAt("done", c, tokens, d, decoded, s)
      BY <3>1 DEF TokensAt
    <3>. QED BY <3>2
  <2>. QED BY <2>1, <2>2, NextSpells
<1>12. CASE UNCHANGED vars
  <2>1. /\ pc' = pc /\ UNCHANGED <<text, maxTokens, model, nTokens, chunks>>
        /\ c' = c /\ tokens' = tokens /\ symbols' = symbols /\ d' = d /\ decoded' = decoded
    BY <1>12 DEF vars, init, input, cut, enc, dec
  <2>2. pc = "vocab" => SpellInv'
    BY <2>1 DEF SpellInv, SymbolsSpell, TokensSpell
  <2>3. BytesNamed /\ pc \in {"merge", "emit"} => Spelled(symbols, Behind(c - 1), Behind(c))
    BY DEF SpellInv, SymbolsSpell
  <2>4. pc # "vocab" /\ BytesNamed =>
            \E s \in Splits(tokens) : TokensAt(pc, c, tokens, d, decoded, s)
    BY DEF SpellInv, TokensSpell
  <2>. QED BY <2>1, <2>2, <2>3, <2>4, NextSpells
<1>. QED BY <1>1, <1>2, <1>3, <1>4, <1>5, <1>6, <1>7, <1>8, <1>9, <1>10, <1>11, <1>12 DEF Step

(* The symbols spell their chunk and the tokens the chunks before it, and   *)
(* what is decoded is what the tokens decoded so far spell, whatever the    *)
(* merges are (tokenizer.c:360-436).                                       *)
THEOREM SpellInvariance == Spec => []SpellInv
<1>1. Init => SpellInv
  BY DEF Init, SpellInv, SymbolsSpell, TokensSpell
<1>2. TablesInv /\ ChunkInv /\ EncodeInv /\ SpellInv /\ [Step]_vars => SpellInv'
  BY TokenizerAssumption, LookupAssumption, SpellStep
<1>. QED BY <1>1, <1>2, TablesInvariance, ChunkInvariance, EncodeInvariance, PTL DEF Spec

(* Whatever the vocabulary, the merges and the text, decoding the tokens    *)
(* gives the text back, or its beginning when the array of tokens was full *)
(* (tokenizer.c:354-436; README.md: "lossless").                           *)
THEOREM DecodingIsLossless == Spec => []RoundTrip
<1>1. ASSUME TokenizerAssumption, TablesInv, ChunkInv, EncodeInv, SpellInv PROVE RoundTrip
  <2>. SUFFICES ASSUME pc = "done",
                       \A b \in Seqs!ToSet(text) : b # Byte255 /\ <<b>> \in Seqs!ToSet(model.tokens),
                       \A id \in 1..nTokens : Len(model.tokens[id]) \in Fits(model.tokens[id])
                PROVE  /\ Seqs!IsPrefix(decoded, text)
                       /\ Len(tokens) < maxTokens => decoded = text
    BY DEF RoundTrip
  <2>1. /\ text \in Seq(Bytes) /\ Len(text) \in Nat
        /\ tokens \in Seq(SymbolIds) /\ Len(tokens) \in Nat /\ d = Len(tokens)
    BY <1>1 DEF ChunkInv, EncodeInv
  <2>2. ASSUME NEW k \in 1..Len(text)
        PROVE  /\ text[k] # Byte255
               /\ \E id \in 1..Len(model.tokens) : model.tokens[id] = <<text[k]>>
    <3>1. text[k] \in Seqs!ToSet(text)
      BY <2>1 DEF Seqs!ToSet
    <3>2. text[k] # Byte255 /\ <<text[k]>> \in Seqs!ToSet(model.tokens)
      BY <3>1
    <3>3. model.tokens \in Seq(Seq(Bytes))
      BY <1>1 DEF TablesInv, TokenizerAssumption
    <3>4. DOMAIN model.tokens = 1..Len(model.tokens)
      BY <3>3
    <3>5. PICK id \in DOMAIN model.tokens : model.tokens[id] = <<text[k]>>
      BY <3>2, Zenon DEF Seqs!ToSet
    <3>. QED BY <3>2, <3>4, <3>5
  <2>3. BytesNamed /\ Decodable
    BY <2>2 DEF BytesNamed, Decodable
  <2>4. PICK s \in Splits(tokens) : TokensAt("done", c, tokens, d, decoded, s)
    BY <1>1, <2>3 DEF SpellInv, TokensSpell
  <2>5. PICK n : n = s[d]
    OBVIOUS
  <2>6. n \in 0..Len(text) /\ decoded = SubSeq(text, 1, n)
    BY <2>1, <2>3, <2>4, <2>5 DEF TokensAt, Splits
  <2>7. Len(tokens) < maxTokens => n = Len(text)
    BY <2>1, <2>4, <2>5 DEF TokensAt
  <2>8. SubSeq(text, 1, Len(text)) = text
    BY <2>1
  <2>9. Len(decoded) = n
    BY <2>1, <2>6
  <2>. QED BY <2>1, <2>6, <2>7, <2>8, <2>9 DEF Seqs!IsPrefix
<1>. QED BY <1>1, TokenizerAssumption, TablesInvariance, ChunkInvariance, EncodeInvariance,
       SpellInvariance, PTL

-----------------------------------------------------------------------------
(* The chunks are the matches of the expression.                           *)

LEMMA AheadFacts ==
    ASSUME text \in Seq(Bytes), NEW j \in 1..Len(text), NEW m \in 1..Len(text)-j+1
    PROVE  /\ Ahead(j, m) \in Seq(Bytes) /\ Len(Ahead(j, m)) = m
           /\ \A k \in 1..m : Ahead(j, m)[k] = text[j + k - 1]
<1>1. PICK n \in Nat : n = Len(text)
  OBVIOUS
<1>2. PICK e : e = j + m - 1
  OBVIOUS
<1>3. j \in Nat /\ e \in Nat /\ j >= 1 /\ j <= e + 1 /\ e <= n /\ e - j + 1 = m
  BY <1>1, <1>2
<1>4. /\ SubSeq(text, j, e) \in Seq(Bytes) /\ Len(SubSeq(text, j, e)) = m
      /\ \A k \in 1..m : SubSeq(text, j, e)[k] = text[j + k - 1]
  <2>1. /\ SubSeq(text, j, e) \in Seq(Bytes) /\ Len(SubSeq(text, j, e)) = e - j + 1
        /\ \A k \in 1..e-j+1 : SubSeq(text, j, e)[k] = text[j + k - 1]
    BY <1>1, <1>3, SubSeqFacts
  <2>. QED BY <1>3, <2>1, Zenon
<1>. QED BY <1>2, <1>4, Zenon DEF Ahead

(* The bytes from a on, up to e, are of one category.                      *)
Uniform(a, e, cat) == \A k \in a..e-1 : Cat(text[k]) = cat

LEMMA RunEndIs ==
    ASSUME text \in Seq(Bytes), NEW j \in 1..Len(text), NEW cat, NEW e, e = RunEnd(j, cat)
    PROVE  /\ e \in j..Len(text)+1 /\ Uniform(j, e, cat)
           /\ e <= Len(text) => Cat(text[e]) # cat
<1>. DEFINE S == {x \in j..Len(text)+1 : x > Len(text) \/ Cat(text[x]) # cat}
<1>1. PICK n \in Nat : n = Len(text)
  OBVIOUS
<1>2. S \in SUBSET Nat /\ n + 1 \in S
  BY <1>1
<1>3. e = First(S)
  BY DEF RunEnd
<1>4. e \in S /\ \A y \in S : e <= y
  <2>. HIDE DEF S
  <2>. QED BY <1>2, <1>3, FirstFacts
<1>5. e \in j..n+1 /\ (e <= n => Cat(text[e]) # cat)
  BY <1>1, <1>4
<1>6. ASSUME NEW k \in j..e-1 PROVE Cat(text[k]) = cat
  <2>1. k \in j..n+1 /\ ~(e <= k) /\ ~(k > n)
    BY <1>1, <1>5
  <2>2. k \notin S
    BY <1>4, <2>1
  <2>. QED BY <1>1, <2>1, <2>2
<1>. QED BY <1>1, <1>5, <1>6 DEF Uniform

(* How far the bytes from j to j + m are of one category.                  *)
LEMMA UniformAhead ==
    ASSUME text \in Seq(Bytes), NEW j \in 1..Len(text), NEW m \in 1..Len(text)-j+1, NEW cat
    PROVE  (\A b \in Seqs!ToSet(Ahead(j, m)) : Cat(b) = cat) <=> Uniform(j, j + m, cat)
<1>1. PICK w : w = Ahead(j, m)
  OBVIOUS
<1>2. w \in Seq(Bytes) /\ Len(w) = m /\ \A k \in 1..m : w[k] = text[j + k - 1]
  BY <1>1, AheadFacts
<1>3. DOMAIN w = 1..m
  BY <1>2
<1>4. ASSUME \A b \in Seqs!ToSet(w) : Cat(b) = cat, NEW k \in j..j+m-1 PROVE Cat(text[k]) = cat
  <2>1. PICK l : l = k - j + 1
    OBVIOUS
  <2>2. l \in 1..m /\ j + l - 1 = k
    BY <2>1
  <2>3. w[l] = text[k] /\ w[l] \in Seqs!ToSet(w)
    BY <1>2, <1>3, <2>2 DEF Seqs!ToSet
  <2>. QED BY <1>4, <2>3, Zenon
<1>5. ASSUME Uniform(j, j + m, cat), NEW b \in Seqs!ToSet(w) PROVE Cat(b) = cat
  <2>1. PICK l \in 1..m : b = w[l]
    BY <1>3 DEF Seqs!ToSet
  <2>2. PICK k : k = j + l - 1
    OBVIOUS
  <2>3. k \in j..j+m-1 /\ b = text[k]
    BY <1>2, <2>1, <2>2
  <2>4. Cat(text[k]) = cat
    BY <1>5, <2>3 DEF Uniform
  <2>. QED BY <2>3, <2>4, Zenon
<1>6. (\A b \in Seqs!ToSet(w) : Cat(b) = cat) <=> Uniform(j, j + m, cat)
  <2>1. (\A b \in Seqs!ToSet(w) : Cat(b) = cat) => Uniform(j, j + m, cat)
    BY <1>4 DEF Uniform
  <2>. QED BY <1>5, <2>1, Zenon
<1>. QED BY <1>1, <1>6, Zenon

(* A run after a blank: what follows the blank.                            *)
LEMMA UniformBehind ==
    ASSUME text \in Seq(Bytes), NEW j \in 1..Len(text), NEW m \in 1..Len(text)-j+1, NEW cat
    PROVE  /\ Tail(Ahead(j, m)) # <<>> <=> m >= 2
           /\ (\A b \in Seqs!ToSet(Tail(Ahead(j, m))) : Cat(b) = cat) <=> Uniform(j + 1, j + m, cat)
<1>1. PICK w, v : w = Ahead(j, m) /\ v = Tail(w)
  OBVIOUS
<1>2. w \in Seq(Bytes) /\ Len(w) = m /\ \A k \in 1..m : w[k] = text[j + k - 1]
  BY <1>1, AheadFacts
<1>3. /\ v \in Seq(Bytes) /\ Len(v) = m - 1 /\ DOMAIN v = 1..m-1
      /\ \A l \in 1..m-1 : v[l] = w[l + 1]
  <2>1. w # <<>>
    BY <1>2
  <2>2. v \in Seq(Bytes) /\ Len(v) = Len(w) - 1 /\ \A l \in 1..Len(w)-1 : v[l] = w[l + 1]
    BY <1>1, <1>2, <2>1
  <2>3. DOMAIN v = 1..Len(v)
    BY <2>2
  <2>. QED BY <1>2, <2>2, <2>3
<1>4. \A l \in 1..m-1 : v[l] = text[j + l]
  <2>1. \A l \in 1..m-1 : l + 1 \in 1..m /\ j + (l + 1) - 1 = j + l
    OBVIOUS
  <2>. QED BY <1>2, <1>3, <2>1
<1>5. ASSUME \A b \in Seqs!ToSet(v) : Cat(b) = cat, NEW k \in j+1..j+m-1 PROVE Cat(text[k]) = cat
  <2>1. PICK l : l = k - j
    OBVIOUS
  <2>2. l \in 1..m-1 /\ j + l = k
    BY <2>1
  <2>3. v[l] = text[k] /\ v[l] \in Seqs!ToSet(v)
    BY <1>3, <1>4, <2>2 DEF Seqs!ToSet
  <2>. QED BY <1>5, <2>3, Zenon
<1>6. ASSUME Uniform(j + 1, j + m, cat), NEW b \in Seqs!ToSet(v) PROVE Cat(b) = cat
  <2>1. PICK l \in 1..m-1 : b = v[l]
    BY <1>3 DEF Seqs!ToSet
  <2>2. PICK k : k = j + l
    OBVIOUS
  <2>3. k \in j+1..j+m-1 /\ b = text[k]
    BY <1>4, <2>1, <2>2
  <2>4. Cat(text[k]) = cat
    BY <1>6, <2>3 DEF Uniform
  <2>. QED BY <2>3, <2>4, Zenon
<1>7. v # <<>> <=> m >= 2
  BY <1>3
<1>8. (\A b \in Seqs!ToSet(v) : Cat(b) = cat) <=> Uniform(j + 1, j + m, cat)
  <2>1. (\A b \in Seqs!ToSet(v) : Cat(b) = cat) => Uniform(j + 1, j + m, cat)
    BY <1>5 DEF Uniform
  <2>. QED BY <1>6, <2>1, Zenon
<1>. QED BY <1>1, <1>7, <1>8, Zenon

SpaceAt(j) == text[j] = " "

LEMMA InRuns ==
    ASSUME text \in Seq(Bytes), NEW j \in 1..Len(text), NEW m \in 1..Len(text)-j+1, NEW cat
    PROVE  /\ SpaceAt(j) => (m \in Runs(j, cat) <=> m >= 2 /\ Uniform(j + 1, j + m, cat))
           /\ ~SpaceAt(j) => (m \in Runs(j, cat) <=> Uniform(j, j + m, cat))
           /\ m \in BlankRuns(j) <=> Uniform(j, j + m, "blank")
<1>1. PICK w : w = Ahead(j, m)
  OBVIOUS
<1>2. w # <<>> /\ Head(w) = text[j]
  <2>1. w \in Seq(Bytes) /\ Len(w) = m /\ \A k \in 1..m : w[k] = text[j + k - 1]
    BY <1>1, AheadFacts
  <2>2. 1 \in 1..m /\ j + 1 - 1 = j /\ Len(w) # 0
    BY <2>1
  <2>3. w # <<>> /\ Head(w) = w[1]
    BY <2>1, <2>2
  <2>. QED BY <2>1, <2>2, <2>3
<1>3. CASE SpaceAt(j)
  <2>1. m \in Runs(j, cat) <=> Tail(w) # <<>> /\ \A b \in Seqs!ToSet(Tail(w)) : Cat(b) = cat
    BY <1>1, <1>2, <1>3, Zenon DEF Runs, SpaceAt
  <2>. QED BY <1>1, <1>3, <2>1, UniformAhead, UniformBehind, Zenon DEF BlankRuns
<1>4. CASE ~SpaceAt(j)
  <2>1. m \in Runs(j, cat) <=> \A b \in Seqs!ToSet(w) : Cat(b) = cat
    BY <1>1, <1>2, <1>4, Zenon DEF Runs, SpaceAt
  <2>. QED BY <1>1, <1>4, <2>1, UniformAhead, Zenon DEF BlankRuns
<1>. QED BY <1>3, <1>4

LEMMA ContractionLengths ==
    ASSUME NEW w \in Contractions
    PROVE  Len(w) \in {2, 3}
<1>1. Len(<<"'", "r", "e">>) = 3 /\ Len(<<"'", "v", "e">>) = 3 /\ Len(<<"'", "l", "l">>) = 3
  OBVIOUS
<1>2. /\ Len(<<"'", "s">>) = 2 /\ Len(<<"'", "t">>) = 2 /\ Len(<<"'", "m">>) = 2
      /\ Len(<<"'", "d">>) = 2
  OBVIOUS
<1>. QED BY <1>1, <1>2, Zenon DEF Contractions

LEMMA AheadWithin ==
    ASSUME NEW l \in Nat, NEW j \in 1..l, NEW m \in 1..l-j+1, NEW k \in 1..m
    PROVE  j + k - 1 \in 1..l
OBVIOUS

LEMMA ContractionIs ==
    ASSUME NEW j
    PROVE  /\ ContractionLen(j) = 2 <=> At(j) = "'" /\ At(j + 1) \in {"s", "t", "m", "d"}
           /\ ContractionLen(j) = 3 <=> /\ At(j) = "'"
                                       /\ \/ At(j + 1) \in {"r", "v"} /\ At(j + 2) = "e"
                                          \/ At(j + 1) = "l" /\ At(j + 2) = "l"
BY DEF ContractionLen

(* A contraction is one of its seven texts.                                *)
LEMMA ContractionsAhead ==
    ASSUME TokenizerAssumption, text \in Seq(Bytes), NEW j \in 1..Len(text),
           NEW m \in 1..Len(text)-j+1
    PROVE  Ahead(j, m) \in Contractions <=> m = ContractionLen(j)
<1>1. PICK w : w = Ahead(j, m)
  OBVIOUS
<1>2. w \in Seq(Bytes) /\ Len(w) = m /\ \A k \in 1..m : w[k] = text[j + k - 1]
  BY <1>1, AheadFacts
<1>3. \A k \in 1..m : w[k] = At(j + k - 1)
  <2>1. \A k \in 1..m : j + k - 1 \in 1..Len(text)
    <3>1. Len(text) \in Nat
      OBVIOUS
    <3>. QED BY <3>1, AheadWithin, Zenon
  <2>. QED BY <1>2, <2>1 DEF At
<1>4. m \in Nat /\ j \in Nat /\ w \in [1..m -> Bytes]
  BY <1>2
<1>5. CASE m = 1
  <2>1. Len(w) = 1
    BY <1>2, <1>5
  <2>2. w \notin Contractions
    <3>1. Len(w) \notin {2, 3}
      BY <2>1
    <3>. QED BY <3>1, ContractionLengths, Zenon
  <2>. QED BY <1>1, <1>5, <2>2 DEF ContractionLen
<1>6. CASE m = 2
  <2>1. w[1] = At(j) /\ w[2] = At(j + 1) /\ Len(w) = 2
    <3>1. 1 \in 1..m /\ 2 \in 1..m /\ j + 1 - 1 = j /\ j + 2 - 1 = j + 1
      BY <1>4, <1>6
    <3>. QED BY <1>2, <1>3, <1>6, <3>1
  <2>2. \A x, y : w = <<x, y>> <=> w[1] = x /\ w[2] = y
    BY <1>4, <1>6
  <2>3. ASSUME NEW x, NEW y, NEW z PROVE w # <<x, y, z>>
    <3>1. Len(<<x, y, z>>) = 3
      OBVIOUS
    <3>2. Len(w) # 3
      BY <2>1
    <3>. QED BY <3>1, <3>2, Zenon
  <2>4. w \in Contractions <=> w[1] = "'" /\ w[2] \in {"s", "t", "m", "d"}
    BY <2>2, <2>3, Zenon DEF Contractions
  <2>5. ContractionLen(j) = 2 <=> At(j) = "'" /\ At(j + 1) \in {"s", "t", "m", "d"}
    BY ContractionIs, Zenon
  <2>. QED BY <1>1, <1>6, <2>1, <2>4, <2>5
<1>7. CASE m = 3
  <2>1. w[1] = At(j) /\ w[2] = At(j + 1) /\ w[3] = At(j + 2) /\ Len(w) = 3
    <3>1. /\ 1 \in 1..m /\ 2 \in 1..m /\ 3 \in 1..m
          /\ j + 1 - 1 = j /\ j + 2 - 1 = j + 1 /\ j + 3 - 1 = j + 2
      BY <1>4, <1>7
    <3>. QED BY <1>2, <1>3, <1>7, <3>1
  <2>2. \A x, y, z : w = <<x, y, z>> <=> w[1] = x /\ w[2] = y /\ w[3] = z
    BY <1>4, <1>7
  <2>3. ASSUME NEW x, NEW y PROVE w # <<x, y>>
    <3>1. Len(<<x, y>>) = 2
      OBVIOUS
    <3>2. Len(w) # 2
      BY <2>1
    <3>. QED BY <3>1, <3>2, Zenon
  <2>4. w \in Contractions <=> /\ w[1] = "'"
                               /\ \/ w[2] \in {"r", "v"} /\ w[3] = "e"
                                  \/ w[2] = "l" /\ w[3] = "l"
    BY <2>2, <2>3, Zenon DEF Contractions
  <2>5. ContractionLen(j) = 3 <=> /\ At(j) = "'"
                                  /\ \/ At(j + 1) \in {"r", "v"} /\ At(j + 2) = "e"
                                     \/ At(j + 1) = "l" /\ At(j + 2) = "l"
    BY ContractionIs, Zenon
  <2>. QED BY <1>1, <1>7, <2>1, <2>4, <2>5
<1>8. CASE m > 3
  <2>1. w \notin Contractions
    <3>1. Len(w) \notin {2, 3}
      BY <1>2, <1>8
    <3>. QED BY <3>1, ContractionLengths, Zenon
  <2>2. ContractionLen(j) \in {0, 2, 3}
    BY DEF ContractionLen
  <2>. QED BY <1>1, <1>8, <2>1, <2>2
<1>. QED BY <1>4, <1>5, <1>6, <1>7, <1>8

Longest(S, x) == S \in SUBSET Nat /\ x \in S /\ \A y \in S : x >= y

LEMMA AlternativesAre ==
    ASSUME NEW j
    PROVE  /\ Alternatives(j)[1] = {m \in 1..Len(text)-j+1 : Ahead(j, m) \in Contractions}
           /\ Alternatives(j)[2] = Runs(j, "letter") /\ Alternatives(j)[3] = Runs(j, "digit")
           /\ Alternatives(j)[4] = Runs(j, "other")
           /\ Alternatives(j)[5] = {m \in BlankRuns(j) : j + m > Len(text) \/ Cat(text[j + m]) = "blank"}
BY DEF Alternatives

LEMMA MatchIs ==
    ASSUME NEW j, NEW a \in 1..6, NEW x, Longest(Alternatives(j)[a], x),
           \A b \in 1..a-1 : Alternatives(j)[b] = {}
    PROVE  Match(j) = x
<1>1. PICK S : S = {b \in 1..6 : Alternatives(j)[b] # {}}
  OBVIOUS
<1>2. S \in SUBSET Nat /\ a \in S /\ \A b \in S : a <= b
  <2>1. Alternatives(j)[a] # {}
    BY DEF Longest
  <2>. QED BY <1>1, <2>1
<1>3. First(S) = a
  BY <1>2, FirstIs
<1>4. Last(Alternatives(j)[a]) = x
  BY LastIs DEF Longest
<1>. QED BY <1>1, <1>3, <1>4, Zenon DEF Match

(* The first alternative with a match, case by case.                       *)
LEMMA MatchContraction ==
    ASSUME TokenizerAssumption, text \in Seq(Bytes), NEW j \in 1..Len(text),
           ContractionLen(j) > 0
    PROVE  Match(j) = ContractionLen(j)
<1>1. PICK x : x = ContractionLen(j)
  OBVIOUS
<1>2. x \in 1..Len(text)-j+1
  <2>1. PICK n \in Nat : n = Len(text)
    OBVIOUS
  <2>2. x \in {2, 3} /\ j + x <= n + 1
    BY <1>1, <2>1, ContractionFacts
  <2>3. x \in 1..n-j+1
    BY <2>1, <2>2
  <2>. QED BY <2>1, <2>3
<1>3. Alternatives(j)[1] = {x}
  <2>1. \A m \in 1..Len(text)-j+1 : Ahead(j, m) \in Contractions <=> m = x
    BY <1>1, ContractionsAhead
  <2>. QED BY <1>2, <2>1, AlternativesAre
<1>4. Longest(Alternatives(j)[1], x)
  BY <1>2, <1>3 DEF Longest
<1>5. 1 \in 1..6 /\ \A b \in 1..1-1 : Alternatives(j)[b] = {}
  OBVIOUS
<1>. QED BY <1>1, <1>4, <1>5, MatchIs

LEMMA NoContraction ==
    ASSUME TokenizerAssumption, text \in Seq(Bytes), NEW j \in 1..Len(text),
           ContractionLen(j) = 0
    PROVE  Alternatives(j)[1] = {}
<1>1. \A m \in 1..Len(text)-j+1 : Ahead(j, m) \notin Contractions
  <2>1. ASSUME NEW m \in 1..Len(text)-j+1, Ahead(j, m) \in Contractions PROVE FALSE
    <3>1. m = ContractionLen(j)
      BY <2>1, ContractionsAhead, Zenon
    <3>2. m # 0
      OBVIOUS
    <3>. QED BY <3>1, <3>2, Zenon
  <2>. QED BY <2>1
<1>. QED BY <1>1, AlternativesAre

(* A run begins at w: at j, or behind a blank at j.                        *)
LEMMA RunsEmpty ==
    ASSUME text \in Seq(Bytes), NEW j \in 1..Len(text), NEW cat,
           ~SpaceAt(j) => Cat(text[j]) # cat,
           SpaceAt(j) /\ j + 1 <= Len(text) => Cat(text[j + 1]) # cat
    PROVE  Runs(j, cat) = {}
<1>1. PICK n \in Nat : n = Len(text)
  OBVIOUS
<1>2. ASSUME NEW m \in 1..n-j+1, m \in Runs(j, cat) PROVE FALSE
  <2>1. CASE SpaceAt(j)
    <3>1. m >= 2 /\ Uniform(j + 1, j + m, cat)
      BY <1>1, <1>2, <2>1, InRuns
    <3>2. j + 1 \in j+1..j+m-1 /\ j + 1 <= n
      BY <1>1, <3>1
    <3>. QED BY <1>1, <2>1, <3>1, <3>2 DEF Uniform
  <2>2. CASE ~SpaceAt(j)
    <3>1. Uniform(j, j + m, cat)
      BY <1>1, <1>2, <2>2, InRuns
    <3>2. j \in j..j+m-1
      BY <1>1
    <3>. QED BY <2>2, <3>1, <3>2 DEF Uniform
  <2>. QED BY <2>1, <2>2
<1>3. \A m \in Runs(j, cat) : m \in 1..n-j+1
  BY <1>1 DEF Runs
<1>. QED BY <1>2, <1>3

LEMMA RunsLongest ==
    ASSUME text \in Seq(Bytes), NEW j \in 1..Len(text), NEW w \in 1..Len(text),
           IF SpaceAt(j) THEN w = j + 1 ELSE w = j, NEW cat, Cat(text[w]) = cat
    PROVE  Longest(Runs(j, cat), RunEnd(w, cat) - j)
<1>1. PICK n \in Nat : n = Len(text)
  OBVIOUS
<1>2. PICK e : e = RunEnd(w, cat)
  OBVIOUS
<1>3. e \in w..n+1 /\ Uniform(w, e, cat) /\ (e <= n => Cat(text[e]) # cat) /\ e > w
  BY <1>1, <1>2, RunEndIs, RunEndFacts
<1>4. PICK x : x = e - j
  OBVIOUS
<1>5. w >= j /\ x \in 1..n-j+1 /\ j + x = e /\ (SpaceAt(j) => x >= 2)
  BY <1>1, <1>3, <1>4
<1>6. \A m \in Runs(j, cat) : m \in 1..n-j+1
  BY <1>1 DEF Runs
<1>7. ASSUME NEW m \in 1..n-j+1
      PROVE  m \in Runs(j, cat) <=> j + m > w /\ Uniform(w, j + m, cat)
  <2>1. CASE SpaceAt(j)
    <3>1. m >= 2 <=> j + m > w
      BY <2>1
    <3>2. m \in Runs(j, cat) <=> m >= 2 /\ Uniform(j + 1, j + m, cat)
      BY <1>1, <2>1, InRuns
    <3>. QED BY <2>1, <3>1, <3>2
  <2>2. CASE ~SpaceAt(j)
    <3>1. j + m > w
      BY <2>2
    <3>2. m \in Runs(j, cat) <=> Uniform(j, j + m, cat)
      BY <1>1, <2>2, InRuns
    <3>. QED BY <2>2, <3>1, <3>2
  <2>. QED BY <2>1, <2>2
<1>8. x \in Runs(j, cat)
  BY <1>3, <1>5, <1>7
<1>9. ASSUME NEW m \in Runs(j, cat) PROVE x >= m
  <2>1. m \in 1..n-j+1 /\ j + m > w /\ Uniform(w, j + m, cat)
    BY <1>6, <1>7
  <2>2. CASE ~(x >= m)
    <3>1. e \in w..j+m-1 /\ e <= n
      BY <1>1, <1>3, <1>5, <2>1, <2>2
    <3>. QED BY <1>3, <2>1, <3>1 DEF Uniform
  <2>. QED BY <2>2
<1>10. Runs(j, cat) \in SUBSET Nat
  BY <1>6
<1>11. Longest(Runs(j, cat), x)
  BY <1>8, <1>9, <1>10 DEF Longest
<1>. QED BY <1>2, <1>4, <1>11

(* A word, and the blank before it.                                        *)
LEMMA MatchWord ==
    ASSUME TokenizerAssumption, text \in Seq(Bytes), NEW j \in 1..Len(text),
           ContractionLen(j) = 0, NEW w \in 1..Len(text),
           IF SpaceAt(j) THEN w = j + 1 ELSE w = j, Cat(text[w]) # "blank"
    PROVE  Match(j) = RunEnd(w, Cat(text[w])) - j
<1>1. PICK cat, x : cat = Cat(text[w]) /\ x = RunEnd(w, cat) - j
  OBVIOUS
<1>2. cat \in {"letter", "digit", "other"}
  BY <1>1 DEF Cat
<1>3. Longest(Runs(j, cat), x)
  BY <1>1, RunsLongest
<1>4. Alternatives(j)[1] = {}
  BY NoContraction
<1>5. ASSUME NEW t, t # cat PROVE Runs(j, t) = {}
  <2>1. ~SpaceAt(j) => Cat(text[j]) # t
    BY <1>1, <1>5
  <2>2. SpaceAt(j) /\ j + 1 <= Len(text) => Cat(text[j + 1]) # t
    BY <1>1, <1>5
  <2>. QED BY <2>1, <2>2, RunsEmpty
<1>6. CASE cat = "letter"
  <2>1. 2 \in 1..6 /\ \A b \in 1..2-1 : Alternatives(j)[b] = {}
    BY <1>4
  <2>3. Longest(Alternatives(j)[2], x)
    BY <1>3, <1>6, AlternativesAre, Zenon
  <2>4. Match(j) = x
    BY <2>3, <2>1, MatchIs, Zenon
  <2>. QED BY <1>1, <2>4, Zenon
<1>7. CASE cat = "digit"
  <2>1. Alternatives(j)[2] = {}
    BY <1>5, <1>7, AlternativesAre
  <2>2. 3 \in 1..6 /\ \A b \in 1..3-1 : Alternatives(j)[b] = {}
    BY <1>4, <2>1
  <2>3. Longest(Alternatives(j)[3], x)
    BY <1>3, <1>7, AlternativesAre, Zenon
  <2>4. Match(j) = x
    BY <2>3, <2>2, MatchIs, Zenon
  <2>. QED BY <1>1, <2>4, Zenon
<1>8. CASE cat = "other"
  <2>1. Alternatives(j)[2] = {} /\ Alternatives(j)[3] = {}
    BY <1>5, <1>8, AlternativesAre
  <2>2. 4 \in 1..6 /\ \A b \in 1..4-1 : Alternatives(j)[b] = {}
    BY <1>4, <2>1
  <2>3. Longest(Alternatives(j)[4], x)
    BY <1>3, <1>8, AlternativesAre, Zenon
  <2>4. Match(j) = x
    BY <2>3, <2>2, MatchIs, Zenon
  <2>. QED BY <1>1, <2>4, Zenon
<1>. QED BY <1>2, <1>6, <1>7, <1>8

LEMMA BlankFacts ==
    ASSUME NEW j
    PROVE  /\ SpaceAt(j) => Cat(text[j]) = "blank"
           /\ Cat(text[j]) = "blank" => ContractionLen(j) = 0
<1>1. SpaceAt(j) => Cat(text[j]) = "blank"
  BY CategoryAssumption, Zenon DEF SpaceAt, CategoryAssumption
<1>2. ASSUME Cat(text[j]) = "blank", At(j) = "'" PROVE FALSE
  <2>1. j \in 1..Len(text) => text[j] = "'"
    BY <1>2, Zenon DEF At
  <2>2. None # "'"
    BY TokenizerAssumption, Zenon DEF TokenizerAssumption
  <2>3. j \in 1..Len(text)
    BY <1>2, <2>2, Zenon DEF At
  <2>. QED BY <1>2, <2>1, <2>3, CategoryAssumption, Zenon DEF CategoryAssumption
<1>. QED BY <1>1, <1>2 DEF ContractionLen

LEMMA BeforeEnd ==
    ASSUME NEW e \in Nat, NEW j \in Nat, NEW m \in Nat, j <= e, e \notin j..j+m-1, j + m # e
    PROVE  e - 1 - j >= m
OBVIOUS

(* The last blanks of the text, or all blanks but the one before a word.   *)
LEMMA MatchBlanks ==
    ASSUME TokenizerAssumption, text \in Seq(Bytes), NEW j \in 1..Len(text),
           Cat(text[j]) = "blank", ContractionLen(j) = 0, NEW e \in Nat, e = RunEnd(j, "blank"), NEW x \in Nat, x >= 1,
           e > Len(text) => x = e - j, e <= Len(text) => x = e - 1 - j
    PROVE  Match(j) = x
<1>1. PICK n \in Nat : n = Len(text)
  OBVIOUS
<1>2. e \in j..n+1 /\ Uniform(j, e, "blank") /\ (e <= n => Cat(text[e]) # "blank") /\ e > j
  BY <1>1, RunEndIs, RunEndFacts
<1>3. x \in 1..n-j+1 /\ j + x <= e
  BY <1>1, <1>2
<1>4. j + 1 <= n => Cat(text[j + 1]) = "blank"
  <2>1. ASSUME j + 1 <= n PROVE j + 1 \in j..e-1
    BY <1>1, <1>2, <2>1
  <2>. QED BY <1>2, <2>1 DEF Uniform
<1>5. \A t \in {"letter", "digit", "other"} : Runs(j, t) = {}
  BY <1>1, <1>4, RunsEmpty
<1>6. Alternatives(j)[1] = {}
  BY NoContraction
<1>7. PICK S : S = {m \in BlankRuns(j) : j + m > Len(text) \/ Cat(text[j + m]) = "blank"}
  OBVIOUS
<1>8. \A m \in 1..n-j+1 : m \in BlankRuns(j) <=> Uniform(j, j + m, "blank")
  BY <1>1, InRuns
<1>9. S \in SUBSET (1..n-j+1)
  BY <1>1, <1>7 DEF BlankRuns
<1>10. x \in S
  <2>1. Uniform(j, j + x, "blank")
    <3>1. \A k \in j..j+x-1 : k \in j..e-1
      BY <1>2, <1>3
    <3>. QED BY <1>2, <3>1 DEF Uniform
  <2>2. j + x > n \/ Cat(text[j + x]) = "blank"
    <3>1. CASE e <= n
      <4>1. j + x = e - 1 /\ e - 1 \in j..e-1
        BY <1>1, <1>2, <3>1
      <4>2. Cat(text[e - 1]) = "blank"
        BY <1>2, <4>1 DEF Uniform
      <4>. QED BY <4>1, <4>2
    <3>2. CASE ~(e <= n)
      BY <1>1, <1>2, <3>2
    <3>. QED BY <3>1, <3>2
  <2>3. x \in BlankRuns(j)
    BY <1>3, <1>8, <2>1
  <2>. QED BY <1>1, <1>7, <2>2, <2>3
<1>11. ASSUME NEW m \in S PROVE x >= m
  <2>1. m \in 1..n-j+1
    BY <1>9
  <2>2. Uniform(j, j + m, "blank")
    BY <1>7, <1>8, <2>1, Zenon
  <2>3. j + m > n \/ Cat(text[j + m]) = "blank"
    BY <1>1, <1>7, Zenon
  <2>4. CASE e <= n
    <3>1. ASSUME e \in j..j+m-1 PROVE FALSE
      <4>1. Cat(text[e]) = "blank"
        BY <2>1, <2>2, <3>1 DEF Uniform
      <4>. QED BY <1>2, <2>4, <4>1
    <3>2. j + m # e
      BY <1>2, <2>1, <2>3, <2>4
    <3>3. x = e - 1 - j /\ e \in j..n
      BY <1>1, <1>2, <2>4
    <3>4. m \in Nat /\ j \in Nat /\ n \in Nat
      BY <1>1, <2>1
    <3>5. e \notin j..j+m-1
      BY <3>1
    <3>6. j <= e
      BY <3>3
    <3>7. e - 1 - j >= m
      BY <3>2, <3>4, <3>5, <3>6, BeforeEnd, Zenon
    <3>. QED BY <3>3, <3>7, Zenon
  <2>5. CASE ~(e <= n)
    BY <1>1, <1>2, <2>1, <2>5
  <2>. QED BY <2>4, <2>5
<1>12. Longest(Alternatives(j)[5], x)
  <2>1. S \in SUBSET Nat
    BY <1>9
  <2>2. Alternatives(j)[5] = S
    BY <1>7, AlternativesAre, Zenon
  <2>. QED BY <1>10, <1>11, <2>1, <2>2 DEF Longest
<1>13. 5 \in 1..6 /\ \A b \in 1..5-1 : Alternatives(j)[b] = {}
  <2>1. Alternatives(j)[2] = {} /\ Alternatives(j)[3] = {} /\ Alternatives(j)[4] = {}
    BY <1>5, AlternativesAre
  <2>. QED BY <1>6, <2>1
<1>. QED BY <1>12, <1>13, MatchIs

(* Every round cuts pieces that are matches.                               *)
Follows(p) == p.len = Match(p.start)

LEMMA WordFollows ==
    ASSUME TokenizerAssumption, SpacesBeforeWords,
           text \in Seq(Bytes), NEW j \in 1..Len(text), ContractionLen(j) = 0,
           Cat(text[j]) = "blank" => j + 1 <= Len(text) /\ Cat(text[j + 1]) # "blank",
           NEW p, p = Word(j)
    PROVE  Follows(p)
<1>1. PICK w : w = IF Cat(text[j]) = "blank" THEN j + 1 ELSE j
  OBVIOUS
<1>2. w \in 1..Len(text) /\ Cat(text[w]) # "blank"
  <2>1. CASE Cat(text[j]) = "blank"
    <3>1. w = j + 1 /\ j + 1 <= Len(text) /\ Cat(text[j + 1]) # "blank"
      BY <1>1, <2>1, Zenon
    <3>2. j + 1 \in 1..Len(text)
      BY <3>1
    <3>. QED BY <3>1, <3>2, Zenon
  <2>2. CASE Cat(text[j]) # "blank"
    BY <1>1, <2>2, Zenon
  <2>. QED BY <2>1, <2>2, Zenon
<1>3. SpaceAt(j) <=> Cat(text[j]) = "blank"
  <2>1. ASSUME Cat(text[j]) = "blank" PROVE SpaceAt(j)
    <3>1. j + 1 \in 2..Len(text) /\ (j + 1) - 1 = j
      BY <2>1
    <3>2. PICK k : k = j + 1
      OBVIOUS
    <3>3. k \in 2..Len(text) /\ k - 1 = j
      BY <3>1, <3>2, Zenon
    <3>4. text[k - 1] = " "
      <4>1. Cat(text[k - 1]) = "blank" /\ Cat(text[k]) # "blank"
        BY <2>1, <3>2, <3>3, Zenon
      <4>. QED BY <3>3, <4>1, Zenon DEF SpacesBeforeWords
    <3>. QED BY <3>3, <3>4, Zenon DEF SpaceAt
  <2>. QED BY <2>1, BlankFacts, Zenon
<1>4. IF SpaceAt(j) THEN w = j + 1 ELSE w = j
  BY <1>1, <1>3, Zenon
<1>5. Match(j) = RunEnd(w, Cat(text[w])) - j
  BY <1>2, <1>4, MatchWord, Zenon
<1>6. p = Piece(j, RunEnd(w, Cat(text[w])))
  BY <1>1, Zenon DEF Word
<1>7. p.start = j /\ p.len = RunEnd(w, Cat(text[w])) - j
  BY <1>6 DEF Piece
<1>. QED BY <1>5, <1>7, Zenon DEF Follows

FollowingCut(cs) ==
    /\ Cutting(cs)
    /\ \E S : cs \in Seq(S)
    /\ \A k \in 1..Len(cs) : Follows(cs[k])

LEMMA CutFollows ==
    ASSUME TokenizerAssumption, ChunkInv, SpacesBeforeWords,
           CutContraction \/ CutWord \/ CutLastBlanks \/ CutBlanks
    PROVE  \E cs : FollowingCut(cs)
<1>1. /\ pc = "cut" /\ text \in Seq(Bytes) /\ Len(text) \in Nat
      /\ i \in 1..Len(text)+1
  BY DEF ChunkInv, CutContraction, CutWord, CutLastBlanks, CutBlanks
<1>2. ASSUME NEW p, Cutting(<<p>>), Follows(p)
      PROVE  \E cs : FollowingCut(cs)
  <2>1. PICK cs : cs = <<p>>
    OBVIOUS
  <2>2. Len(cs) = 1 /\ cs[1] = p
    BY <2>1
  <2>3. \A k \in 1..1 : k = 1
    OBVIOUS
  <2>4. \A k \in 1..Len(cs) : Follows(cs[k])
    BY <1>2, <2>2, <2>3, Zenon
  <2>5. Cutting(cs)
    BY <1>2, <2>1, Zenon
  <2>6. cs \in Seq({p})
    BY <2>1
  <2>. QED BY <2>4, <2>5, <2>6, Zenon DEF FollowingCut
<1>3. CASE CutContraction
  <2>1. ContractionLen(i) \in {2, 3} /\ i + ContractionLen(i) <= Len(text) + 1
    BY <1>1, <1>3, ContractionFacts DEF CutContraction
  <2>2. PICK p : p = Piece(i, i + ContractionLen(i))
    OBVIOUS
  <2>3. p.start = i /\ p.len = ContractionLen(i) /\ Cutting(<<p>>)
    BY <1>1, <1>3, <2>1, <2>2 DEF Piece, CutContraction
  <2>4. i \in 1..Len(text) /\ ContractionLen(i) > 0
    BY <1>1, <2>1
  <2>5. Follows(p)
    BY <1>1, <2>3, <2>4, MatchContraction, Zenon DEF Follows
  <2>. QED BY <1>2, <2>3, <2>5, Zenon
<1>4. CASE CutWord
  <2>1. /\ i \in 1..Len(text) /\ Cat(text[i]) # "blank" /\ ContractionLen(i) = 0
        /\ Cutting(<<Word(i)>>)
    BY <1>1, <1>4 DEF CutWord
  <2>2. PICK p : p = Word(i)
    OBVIOUS
  <2>3. Follows(p)
    BY <1>1, <2>1, <2>2, WordFollows, Zenon
  <2>. QED BY <1>2, <2>1, <2>2, <2>3, Zenon
<1>5. CASE CutLastBlanks
  <2>1. PICK e : e = RunEnd(i, "blank")
    OBVIOUS
  <2>2. i \in 1..Len(text) /\ Cat(text[i]) = "blank" /\ e > Len(text) /\ Cutting(<<Piece(i, e)>>)
    BY <1>1, <1>5, <2>1 DEF CutLastBlanks
  <2>3. e \in i..Len(text)+1 /\ e > i
    BY <1>1, <2>1, <2>2, RunEndFacts
  <2>4. PICK x : x = e - i
    OBVIOUS
  <2>5. /\ x \in Nat /\ x >= 1 /\ e \in Nat
        /\ e > Len(text) => x = e - i
        /\ e <= Len(text) => x = e - 1 - i
    BY <1>1, <2>2, <2>3, <2>4
  <2>6. ContractionLen(i) = 0
    BY <2>2, BlankFacts, Zenon
  <2>7. Match(i) = x
    BY <1>1, <2>1, <2>2, <2>5, <2>6, MatchBlanks, Zenon
  <2>8. PICK p : p = Piece(i, e)
    OBVIOUS
  <2>9. Follows(p)
    BY <2>4, <2>7, <2>8, Zenon DEF Piece, Follows
  <2>. QED BY <1>2, <2>2, <2>8, <2>9, Zenon
<1>6. CASE CutBlanks
  <2>1. PICK e, last : e = RunEnd(i, "blank") /\ last = RunEnd(i, "blank") - 1
    OBVIOUS
  <2>2. /\ i \in 1..Len(text) /\ Cat(text[i]) = "blank" /\ e <= Len(text)
        /\ Cutting(IF last > i THEN <<Piece(i, last), Word(last)>> ELSE <<Word(i)>>)
    BY <1>1, <1>6, <2>1 DEF CutBlanks
  <2>3. e \in i..Len(text)+1 /\ e > i /\ Uniform(i, e, "blank") /\ Cat(text[e]) # "blank"
    BY <1>1, <2>1, <2>2, RunEndFacts, RunEndIs
  <2>4. last \in 1..Len(text) /\ last \in i..e-1 /\ last + 1 = e /\ last + 1 <= Len(text)
    <3>1. PICK n \in Nat : n = Len(text)
      BY <1>1
    <3>2. i \in 1..n /\ e <= n /\ e \in i..n+1 /\ e > i
      BY <2>2, <2>3, <3>1, Zenon
    <3>3. last = e - 1
      BY <2>1, Zenon
    <3>4. last \in 1..n /\ last \in i..e-1 /\ last + 1 = e /\ last + 1 <= n
      BY <3>1, <3>2, <3>3
    <3>. QED BY <3>1, <3>4, Zenon
  <2>5. Cat(text[last]) = "blank" /\ Cat(text[last + 1]) # "blank"
    BY <2>3, <2>4 DEF Uniform
  <2>6. ContractionLen(i) = 0 /\ ContractionLen(last) = 0
    BY <2>2, <2>5, BlankFacts, Zenon
  <2>7. PICK q : q = Word(last)
    OBVIOUS
  <2>8. Follows(q)
    BY <1>1, <2>4, <2>5, <2>6, <2>7, WordFollows, Zenon
  <2>9. CASE last > i
    <3>1. PICK x : x = last - i
      OBVIOUS
    <3>2. /\ x \in Nat /\ x >= 1 /\ e \in Nat
          /\ e > Len(text) => x = e - i
          /\ e <= Len(text) => x = e - 1 - i
      <4>1. PICK n \in Nat : n = Len(text)
        BY <1>1
      <4>2. i \in Nat /\ last \in Nat /\ e \in Nat /\ last > i /\ last + 1 = e /\ e <= n
        BY <1>1, <2>2, <2>3, <2>4, <2>9, <4>1
      <4>3. x \in Nat /\ x >= 1 /\ x = e - 1 - i /\ ~(e > n)
        BY <3>1, <4>1, <4>2
      <4>. QED BY <4>1, <4>2, <4>3, Zenon
    <3>3. Match(i) = x
      BY <1>1, <2>1, <2>2, <2>6, <3>2, MatchBlanks, Zenon
    <3>4. PICK p : p = Piece(i, last)
      OBVIOUS
    <3>5. Follows(p)
      BY <3>1, <3>3, <3>4, Zenon DEF Piece, Follows
    <3>6. PICK cs : cs = <<p, q>>
      OBVIOUS
    <3>7. Len(cs) = 2 /\ cs[1] = p /\ cs[2] = q
      BY <3>6
    <3>8. \A k \in 1..2 : k = 1 \/ k = 2
      OBVIOUS
    <3>9. \A k \in 1..Len(cs) : Follows(cs[k])
      BY <2>8, <3>5, <3>7, <3>8, Zenon
    <3>10. Cutting(cs)
      BY <2>2, <2>7, <2>9, <3>4, <3>6, Zenon
    <3>11. cs \in Seq({p, q})
      BY <3>6
    <3>. QED BY <3>9, <3>10, <3>11, Zenon DEF FollowingCut
  <2>10. CASE ~(last > i)
    <3>1. last = i /\ Cutting(<<Word(i)>>)
      BY <1>1, <2>2, <2>4, <2>10
    <3>. QED BY <1>2, <2>7, <2>8, <3>1, Zenon
  <2>. QED BY <2>9, <2>10
<1>. QED BY <1>3, <1>4, <1>5, <1>6

LEMMA MatchSame ==
    ASSUME text' = text
    PROVE  /\ SpacesBeforeWords' <=> SpacesBeforeWords
           /\ \A j : Match(j)' = Match(j)
BY DEF Match, Alternatives, Runs, BlankRuns, Ahead, SpacesBeforeWords

(* What was cut so far are matches.                                        *)
FollowInv == SpacesBeforeWords => \A k \in 1..Len(chunks) : Follows(chunks[k])

LEMMA FollowSame ==
    ASSUME FollowInv, text' = text, chunks' = chunks
    PROVE  FollowInv'
<1>1. SpacesBeforeWords' <=> SpacesBeforeWords
  BY MatchSame
<1>2. \A p : Follows(p)' <=> Follows(p)
  BY MatchSame DEF Follows
<1>3. SUFFICES ASSUME SpacesBeforeWords, NEW k \in 1..Len(chunks)
               PROVE  Follows(chunks[k])
  BY <1>1, <1>2 DEF FollowInv
<1>. QED BY <1>3 DEF FollowInv

LEMMA CutStepFollows ==
    ASSUME TokenizerAssumption, ChunkInv, FollowInv,
           CutContraction \/ CutWord \/ CutLastBlanks \/ CutBlanks
    PROVE  FollowInv'
<1>1. text' = text
  BY DEF CutContraction, CutWord, CutLastBlanks, CutBlanks, Cutting, input
<1>2. SpacesBeforeWords' <=> SpacesBeforeWords
  BY <1>1, MatchSame
<1>3. \A p : Follows(p)' <=> Follows(p)
  BY <1>1, MatchSame DEF Follows
<1>4. SUFFICES ASSUME SpacesBeforeWords, NEW k \in 1..Len(chunks')
               PROVE  Follows(chunks'[k])
  BY <1>2, <1>3 DEF FollowInv
<1>5. PICK cs : FollowingCut(cs)
  BY <1>4, CutFollows, Zenon
<1>6. PICK S : cs \in Seq(S)
  BY <1>5, Zenon DEF FollowingCut
<1>7. chunks' = chunks \o cs /\ \A l \in 1..Len(cs) : Follows(cs[l])
  BY <1>5, Zenon DEF FollowingCut, Cutting
<1>8. chunks \in Seq(Pieces)
  BY DEF ChunkInv
<1>9. PICK n, m : n = Len(chunks) /\ m = Len(cs)
  OBVIOUS
<1>10. /\ n \in Nat /\ m \in Nat /\ k \in 1..n+m
       /\ \A l \in 1..n : chunks'[l] = chunks[l]
       /\ \A l \in 1..m : chunks'[n + l] = cs[l]
  BY <1>4, <1>6, <1>7, <1>8, <1>9
<1>11. CASE k \in 1..n
  BY <1>4, <1>9, <1>10, <1>11, Zenon DEF FollowInv
<1>12. CASE k \notin 1..n
  <2>1. PICK l \in 1..m : k = n + l
    <3>1. k - n \in 1..m /\ k = n + (k - n)
      BY <1>10, <1>12
    <3>. QED BY <3>1, Zenon
  <2>. QED BY <1>7, <1>9, <1>10, <2>1, Zenon
<1>. QED BY <1>11, <1>12, Zenon

(* The chunks are the matches of the expression that the code's comment     *)
(* quotes (tokenizer.c:126-131), the longest of the first alternative that *)
(* has one, for every text whose words have no blank but a space before    *)
(* them: the hand-written rounds of pretokenize (tokenizer.c:157-200) and  *)
(* the expression agree.                                                   *)
THEOREM ChunksAreMatches == Spec => []ChunksFollowExpression
<1>. USE TokenizerAssumption
<1>1. Init => FollowInv
  BY DEF Init, FollowInv
<1>2. ASSUME ChunkInv, FollowInv, [Step]_vars PROVE FollowInv'
  <2>1. CASE CutContraction \/ CutWord \/ CutLastBlanks \/ CutBlanks
    BY <1>2, <2>1, CutStepFollows, Zenon
  <2>2. CASE Encode
    <3>1. chunks' = <<>>
      BY <1>2, <2>2 DEF ChunkInv, Encode, cut
    <3>. QED BY <3>1 DEF FollowInv
  <2>3. CASE InsertToken \/ InsertMerge \/ CutEnds \/ UNCHANGED vars
    <3>1. text' = text /\ chunks' = chunks
      BY <2>3 DEF InsertToken, InsertMerge, CutEnds, vars, cut, input
    <3>. QED BY <1>2, <3>1, FollowSame, Zenon
  <2>4. CASE StartChunk \/ Merge \/ MergeEnds \/ Emit \/ EncodeEnds \/ DecodeOne \/ Finish
    <3>1. text' = text /\ chunks' = chunks
      BY <2>4 DEF StartChunk, Merge, MergeEnds, Emit, EncodeEnds, DecodeOne, Finish,
                  cut, input
    <3>. QED BY <1>2, <3>1, FollowSame, Zenon
  <2>. QED BY <1>2, <2>1, <2>2, <2>3, <2>4, Zenon DEF Step
<1>3. FollowInv => ChunksFollowExpression
  BY Zenon DEF FollowInv, Follows, ChunksFollowExpression
<1>. QED BY <1>1, <1>2, <1>3, ChunkInvariance, PTL DEF Spec

-----------------------------------------------------------------------------
(* One rule applied to a whole chunk, as a scan from its first text to its  *)
(* last; and all the rules, one after the other.                           *)

Spellings == Seq(Bytes)

ScanStep(acc, t, m) ==
    IF acc # <<>> /\ <<Seqs!Last(acc), t>> = model.merges[m]
    THEN Append(Seqs!Front(acc), MergeText(m))
    ELSE Append(acc, t)

IsScan(r, seq, m) ==
    /\ r[0] = <<>> /\ r[Len(seq)] = ReplacePair(seq, m)
    /\ \A k \in 0..Len(seq) : r[k] \in Seq(Spellings)
    /\ \A k \in 1..Len(seq) : r[k] = ScanStep(r[k - 1], seq[k], m)

LEMMA ScanStepType ==
    ASSUME NEW m, MergeText(m) \in Spellings, NEW acc \in Seq(Spellings), NEW t \in Spellings
    PROVE  ScanStep(acc, t, m) \in Seq(Spellings)
<1>1. CASE acc # <<>> /\ <<Seqs!Last(acc), t>> = model.merges[m]
  <2>1. PICK a, z : a = SubSeq(acc, 1, Len(acc) - 1) /\ z = MergeText(m)
    OBVIOUS
  <2>2. a \in Seq(Spellings)
    BY <2>1
  <2>3. Append(a, z) \in Seq(Spellings)
    BY <2>1, <2>2
  <2>. QED BY <1>1, <2>1, <2>3, Zenon DEF ScanStep, Seqs!Front
<1>2. CASE ~(acc # <<>> /\ <<Seqs!Last(acc), t>> = model.merges[m])
  <2>1. Append(acc, t) \in Seq(Spellings)
    OBVIOUS
  <2>. QED BY <1>2, <2>1, Zenon DEF ScanStep
<1>. QED BY <1>1, <1>2

LEMMA ScanExists ==
    ASSUME NEW m, MergeText(m) \in Spellings, NEW seq \in Seq(Spellings)
    PROVE  \E r : IsScan(r, seq, m)
<1>. DEFINE A == Seq(Spellings)
            n == Len(seq)
            G == [p \in A \X Spellings |-> ScanStep(p[1], p[2], m)]
            IsF(f) == f = [s \in SUBSET DOMAIN seq |->
                             IF s = {} THEN <<>> ELSE ScanStep(f[s \ {Top(s)}], seq[Top(s)], m)]
<1>1. n \in Nat /\ DOMAIN seq = 1..n /\ <<>> \in A /\ \A k \in 1..n : seq[k] \in Spellings
  OBVIOUS
<1>2. \A acc \in A, t \in Spellings :
          ScanStep(acc, t, m) \in A /\ <<acc, t>> \in A \X Spellings /\ G[<<acc, t>>] = ScanStep(acc, t, m)
  <2>1. \A acc \in A, t \in Spellings : ScanStep(acc, t, m) \in A
    BY ScanStepType
  <2>2. \A acc \in A, t \in Spellings : G[<<acc, t>>] = ScanStep(acc, t, m)
    OBVIOUS
  <2>. QED BY <2>1, <2>2
<1>3. G \in [A \X Spellings -> A]
  BY <1>2
<1>. HIDE DEF G, A
<1>4. PICK f : IsFold(f, G, <<>>, seq, n) /\ FoldsInto(f, A, n)
  BY <1>1, <1>3, FoldExists, Zenon
<1>5. IsF(f)
  <2>1. ASSUME NEW s \in SUBSET (1..n)
        PROVE  (IF s = {} THEN <<>> ELSE G[<<f[s \ {Top(s)}], seq[Top(s)]>>])
                 = IF s = {} THEN <<>> ELSE ScanStep(f[s \ {Top(s)}], seq[Top(s)], m)
    <3>1. CASE s # {}
      <4>1. PICK u, k : u = s \ {Top(s)} /\ k = Top(s)
        OBVIOUS
      <4>2. k \in 1..n /\ u \in SUBSET (1..n)
        BY <1>1, <3>1, <4>1, TopFacts
      <4>3. f[u] \in A /\ seq[k] \in Spellings
        BY <1>1, <1>4, <4>2, Zenon DEF FoldsInto
      <4>. QED BY <1>2, <4>1, <4>3, Zenon
    <3>. QED BY <3>1, Zenon
  <2>2. [s \in SUBSET (1..n) |-> IF s = {} THEN <<>> ELSE G[<<f[s \ {Top(s)}], seq[Top(s)]>>]]
          = [s \in SUBSET (1..n) |-> IF s = {} THEN <<>> ELSE ScanStep(f[s \ {Top(s)}], seq[Top(s)], m)]
    BY <2>1, Zenon
  <2>. QED BY <1>1, <1>4, <2>2, Zenon DEF IsFold
<1>6. PICK g : g = CHOOSE h : IsF(h)
  OBVIOUS
<1>7. IsF(g)
  <2>. HIDE DEF IsF
  <2>. QED BY <1>5, <1>6, Zenon
<1>8. ReplacePair(seq, m) = (CHOOSE h : IsF(h))[DOMAIN seq]
  BY Zenon DEF ReplacePair, Seqs!FoldLeft, Seqs!MapThenFoldSet, Seqs!Max, Top, ScanStep
<1>9. ReplacePair(seq, m) = g[1..n]
  <2>. HIDE DEF IsF
  <2>. QED BY <1>1, <1>6, <1>8, Zenon
<1>10. g[1..0] = <<>>
  <2>1. 1..0 = {} /\ {} \in SUBSET (1..n)
    OBVIOUS
  <2>. QED BY <1>1, <1>7, <2>1, Zenon
<1>11. ASSUME NEW k \in 1..n
       PROVE  g[1..k] = ScanStep(g[1..k-1], seq[k], m)
  <2>1. k \in Nat /\ k # 0 /\ 1..k \in SUBSET (1..n)
    BY <1>1
  <2>2. Top(1..k) = k /\ (1..k) \ {Top(1..k)} = 1..k-1 /\ 1..k # {}
    BY <2>1, TopOfPrefix, Zenon
  <2>3. g[1..k] = ScanStep(g[(1..k) \ {Top(1..k)}], seq[Top(1..k)], m)
    BY <1>1, <1>7, <2>1, <2>2, Zenon
  <2>. QED BY <2>2, <2>3, Zenon
<1>12. PICK r : r = [k \in 0..n |-> g[1..k]]
  OBVIOUS
<1>13. r[0] = <<>> /\ r[n] = ReplacePair(seq, m)
  <2>1. 0 \in 0..n /\ n \in 0..n
    BY <1>1
  <2>. QED BY <1>9, <1>10, <1>12, <2>1, Zenon
<1>14. ASSUME NEW k \in 1..n PROVE r[k] = ScanStep(r[k - 1], seq[k], m)
  <2>1. k \in 0..n /\ k - 1 \in 0..n
    BY <1>1
  <2>. QED BY <1>11, <1>12, <2>1, Zenon
<1>15. ASSUME NEW k \in 0..n PROVE r[k] \in A
  <2>. DEFINE Bad == {x \in 0..n : r[x] \notin A}
  <2>1. ASSUME Bad # {} PROVE FALSE
    <3>1. PICK x : x = First(Bad)
      OBVIOUS
    <3>2. x \in Bad /\ \A y \in Bad : x <= y
      <4>1. Bad \in SUBSET Nat
        OBVIOUS
      <4>. HIDE DEF Bad
      <4>. QED BY <2>1, <3>1, <4>1, FirstFacts
    <3>3. x \in 0..n /\ r[x] \notin A
      BY <3>2
    <3>4. x # 0
      BY <1>1, <1>13, <3>3
    <3>5. x \in 1..n /\ x - 1 \in 0..n /\ ~(x <= x - 1)
      BY <1>1, <3>3, <3>4
    <3>6. r[x - 1] \in A
      BY <3>2, <3>5
    <3>7. r[x] = ScanStep(r[x - 1], seq[x], m) /\ seq[x] \in Spellings
      BY <1>1, <1>14, <3>5
    <3>. QED BY <1>2, <3>3, <3>6, <3>7, Zenon
  <2>. QED BY <2>1
<1>16. IsScan(r, seq, m)
  BY <1>13, <1>14, <1>15, Zenon DEF IsScan, A
<1>. QED BY <1>16

LEMMA ReplacePairType ==
    ASSUME NEW m, MergeText(m) \in Spellings, NEW seq \in Seq(Spellings)
    PROVE  ReplacePair(seq, m) \in Seq(Spellings)
<1>1. PICK r : IsScan(r, seq, m)
  BY ScanExists, Zenon
<1>2. Len(seq) \in 0..Len(seq)
  OBVIOUS
<1>. QED BY <1>1, <1>2, Zenon DEF IsScan

LEMMA MergeTexts ==
    ASSUME TokenizerAssumption, model \in Models, WellFormed, NEW m \in 1..Len(model.merges)
    PROVE  /\ model.merges[m] \in Spellings \X Spellings
           /\ model.merges[m][1] \in Spellings /\ model.merges[m][2] \in Spellings
           /\ MergeText(m) \in Spellings
<1>1. PICK line : line = model.merges[m]
  OBVIOUS
<1>2. line \in Seq(Seq(Bytes))
  BY <1>1, LineFacts
<1>3. Len(line) = 2
  BY <1>1, Zenon DEF WellFormed, LineFits
<1>4. PICK x, y : x = line[1] /\ y = line[2]
  OBVIOUS
<1>5. x \in Seq(Bytes) /\ y \in Seq(Bytes) /\ line = <<x, y>>
  BY <1>2, <1>3, <1>4, TwoOf, Zenon
<1>6. x \o y \in Seq(Bytes) /\ line \in Seq(Bytes) \X Seq(Bytes)
  BY <1>5
<1>. QED BY <1>1, <1>4, <1>5, <1>6, Zenon DEF MergeText, Spellings

RulesInOrder == [m \in DOMAIN model.merges |-> m]
OfBytes(t)   == [a \in DOMAIN t |-> <<t[a]>>]

(* b holds what each rule makes of what the rule before it left.           *)
IsRules(b, t) ==
    /\ b[0] = OfBytes(t) /\ b[Len(model.merges)] = ByRules(t)
    /\ \A m \in 1..Len(model.merges) : b[m] = ReplacePair(b[m - 1], m)

LEMMA RulesExist ==
    ASSUME TokenizerAssumption, model \in Models, WellFormed, NEW t \in Seq(Bytes)
    PROVE  \E b : IsRules(b, t)
<1>. DEFINE A == Seq(Spellings)
            n == Len(model.merges)
            G == [p \in A \X (1..n) |-> ReplacePair(p[1], p[2])]
            seq == RulesInOrder
            IsF(f) == f = [s \in SUBSET DOMAIN seq |->
                             IF s = {} THEN OfBytes(t) ELSE ReplacePair(f[s \ {Top(s)}], seq[Top(s)])]
<1>1. n \in Nat /\ DOMAIN seq = 1..n /\ \A k \in 1..n : seq[k] = k
  <2>1. model.merges \in Seq(Lines)
    BY DEF TokenizerAssumption
  <2>2. n \in Nat /\ DOMAIN model.merges = 1..n
    BY <2>1
  <2>. QED BY <2>2 DEF RulesInOrder
<1>2. OfBytes(t) \in A
  <2>1. Len(t) \in Nat /\ DOMAIN t = 1..Len(t) /\ \A a \in 1..Len(t) : <<t[a]>> \in Spellings
    BY DEF Spellings
  <2>. QED BY <2>1 DEF OfBytes
<1>3. \A acc \in A, m \in 1..n :
          ReplacePair(acc, m) \in A /\ <<acc, m>> \in A \X (1..n) /\ G[<<acc, m>>] = ReplacePair(acc, m)
  <2>1. \A acc \in A, m \in 1..n : ReplacePair(acc, m) \in A
    BY MergeTexts, ReplacePairType, Zenon
  <2>2. \A acc \in A, m \in 1..n : G[<<acc, m>>] = ReplacePair(acc, m)
    OBVIOUS
  <2>. QED BY <2>1, <2>2
<1>4. G \in [A \X (1..n) -> A]
  BY <1>3
<1>5. \A k \in 1..n : seq[k] \in 1..n
  BY <1>1
<1>. HIDE DEF G, A, seq
<1>6. PICK f : IsFold(f, G, OfBytes(t), seq, n) /\ FoldsInto(f, A, n)
  BY <1>1, <1>2, <1>4, <1>5, FoldExists, Zenon
<1>7. IsF(f)
  <2>1. ASSUME NEW s \in SUBSET (1..n)
        PROVE  (IF s = {} THEN OfBytes(t) ELSE G[<<f[s \ {Top(s)}], seq[Top(s)]>>])
                 = IF s = {} THEN OfBytes(t) ELSE ReplacePair(f[s \ {Top(s)}], seq[Top(s)])
    <3>1. CASE s # {}
      <4>1. PICK u, k : u = s \ {Top(s)} /\ k = Top(s)
        OBVIOUS
      <4>2. k \in 1..n /\ u \in SUBSET (1..n)
        BY <1>1, <3>1, <4>1, TopFacts
      <4>3. f[u] \in A /\ seq[k] \in 1..n
        BY <1>5, <1>6, <4>2, Zenon DEF FoldsInto
      <4>. QED BY <1>3, <4>1, <4>3, Zenon
    <3>. QED BY <3>1, Zenon
  <2>2. [s \in SUBSET (1..n) |-> IF s = {} THEN OfBytes(t) ELSE G[<<f[s \ {Top(s)}], seq[Top(s)]>>]]
          = [s \in SUBSET (1..n) |-> IF s = {} THEN OfBytes(t) ELSE ReplacePair(f[s \ {Top(s)}], seq[Top(s)])]
    BY <2>1, Zenon
  <2>. QED BY <1>1, <1>6, <2>2, Zenon DEF IsFold
<1>8. PICK g : g = CHOOSE h : IsF(h)
  OBVIOUS
<1>9. IsF(g)
  <2>. HIDE DEF IsF
  <2>. QED BY <1>7, <1>8, Zenon
<1>10. ByRules(t) = (CHOOSE h : IsF(h))[DOMAIN seq]
  BY Zenon DEF ByRules, Seqs!FoldLeft, Seqs!MapThenFoldSet, Seqs!Max, Top, OfBytes, RulesInOrder, seq
<1>11. ByRules(t) = g[1..n]
  <2>. HIDE DEF IsF
  <2>. QED BY <1>1, <1>8, <1>10, Zenon
<1>12. g[1..0] = OfBytes(t)
  <2>1. 1..0 = {} /\ {} \in SUBSET (1..n)
    OBVIOUS
  <2>. QED BY <1>1, <1>9, <2>1, Zenon
<1>13. ASSUME NEW k \in 1..n
       PROVE  g[1..k] = ReplacePair(g[1..k-1], k)
  <2>1. k \in Nat /\ k # 0 /\ 1..k \in SUBSET (1..n)
    BY <1>1
  <2>2. Top(1..k) = k /\ (1..k) \ {Top(1..k)} = 1..k-1 /\ 1..k # {}
    BY <2>1, TopOfPrefix, Zenon
  <2>3. g[1..k] = ReplacePair(g[(1..k) \ {Top(1..k)}], seq[Top(1..k)])
    BY <1>1, <1>9, <2>1, <2>2, Zenon
  <2>. QED BY <1>1, <2>2, <2>3, Zenon
<1>14. PICK b : b = [k \in 0..n |-> g[1..k]]
  OBVIOUS
<1>15. b[0] = OfBytes(t) /\ b[n] = ByRules(t)
  <2>1. 0 \in 0..n /\ n \in 0..n
    BY <1>1
  <2>. QED BY <1>11, <1>12, <1>14, <2>1, Zenon
<1>16. ASSUME NEW k \in 1..n PROVE b[k] = ReplacePair(b[k - 1], k)
  <2>1. k \in 0..n /\ k - 1 \in 0..n
    BY <1>1
  <2>. QED BY <1>13, <1>14, <2>1, Zenon
<1>. QED BY <1>15, <1>16, Zenon DEF IsRules

(* The texts k and k + 1 are those that rule m merges.                     *)
PairAt(seq, k, m) == <<seq[k], seq[k + 1]>> = model.merges[m]

(* p is the first k elements of seq.                                       *)
IsBegin(p, seq, k) == p \in Seq(Spellings) /\ Len(p) = k /\ \A a \in 1..k : p[a] = seq[a]

LEMMA ScanAppends ==
    ASSUME NEW m, NEW acc \in Seq(Spellings), NEW t \in Spellings,
           Len(acc) >= 1 => <<acc[Len(acc)], t>> # model.merges[m]
    PROVE  ScanStep(acc, t, m) = Append(acc, t)
<1>1. acc # <<>> => Len(acc) >= 1
  OBVIOUS
<1>. QED BY <1>1, Zenon DEF ScanStep, Seqs!Last

LEMMA ScanMerges ==
    ASSUME NEW m, NEW acc \in Seq(Spellings), NEW t \in Spellings,
           Len(acc) >= 1, <<acc[Len(acc)], t>> = model.merges[m]
    PROVE  ScanStep(acc, t, m) = Append(SubSeq(acc, 1, Len(acc) - 1), MergeText(m))
<1>1. acc # <<>>
  OBVIOUS
<1>. QED BY <1>1, Zenon DEF ScanStep, Seqs!Last, Seqs!Front

LEMMA BeginGrows ==
    ASSUME NEW seq \in Seq(Spellings), NEW k \in 1..Len(seq), NEW p, IsBegin(p, seq, k - 1)
    PROVE  IsBegin(Append(p, seq[k]), seq, k)
<1>1. p \in Seq(Spellings) /\ Len(p) = k - 1 /\ (\A a \in 1..k-1 : p[a] = seq[a]) /\ seq[k] \in Spellings
  BY DEF IsBegin
<1>2. PICK x, n : x = seq[k] /\ n = Append(p, x)
  OBVIOUS
<1>3. n \in Seq(Spellings) /\ Len(n) = k /\ n[k] = x /\ \A a \in 1..k-1 : n[a] = p[a]
  BY <1>1, <1>2
<1>4. ASSUME NEW a \in 1..k PROVE n[a] = seq[a]
  BY <1>1, <1>2, <1>3
<1>. QED BY <1>2, <1>3, <1>4, Zenon DEF IsBegin

(* Before the first pair that the rule merges, the scan copies.            *)
LEMMA ScanBegins ==
    ASSUME NEW m, NEW seq \in Seq(Spellings), NEW r, IsScan(r, seq, m),
           NEW j \in 0..Len(seq), \A k \in 1..j-1 : ~PairAt(seq, k, m)
    PROVE  \A k \in 0..j : IsBegin(r[k], seq, k)
<1>. DEFINE Bad == {x \in 0..j : ~IsBegin(r[x], seq, x)}
<1>1. ASSUME Bad # {} PROVE FALSE
  <2>1. PICK x : x = First(Bad)
    OBVIOUS
  <2>2. x \in Bad /\ \A y \in Bad : x <= y
    <3>1. Bad \in SUBSET Nat
      OBVIOUS
    <3>. HIDE DEF Bad
    <3>. QED BY <1>1, <2>1, <3>1, FirstFacts
  <2>3. x \in 0..j /\ ~IsBegin(r[x], seq, x) /\ Len(seq) \in Nat
    BY <2>2
  <2>4. x # 0
    <3>1. r[0] = <<>>
      BY DEF IsScan
    <3>2. IsBegin(<<>>, seq, 0)
      BY DEF IsBegin
    <3>. QED BY <2>3, <3>1, <3>2
  <2>5. x \in 1..Len(seq) /\ x - 1 \in 0..j /\ ~(x <= x - 1) /\ (x - 1) + 1 = x
    BY <2>3, <2>4
  <2>6. PICK acc : acc = r[x - 1]
    OBVIOUS
  <2>7. IsBegin(acc, seq, x - 1)
    BY <2>2, <2>5, <2>6
  <2>8. seq[x] \in Spellings /\ acc \in Seq(Spellings) /\ Len(acc) = x - 1
    BY <2>5, <2>7 DEF IsBegin
  <2>9. ASSUME Len(acc) >= 1 PROVE <<acc[Len(acc)], seq[x]>> # model.merges[m]
    <3>1. x - 1 \in 1..x-1 /\ x - 1 \in 1..j-1
      BY <2>3, <2>5, <2>8, <2>9
    <3>2. acc[x - 1] = seq[x - 1]
      BY <2>7, <3>1 DEF IsBegin
    <3>3. ~PairAt(seq, x - 1, m)
      BY <3>1
    <3>. QED BY <2>5, <2>8, <3>2, <3>3, Zenon DEF PairAt
  <2>10. r[x] = Append(acc, seq[x])
    <3>1. r[x] = ScanStep(acc, seq[x], m)
      BY <2>5, <2>6, Zenon DEF IsScan
    <3>. QED BY <2>8, <2>9, <3>1, ScanAppends, Zenon
  <2>. QED BY <2>3, <2>5, <2>7, <2>10, BeginGrows, Zenon
<1>. QED BY <1>1

LEMMA BeginIsAll ==
    ASSUME NEW seq \in Seq(Spellings), NEW p, IsBegin(p, seq, Len(seq))
    PROVE  p = seq
<1>1. PICK n : n = Len(seq)
  OBVIOUS
<1>2. p \in Seq(Spellings) /\ Len(p) = n /\ \A a \in 1..n : p[a] = seq[a]
  BY <1>1 DEF IsBegin
<1>. QED BY <1>1, <1>2, SeqEqual

(* A rule without a pair changes nothing.                                  *)
LEMMA NoPairKeeps ==
    ASSUME NEW m, MergeText(m) \in Spellings, NEW seq \in Seq(Spellings),
           \A k \in 1..Len(seq)-1 : ~PairAt(seq, k, m)
    PROVE  ReplacePair(seq, m) = seq
<1>1. PICK r : IsScan(r, seq, m)
  BY ScanExists, Zenon
<1>2. Len(seq) \in 0..Len(seq)
  OBVIOUS
<1>3. IsBegin(r[Len(seq)], seq, Len(seq))
  BY <1>1, <1>2, ScanBegins, Zenon
<1>. QED BY <1>1, <1>3, BeginIsAll, Zenon DEF IsScan

LEMMA NotItsEnd ==
    ASSUME NEW x \in Seq(Bytes), NEW y \in Seq(Bytes), x # <<>>
    PROVE  x \o y # y
<1>1. Len(x \o y) = Len(x) + Len(y) /\ Len(x) # 0 /\ Len(x) \in Nat /\ Len(y) \in Nat
  OBVIOUS
<1>2. Len(x \o y) # Len(y)
  BY <1>1
<1>. QED BY <1>2

(* Merging the first pair beforehand changes nothing: the scan of the new   *)
(* texts is one step ahead.                                                *)
LEMMA FirstPairReplaced ==
    ASSUME NEW m, MergeText(m) \in Spellings, NEW seq \in Seq(Spellings),
           model.merges[m] \in Spellings \X Spellings, model.merges[m][1] # <<>>,
           NEW j \in Nat, 1 <= j, j < Len(seq), PairAt(seq, j, m),
           \A k \in 1..j-1 : ~PairAt(seq, k, m),
           NEW new \in Seq(Spellings), Replaced(new, seq, j, MergeText(m))
    PROVE  ReplacePair(new, m) = ReplacePair(seq, m)
<1>1. PICK r, q : IsScan(r, seq, m) /\ IsScan(q, new, m)
  BY ScanExists, Zenon
<1>2. PICK n \in Nat : /\ n = Len(seq) /\ Len(new) = n - 1 /\ j < n
                       /\ j \in 1..n /\ j + 1 \in 1..n /\ j \in 1..n-1
  BY DEF Replaced
<1>3. PICK x, y, z : x = seq[j] /\ y = seq[j + 1] /\ z = MergeText(m)
  OBVIOUS
<1>4. x \in Spellings /\ y \in Spellings /\ z \in Spellings
  BY <1>2, <1>3
<1>5. model.merges[m] = <<x, y>> /\ x # <<>> /\ z = x \o y
  <2>1. model.merges[m] = <<x, y>>
    BY <1>3, Zenon DEF PairAt
  <2>2. model.merges[m][1] = x /\ model.merges[m][2] = y
    BY <2>1
  <2>. QED BY <1>3, <2>1, <2>2, Zenon DEF MergeText
<1>6. new[j] = z /\ (\A k \in 1..j-1 : new[k] = seq[k]) /\ (\A k \in j+1..n-1 : new[k] = seq[k + 1])
  <2>1. \A k \in 1..n-1 : new[k] = IF k < j THEN seq[k] ELSE IF k = j THEN z ELSE seq[k + 1]
    BY <1>2, <1>3, Zenon DEF Replaced
  <2>2. \A k \in 1..j-1 : k \in 1..n-1 /\ k < j
    BY <1>2
  <2>3. \A k \in j+1..n-1 : k \in 1..n-1 /\ ~(k < j) /\ k # j
    BY <1>2
  <2>4. ~(j < j)
    OBVIOUS
  <2>. QED BY <1>2, <2>1, <2>2, <2>3, <2>4, Zenon
<1>7. IsBegin(r[j], seq, j)
  <2>1. j \in 0..Len(seq) /\ j \in 0..j
    BY <1>2
  <2>. QED BY <1>1, <2>1, ScanBegins, Zenon
<1>8. IsBegin(q[j - 1], new, j - 1)
  <2>1. j - 1 \in 0..Len(new) /\ j - 1 \in 0..j-1
    BY <1>2
  <2>2. ASSUME NEW k \in 1..(j-1)-1 PROVE ~PairAt(new, k, m)
    <3>1. k \in 1..j-1 /\ k + 1 \in 1..j-1
      OBVIOUS
    <3>. QED BY <1>6, <3>1, Zenon DEF PairAt
  <2>. QED BY <1>1, <2>1, <2>2, ScanBegins, Zenon
<1>9. PICK p : p = q[j - 1]
  OBVIOUS
<1>10. p \in Seq(Spellings) /\ Len(p) = j - 1 /\ \A a \in 1..j-1 : p[a] = seq[a]
  BY <1>6, <1>8, <1>9, Zenon DEF IsBegin
<1>11. r[j + 1] = Append(p, z)
  <2>1. PICK acc : acc = r[j]
    OBVIOUS
  <2>2. acc \in Seq(Spellings) /\ Len(acc) = j /\ acc[j] = x /\ \A a \in 1..j-1 : acc[a] = seq[a]
    <3>1. acc \in Seq(Spellings) /\ Len(acc) = j /\ \A a \in 1..j : acc[a] = seq[a]
      BY <1>7, <2>1, Zenon DEF IsBegin
    <3>2. j \in 1..j /\ \A a \in 1..j-1 : a \in 1..j
      OBVIOUS
    <3>. QED BY <1>3, <3>1, <3>2, Zenon
  <2>3. PICK w : w = SubSeq(acc, 1, j - 1)
    OBVIOUS
  <2>4. w \in Seq(Spellings) /\ Len(w) = j - 1 /\ \A a \in 1..j-1 : w[a] = acc[a]
    <3>1. /\ 1 \in Nat /\ j - 1 \in Nat /\ 1 <= j - 1 + 1 /\ j - 1 <= Len(acc) /\ 1 >= 1
          /\ j - 1 - 1 + 1 = j - 1
      BY <2>2
    <3>2. \A a \in 1..j-1 : 1 + a - 1 = a
      OBVIOUS
    <3>. QED BY <2>2, <2>3, <3>1, <3>2, SubSeqFacts
  <2>5. w = p
    BY <1>10, <2>2, <2>4, SeqEqual
  <2>6. r[j + 1] = ScanStep(acc, y, m)
    <3>1. j + 1 \in 1..Len(seq) /\ (j + 1) - 1 = j
      BY <1>2
    <3>. QED BY <1>1, <1>3, <2>1, <3>1, Zenon DEF IsScan
  <2>7. ScanStep(acc, y, m) = Append(w, z)
    <3>1. Len(acc) >= 1 /\ <<acc[Len(acc)], y>> = model.merges[m]
      BY <1>5, <2>2
    <3>. QED BY <1>3, <1>4, <2>2, <2>3, <3>1, ScanMerges, Zenon
  <2>. QED BY <2>5, <2>6, <2>7, Zenon
<1>12. q[j] = Append(p, z)
  <2>1. q[j] = ScanStep(p, z, m)
    <3>1. j \in 1..Len(new)
      BY <1>2
    <3>. QED BY <1>1, <1>6, <1>9, <3>1, Zenon DEF IsScan
  <2>2. z # y
    BY <1>4, <1>5, NotItsEnd, Zenon DEF Spellings
  <2>3. <<p[Len(p)], z>> # model.merges[m]
    BY <1>5, <2>2
  <2>. QED BY <1>4, <1>10, <2>1, <2>3, ScanAppends, Zenon
<1>. DEFINE Bad == {k \in j..n-1 : q[k] # r[k + 1]}
<1>13. ASSUME Bad # {} PROVE FALSE
  <2>1. PICK k : k = First(Bad)
    OBVIOUS
  <2>2. k \in Bad /\ \A l \in Bad : k <= l
    <3>1. Bad \in SUBSET Nat
      OBVIOUS
    <3>. HIDE DEF Bad
    <3>. QED BY <1>13, <2>1, <3>1, FirstFacts
  <2>3. k \in j..n-1 /\ q[k] # r[k + 1]
    BY <2>2
  <2>4. k # j
    BY <1>11, <1>12, <2>3
  <2>5. /\ k - 1 \in j..n-1 /\ ~(k <= k - 1) /\ k \in j+1..n-1
        /\ k \in 1..n-1 /\ k + 1 \in 1..n /\ (k + 1) - 1 = k /\ (k - 1) + 1 = k
    BY <1>2, <2>3, <2>4
  <2>6. q[k - 1] = r[k]
    <3>1. k - 1 \notin Bad
      BY <2>2, <2>5
    <3>. QED BY <2>5, <3>1
  <2>7. q[k] = ScanStep(q[k - 1], new[k], m) /\ r[k + 1] = ScanStep(r[k], seq[k + 1], m)
    BY <1>1, <1>2, <2>5, Zenon DEF IsScan
  <2>8. new[k] = seq[k + 1]
    BY <1>6, <2>5, Zenon
  <2>. QED BY <2>3, <2>6, <2>7, <2>8, Zenon
<1>14. q[n - 1] = r[n]
  <2>1. n - 1 \in j..n-1 /\ (n - 1) + 1 = n
    BY <1>2
  <2>. QED BY <1>13, <2>1
<1>. QED BY <1>1, <1>2, <1>14, Zenon DEF IsScan

-----------------------------------------------------------------------------
(* A chunk under way: no rule up to m merges a pair of it, and the rules    *)
(* after m make of it what they make of the bytes.                         *)

Absent(cur, n) == \A k \in 1..Len(cur)-1 : ~PairAt(cur, k, n)

Stage(cur, m, b) ==
    /\ cur \in Seq(Spellings) /\ m \in 0..Len(model.merges)
    /\ \A n \in 1..m : Absent(cur, n)
    /\ IF m = Len(model.merges) THEN cur = b[m] ELSE ReplacePair(cur, m + 1) = b[m + 1]

LEMMA MergesCount ==
    ASSUME TokenizerAssumption, model \in Models
    PROVE  Len(model.merges) \in Nat
BY ModelFacts

LEMMA StageBegins ==
    ASSUME TokenizerAssumption, model \in Models, NEW t \in Seq(Bytes), NEW b, IsRules(b, t)
    PROVE  Stage(OfBytes(t), 0, b)
<1>1. OfBytes(t) \in Seq(Spellings)
  <2>1. Len(t) \in Nat /\ DOMAIN t = 1..Len(t) /\ \A a \in 1..Len(t) : <<t[a]>> \in Spellings
    BY DEF Spellings
  <2>. QED BY <2>1 DEF OfBytes
<1>2. PICK M \in Nat : M = Len(model.merges)
  BY MergesCount
<1>3. b[0] = OfBytes(t)
  BY Zenon DEF IsRules
<1>4. M # 0 => ReplacePair(OfBytes(t), 0 + 1) = b[0 + 1]
  <2>1. M # 0 => 0 + 1 \in 1..M /\ (0 + 1) - 1 = 0
    OBVIOUS
  <2>. QED BY <1>2, <1>3, <2>1, Zenon DEF IsRules
<1>5. 0 \in 0..M /\ \A n \in 1..0 : FALSE
  OBVIOUS
<1>. QED BY <1>1, <1>2, <1>3, <1>4, <1>5, Zenon DEF Stage

LEMMA StageAdvances ==
    ASSUME TokenizerAssumption, model \in Models, WellFormed, NEW t, NEW b, IsRules(b, t),
           NEW cur, NEW m, Stage(cur, m, b), m < Len(model.merges), Absent(cur, m + 1)
    PROVE  Stage(cur, m + 1, b)
<1>1. PICK M \in Nat : M = Len(model.merges)
  BY MergesCount
<1>2. m \in 0..M /\ m # M /\ m + 1 \in 1..M /\ m + 1 \in 0..M /\ \A n \in 1..m+1 : n \in 1..m \/ n = m + 1
  BY <1>1 DEF Stage
<1>3. cur \in Seq(Spellings) /\ (\A n \in 1..m : Absent(cur, n)) /\ ReplacePair(cur, m + 1) = b[m + 1]
  BY <1>1, <1>2, Zenon DEF Stage
<1>4. cur = b[m + 1]
  <2>1. MergeText(m + 1) \in Spellings
    BY <1>1, <1>2, MergeTexts, Zenon
  <2>2. ReplacePair(cur, m + 1) = cur
    BY <1>3, <2>1, NoPairKeeps, Zenon DEF Absent
  <2>. QED BY <1>3, <2>2, Zenon
<1>5. m + 1 # M => ReplacePair(cur, (m + 1) + 1) = b[(m + 1) + 1]
  <2>1. m + 1 # M => (m + 1) + 1 \in 1..M /\ ((m + 1) + 1) - 1 = m + 1
    BY <1>2
  <2>. QED BY <1>1, <1>4, <2>1, Zenon DEF IsRules
<1>6. \A n \in 1..m+1 : Absent(cur, n)
  BY <1>2, <1>3, Zenon
<1>. QED BY <1>1, <1>2, <1>3, <1>4, <1>5, <1>6, Zenon DEF Stage

LEMMA StageReaches ==
    ASSUME TokenizerAssumption, model \in Models, WellFormed, NEW t, NEW b, IsRules(b, t),
           NEW cur, NEW m, Stage(cur, m, b), NEW q \in Nat, m <= q, q <= Len(model.merges),
           \A n \in m+1..q : Absent(cur, n)
    PROVE  Stage(cur, q, b)
<1>1. PICK M \in Nat : M = Len(model.merges)
  BY MergesCount
<1>2. m \in Nat
  BY <1>1 DEF Stage
<1>. DEFINE Bad == {x \in m..q : ~Stage(cur, x, b)}
<1>3. ASSUME Bad # {} PROVE FALSE
  <2>1. PICK x : x = First(Bad)
    OBVIOUS
  <2>2. x \in Bad /\ \A y \in Bad : x <= y
    <3>1. Bad \in SUBSET Nat
      BY <1>2
    <3>. HIDE DEF Bad
    <3>. QED BY <1>3, <2>1, <3>1, FirstFacts
  <2>3. x \in m..q /\ ~Stage(cur, x, b)
    BY <2>2
  <2>4. x # m
    BY <2>3
  <2>5. x - 1 \in m..q /\ ~(x <= x - 1) /\ (x - 1) + 1 = x /\ x - 1 < M /\ x \in m+1..q
    BY <1>1, <1>2, <2>3, <2>4
  <2>6. Stage(cur, x - 1, b)
    BY <2>2, <2>5
  <2>7. Stage(cur, (x - 1) + 1, b)
    <3>1. x - 1 < Len(model.merges) /\ Absent(cur, (x - 1) + 1)
      BY <1>1, <2>5
    <3>. QED BY <2>6, <3>1, StageAdvances, Zenon
  <2>. QED BY <2>3, <2>5, <2>7
<1>4. q \in m..q
  BY <1>2
<1>. QED BY <1>3, <1>4

(* The rules build texts from bytes and from texts built before.           *)
Rules == 1..Len(model.merges)

LEMMA RulesJoinTexts ==
    ASSUME TokenizerAssumption, model \in Models, WellFormed
    PROVE  \A m \in Rules : model.merges[m][1] # <<>> /\ model.merges[m][2] # <<>>
<1>. DEFINE Bad == {m \in Rules : model.merges[m][1] = <<>> \/ model.merges[m][2] = <<>>}
<1>1. PICK M \in Nat : M = Len(model.merges)
  BY MergesCount
<1>2. ASSUME Bad # {} PROVE FALSE
  <2>1. PICK m : m = First(Bad)
    OBVIOUS
  <2>2. m \in Bad /\ \A y \in Bad : m <= y
    <3>1. Bad \in SUBSET Nat
      BY <1>1 DEF Rules
    <3>. HIDE DEF Bad
    <3>. QED BY <1>2, <2>1, <3>1, FirstFacts
  <2>3. PICK s \in {1, 2} : model.merges[m][s] = <<>>
    BY <2>2, Zenon
  <2>4. m \in 1..M
    BY <1>1, <2>2 DEF Rules
  <2>5. Len(model.merges[m][s]) # 1
    BY <2>3
  <2>6. PICK n \in 1..m-1 : MergeText(n) = model.merges[m][s]
    BY <1>1, <2>4, <2>5, Zenon DEF WellFormed
  <2>7. n \in 1..M /\ ~(m <= n)
    BY <2>4
  <2>8. n \in Rules /\ n \notin Bad
    BY <1>1, <2>2, <2>7 DEF Rules
  <2>9. model.merges[n][1] # <<>>
    BY <2>8, Zenon
  <2>10. MergeText(n) # <<>>
    <3>1. PICK x, y : x = model.merges[n][1] /\ y = model.merges[n][2]
      OBVIOUS
    <3>2. x \in Seq(Bytes) /\ y \in Seq(Bytes)
      BY <1>1, <2>7, <3>1, MergeTexts, Zenon DEF Spellings
    <3>3. x # <<>>
      BY <2>9, <3>1
    <3>4. Len(x) # 0 /\ Len(x) \in Nat /\ Len(y) \in Nat /\ Len(x \o y) = Len(x) + Len(y)
      BY <3>2, <3>3
    <3>5. Len(x \o y) # 0
      BY <3>4
    <3>6. x \o y # <<>>
      BY <3>5
    <3>. QED BY <3>1, <3>6, Zenon DEF MergeText
  <2>. QED BY <2>3, <2>6, <2>10
<1>. QED BY <1>2

(* What a rule makes is no half of a pair of an earlier rule.              *)
LEMMA MadeLater ==
    ASSUME TokenizerAssumption, model \in Models, WellFormed,
           NEW q \in Rules, NEW n \in 1..q-1
    PROVE  model.merges[n][1] # MergeText(q) /\ model.merges[n][2] # MergeText(q)
<1>1. PICK M \in Nat : M = Len(model.merges)
  BY MergesCount
<1>2. q \in 1..M /\ n \in 1..M
  BY <1>1 DEF Rules
<1>3. ASSUME NEW s \in {1, 2}, model.merges[n][s] = MergeText(q) PROVE FALSE
  <2>1. Len(MergeText(q)) # 1
    <3>1. PICK x, y : x = model.merges[q][1] /\ y = model.merges[q][2]
      OBVIOUS
    <3>2. x \in Seq(Bytes) /\ y \in Seq(Bytes)
      BY <1>1, <1>2, <3>1, MergeTexts, Zenon DEF Spellings
    <3>3. x # <<>> /\ y # <<>>
      BY <3>1, RulesJoinTexts, Zenon
    <3>4. /\ Len(x) # 0 /\ Len(x) \in Nat /\ Len(y) # 0 /\ Len(y) \in Nat
          /\ Len(x \o y) = Len(x) + Len(y)
      BY <3>2, <3>3
    <3>5. Len(x \o y) # 1
      BY <3>4
    <3>. QED BY <3>1, <3>5, Zenon DEF MergeText
  <2>2. PICK k \in 1..n-1 : MergeText(k) = MergeText(q)
    BY <1>1, <1>2, <1>3, <2>1, Zenon DEF WellFormed
  <2>3. k \in 1..q-1
    BY <1>2
  <2>. QED BY <1>1, <1>2, <2>2, <2>3, Zenon DEF WellFormed
<1>. QED BY <1>3

(* Merging the first pair of the lowest rank keeps the chunk on its way.   *)
LEMMA StageMerges ==
    ASSUME TokenizerAssumption, model \in Models, WellFormed, NEW b,
           NEW q \in Rules, NEW cur, Stage(cur, q - 1, b),
           NEW j \in Nat, 1 <= j, j < Len(cur), PairAt(cur, j, q),
           \A k \in 1..j-1 : ~PairAt(cur, k, q),
           NEW new \in Seq(Spellings), Replaced(new, cur, j, MergeText(q))
    PROVE  Stage(new, q - 1, b)
<1>1. PICK M \in Nat : M = Len(model.merges)
  BY MergesCount
<1>2. q \in 1..M /\ q - 1 \in 0..M /\ q - 1 # M /\ (q - 1) + 1 = q
  <2>1. q \in 1..M
    BY <1>1, Zenon DEF Rules
  <2>2. M \in Nat
    BY <1>1
  <2>. QED BY <2>1, <2>2
<1>3. cur \in Seq(Spellings) /\ (\A n \in 1..q-1 : Absent(cur, n)) /\ ReplacePair(cur, q) = b[q]
  BY <1>1, <1>2, Zenon DEF Stage
<1>4. PICK z : z = MergeText(q) /\ z \in Spellings
  BY <1>1, <1>2, MergeTexts, Zenon
<1>5. ReplacePair(new, q) = b[q]
  <2>1. model.merges[q] \in Spellings \X Spellings /\ model.merges[q][1] # <<>>
    BY <1>1, <1>2, MergeTexts, RulesJoinTexts, Zenon
  <2>. QED BY <1>3, <1>4, <2>1, FirstPairReplaced, Zenon
<1>6. ASSUME NEW n \in 1..q-1 PROVE Absent(new, n)
  <2>1. SUFFICES ASSUME NEW k \in 1..Len(new)-1, PairAt(new, k, n) PROVE FALSE
    BY Zenon DEF Absent
  <2>2. PICK l \in Nat : l = Len(cur) /\ Len(new) = l - 1
    BY <1>3 DEF Replaced
  <2>3. k \in 1..l-1 /\ k + 1 \in 1..l-1 /\ k + 1 \in 1..l /\ k \in 1..l
    BY <2>2
  <2>4. /\ new[k] = IF k < j THEN cur[k] ELSE IF k = j THEN z ELSE cur[k + 1]
        /\ new[k + 1] = IF k + 1 < j THEN cur[k + 1] ELSE IF k + 1 = j THEN z ELSE cur[(k + 1) + 1]
    BY <1>4, <2>2, <2>3, Zenon DEF Replaced
  <2>5. model.merges[n] = <<new[k], new[k + 1]>>
    BY <2>1, Zenon DEF PairAt
  <2>6. new[k] # z /\ new[k + 1] # z
    <3>1. model.merges[n][1] = new[k] /\ model.merges[n][2] = new[k + 1]
      BY <2>5
    <3>. QED BY <1>4, <3>1, MadeLater, Zenon
  <2>7. CASE k + 1 < j
    <3>1. k < j
      BY <2>3, <2>7
    <3>2. PairAt(cur, k, n)
      BY <2>4, <2>5, <2>7, <3>1, Zenon DEF PairAt
    <3>. QED BY <1>3, <2>2, <2>3, <3>2, Zenon DEF Absent
  <2>8. CASE k + 1 = j
    <3>1. ~(k + 1 < j)
      BY <2>8
    <3>. QED BY <2>4, <2>6, <2>8, <3>1, Zenon
  <2>9. CASE k = j
    <3>1. ~(k < j)
      BY <2>9
    <3>. QED BY <2>4, <2>6, <2>9, <3>1, Zenon
  <2>10. CASE k > j
    <3>1. ~(k < j) /\ k # j /\ ~(k + 1 < j) /\ k + 1 # j
      BY <2>3, <2>10
    <3>2. PairAt(cur, k + 1, n)
      BY <2>4, <2>5, <3>1, Zenon DEF PairAt
    <3>3. k + 1 \in 1..Len(cur)-1
      BY <2>2, <2>3
    <3>. QED BY <1>3, <3>2, <3>3, Zenon DEF Absent
  <2>. QED BY <2>3, <2>7, <2>8, <2>9, <2>10
<1>. QED BY <1>1, <1>2, <1>5, <1>6, Zenon DEF Stage

-----------------------------------------------------------------------------
(* The symbols under way: their texts, and the ranks of their pairs.       *)

PairsInv ==
    /\ \A m \in 1..Len(pairs) : pairs[m] = PairOf(model.merges[m])
    /\ pc # "vocab" => Len(pairs) = Len(model.merges)

TextsOf(ss) == [a \in DOMAIN ss |-> model.tokens[ss[a]]]

(* An id that a search of its text gives.                                  *)
Canonical(id) == id \in 1..nTokens /\ TokenFind(model.tokens[id]) = id

LEMMA PairsSame ==
    ASSUME PairsInv, UNCHANGED init,
           pc' # "vocab" => pc # "vocab" \/ Len(pairs) = Len(model.merges)
    PROVE  PairsInv'
<1>1. UNCHANGED <<model, hashTable, nTokens, pairs>>
  BY DEF init
<1>2. \A t : TokenFind(t)' = TokenFind(t)
  BY <1>1 DEF TokenFind, Named
<1>3. \A line : PairOf(line)' = PairOf(line)
  BY <1>2 DEF PairOf
<1>4. ASSUME NEW m \in 1..Len(pairs)
      PROVE  pairs[m] = PairOf(model.merges[m])'
  <2>1. PICK line : line = model.merges[m]
    OBVIOUS
  <2>2. pairs[m] = PairOf(line)
    BY <2>1, Zenon DEF PairsInv
  <2>3. PairOf(line)' = PairOf(model.merges[m])'
    BY <1>1, <2>1
  <2>. QED BY <1>3, <2>2, <2>3
<1>. QED BY <1>1, <1>4 DEF PairsInv

LEMMA PairsStep ==
    ASSUME TokenizerAssumption, TablesInv, PairsInv, [Step]_vars
    PROVE  PairsInv'
<1>1. CASE InsertToken
  <2>1. /\ pc = "vocab" /\ pc' = pc /\ pairs' = pairs /\ nTokens # Len(model.tokens)
    <3>1. /\ pc = "vocab" /\ pc' = pc /\ pairs' = pairs /\ nTokens < Len(model.tokens)
      BY <1>1 DEF InsertToken
    <3>2. nTokens \in 0..Len(model.tokens)
      BY DEF TablesInv
    <3>. QED BY <3>1, <3>2
  <2>2. pairs' = <<>>
    BY <2>1 DEF TablesInv
  <2>3. 1..Len(pairs') = {}
    BY <2>2
  <2>. QED BY <2>1, <2>3, Zenon DEF PairsInv
<1>2. CASE InsertMerge
  <2>1. PICK n : n = Len(pairs)
    OBVIOUS
  <2>2. PICK p : p = PairOf(model.merges[n + 1])
    OBVIOUS
  <2>3. /\ pc = "vocab" /\ pc' = pc /\ UNCHANGED <<model, hashTable, nTokens>>
        /\ pairs' = Append(pairs, p)
    BY <1>2, <2>1, <2>2 DEF InsertMerge
  <2>4. n \in Nat /\ pairs \in Seq(Ids \X Ids)
    BY <2>1 DEF TablesInv
  <2>5. /\ Len(pairs') = n + 1 /\ pairs'[n + 1] = p
        /\ \A m \in 1..n : pairs'[m] = pairs[m]
    BY <2>1, <2>3, <2>4
  <2>6. \A line : PairOf(line)' = PairOf(line)
    <3>1. \A t : TokenFind(t)' = TokenFind(t)
      BY <2>3 DEF TokenFind, Named
    <3>. QED BY <3>1 DEF PairOf
  <2>7. ASSUME NEW m \in 1..n+1
        PROVE  pairs'[m] = PairOf(model.merges[m])
    <3>1. m \in 1..n \/ m = n + 1
      BY <2>4
    <3>. QED BY <2>1, <2>2, <2>5, <3>1, Zenon DEF PairsInv
  <2>. QED BY <2>3, <2>5, <2>6, <2>7 DEF PairsInv
<1>3. CASE CutContraction \/ CutWord \/ CutLastBlanks \/ CutBlanks
  <2>1. UNCHANGED init /\ pc' = pc
    BY <1>3 DEF CutContraction, CutWord, CutLastBlanks, CutBlanks, Cutting
  <2>. QED BY <2>1, PairsSame
<1>4. CASE Encode
  <2>1. UNCHANGED init /\ Len(pairs) = Len(model.merges)
    BY <1>4 DEF Encode
  <2>. QED BY <2>1, PairsSame
<1>5. CASE CutEnds \/ StartChunk \/ Merge \/ MergeEnds \/ Emit \/ EncodeEnds
           \/ DecodeOne \/ Finish \/ UNCHANGED vars
  <2>1. UNCHANGED init /\ (pc' # "vocab" => pc # "vocab")
    BY <1>5 DEF CutEnds, StartChunk, Merge, MergeEnds, Emit, EncodeEnds, DecodeOne, Finish, vars
  <2>. QED BY <2>1, PairsSame
<1>. QED BY <1>1, <1>2, <1>3, <1>4, <1>5 DEF Step

(* The pairs are what is read from the lines (tokenizer.c:275-296).        *)
LEMMA PairsInvariance == Spec => []PairsInv
<1>1. Init => PairsInv
  BY DEF Init, PairsInv
<1>2. TablesInv /\ PairsInv /\ [Step]_vars => PairsInv'
  BY TokenizerAssumption, PairsStep
<1>. QED BY <1>1, <1>2, TablesInvariance, PTL DEF Spec

(* A line that fits the buffer is read as the ids of its two words.        *)
LEMMA FittingPair ==
    ASSUME TokenizerAssumption, model \in Models, NEW m \in 1..Len(model.merges),
           LineFits(model.merges[m])
    PROVE  /\ PairOf(model.merges[m])
                 = <<TokenFind(model.merges[m][1]), TokenFind(model.merges[m][2])>>
           /\ TokenHash(model.merges[m][1]) \in Hashes /\ TokenHash(model.merges[m][2]) \in Hashes
<1>1. PICK line : line = model.merges[m]
  OBVIOUS
<1>2. line \in Seq(Seq(Bytes)) /\ Len(line) = 2
  BY <1>1, LineFacts DEF LineFits
<1>3. PICK v, w : v = line[1] /\ w = line[2]
  OBVIOUS
<1>4. v \in Seq(Bytes) /\ w \in Seq(Bytes) /\ line = <<v, w>>
  BY <1>2, <1>3, TwoOf, Zenon
<1>5. TokenHash(v) \in Hashes /\ TokenHash(w) \in Hashes
  <2>1. 1 \in 1..Len(line) /\ 2 \in 1..Len(line)
    BY <1>2
  <2>. QED BY <1>1, <1>3, <2>1, LineFacts
<1>6. Room(line) >= 0 /\ ~(Room(line) < 0) /\ TextWidth(w) <= Room(line)
  <2>1. PICK x, y : x = TextWidth(v) /\ y = TextWidth(w)
    OBVIOUS
  <2>2. x \in Nat /\ y \in Nat /\ LineSize \in Nat
    BY <1>4, <2>1, TextWidthType DEF TokenizerAssumption
  <2>3. x + 1 + y < LineSize
    BY <1>1, <1>3, <2>1 DEF LineFits
  <2>4. Room(line) = LineSize - 1 - (x + 1)
    BY <1>3, <2>1 DEF Room
  <2>. QED BY <2>1, <2>2, <2>3, <2>4
<1>7. Kept(line) = w
  <2>1. Len(line) >= 2
    BY <1>2
  <2>. QED BY <1>2, <1>3, <1>6, <2>1, KeptFacts, Zenon
<1>8. Len(line) # 1
  BY <1>2
<1>9. PairOf(line) = <<TokenFind(v), TokenFind(w)>>
  BY <1>3, <1>4, <1>6, <1>7, <1>8, Zenon DEF PairOf
<1>. QED BY <1>1, <1>3, <1>5, <1>9, Zenon

LEMMA Found ==
    ASSUME TokenizerAssumption, TablesInv, NEW t, TokenHash(t) \in Hashes, NEW id \in Nat,
           TokenFind(t) = id
    PROVE  id \in 1..nTokens /\ model.tokens[id] = t /\ Canonical(id)
<1>1. id # None
  BY DEF TokenizerAssumption
<1>2. id \in Named(t)
  BY <1>1, TokenFindNames
<1>. QED BY <1>2 DEF Named, Canonical

LEMMA NamedIsFound ==
    ASSUME TokenizerAssumption, TablesInv, NEW id \in 1..nTokens
    PROVE  TokenFind(model.tokens[id]) \in 1..nTokens
<1>1. PICK t : t = model.tokens[id]
  OBVIOUS
<1>2. id \in Named(t) /\ Named(t) \in SUBSET Nat /\ Named(t) \subseteq 1..nTokens
  BY <1>1 DEF Named
<1>3. TokenFind(t) = First(Named(t))
  <2>1. FindsName(id)
    BY DEF TablesInv
  <2>. QED BY <1>1, <2>1 DEF FindsName, Finds, TokenFind
<1>4. First(Named(t)) \in Named(t)
  BY <1>2, FirstFacts
<1>. QED BY <1>1, <1>2, <1>3, <1>4

(* The ids of a line that fits the buffer are the first of each of its two  *)
(* texts, or none if the text is no token (tokenizer.c:275-296, :62-70).   *)
MergesRead ==
    \A m \in 1..Len(pairs) : LineFits(model.merges[m]) =>
        \A s \in {1, 2} :
            pairs[m][s] = LET w == model.merges[m][s]
                          IN IF Named(w) = {} THEN None ELSE First(Named(w))

(* Whatever the hashes, the vocabulary and the other lines.                *)
THEOREM MergesAreRead == Spec => []MergesRead
<1>1. ASSUME TablesInv, NEW t, TokenHash(t) \in Hashes
      PROVE  TokenFind(t) = IF Named(t) = {} THEN None ELSE First(Named(t))
  <2>1. CASE Named(t) = {}
    BY <1>1, <2>1, TokenFindNames, TokenizerAssumption
  <2>2. CASE Named(t) # {}
    <3>1. PICK id \in 1..nTokens : model.tokens[id] = t
      BY <2>2 DEF Named
    <3>2. FindsName(id)
      BY <1>1 DEF TablesInv
    <3>3. TokenFind(t) = First(Named(t))
      BY <3>1, <3>2 DEF FindsName, Finds, TokenFind
    <3>. QED BY <2>2, <3>3
  <2>. QED BY <2>1, <2>2
<1>2. ASSUME TablesInv, PairsInv PROVE MergesRead
  <2>1. SUFFICES ASSUME NEW m \in 1..Len(pairs), LineFits(model.merges[m]), NEW s \in {1, 2}
                 PROVE  pairs[m][s] = IF Named(model.merges[m][s]) = {} THEN None
                                      ELSE First(Named(model.merges[m][s]))
    BY Zenon DEF MergesRead
  <2>2. model \in Models /\ m \in 1..Len(model.merges)
    <3>1. Len(pairs) \in Nat /\ Len(pairs) <= Len(model.merges) /\ model \in Models
      BY <1>2 DEF TablesInv
    <3>2. Len(model.merges) \in Nat
      BY <3>1, MergesCount, TokenizerAssumption
    <3>. QED BY <3>1, <3>2
  <2>3. PICK v, w : v = model.merges[m][1] /\ w = model.merges[m][2]
    OBVIOUS
  <2>4. TokenHash(v) \in Hashes /\ TokenHash(w) \in Hashes /\ pairs[m] = <<TokenFind(v), TokenFind(w)>>
    BY <1>2, <2>1, <2>2, <2>3, FittingPair, TokenizerAssumption, Zenon DEF PairsInv
  <2>5. pairs[m][1] = TokenFind(v) /\ pairs[m][2] = TokenFind(w)
    BY <2>4
  <2>6. CASE s = 1
    BY <1>1, <1>2, <2>3, <2>4, <2>5, <2>6, Zenon
  <2>7. CASE s = 2
    BY <1>1, <1>2, <2>3, <2>4, <2>5, <2>7, Zenon
  <2>. QED BY <2>6, <2>7
<1>. QED BY <1>2, TablesInvariance, PairsInvariance, PTL

(* Two ids have the rank of the rule that merges their texts, or none.     *)
RuleOf(q, l, r) == model.merges[q] = <<model.tokens[l], model.tokens[r]>>

LEMMA RankIs ==
    ASSUME TokenizerAssumption, LookupAssumption, TablesInv, PairsInv, WellFormed,
           nTokens = Len(model.tokens), Len(pairs) = Len(model.merges),
           NEW l, NEW r, Canonical(l), Canonical(r)
    PROVE  /\ \A q \in Rules : RuleOf(q, l, r) => MergeFind(l, r) = q
           /\ MergeFind(l, r) # None =>
                 MergeFind(l, r) \in Rules /\ RuleOf(MergeFind(l, r), l, r)
<1>1. /\ model \in Models /\ l \in 1..nTokens /\ r \in 1..nTokens
      /\ TokenFind(model.tokens[l]) = l /\ TokenFind(model.tokens[r]) = r
  BY DEF TablesInv, Canonical
<1>2. PICK M \in Nat : M = Len(model.merges) /\ Len(pairs) = M
  BY <1>1, MergesCount
<1>3. \A q \in 1..M : /\ pairs[q] = <<TokenFind(model.merges[q][1]), TokenFind(model.merges[q][2])>>
                      /\ TokenHash(model.merges[q][1]) \in Hashes
                      /\ TokenHash(model.merges[q][2]) \in Hashes
                      /\ model.merges[q] = <<model.merges[q][1], model.merges[q][2]>>
  <2>1. ASSUME NEW q \in 1..M
        PROVE  /\ PairOf(model.merges[q])
                     = <<TokenFind(model.merges[q][1]), TokenFind(model.merges[q][2])>>
               /\ TokenHash(model.merges[q][1]) \in Hashes
               /\ TokenHash(model.merges[q][2]) \in Hashes
    <3>1. q \in 1..Len(model.merges) /\ LineFits(model.merges[q])
      BY <1>2, Zenon DEF WellFormed
    <3>. QED BY <1>1, <3>1, FittingPair, Zenon
  <2>2. ASSUME NEW q \in 1..M PROVE model.merges[q] = <<model.merges[q][1], model.merges[q][2]>>
    <3>1. model.merges[q] \in Spellings \X Spellings
      BY <1>1, <1>2, MergeTexts, Zenon
    <3>. QED BY <3>1
  <2>. QED BY <1>2, <2>1, <2>2, Zenon DEF PairsInv
<1>4. ASSUME NEW q \in 1..M, pairs[q] = <<l, r>>
      PROVE  RuleOf(q, l, r)
  <2>1. PICK x, y : x = model.merges[q][1] /\ y = model.merges[q][2]
    OBVIOUS
  <2>2. TokenFind(x) = l /\ TokenFind(y) = r
    <3>1. <<TokenFind(x), TokenFind(y)>> = <<l, r>>
      BY <1>3, <1>4, <2>1, Zenon
    <3>. QED BY <3>1
  <2>3. TokenHash(x) \in Hashes /\ TokenHash(y) \in Hashes /\ l \in Nat /\ r \in Nat
    <3>1. TokenHash(x) \in Hashes /\ TokenHash(y) \in Hashes
      BY <1>3, <2>1, Zenon
    <3>2. nTokens \in Nat
      BY DEF TablesInv
    <3>. QED BY <1>1, <3>1, <3>2
  <2>4. model.tokens[l] = x /\ model.tokens[r] = y
    BY <2>2, <2>3, Found, Zenon
  <2>. QED BY <1>3, <2>1, <2>4, Zenon DEF RuleOf
<1>5. MergeHash(l, r) \in Hashes
  <2>1. l \in 1..Len(model.tokens) \cup {UnkId} /\ r \in 1..Len(model.tokens) \cup {UnkId}
    BY <1>1
  <2>. QED BY <1>1, <2>1 DEF LookupAssumption
<1>6. ASSUME MergeFind(l, r) # None
      PROVE  MergeFind(l, r) \in Rules /\ RuleOf(MergeFind(l, r), l, r)
  <2>1. PICK q : q = MergeFind(l, r)
    OBVIOUS
  <2>2. q \in Ranked(l, r)
    BY <1>5, <1>6, <2>1, MergeFindRanks
  <2>3. q \in 1..M /\ pairs[q] = <<l, r>>
    BY <1>2, <2>2 DEF Ranked
  <2>. QED BY <1>2, <1>4, <2>1, <2>3 DEF Rules
<1>7. ASSUME NEW q \in Rules, RuleOf(q, l, r) PROVE MergeFind(l, r) = q
  <2>1. q \in 1..M
    BY <1>2 DEF Rules
  <2>2. pairs[q] = <<l, r>>
    <3>1. model.merges[q][1] = model.tokens[l] /\ model.merges[q][2] = model.tokens[r]
      BY <1>7 DEF RuleOf
    <3>. QED BY <1>1, <1>3, <2>1, <3>1, Zenon
  <2>3. MergeFind(l, r) = First(Ranked(l, r)) /\ q \in Ranked(l, r)
    <3>1. pairs[q][1] = l /\ pairs[q][2] = r
      BY <2>2
    <3>2. Known(q)
      <4>1. None \notin Nat
        BY DEF TokenizerAssumption
      <4>2. l \in Nat /\ r \in Nat
        BY <1>1
      <4>3. l # None /\ r # None
        BY <4>1, <4>2
      <4>. QED BY <3>1, <4>3 DEF Known
    <3>3. FindsPair(q)
      BY <1>2, <2>1, <3>2 DEF TablesInv
    <3>. QED BY <1>2, <2>1, <2>2, <3>1, <3>3 DEF FindsPair, Finds, MergeFind, Ranked
  <2>4. PICK p : p = First(Ranked(l, r))
    OBVIOUS
  <2>5. p \in Ranked(l, r)
    <3>1. Ranked(l, r) \in SUBSET Nat
      BY DEF Ranked
    <3>. QED BY <2>3, <2>4, <3>1, FirstFacts
  <2>6. p \in 1..M /\ RuleOf(p, l, r)
    BY <1>2, <1>4, <2>5 DEF Ranked
  <2>7. MergeText(p) = MergeText(q)
    BY <1>7, <2>6 DEF MergeText, RuleOf
  <2>8. ASSUME p # q PROVE FALSE
    <3>1. p \in 1..q-1 \/ q \in 1..p-1
      BY <2>1, <2>6, <2>8
    <3>. QED BY <1>2, <2>1, <2>6, <2>7, <3>1, Zenon DEF WellFormed
  <2>. QED BY <2>3, <2>4, <2>8
<1>. QED BY <1>6, <1>7

(* The symbols of a chunk under way, when the tables are complete.         *)
UnderWay ==
    /\ TablesInv /\ PairsInv /\ WellFormed
    /\ nTokens = Len(model.tokens) /\ Len(pairs) = Len(model.merges)
    /\ symbols \in Seq(SymbolIds)
    /\ \A k \in 1..Len(symbols) : Canonical(symbols[k])

LEMMA TextsOfFacts ==
    ASSUME TokenizerAssumption, model \in Models, nTokens = Len(model.tokens),
           NEW S, NEW ss \in Seq(S), \A k \in 1..Len(ss) : ss[k] \in 1..nTokens
    PROVE  /\ TextsOf(ss) \in Seq(Spellings) /\ Len(TextsOf(ss)) = Len(ss)
           /\ \A k \in 1..Len(ss) : TextsOf(ss)[k] = model.tokens[ss[k]]
<1>1. PICK n \in Nat : n = Len(ss) /\ DOMAIN ss = 1..n
  <2>1. Len(ss) \in Nat /\ DOMAIN ss = 1..Len(ss)
    OBVIOUS
  <2>. QED BY <2>1, Zenon
<1>2. model.tokens \in Seq(Spellings)
  BY DEF TokenizerAssumption, Spellings
<1>3. \A k \in 1..n : model.tokens[ss[k]] \in Spellings
  BY <1>1, <1>2
<1>4. PICK x : x = [a \in 1..n |-> model.tokens[ss[a]]]
  OBVIOUS
<1>5. x \in Seq(Spellings) /\ Len(x) = n /\ \A k \in 1..n : x[k] = model.tokens[ss[k]]
  BY <1>1, <1>3, <1>4
<1>6. x = TextsOf(ss)
  BY <1>1, <1>4, Zenon DEF TextsOf
<1>. QED BY <1>1, <1>5, <1>6

(* A pair has the rank of the one rule that merges it.                     *)
LEMMA RanksAreRules ==
    ASSUME TokenizerAssumption, LookupAssumption, UnderWay
    PROVE  /\ \A k \in Merging : /\ k \in 1..Len(symbols)-1 /\ Rank(k) \in Rules
                                 /\ PairAt(TextsOf(symbols), k, Rank(k))
                                 /\ Joined(k) = MergeText(Rank(k))
           /\ \A k \in 1..Len(symbols)-1, q \in Rules :
                 PairAt(TextsOf(symbols), k, q) => k \in Merging /\ Rank(k) = q
<1>0. PICK cur : cur = TextsOf(symbols)
  OBVIOUS
<1>1. PICK n \in Nat : n = Len(symbols) /\ cur = TextsOf(symbols)
  BY <1>0 DEF UnderWay
<1>2. \A k \in 1..n : cur[k] = model.tokens[symbols[k]]
  <2>1. \A k \in 1..n : symbols[k] \in 1..nTokens
    BY <1>1, Zenon DEF UnderWay, Canonical
  <2>2. model \in Models
    BY DEF UnderWay, TablesInv
  <2>. QED BY <1>1, <2>1, <2>2, TextsOfFacts DEF UnderWay
<1>3. ASSUME NEW k \in 1..n-1
      PROVE  /\ \A q \in Rules : PairAt(cur, k, q) => Rank(k) = q
             /\ Rank(k) # None => /\ Rank(k) \in Rules /\ PairAt(cur, k, Rank(k))
                                  /\ Joined(k) = MergeText(Rank(k))
  <2>1. k \in 1..n /\ k + 1 \in 1..n
    OBVIOUS
  <2>2. PICK l, r : l = symbols[k] /\ r = symbols[k + 1]
    OBVIOUS
  <2>3. Canonical(l) /\ Canonical(r) /\ Rank(k) = MergeFind(l, r)
    BY <1>1, <2>1, <2>2, Zenon DEF UnderWay, Rank
  <2>4. /\ \A q \in Rules : RuleOf(q, l, r) => MergeFind(l, r) = q
        /\ MergeFind(l, r) # None =>
              MergeFind(l, r) \in Rules /\ RuleOf(MergeFind(l, r), l, r)
    BY <2>3, RankIs DEF UnderWay
  <2>5. \A q : PairAt(cur, k, q) <=> RuleOf(q, l, r)
    BY <1>2, <2>1, <2>2, Zenon DEF PairAt, RuleOf
  <2>6. ASSUME NEW q, RuleOf(q, l, r) PROVE Joined(k) = MergeText(q)
    <3>1. model.merges[q][1] = model.tokens[l] /\ model.merges[q][2] = model.tokens[r]
      BY <2>6 DEF RuleOf
    <3>. QED BY <2>2, <3>1, Zenon DEF Joined, MergeText
  <2>. QED BY <2>3, <2>4, <2>5, <2>6, Zenon
<1>4. ASSUME NEW k \in Merging PROVE k \in 1..n-1 /\ Rank(k) # None
  BY <1>1 DEF Merging
<1>5. ASSUME NEW k \in 1..n-1, NEW q \in Rules, PairAt(cur, k, q)
      PROVE  k \in Merging /\ Rank(k) = q
  <2>1. Rank(k) = q
    BY <1>3, <1>5, Zenon
  <2>2. q # None
    <3>1. None \notin Nat /\ Len(model.merges) \in Nat
      BY MergesCount DEF TokenizerAssumption, UnderWay, TablesInv
    <3>. QED BY <3>1 DEF Rules
  <2>. QED BY <1>1, <2>1, <2>2 DEF Merging
<1>. QED BY <1>1, <1>3, <1>4, <1>5, Zenon

(* Some pair is the best one, if any has a rank.                           *)
LEMMA BestExists ==
    ASSUME TokenizerAssumption, LookupAssumption, UnderWay, Merging # {}
    PROVE  \E j : Best(j)
<1>1. \A k \in Merging : k \in Nat /\ Rank(k) \in Nat
  <2>1. Len(model.merges) \in Nat /\ Len(symbols) \in Nat
    BY MergesCount DEF UnderWay, TablesInv
  <2>2. ASSUME NEW k \in Merging PROVE k \in 1..Len(symbols)-1 /\ Rank(k) \in Rules
    BY RanksAreRules, Zenon
  <2>. QED BY <2>1, <2>2 DEF Rules
<1>2. PICK R : R = {Rank(k) : k \in Merging}
  OBVIOUS
<1>3. R \in SUBSET Nat /\ R # {} /\ \A k \in Merging : Rank(k) \in R
  BY <1>1, <1>2
<1>4. PICK q : q = First(R)
  OBVIOUS
<1>5. q \in R /\ \A x \in R : q <= x
  BY <1>3, <1>4, FirstFacts
<1>6. PICK J : J = {k \in Merging : Rank(k) = q}
  OBVIOUS
<1>7. J \in SUBSET Nat /\ J # {}
  BY <1>1, <1>2, <1>5, <1>6
<1>8. PICK j : j = First(J)
  OBVIOUS
<1>9. j \in J /\ \A x \in J : j <= x
  BY <1>7, <1>8, FirstFacts
<1>10. j \in Merging /\ Rank(j) = q
  BY <1>6, <1>9
<1>11. ASSUME NEW k \in Merging PROVE Rank(k) >= Rank(j) /\ (k < j => Rank(k) > Rank(j))
  <2>1. PICK x : x = Rank(k)
    OBVIOUS
  <2>2. q <= x /\ x \in Nat /\ q \in Nat /\ j \in Nat /\ k \in Nat
    BY <1>1, <1>3, <1>5, <1>10, <2>1
  <2>3. x = q => j <= k
    BY <1>6, <1>9, <2>1
  <2>. QED BY <1>10, <2>1, <2>2, <2>3
<1>. QED BY <1>10, <1>11, Zenon DEF Best

(* In a list of rules that builds tokens, the best pair can be merged.     *)
LEMMA BestIsMerged ==
    ASSUME TokenizerAssumption, LookupAssumption, UnderWay, NEW j \in Merging
    PROVE  ~(TextWidth(Joined(j)) >= CombSize) /\ TokenFind(Joined(j)) # None
<1>1. PICK q \in Rules : Joined(j) = MergeText(q)
  BY RanksAreRules, Zenon
<1>2. model \in Models /\ CombSize \in Nat /\ None \notin Nat
  BY DEF UnderWay, TablesInv, TokenizerAssumption
<1>3. PICK t : t = MergeText(q)
  OBVIOUS
<1>4. TextWidth(t) < CombSize /\ t \in Seqs!ToSet(model.tokens)
  BY <1>3, Zenon DEF UnderWay, WellFormed, Rules
<1>5. TextWidth(t) \in Nat
  <2>0. WellFormed
    BY DEF UnderWay
  <2>1. t \in Seq(Bytes)
    BY <1>2, <1>3, <2>0, MergeTexts, Zenon DEF Rules, Spellings
  <2>. QED BY <2>1, TextWidthType
<1>6. PICK id \in 1..nTokens : model.tokens[id] = t
  <2>1. model.tokens \in Seq(Seq(Bytes))
    BY <1>2 DEF TokenizerAssumption
  <2>2. PICK id \in DOMAIN model.tokens : model.tokens[id] = t
    BY <1>4 DEF Seqs!ToSet
  <2>3. id \in 1..Len(model.tokens)
    BY <2>1, <2>2
  <2>. QED BY <2>2, <2>3, Zenon DEF UnderWay
<1>7. TokenFind(t) \in 1..nTokens
  BY <1>6, NamedIsFound, Zenon DEF UnderWay
<1>8. TokenFind(t) # None
  <2>1. nTokens \in Nat
    BY DEF UnderWay, TablesInv
  <2>. QED BY <1>2, <1>7, <2>1
<1>. QED BY <1>1, <1>2, <1>3, <1>4, <1>5, <1>8

(* While the pairs of a chunk are merged, the rules that are left make of   *)
(* its texts what all the rules make of its bytes.                         *)
OnItsWay(ss, t) ==
    /\ \A k \in 1..Len(ss) : Canonical(ss[k])
    /\ \E b, m : IsRules(b, t) /\ Stage(TextsOf(ss), m, b)

MergingInv ==
    /\ pc = "merge" /\ WellFormed => OnItsWay(symbols, ChunkBytes(c))
    /\ MergedByRules

LEMMA RulesSame ==
    ASSUME model' = model
    PROVE  /\ \A seq, m : ReplacePair(seq, m)' = ReplacePair(seq, m)
           /\ \A t : ByRules(t)' = ByRules(t)
           /\ \A ss : TextsOf(ss)' = TextsOf(ss)
           /\ \A t : TextWidth(t)' = TextWidth(t)
<1>1. \A seq, m : ReplacePair(seq, m)' = ReplacePair(seq, m)
  BY DEF ReplacePair, MergeText, Seqs!FoldLeft, Seqs!MapThenFoldSet
<1>2. \A t : ByRules(t)' = ByRules(t)
  BY DEF ByRules, ReplacePair, MergeText, Seqs!FoldLeft, Seqs!MapThenFoldSet
<1>3. \A ss : TextsOf(ss)' = TextsOf(ss)
  BY DEF TextsOf
<1>4. \A t : TextWidth(t)' = TextWidth(t)
  OBVIOUS
<1>. QED BY <1>1, <1>2, <1>3, <1>4

LEMMA MergingSame ==
    ASSUME UNCHANGED <<model, hashTable, nTokens, text, chunks>>
    PROVE  /\ WellFormed' <=> WellFormed
           /\ \A ss, t : OnItsWay(ss, t)' <=> OnItsWay(ss, t)
           /\ \A k : ChunkBytes(k)' = ChunkBytes(k)
<1>1. WellFormed' <=> WellFormed
  BY DEF WellFormed, MergeText, LineFits
<1>2. \A k : ChunkBytes(k)' = ChunkBytes(k)
  BY DEF ChunkBytes
<1>3. \A id : Canonical(id)' <=> Canonical(id)
  BY DEF Canonical, TokenFind, Named
<1>4. \A b, t : IsRules(b, t)' <=> IsRules(b, t)
  BY RulesSame DEF IsRules
<1>5. \A cur, m, b : Stage(cur, m, b)' <=> Stage(cur, m, b)
  BY RulesSame DEF Stage, Absent, PairAt
<1>6. \A ss : TextsOf(ss)' = TextsOf(ss)
  BY RulesSame
<1>7. ASSUME NEW ss, NEW t PROVE OnItsWay(ss, t)' <=> OnItsWay(ss, t)
  BY <1>3, <1>4, <1>5, <1>6 DEF OnItsWay
<1>. QED BY <1>1, <1>2, <1>7

(* A byte is encoded as the id of its text.                                *)
LEMMA ByteIsFound ==
    ASSUME TokenizerAssumption, TablesInv, nTokens = Len(model.tokens),
           NEW b, <<b>> \in Seqs!ToSet(model.tokens)
    PROVE  Canonical(ByteId(b)) /\ model.tokens[ByteId(b)] = <<b>>
<1>1. PICK id \in 1..Len(model.tokens) : model.tokens[id] = <<b>>
  <2>1. model.tokens \in Seq(Seq(Bytes))
    BY DEF TokenizerAssumption, TablesInv
  <2>2. PICK id \in DOMAIN model.tokens : model.tokens[id] = <<b>>
    BY DEF Seqs!ToSet
  <2>3. id \in 1..Len(model.tokens)
    BY <2>1, <2>2
  <2>. QED BY <2>2, <2>3, Zenon
<1>2. ByteId(b) \in 1..nTokens /\ model.tokens[ByteId(b)] = <<b>>
  BY <1>1, ByteIdNames
<1>3. TokenFind(<<b>>) \in 1..nTokens
  BY <1>1, NamedIsFound
<1>4. ByteId(b) = TokenFind(<<b>>)
  <2>1. None \notin Nat /\ nTokens \in Nat
    BY DEF TokenizerAssumption, TablesInv
  <2>2. TokenFind(<<b>>) # None
    BY <1>3, <2>1
  <2>. QED BY <2>2, Zenon DEF ByteId
<1>. QED BY <1>2, <1>4 DEF Canonical

LEMMA BytesAreOnTheirWay ==
    ASSUME TokenizerAssumption, TablesInv, ChunkInv, nTokens = Len(model.tokens), WellFormed,
           NEW k \in 1..Len(chunks)
    PROVE  OnItsWay(ByteIds(ChunkBytes(k)), ChunkBytes(k))
<1>1. PICK t, ss : t = ChunkBytes(k) /\ ss = ByteIds(t)
  OBVIOUS
<1>2. t \in Seq(Bytes) /\ \A a \in 1..Len(t) : t[a] \in Seqs!ToSet(text)
  <2>1. PICK x, y : x = Behind(k - 1) /\ y = Behind(k)
    OBVIOUS
  <2>2. /\ x \in Nat /\ y \in Nat /\ x < y /\ y <= Len(text)
        /\ t = SubSeq(text, x + 1, y) /\ t \in Seq(Bytes) /\ Len(t) = y - x
    BY <1>1, <2>1, ChunkBytesFacts, Zenon
  <2>3. text \in Seq(Bytes)
    BY DEF ChunkInv
  <2>4. ASSUME NEW a \in 1..Len(t) PROVE t[a] \in Seqs!ToSet(text)
    <3>1. a \in 1..y-x /\ x + a \in 1..Len(text) /\ x <= y
      BY <2>2, <2>3
    <3>2. t[a] = text[x + a]
      BY <2>2, <2>3, <3>1, SubSeqBehind
    <3>. QED BY <2>3, <3>1, <3>2 DEF Seqs!ToSet
  <2>. QED BY <2>2, <2>4
<1>3. PICK n \in Nat : n = Len(t) /\ DOMAIN t = 1..n
  BY <1>2
<1>4. ss = [a \in 1..n |-> ByteId(t[a])]
  BY <1>1, <1>3, Zenon DEF ByteIds
<1>5. ASSUME NEW a \in 1..n
      PROVE  Canonical(ByteId(t[a])) /\ model.tokens[ByteId(t[a])] = <<t[a]>>
  <2>1. <<t[a]>> \in Seqs!ToSet(model.tokens)
    BY <1>2, <1>3, Zenon DEF WellFormed
  <2>. QED BY <2>1, ByteIsFound
<1>6. /\ ss \in Seq(1..nTokens) /\ Len(ss) = n
      /\ \A a \in 1..n : ss[a] = ByteId(t[a])
  <2>1. \A a \in 1..n : ByteId(t[a]) \in 1..nTokens
    BY <1>5, Zenon DEF Canonical
  <2>2. ss \in [1..n -> 1..nTokens] /\ \A a \in 1..n : ss[a] = ByteId(t[a])
    BY <1>4, <2>1, Zenon
  <2>3. ss \in Seq(1..nTokens) /\ Len(ss) = n
    BY <2>2
  <2>. QED BY <2>2, <2>3, Zenon
<1>7. \A a \in 1..Len(ss) : Canonical(ss[a])
  BY <1>5, <1>6, Zenon
<1>8. TextsOf(ss) = OfBytes(t)
  <2>1. DOMAIN ss = 1..n
    BY <1>4
  <2>2. [a \in 1..n |-> model.tokens[ss[a]]] = [a \in 1..n |-> <<t[a]>>]
    BY <1>5, <1>6, Zenon
  <2>. QED BY <1>3, <2>1, <2>2, Zenon DEF TextsOf, OfBytes
<1>9. model \in Models
  BY DEF TablesInv
<1>10. PICK b : IsRules(b, t)
  BY <1>2, <1>9, RulesExist, Zenon
<1>11. Stage(TextsOf(ss), 0, b)
  BY <1>2, <1>8, <1>9, <1>10, StageBegins, Zenon
<1>. QED BY <1>1, <1>7, <1>10, <1>11, Zenon DEF OnItsWay

(* Merging the best pair keeps the symbols on their way.                   *)
LEMMA MergeIsOnItsWay ==
    ASSUME TokenizerAssumption, LookupAssumption, UnderWay, NEW t, OnItsWay(symbols, t),
           NEW j, Best(j), TokenFind(Joined(j)) # None,
           NEW new, new = SubSeq(symbols, 1, j - 1) \o <<TokenFind(Joined(j))>>
                          \o SubSeq(symbols, j + 2, Len(symbols))
    PROVE  OnItsWay(new, t)
<1>1. /\ j \in Merging
      /\ \A k \in Merging : Rank(k) >= Rank(j) /\ (k < j => Rank(k) > Rank(j))
  BY Zenon DEF Best
<1>2. /\ model \in Models /\ TablesInv /\ nTokens = Len(model.tokens)
      /\ nTokens \in Nat /\ symbols \in Seq(SymbolIds)
  BY DEF UnderWay, TablesInv
<1>3. PICK n \in Nat, M \in Nat : n = Len(symbols) /\ M = Len(model.merges)
  BY <1>2, MergesCount
<1>4. PICK q, cur : q = Rank(j) /\ cur = TextsOf(symbols)
  OBVIOUS
<1>5. /\ j \in 1..n-1 /\ q \in 1..M /\ q \in Rules /\ PairAt(cur, j, q) /\ Joined(j) = MergeText(q)
  BY <1>1, <1>3, <1>4, RanksAreRules DEF Rules
<1>6. \A k \in 1..n : Canonical(symbols[k]) /\ symbols[k] \in 1..nTokens
  BY <1>3, Zenon DEF UnderWay, Canonical
<1>7. /\ cur \in Seq(Spellings) /\ Len(cur) = n
      /\ \A k \in 1..n : cur[k] = model.tokens[symbols[k]]
  BY <1>2, <1>3, <1>4, <1>6, TextsOfFacts
<1>8. PICK id : id = TokenFind(Joined(j))
  OBVIOUS
<1>9. id \in 1..nTokens /\ model.tokens[id] = MergeText(q) /\ Canonical(id)
  <2>1. id \in Named(Joined(j))
    BY <1>1, <1>2, <1>8, MergingFacts
  <2>2. id \in 1..nTokens /\ model.tokens[id] = Joined(j)
    BY <2>1 DEF Named
  <2>. QED BY <1>5, <1>8, <2>2, Zenon DEF Canonical
<1>10. new \in Seq(SymbolIds) /\ Replaced(new, symbols, j, id)
  <2>1. id \in SymbolIds /\ j \in Nat /\ 1 <= j /\ j < Len(symbols)
    BY <1>3, <1>5, <1>9 DEF SymbolIds
  <2>2. PICK w \in Seq(SymbolIds) :
            /\ w = SubSeq(symbols, 1, j - 1) \o <<id>> \o SubSeq(symbols, j + 2, Len(symbols))
            /\ Replaced(w, symbols, j, id)
    BY <1>2, <2>1, ReplacedPair, Zenon
  <2>. QED BY <1>8, <2>2, Zenon
<1>11. /\ Len(new) = n - 1
       /\ \A k \in 1..n-1 : new[k] = IF k < j THEN symbols[k] ELSE IF k = j THEN id ELSE symbols[k + 1]
  BY <1>3, <1>10, Zenon DEF Replaced
<1>12. \A k \in 1..n-1 : k \in 1..n /\ k + 1 \in 1..n
  OBVIOUS
<1>13. \A k \in 1..Len(new) : Canonical(new[k])
  BY <1>6, <1>9, <1>11, <1>12, Zenon
<1>14. PICK cur2 : cur2 = TextsOf(new)
  OBVIOUS
<1>15. /\ cur2 \in Seq(Spellings) /\ Len(cur2) = n - 1
       /\ \A k \in 1..n-1 : cur2[k] = model.tokens[new[k]]
  <2>1. \A k \in 1..Len(new) : new[k] \in 1..nTokens
    BY <1>13, Zenon DEF Canonical
  <2>2. /\ cur2 \in Seq(Spellings) /\ Len(cur2) = Len(new)
        /\ \A k \in 1..Len(new) : cur2[k] = model.tokens[new[k]]
    BY <1>2, <1>10, <1>14, <2>1, TextsOfFacts
  <2>. QED BY <1>11, <2>2
<1>16. Replaced(cur2, cur, j, MergeText(q))
  <2>1. ASSUME NEW k \in 1..n-1
        PROVE  cur2[k] = IF k < j THEN cur[k] ELSE IF k = j THEN MergeText(q) ELSE cur[k + 1]
    <3>1. k \in 1..n /\ k + 1 \in 1..n /\ cur2[k] = model.tokens[new[k]]
      BY <1>12, <1>15, Zenon
    <3>2. CASE k < j
      BY <1>7, <1>11, <3>1, <3>2, Zenon
    <3>3. CASE ~(k < j) /\ k = j
      BY <1>9, <1>11, <3>1, <3>3, Zenon
    <3>4. CASE ~(k < j) /\ k # j
      BY <1>7, <1>11, <3>1, <3>4, Zenon
    <3>. QED BY <3>2, <3>3, <3>4
  <2>. QED BY <1>7, <1>15, <2>1, Zenon DEF Replaced
<1>17. PICK b, m : IsRules(b, t) /\ Stage(cur, m, b)
  BY <1>4, Zenon DEF OnItsWay
<1>18. m \in 0..M /\ \A l \in 1..m : Absent(cur, l)
  BY <1>3, <1>17, Zenon DEF Stage
<1>19. \A k \in 1..n-1, l \in Rules : PairAt(cur, k, l) => k \in Merging /\ Rank(k) = l
  BY <1>3, <1>4, RanksAreRules, Zenon
<1>20. m <= q - 1
  <2>1. ASSUME q \in 1..m PROVE FALSE
    BY <1>5, <1>7, <1>18, <2>1, Zenon DEF Absent
  <2>. QED BY <1>5, <1>18, <2>1
<1>21. ASSUME NEW l \in m+1..q-1 PROVE Absent(cur, l)
  <2>1. SUFFICES ASSUME NEW k \in 1..n-1, PairAt(cur, k, l) PROVE FALSE
    BY <1>7, Zenon DEF Absent
  <2>2. l \in Rules /\ ~(l >= q)
    BY <1>3, <1>5, <1>18 DEF Rules
  <2>3. k \in Merging /\ Rank(k) = l
    BY <1>19, <2>1, <2>2, Zenon
  <2>. QED BY <1>1, <1>4, <2>2, <2>3, Zenon
<1>22. Stage(cur, q - 1, b)
  <2>1. q - 1 \in Nat /\ q - 1 <= Len(model.merges) /\ WellFormed
    BY <1>3, <1>5 DEF UnderWay
  <2>. QED BY <1>2, <1>17, <1>20, <1>21, <2>1, StageReaches, Zenon
<1>23. ASSUME NEW k \in 1..j-1 PROVE ~PairAt(cur, k, q)
  <2>1. SUFFICES ASSUME PairAt(cur, k, q) PROVE FALSE
    OBVIOUS
  <2>2. k \in 1..n-1 /\ k < j /\ ~(q > q)
    BY <1>5
  <2>3. k \in Merging /\ Rank(k) = q
    BY <1>5, <1>19, <2>1, <2>2, Zenon
  <2>. QED BY <1>1, <1>4, <2>2, <2>3, Zenon
<1>24. Stage(cur2, q - 1, b)
  <2>1. j \in Nat /\ 1 <= j /\ j < Len(cur)
    BY <1>5, <1>7
  <2>2. WellFormed
    BY DEF UnderWay
  <2>. QED BY <1>2, <1>5, <1>15, <1>16, <1>22, <1>23, <2>1, <2>2, StageMerges, Zenon
<1>. QED BY <1>13, <1>14, <1>17, <1>24, Zenon DEF OnItsWay

(* When the loop leaves, no pair has a rank, and the rules are done.       *)
LEMMA WayEnds ==
    ASSUME TokenizerAssumption, LookupAssumption, UnderWay, NEW t, OnItsWay(symbols, t),
           \A j \in Merging :
              Best(j) => TextWidth(Joined(j)) >= CombSize \/ TokenFind(Joined(j)) = None
    PROVE  TextsOf(symbols) = ByRules(t)
<1>1. Merging = {}
  <2>1. SUFFICES ASSUME Merging # {} PROVE FALSE
    OBVIOUS
  <2>2. PICK j : Best(j)
    BY <2>1, BestExists, Zenon
  <2>3. j \in Merging
    BY <2>2, Zenon DEF Best
  <2>. QED BY <2>2, <2>3, BestIsMerged, Zenon
<1>2. model \in Models
  BY DEF UnderWay, TablesInv
<1>3. PICK n \in Nat, M \in Nat : n = Len(symbols) /\ M = Len(model.merges)
  BY <1>2, MergesCount DEF UnderWay
<1>4. PICK cur : cur = TextsOf(symbols)
  OBVIOUS
<1>5. Len(cur) = n
  <2>1. \A k \in 1..n : symbols[k] \in 1..nTokens
    BY <1>3, Zenon DEF UnderWay, Canonical
  <2>. QED BY <1>2, <1>3, <1>4, <2>1, TextsOfFacts DEF UnderWay
<1>6. ASSUME NEW l \in Rules PROVE Absent(cur, l)
  <2>1. \A k \in 1..n-1 : PairAt(cur, k, l) => k \in Merging
    BY <1>3, <1>4, RanksAreRules, Zenon
  <2>. QED BY <1>1, <1>5, <2>1, Zenon DEF Absent
<1>7. PICK b, m : IsRules(b, t) /\ Stage(cur, m, b)
  BY <1>4, Zenon DEF OnItsWay
<1>8. m \in 0..M
  BY <1>3, <1>7, Zenon DEF Stage
<1>9. Stage(cur, M, b)
  <2>1. m <= M /\ M <= M /\ WellFormed /\ \A l \in m+1..M : l \in Rules
    BY <1>3, <1>8 DEF Rules, UnderWay
  <2>. QED BY <1>2, <1>3, <1>6, <1>7, <2>1, StageReaches, Zenon
<1>. QED BY <1>3, <1>4, <1>7, <1>9, Zenon DEF Stage, IsRules

LEMMA MergingStep ==
    ASSUME TokenizerAssumption, LookupAssumption, TablesInv, ChunkInv, EncodeInv, PairsInv,
           MergingInv, [Step]_vars
    PROVE  MergingInv'
<1>1. ASSUME pc' \notin {"merge", "emit"} PROVE MergingInv'
  BY <1>1 DEF MergingInv, MergedByRules
<1>2. CASE StartChunk
  <2>1. /\ pc = "chunk" /\ pc' = "merge" /\ c < Len(chunks) /\ c' = c + 1
        /\ symbols' = ByteIds(ChunkBytes(c + 1))
        /\ UNCHANGED <<model, hashTable, nTokens, text, chunks>>
    BY <1>2 DEF StartChunk, init, input, cut
  <2>2. c + 1 \in 1..Len(chunks) /\ nTokens = Len(model.tokens)
    <3>1. c \in 0..Len(chunks) /\ nTokens = Len(model.tokens) /\ chunks \in Seq(Pieces)
      BY <2>1 DEF EncodeInv, ChunkInv
    <3>. QED BY <2>1, <3>1
  <2>3. PICK t, ss : t = ChunkBytes(c + 1) /\ ss = symbols'
    OBVIOUS
  <2>4. WellFormed => OnItsWay(ss, t)
    BY <2>1, <2>2, <2>3, BytesAreOnTheirWay, Zenon
  <2>5. WellFormed' => OnItsWay(ss, t)'
    BY <2>1, <2>4, MergingSame
  <2>6. ChunkBytes(c)' = t
    BY <2>1, <2>3 DEF ChunkBytes
  <2>. QED BY <2>1, <2>3, <2>5, <2>6 DEF MergingInv, MergedByRules
<1>3. ASSUME pc = "merge", WellFormed PROVE UnderWay /\ OnItsWay(symbols, ChunkBytes(c))
  <2>1. OnItsWay(symbols, ChunkBytes(c))
    BY <1>3 DEF MergingInv
  <2>2. /\ nTokens = Len(model.tokens) /\ symbols \in Seq(SymbolIds)
        /\ Len(pairs) = Len(model.merges)
    BY <1>3 DEF EncodeInv, PairsInv
  <2>. QED BY <1>3, <2>1, <2>2, Zenon DEF UnderWay, OnItsWay
<1>4. CASE Merge
  <2>1. /\ pc = "merge" /\ pc' = "merge" /\ c' = c
        /\ UNCHANGED <<model, hashTable, nTokens, text, chunks>>
    BY <1>4 DEF Merge, init, input, cut
  <2>2. PICK ss : ss = symbols'
    OBVIOUS
  <2>3. PICK j : /\ Best(j) /\ TokenFind(Joined(j)) # None
                 /\ ss = SubSeq(symbols, 1, j - 1) \o <<TokenFind(Joined(j))>>
                         \o SubSeq(symbols, j + 2, Len(symbols))
    BY <1>4, <2>2, Zenon DEF Merge
  <2>4. PICK t : t = ChunkBytes(c)
    OBVIOUS
  <2>5. WellFormed => OnItsWay(ss, t)
    BY <1>3, <2>1, <2>3, <2>4, MergeIsOnItsWay, Zenon
  <2>6. WellFormed' => OnItsWay(ss, t)'
    BY <2>1, <2>5, MergingSame
  <2>7. ChunkBytes(c)' = t
    BY <2>1, <2>4 DEF ChunkBytes
  <2>. QED BY <2>1, <2>2, <2>6, <2>7 DEF MergingInv, MergedByRules
<1>5. CASE MergeEnds
  <2>1. /\ pc = "merge" /\ pc' = "emit" /\ c' = c /\ symbols' = symbols
        /\ UNCHANGED <<model, hashTable, nTokens, text, chunks>>
        /\ \A j \in Merging :
              Best(j) => TextWidth(Joined(j)) >= CombSize \/ TokenFind(Joined(j)) = None
    BY <1>5 DEF MergeEnds, init, input, cut, enc
  <2>2. WellFormed => TextsOf(symbols) = ByRules(ChunkBytes(c))
    BY <1>3, <2>1, WayEnds, Zenon
  <2>3. PICK t, x : t = ChunkBytes(c) /\ x = TextsOf(symbols)
    OBVIOUS
  <2>4. ChunkBytes(c)' = t /\ x = [a \in DOMAIN symbols |-> model.tokens[symbols[a]]]
    BY <2>1, <2>3 DEF ChunkBytes, TextsOf
  <2>5. ByRules(t)' = ByRules(t) /\ (WellFormed' <=> WellFormed)
    BY <2>1, RulesSame, MergingSame
  <2>6. WellFormed' => [a \in DOMAIN symbols |-> model.tokens[symbols[a]]]' = ByRules(ChunkBytes(c))'
    BY <2>1, <2>2, <2>3, <2>4, <2>5
  <2>. QED BY <2>1, <2>6 DEF MergingInv, MergedByRules
<1>6. CASE UNCHANGED vars
  <2>1. /\ pc' = pc /\ c' = c /\ symbols' = symbols
        /\ UNCHANGED <<model, hashTable, nTokens, text, chunks>>
    BY <1>6 DEF vars, init, input, cut, enc
  <2>2. PICK t, ss, x : /\ t = ChunkBytes(c) /\ ss = symbols
                        /\ x = [a \in DOMAIN symbols |-> model.tokens[symbols[a]]]
    OBVIOUS
  <2>3. ChunkBytes(c)' = t /\ x = [a \in DOMAIN symbols |-> model.tokens[symbols[a]]]'
    BY <2>1, <2>2 DEF ChunkBytes
  <2>4. ByRules(t)' = ByRules(t) /\ (WellFormed' <=> WellFormed) /\ (OnItsWay(ss, t)' <=> OnItsWay(ss, t))
    BY <2>1, RulesSame, MergingSame
  <2>5. /\ pc = "merge" /\ WellFormed => OnItsWay(ss, t)
        /\ pc = "emit" /\ WellFormed => x = ByRules(t)
    BY <2>2, Zenon DEF MergingInv, MergedByRules
  <2>. QED BY <2>1, <2>2, <2>3, <2>4, <2>5 DEF MergingInv, MergedByRules
<1>7. CASE InsertToken \/ InsertMerge \/ Encode \/ CutContraction \/ CutWord \/ CutLastBlanks
           \/ CutBlanks \/ CutEnds \/ Emit \/ EncodeEnds \/ DecodeOne \/ Finish
  <2>1. pc' \notin {"merge", "emit"}
    BY <1>7 DEF InsertToken, InsertMerge, Encode, CutContraction, CutWord, CutLastBlanks,
                CutBlanks, CutEnds, Cutting, Emit, EncodeEnds, DecodeOne, Finish
  <2>. QED BY <1>1, <2>1
<1>. QED BY <1>2, <1>4, <1>5, <1>6, <1>7, Zenon DEF Step

(* For every vocabulary and every list of merges that builds tokens from    *)
(* bytes and from earlier merges, the greedy loop gives what the merges    *)
(* give that are applied in their order, each to the whole chunk           *)
(* (tokenizer.c:385-419).                                                  *)
THEOREM MergesFollowRules == Spec => []MergedByRules
<1>1. Init => MergingInv
  BY DEF Init, MergingInv, MergedByRules
<1>2. TablesInv /\ ChunkInv /\ EncodeInv /\ PairsInv /\ MergingInv /\ [Step]_vars => MergingInv'
  BY TokenizerAssumption, LookupAssumption, MergingStep
<1>3. MergingInv => MergedByRules
  BY DEF MergingInv
<1>. QED BY <1>1, <1>2, <1>3, TablesInvariance, ChunkInvariance, EncodeInvariance,
            PairsInvariance, PTL DEF Spec
=============================================================================
