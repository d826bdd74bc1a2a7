----------------------------- MODULE GgufProofs -----------------------------
(***************************************************************************)
(* For any model file, cut anywhere: opening it reads nothing behind its   *)
(* end, holds or releases all its resources, and yields what was written,  *)
(* also when the tokenizer is made from it and a prompt is encoded.        *)
(***************************************************************************)
EXTENDS Prompt, WellFoundedInduction, TLAPS

LEMMA LowestFacts ==
    ASSUME NEW S \in SUBSET Nat, S # {}
    PROVE  Lowest(S) \in S /\ \A y \in S : Lowest(S) <= y
<1>1. PICK x \in S : \A y \in S : <<y, x>> \notin OpToRel(<, Nat)
  BY WFMin, NatLessThanWellFounded, Zenon
<1>2. ASSUME NEW y \in S PROVE ~(y < x)
  <2>1. <<y, x>> \in Nat \X Nat /\ <<y, x>>[1] = y /\ <<y, x>>[2] = x
    OBVIOUS
  <2>. QED BY <1>1, <2>1, Zenon DEF OpToRel
<1>3. ASSUME NEW y \in S PROVE x <= y
  BY <1>2
<1>4. \E z \in S : \A y \in S : z <= y
  BY <1>3
<1>. QED BY <1>4, Zenon DEF Lowest

LEMMA HighestIs ==
    ASSUME NEW S \in SUBSET Nat, NEW x \in S, \A y \in S : x >= y
    PROVE  Highest(S) = x
<1>1. PICK z : z = Highest(S)
  OBVIOUS
<1>2. z \in S /\ \A y \in S : z >= y
  <2>1. \E u \in S : \A y \in S : u >= y
    OBVIOUS
  <2>. QED BY <1>1, <2>1, Zenon DEF Highest
<1>3. z \in Nat /\ x \in Nat /\ z >= x /\ x >= z
  BY <1>2
<1>. QED BY <1>1, <1>3

-----------------------------------------------------------------------------
(* A list that grows part by part.                                         *)

Grown(l, n, head, part) ==
    l = [k \in 0..n |-> IF k = 0 THEN head ELSE l[k - 1] \o part[k]]

LEMMA GrownExists ==
    ASSUME NEW n \in Nat, NEW head, NEW part
    PROVE  \E l : Grown(l, n, head, part)
<1>. DEFINE Bad == {m \in Nat : ~ \E l : Grown(l, m, head, part)}
<1>1. ASSUME Bad # {} PROVE FALSE
  <2>1. PICK m \in Bad : \A y \in Bad : m <= y
    <3>1. Bad \in SUBSET Nat
      OBVIOUS
    <3>. HIDE DEF Bad
    <3>. QED BY <1>1, <3>1, LowestFacts
  <2>2. m \in Nat /\ ~ \E l : Grown(l, m, head, part)
    OBVIOUS
  <2>3. CASE m = 0
    <3>1. PICK l : l = [k \in 0..0 |-> head]
      OBVIOUS
    <3>2. Grown(l, 0, head, part)
      <4>1. \A k \in 0..0 : k = 0
        OBVIOUS
      <4>. QED BY <3>1, <4>1 DEF Grown
    <3>. QED BY <2>2, <2>3, <3>2
  <2>4. CASE m # 0
    <3>1. m - 1 \in Nat /\ ~(m <= m - 1)
      BY <2>2, <2>4
    <3>2. PICK g : Grown(g, m - 1, head, part)
      BY <2>1, <3>1
    <3>3. /\ g[0] = head
          /\ \A k \in 1..m-1 : g[k] = g[k - 1] \o part[k]
      <4>1. 0 \in 0..m-1 /\ \A k \in 1..m-1 : k \in 0..m-1 /\ k # 0
        BY <2>2, <2>4
      <4>2. g = [k \in 0..m-1 |-> IF k = 0 THEN head ELSE g[k - 1] \o part[k]]
        BY <3>2 DEF Grown
      <4>. QED BY <4>1, <4>2, Zenon
    <3>4. PICK h : h = [k \in 0..m |-> IF k = m THEN g[m - 1] \o part[m] ELSE g[k]]
      OBVIOUS
    <3>5. ASSUME NEW k \in 0..m
          PROVE  h[k] = IF k = 0 THEN head ELSE h[k - 1] \o part[k]
      <4>1. CASE k = 0
        BY <2>4, <3>3, <3>4, <4>1
      <4>2. CASE k = m
        <5>1. m - 1 \in 0..m /\ m - 1 # m /\ m \in 0..m
          BY <2>2, <2>4
        <5>2. h[m] = g[m - 1] \o part[m] /\ h[m - 1] = g[m - 1]
          BY <3>4, <5>1
        <5>. QED BY <2>4, <4>2, <5>2
      <4>3. CASE k # 0 /\ k # m
        <5>1. k \in 1..m-1 /\ k - 1 \in 0..m /\ k - 1 # m
          BY <2>2, <4>3
        <5>2. h[k] = g[k] /\ h[k - 1] = g[k - 1]
          BY <3>4, <4>3, <5>1
        <5>3. g[k] = g[k - 1] \o part[k]
          BY <3>3, <5>1
        <5>. QED BY <4>3, <5>2, <5>3
      <4>. QED BY <4>1, <4>2, <4>3
    <3>6. h = [k \in 0..m |-> h[k]]
      BY <3>4
    <3>7. h = [k \in 0..m |-> IF k = 0 THEN head ELSE h[k - 1] \o part[k]]
      BY <3>5, <3>6, Zenon
    <3>. QED BY <2>2, <3>7 DEF Grown
  <2>. QED BY <2>3, <2>4
<1>. QED BY <1>1

(* l is a list of sequences, each longer than the one before it by a part.  *)
Growing(l, n, S, head, part) ==
    /\ l[0] = head
    /\ \A k \in 0..n : l[k] \in Seq(S)
    /\ \A k \in 1..n : l[k] = l[k - 1] \o part[k]

LEMMA GrownFacts ==
    ASSUME NEW S, NEW n \in Nat, NEW head \in Seq(S), NEW part,
           \A k \in 1..n : part[k] \in Seq(S), NEW l, Grown(l, n, head, part)
    PROVE  Growing(l, n, S, head, part)
<1>1. l = [k \in 0..n |-> IF k = 0 THEN head ELSE l[k - 1] \o part[k]]
  BY DEF Grown
<1>2. l[0] = head
  <2>1. 0 \in 0..n
    OBVIOUS
  <2>. QED BY <1>1, <2>1, Zenon
<1>3. ASSUME NEW k \in 1..n PROVE l[k] = l[k - 1] \o part[k]
  <2>1. k \in 0..n /\ k # 0
    OBVIOUS
  <2>. QED BY <1>1, <2>1, Zenon
<1>. DEFINE Bad == {k \in 0..n : l[k] \notin Seq(S)}
<1>4. ASSUME Bad # {} PROVE FALSE
  <2>1. PICK m \in Bad : \A y \in Bad : m <= y
    <3>1. Bad \in SUBSET Nat
      OBVIOUS
    <3>. HIDE DEF Bad
    <3>. QED BY <1>4, <3>1, LowestFacts
  <2>2. m \in 0..n /\ l[m] \notin Seq(S)
    OBVIOUS
  <2>3. m # 0
    BY <1>2, <2>2
  <2>4. m \in 1..n /\ m - 1 \in 0..n /\ ~(m <= m - 1)
    BY <2>2, <2>3
  <2>5. l[m - 1] \in Seq(S)
    BY <2>1, <2>4
  <2>6. PICK x, y : x = l[m - 1] /\ y = part[m]
    OBVIOUS
  <2>7. x \in Seq(S) /\ y \in Seq(S)
    BY <2>4, <2>5, <2>6
  <2>8. x \o y \in Seq(S)
    BY <2>7
  <2>. QED BY <1>3, <2>2, <2>4, <2>6, <2>8
<1>. QED BY <1>2, <1>3, <1>4 DEF Growing

(* Its parts are where they were put.                                      *)
Prefix(x, y) == Len(x) <= Len(y) /\ \A j \in 1..Len(x) : y[j] = x[j]

LEMMA GrownPrefix ==
    ASSUME NEW S, NEW n \in Nat, NEW head, NEW part, NEW l,
           \A k \in 1..n : part[k] \in Seq(S), Growing(l, n, S, head, part)
    PROVE  \A k \in 0..n : Prefix(l[k], l[n])
<1>0. /\ \A k \in 0..n : l[k] \in Seq(S)
      /\ \A k \in 1..n : l[k] = l[k - 1] \o part[k]
  BY DEF Growing
<1>. DEFINE Good(m) == \A k \in 0..m :
               Len(l[k]) <= Len(l[m]) /\ \A j \in 1..Len(l[k]) : l[m][j] = l[k][j]
            Bad == {m \in 0..n : ~Good(m)}
<1>1. ASSUME Bad # {} PROVE FALSE
  <2>1. PICK m \in Bad : \A y \in Bad : m <= y
    <3>1. Bad \in SUBSET Nat
      OBVIOUS
    <3>. HIDE DEF Bad
    <3>. QED BY <1>1, <3>1, LowestFacts
  <2>2. m \in 0..n /\ ~Good(m)
    OBVIOUS
  <2>3. Len(l[m]) \in Nat
    BY <1>0, <2>2
  <2>4. m # 0
    <3>1. ASSUME m = 0 PROVE Good(0)
      <4>1. \A k \in 0..0 : k = 0
        OBVIOUS
      <4>. QED BY <2>3, <3>1, <4>1
    <3>. QED BY <2>2, <3>1
  <2>5. m \in 1..n /\ m - 1 \in 0..n /\ ~(m <= m - 1)
    BY <2>2, <2>4
  <2>6. Good(m - 1)
    BY <2>1, <2>5
  <2>7. PICK x, y, z : x = l[m - 1] /\ y = part[m] /\ z = l[m]
    OBVIOUS
  <2>8. x \in Seq(S) /\ y \in Seq(S) /\ z = x \o y
    BY <1>0, <2>5, <2>7
  <2>9. Len(x) \in Nat /\ Len(x) <= Len(z) /\ \A j \in 1..Len(x) : z[j] = x[j]
    BY <2>8
  <2>10. ASSUME NEW k \in 0..m
         PROVE  Len(l[k]) <= Len(l[m]) /\ \A j \in 1..Len(l[k]) : l[m][j] = l[k][j]
    <3>1. CASE k = m
      BY <2>3, <3>1
    <3>2. CASE k # m
      <4>1. k \in 0..m-1 /\ k \in 0..n
        BY <2>5, <3>2
      <4>2. Len(l[k]) <= Len(x) /\ \A j \in 1..Len(l[k]) : x[j] = l[k][j]
        BY <2>6, <2>7, <4>1
      <4>3. Len(l[k]) \in Nat
        BY <1>0, <4>1
      <4>4. \A j \in 1..Len(l[k]) : j \in 1..Len(x)
        BY <2>9, <4>2, <4>3
      <4>5. Len(l[k]) <= Len(z)
        <5>1. Len(z) \in Nat
          BY <2>3, <2>7
        <5>. QED BY <2>9, <4>2, <4>3, <5>1
      <4>. QED BY <2>7, <2>9, <4>2, <4>4, <4>5
    <3>. QED BY <3>1, <3>2
  <2>. QED BY <2>2, <2>10
<1>. HIDE DEF Good
<1>2. \A m \in 0..n : Good(m)
  BY <1>1
<1>3. Good(n)
  BY <1>2
<1>. QED BY <1>3 DEF Good, Prefix

-----------------------------------------------------------------------------
(* The cells of a file.                                                    *)

Items(s)     == {s[j] : j \in 1..Len(s)}
Values(f)    == {HeaderCell(f), "data"} \cup UNION {Items(PartCells(f, k)) : k \in 1..Parts(f)}
EndOf(f, k)  == Len(ListedTo(f)[k])      \* the last cell of part k
PartLen(f, k) == Len(PartCells(f, k))

(* x is a, of m elements, and then b, of n elements.                       *)
IsConcat(x, a, m, b, n) ==
    /\ Len(x) = m + n
    /\ \A k \in 1..m : x[k] = a[k]
    /\ \A k \in 1..n : x[m + k] = b[k]

LEMMA ConcatFacts ==
    ASSUME NEW S, NEW a \in Seq(S), NEW m, Len(a) = m, NEW b \in Seq(S), NEW n, Len(b) = n
    PROVE  a \o b \in Seq(S) /\ IsConcat(a \o b, a, m, b, n)
<1>1. /\ a \o b \in Seq(S) /\ Len(a \o b) = Len(a) + Len(b)
      /\ \A k \in 1..Len(a) : (a \o b)[k] = a[k]
      /\ \A k \in 1..Len(b) : (a \o b)[Len(a) + k] = b[k]
  OBVIOUS
<1>. QED BY <1>1, Zenon DEF IsConcat

LEMMA SubSeqFacts ==
    ASSUME NEW S, NEW seq \in Seq(S), NEW a \in Nat, NEW b \in Nat,
           a >= 1, a <= b + 1, b <= Len(seq)
    PROVE  /\ SubSeq(seq, a, b) \in Seq(S) /\ Len(SubSeq(seq, a, b)) = b - a + 1
           /\ \A k \in 1..b-a+1 : SubSeq(seq, a, b)[k] = seq[a + k - 1]
OBVIOUS

LEMMA SeqWiden ==
    ASSUME NEW S, NEW T, NEW seq \in Seq(S), \A k \in 1..Len(seq) : seq[k] \in T
    PROVE  seq \in Seq(T)
<1>1. Len(seq) \in Nat /\ seq \in [1..Len(seq) -> T]
  OBVIOUS
<1>. QED BY <1>1

LEMMA SeqEqual ==
    ASSUME NEW S, NEW seq \in Seq(S), NEW T, NEW new \in Seq(T), NEW n, Len(seq) = n, Len(new) = n,
           \A k \in 1..n : seq[k] = new[k]
    PROVE  seq = new
<1>1. seq = [k \in 1..n |-> seq[k]] /\ new = [k \in 1..n |-> new[k]]
  OBVIOUS
<1>. QED BY <1>1

(* The cells of an entry and of a tensor.                                  *)
HoldsArray(x, e) ==
    /\ Len(e.val) \in Nat /\ \E S : e.val \in Seq(S)
    /\ \E S : x \in Seq(S) /\ Len(x) = 4 + Len(e.val)
    /\ x[1] = e.key /\ x[2] = e.type /\ x[3] = e.elem /\ x[4] = Len(e.val)
    /\ \A j \in 1..Len(e.val) : x[4 + j] = e.val[j]

LEMMA ArrayCells ==
    ASSUME NEW e, EntryOK(e), e.type = "arr", NEW x, x = EntryCells(e)
    PROVE  HoldsArray(x, e)
<1>0. PICK S : S = {e.val[j] : j \in DOMAIN e.val}
  OBVIOUS
<1>1. PICK v, n : v = e.val /\ v \in Seq(S) /\ n = Len(v) /\ n \in Nat
  <2>1. e.val \in Seq(S)
    BY <1>0 DEF EntryOK
  <2>2. Len(e.val) \in Nat
    BY <2>1
  <2>. QED BY <2>1, <2>2
<1>2. PICK a, T : a = <<e.key, e.type, e.elem, n>> /\ T = S \cup {e.key, e.type, e.elem, n}
  OBVIOUS
<1>3. a \in Seq(T) /\ Len(a) = 4 /\ a[1] = e.key /\ a[2] = e.type /\ a[3] = e.elem /\ a[4] = n
  BY <1>2
<1>4. v \in Seq(T)
  BY <1>1, <1>2
<1>5. x = a \o v
  BY <1>1, <1>2 DEF EntryCells
<1>6. /\ x \in Seq(T) /\ Len(x) = 4 + n
      /\ \A j \in 1..4 : x[j] = a[j]
      /\ \A j \in 1..n : x[4 + j] = v[j]
  <2>1. a \o v \in Seq(T) /\ IsConcat(a \o v, a, 4, v, n)
    BY <1>1, <1>3, <1>4, ConcatFacts, Zenon
  <2>. QED BY <1>5, <2>1, Zenon DEF IsConcat
<1>7. 1 \in 1..4 /\ 2 \in 1..4 /\ 3 \in 1..4 /\ 4 \in 1..4
  OBVIOUS
<1>8. x[1] = a[1] /\ x[2] = a[2] /\ x[3] = a[3] /\ x[4] = a[4]
  BY <1>6, <1>7
<1>9. Len(x) = 4 + Len(e.val) /\ \A j \in 1..Len(e.val) : x[4 + j] = e.val[j]
  BY <1>1, <1>6, Zenon
<1>. QED BY <1>1, <1>3, <1>6, <1>8, <1>9, Zenon DEF HoldsArray

LEMMA ScalarCells ==
    ASSUME NEW e, e.type # "arr", NEW x, x = EntryCells(e)
    PROVE  \E S : x \in Seq(S) /\ Len(x) = 3 /\ x[1] = e.key /\ x[2] = e.type /\ x[3] = e.val
<1>1. x = <<e.key, e.type, e.val>>
  BY DEF EntryCells
<1>2. x \in Seq({e.key, e.type, e.val}) /\ Len(x) = 3
  BY <1>1
<1>3. x[1] = e.key /\ x[2] = e.type /\ x[3] = e.val
  BY <1>1
<1>. QED BY <1>2, <1>3, Zenon

LEMMA TensorCellsFacts ==
    ASSUME NEW t, t.ne \in Seq(Nat), NEW x, x = TensorCells(t)
    PROVE  /\ Len(t.ne) \in Nat /\ \E S : x \in Seq(S) /\ Len(x) = 4 + Len(t.ne)
           /\ x[2] = Len(t.ne)
<1>1. PICK v, n : v = t.ne /\ n = Len(v) /\ n \in Nat /\ v \in Seq(Nat)
  OBVIOUS
<1>2. PICK a, b, T : /\ a = <<t.name, n>> /\ b = <<t.type, t.offset>>
                     /\ T = Nat \cup {t.name, t.type, t.offset}
  OBVIOUS
<1>3. /\ a \in Seq(T) /\ Len(a) = 2 /\ a[2] = n
      /\ b \in Seq(T) /\ Len(b) = 2 /\ v \in Seq(T)
  BY <1>1, <1>2
<1>4. PICK y : y = a \o v
  OBVIOUS
<1>5. y \in Seq(T) /\ Len(y) = 2 + n /\ \A k \in 1..2 : y[k] = a[k]
  <2>1. a \o v \in Seq(T) /\ IsConcat(a \o v, a, 2, v, n)
    BY <1>1, <1>3, ConcatFacts, Zenon
  <2>. QED BY <1>4, <2>1, Zenon DEF IsConcat
<1>6. x = y \o b
  BY <1>1, <1>2, <1>4 DEF TensorCells
<1>7. x \in Seq(T) /\ Len(x) = 2 + n + 2 /\ \A k \in 1..2+n : x[k] = y[k]
  <2>1. y \o b \in Seq(T) /\ IsConcat(y \o b, y, 2 + n, b, 2)
    BY <1>3, <1>5, ConcatFacts, Zenon
  <2>. QED BY <1>6, <2>1, Zenon DEF IsConcat
<1>8. x[2] = n /\ Len(x) = 4 + n
  <2>1. 2 \in 1..2+n /\ 2 \in 1..2 /\ 2 + n + 2 = 4 + n
    BY <1>1
  <2>. QED BY <1>3, <1>5, <1>7, <2>1
<1>. QED BY <1>1, <1>7, <1>8

(* Each part of a file is a sequence.                                      *)
LEMMA PartIsSeq ==
    ASSUME NEW f, FileOK(f), NEW k \in 1..Parts(f)
    PROVE  PartCells(f, k) \in Seq(Values(f)) /\ PartLen(f, k) \in Nat
<1>1. Len(f.kv) \in Nat /\ Len(f.tensors) \in Nat
  BY DEF FileOK
<1>2. PICK x : x = PartCells(f, k)
  OBVIOUS
<1>3. \E S : x \in Seq(S)
  <2>1. CASE k <= Len(f.kv)
    <3>1. k \in 1..Len(f.kv)
      BY <1>1, <2>1
    <3>2. PICK e : e = f.kv[k]
      OBVIOUS
    <3>3. EntryOK(e) /\ x = EntryCells(e)
      BY <1>2, <2>1, <3>1, <3>2 DEF FileOK, PartCells
    <3>. QED BY <3>3, ArrayCells, ScalarCells, Zenon DEF HoldsArray
  <2>2. CASE ~(k <= Len(f.kv))
    <3>1. k - Len(f.kv) \in 1..Len(f.tensors)
      <4>1. PICK a \in Nat, b \in Nat : a = Len(f.kv) /\ b = Len(f.tensors)
        BY <1>1
      <4>2. k \in 1..a+b /\ ~(k <= a)
        BY <2>2, <4>1 DEF Parts
      <4>3. k - a \in 1..b
        BY <4>2
      <4>. QED BY <4>1, <4>3
    <3>2. PICK t : t = f.tensors[k - Len(f.kv)]
      OBVIOUS
    <3>3. t.ne \in Seq(Nat) /\ x = TensorCells(t)
      BY <1>2, <2>2, <3>1, <3>2 DEF FileOK, PartCells
    <3>. QED BY <3>3, TensorCellsFacts
  <2>. QED BY <2>1, <2>2
<1>4. PICK S : x \in Seq(S)
  BY <1>3
<1>5. \A j \in 1..Len(x) : x[j] \in Values(f)
  BY <1>2 DEF Values, Items
<1>6. x \in Seq(Values(f))
  BY <1>4, <1>5, SeqWiden
<1>. QED BY <1>2, <1>6 DEF PartLen

LEMMA ListedFacts ==
    ASSUME NEW f, FileOK(f)
    PROVE  /\ Parts(f) \in Nat /\ ListedTo(f)[0] = <<HeaderCell(f)>>
           /\ \A k \in 0..Parts(f) : ListedTo(f)[k] \in Seq(Values(f)) /\ EndOf(f, k) \in Nat
           /\ \A k \in 1..Parts(f) : ListedTo(f)[k] = ListedTo(f)[k - 1] \o PartCells(f, k)
<1>1. PICK n \in Nat : n = Parts(f)
  <2>1. Len(f.kv) \in Nat /\ Len(f.tensors) \in Nat
    BY DEF FileOK
  <2>2. PICK a \in Nat, b \in Nat : a = Len(f.kv) /\ b = Len(f.tensors)
    BY <2>1
  <2>3. a + b \in Nat
    OBVIOUS
  <2>4. Parts(f) = a + b
    BY <2>2, Zenon DEF Parts
  <2>. QED BY <2>3, <2>4
<1>2. PICK head, part : head = <<HeaderCell(f)>> /\ part = [k \in 1..n |-> PartCells(f, k)]
  OBVIOUS
<1>3. PICK g : Grown(g, n, head, part)
  BY GrownExists
<1>4. ASSUME NEW l
      PROVE  Grown(l, n, head, part) <=>
             l = [k \in 0..Parts(f) |-> IF k = 0 THEN <<HeaderCell(f)>>
                                                 ELSE l[k - 1] \o PartCells(f, k)]
  <2>1. \A k \in 0..n : k # 0 => part[k] = PartCells(f, k)
    BY <1>2
  <2>2. [k \in 0..n |-> IF k = 0 THEN head ELSE l[k - 1] \o part[k]]
        = [k \in 0..n |-> IF k = 0 THEN head ELSE l[k - 1] \o PartCells(f, k)]
    BY <2>1, Zenon
  <2>. QED BY <1>1, <1>2, <2>2, Zenon DEF Grown
<1>5. Grown(ListedTo(f), n, head, part)
  BY <1>3, <1>4, Zenon DEF ListedTo
<1>6. head \in Seq(Values(f))
  BY <1>2 DEF Values
<1>7. \A k \in 1..n : part[k] \in Seq(Values(f)) /\ part[k] = PartCells(f, k)
  BY <1>1, <1>2, PartIsSeq
<1>8. PICK l : l = ListedTo(f)
  OBVIOUS
<1>9. Growing(l, n, Values(f), head, part)
  BY <1>5, <1>6, <1>7, <1>8, GrownFacts
<1>10. /\ l[0] = head /\ \A k \in 0..n : l[k] \in Seq(Values(f))
       /\ \A k \in 1..n : l[k] = l[k - 1] \o part[k]
  BY <1>9 DEF Growing
<1>11. \A k \in 0..n : Len(l[k]) \in Nat
  BY <1>10
<1>. QED BY <1>1, <1>2, <1>7, <1>8, <1>10, <1>11 DEF EndOf

(* What the cells of a file hold, if it does not end before them.          *)
LEMMA LayoutFacts ==
    ASSUME NEW f, FileOK(f)
    PROVE  /\ Layout(f) \in Seq(Values(f)) /\ Len(Layout(f)) = f.end /\ f.end \in Nat
           /\ EndOf(f, 0) = 1 /\ Len(Listed(f)) = EndOf(f, Parts(f))
           /\ f.end >= 1 => Layout(f)[1] = HeaderCell(f)
           /\ \A k \in 1..Parts(f) :
                 /\ EndOf(f, k) = EndOf(f, k - 1) + PartLen(f, k)
                 /\ EndOf(f, k) <= EndOf(f, Parts(f))
                 /\ \A j \in 1..PartLen(f, k) : EndOf(f, k - 1) + j <= f.end =>
                       Layout(f)[EndOf(f, k - 1) + j] = PartCells(f, k)[j]
<1>1. PICK n, l : n = Parts(f) /\ l = ListedTo(f)
  OBVIOUS
<1>2. /\ n \in Nat /\ l[0] = <<HeaderCell(f)>>
      /\ \A k \in 0..n : l[k] \in Seq(Values(f))
      /\ \A k \in 1..n : l[k] = l[k - 1] \o PartCells(f, k)
  BY <1>1, ListedFacts
<1>3. \A k \in 1..n : PartCells(f, k) \in Seq(Values(f))
  BY <1>1, PartIsSeq
<1>4. \A k \in 0..n : Len(l[k]) <= Len(l[n]) /\ \A j \in 1..Len(l[k]) : l[n][j] = l[k][j]
  <2>1. PICK part : part = [k \in 1..n |-> PartCells(f, k)]
    OBVIOUS
  <2>2. \A k \in 1..n : part[k] \in Seq(Values(f)) /\ l[k] = l[k - 1] \o part[k]
    BY <1>2, <1>3, <2>1
  <2>3. Growing(l, n, Values(f), <<HeaderCell(f)>>, part)
    BY <1>2, <2>2 DEF Growing
  <2>4. \A k \in 0..n : Prefix(l[k], l[n])
    BY <1>2, <2>2, <2>3, GrownPrefix
  <2>. QED BY <2>4 DEF Prefix
<1>5. PICK x, y : x = l[n] /\ y = x \o [k \in 1..f.data |-> "data"]
  OBVIOUS
<1>6. x \in Seq(Values(f)) /\ Len(x) \in Nat
  BY <1>2, <1>5
<1>7. /\ y \in Seq(Values(f)) /\ Len(y) = Len(x) + f.data
      /\ \A k \in 1..Len(x) : y[k] = x[k]
  <2>1. PICK u : u = [k \in 1..f.data |-> "data"]
    OBVIOUS
  <2>2. u \in Seq(Values(f)) /\ Len(u) = f.data
    <3>1. f.data \in Nat /\ "data" \in Values(f)
      BY DEF FileOK, Values
    <3>. QED BY <2>1, <3>1
  <2>3. x \o u \in Seq(Values(f)) /\ IsConcat(x \o u, x, Len(x), u, f.data)
    BY <1>6, <2>2, ConcatFacts, Zenon
  <2>. QED BY <1>5, <2>1, <2>3, Zenon DEF IsConcat
<1>8. PICK z, m : z = Layout(f) /\ m = f.end
  OBVIOUS
<1>9. x = Listed(f) /\ z = SubSeq(y, 1, m) /\ m \in Nat /\ m <= Len(y)
  <2>1. x = Listed(f)
    BY <1>1, <1>5 DEF Listed
  <2>2. f.data \in Nat /\ m \in 0..Len(x) + f.data
    BY <1>8, <2>1 DEF FileOK
  <2>. QED BY <1>5, <1>6, <1>7, <1>8, <2>1, <2>2 DEF Layout
<1>10. z \in Seq(Values(f)) /\ Len(z) = m /\ \A k \in 1..m : z[k] = y[k]
  <2>1. 1 <= m + 1 /\ m - 1 + 1 = m /\ \A k \in 1..m : 1 + k - 1 = k
    BY <1>9
  <2>. QED BY <1>7, <1>9, <2>1, SubSeqFacts
<1>11. ASSUME NEW j \in 1..Len(x), j <= m PROVE z[j] = x[j]
  <2>1. j \in 1..m
    BY <1>9, <1>11
  <2>. QED BY <1>7, <1>10, <2>1
<1>12. Len(l[0]) = 1 /\ l[0][1] = HeaderCell(f) /\ 1 <= Len(x)
  <2>1. 0 \in 0..n
    BY <1>2
  <2>2. Len(l[0]) = 1 /\ l[0][1] = HeaderCell(f)
    BY <1>2
  <2>. QED BY <1>4, <1>5, <2>1, <2>2, Zenon
<1>13. m >= 1 => z[1] = HeaderCell(f)
  <2>1. 1 \in 1..Len(x) /\ x[1] = l[0][1]
    <3>1. 0 \in 0..n /\ 1 \in 1..Len(l[0])
      BY <1>2, <1>12
    <3>2. x[1] = l[0][1]
      BY <1>4, <1>5, <3>1, Zenon
    <3>. QED BY <1>6, <1>12, <3>2
  <2>2. ASSUME m >= 1 PROVE z[1] = x[1]
    BY <1>11, <2>1, <2>2
  <2>. QED BY <1>12, <2>1, <2>2
<1>14. ASSUME NEW k \in 1..n
       PROVE  /\ Len(l[k]) = Len(l[k - 1]) + PartLen(f, k) /\ Len(l[k]) <= Len(x)
              /\ \A j \in 1..PartLen(f, k) : Len(l[k - 1]) + j <= m =>
                    z[Len(l[k - 1]) + j] = PartCells(f, k)[j]
  <2>1. PICK a, b : a = l[k - 1] /\ b = PartCells(f, k)
    OBVIOUS
  <2>2. k - 1 \in 0..n /\ k \in 0..n
    BY <1>2
  <2>3. a \in Seq(Values(f)) /\ b \in Seq(Values(f)) /\ l[k] = a \o b
    BY <1>2, <1>3, <2>1, <2>2
  <2>4. Len(l[k]) = Len(a) + Len(b) /\ \A j \in 1..Len(b) : l[k][Len(a) + j] = b[j]
    <3>1. IsConcat(a \o b, a, Len(a), b, Len(b))
      BY <2>3, ConcatFacts, Zenon
    <3>. QED BY <2>3, <3>1, Zenon DEF IsConcat
  <2>5. Len(a) \in Nat /\ Len(b) \in Nat
    BY <2>3
  <2>6. Len(l[k]) <= Len(x) /\ \A j \in 1..Len(l[k]) : x[j] = l[k][j]
    BY <1>4, <1>5, <2>2
  <2>7. ASSUME NEW j \in 1..Len(b), Len(a) + j <= m PROVE z[Len(a) + j] = b[j]
    <3>1. Len(a) + j \in 1..Len(l[k]) /\ Len(a) + j \in 1..Len(x)
      BY <1>6, <2>4, <2>5, <2>6
    <3>2. z[Len(a) + j] = x[Len(a) + j]
      BY <1>11, <2>7, <3>1
    <3>. QED BY <2>4, <2>6, <3>1, <3>2
  <2>8. PartLen(f, k) = Len(b)
    BY <2>1 DEF PartLen
  <2>. QED BY <2>1, <2>4, <2>6, <2>7, <2>8
<1>. QED BY <1>1, <1>5, <1>8, <1>9, <1>10, <1>12, <1>13, <1>14 DEF EndOf

LEMMA Indices ==
    ASSUME NEW a \in Nat, NEW b \in Nat
    PROVE  /\ \A k \in 1..a : k \in 1..a+b /\ k - 1 \in 0..a+b /\ k \in 0..a+b /\ k <= a
           /\ \A k \in 1..a+b : k > a => k - a \in 1..b /\ ~(k <= a)
OBVIOUS

LEMMA WithinCut ==
    ASSUME NEW j \in 1..3, NEW h \in j..3, NEW n \in Nat, n >= 3,
           NEW p \in Nat, NEW l \in Nat, p + h <= l
    PROVE  j \in 1..n /\ p + j <= l
OBVIOUS

LEMMA PastHeader ==
    ASSUME NEW m \in Nat, NEW j \in 1..m, NEW p \in Nat, NEW q, q = p + 4 + m, NEW h, h = 4 + j
    PROVE  h \in 1..4+m /\ p + h <= q
OBVIOUS

(* v lies behind the four cells behind p.                                  *)
LiesAt(v, m, z, p) == Len(v) = m /\ \A j \in 1..m : z[p + (4 + j)] = v[j]

IsTail(v, z, p, q) == SubSeq(z, p + 5, q) = v

LEMMA TailIs ==
    ASSUME NEW S, NEW z \in Seq(S), NEW T, NEW v \in Seq(T), NEW m \in Nat,
           NEW p \in Nat, NEW q, q = p + 4 + m, q <= Len(z), LiesAt(v, m, z, p)
    PROVE  IsTail(v, z, p, q)
<1>1. PICK s : s = SubSeq(z, p + 5, q)
  OBVIOUS
<1>2. /\ s \in Seq(S) /\ Len(s) = m
      /\ \A j \in 1..m : s[j] = z[p + 5 + j - 1]
  <2>1. p + 5 \in Nat /\ q \in Nat /\ p + 5 >= 1 /\ p + 5 <= q + 1 /\ q - (p + 5) + 1 = m
    OBVIOUS
  <2>. QED BY <1>1, <2>1, SubSeqFacts
<1>3. \A j \in 1..m : p + 5 + j - 1 = p + (4 + j)
  OBVIOUS
<1>4. \A j \in 1..m : s[j] = v[j]
  BY <1>2, <1>3 DEF LiesAt
<1>5. Len(v) = m
  BY DEF LiesAt
<1>6. s = v
  BY <1>2, <1>4, <1>5, SeqEqual, Zenon
<1>. QED BY <1>1, <1>6 DEF IsTail

(* An entry of a file lies between two cells, cut where the file is cut.   *)
EntryLies(e, z, p, q) ==
    /\ p \in Nat /\ q \in Nat /\ Len(z) \in Nat
    /\ p + 2 <= Len(z) => z[p + 1] = e.key /\ z[p + 2] = e.type
    /\ e.type # "arr" => q = p + 3 /\ (q <= Len(z) => z[p + 3] = e.val)
    /\ e.type = "arr" => /\ Len(e.val) \in Nat /\ q = p + 4 + Len(e.val)
                         /\ p + 4 <= Len(z) => z[p + 4] = Len(e.val)
                         /\ q <= Len(z) => SubSeq(z, p + 5, q) = e.val

LEMMA EntryAt ==
    ASSUME NEW f, FileOK(f), NEW k \in 1..Len(f.kv), NEW e, e = f.kv[k],
           NEW p, p = EndOf(f, k - 1), NEW q, q = EndOf(f, k), NEW z, z = Layout(f)
    PROVE  EntryOK(e) /\ q <= EndOf(f, Parts(f)) /\ EntryLies(e, z, p, q)
<1>. SUFFICES /\ p \in Nat /\ q \in Nat /\ Len(z) \in Nat /\ EntryOK(e) /\ q <= EndOf(f, Parts(f))
              /\ p + 2 <= Len(z) => z[p + 1] = e.key /\ z[p + 2] = e.type
              /\ e.type # "arr" => q = p + 3 /\ (q <= Len(z) => z[p + 3] = e.val)
              /\ e.type = "arr" => /\ Len(e.val) \in Nat /\ q = p + 4 + Len(e.val)
                                   /\ p + 4 <= Len(z) => z[p + 4] = Len(e.val)
                                   /\ q <= Len(z) => SubSeq(z, p + 5, q) = e.val
  BY Zenon DEF EntryLies
<1>1. k \in 1..Parts(f) /\ k - 1 \in 0..Parts(f) /\ k \in 0..Parts(f)
  <2>1. PICK a \in Nat, b \in Nat : a = Len(f.kv) /\ b = Len(f.tensors)
    BY DEF FileOK
  <2>2. Parts(f) = a + b
    BY <2>1, Zenon DEF Parts
  <2>3. k \in 1..a+b /\ k - 1 \in 0..a+b /\ k \in 0..a+b
    BY <2>1, Indices, Zenon
  <2>. QED BY <2>2, <2>3
<1>2. PICK x, n : x = PartCells(f, k) /\ n = PartLen(f, k)
  OBVIOUS
<1>3. x = EntryCells(e) /\ EntryOK(e) /\ n = Len(x) /\ n \in Nat
  <2>1. k <= Len(f.kv)
    BY DEF FileOK
  <2>2. PartLen(f, k) \in Nat
    BY <1>1, PartIsSeq
  <2>. QED BY <1>2, <2>1, <2>2 DEF PartCells, PartLen, FileOK
<1>4. p \in Nat /\ q \in Nat
  BY <1>1, ListedFacts
<1>5. /\ q = p + n /\ q <= EndOf(f, Parts(f))
      /\ z \in Seq(Values(f)) /\ Len(z) \in Nat
  BY <1>1, <1>2, LayoutFacts
<1>9. \A j \in 1..n : p + j <= Len(z) => z[p + j] = x[j]
  BY <1>1, <1>2, LayoutFacts
<1>6. ASSUME NEW j \in 1..3, NEW h \in j..3, n >= 3, p + h <= Len(z) PROVE z[p + j] = x[j]
  <2>1. n \in Nat /\ p \in Nat /\ Len(z) \in Nat
    BY <1>3, <1>4, <1>5, Zenon
  <2>2. j \in 1..n /\ p + j <= Len(z)
    BY <1>6, <2>1, WithinCut, Zenon
  <2>. QED BY <1>9, <2>2, Zenon
<1>7. CASE e.type # "arr"
  <2>1. n = 3 /\ x[1] = e.key /\ x[2] = e.type /\ x[3] = e.val
    BY <1>3, <1>7, ScalarCells
  <2>2. p + 2 <= Len(z) => z[p + 1] = x[1] /\ z[p + 2] = x[2]
    BY <1>6, <2>1
  <2>3. q = p + 3 /\ (q <= Len(z) => z[p + 3] = x[3])
    BY <1>5, <1>6, <2>1
  <2>. QED BY <1>3, <1>4, <1>5, <1>7, <2>1, <2>2, <2>3
<1>8. CASE e.type = "arr"
  <2>0. PICK v, m : v = e.val /\ m = Len(v)
    OBVIOUS
  <2>10. /\ Len(e.val) \in Nat /\ (\E S : e.val \in Seq(S))
         /\ (\E S : x \in Seq(S) /\ Len(x) = 4 + Len(e.val))
         /\ x[1] = e.key /\ x[2] = e.type /\ x[3] = e.elem /\ x[4] = Len(e.val)
         /\ \A j \in 1..Len(e.val) : x[4 + j] = e.val[j]
    <3>1. HoldsArray(x, e)
      BY <1>3, <1>8, ArrayCells, Zenon
    <3>. QED BY <3>1, Zenon DEF HoldsArray
  <2>11. /\ m \in Nat /\ (\E S : v \in Seq(S)) /\ (\E S : x \in Seq(S) /\ Len(x) = 4 + m)
         /\ x[1] = e.key /\ x[2] = e.type /\ x[3] = e.elem /\ x[4] = m
         /\ \A j \in 1..m : x[4 + j] = v[j]
    BY <2>0, <2>10, Zenon
  <2>1. /\ m \in Nat /\ n = 4 + m
        /\ x[1] = e.key /\ x[2] = e.type /\ x[3] = e.elem /\ x[4] = m
    BY <1>3, <2>11, Zenon
  <2>2. n >= 3 /\ 4 \in 1..n
    BY <2>1
  <2>3. p + 2 <= Len(z) => z[p + 1] = x[1] /\ z[p + 2] = x[2]
    BY <1>6, <2>2
  <2>4. p + 3 <= Len(z) => z[p + 3] = x[3]
    BY <1>6, <2>2
  <2>5. p + 4 <= Len(z) => z[p + 4] = x[4]
    BY <1>9, <2>2
  <2>6. q = p + 4 + m
    BY <1>4, <1>5, <2>1
  <2>7. ASSUME q <= Len(z) PROVE SubSeq(z, p + 5, q) = v
    <3>1. PICK S : v \in Seq(S)
      BY <2>11
    <3>2. ASSUME NEW j \in 1..m PROVE z[p + (4 + j)] = v[j]
      <4>1. PICK h : h = 4 + j
        OBVIOUS
      <4>2. h \in 1..4+m /\ p + h <= q
        BY <1>4, <2>1, <2>6, <4>1, PastHeader, Zenon
      <4>4. h \in 1..n /\ p + h <= Len(z)
        <5>1. q \in Nat /\ Len(z) \in Nat /\ p + h \in Nat
          <6>1. h \in Nat
            BY <4>1
          <6>. QED BY <1>4, <1>5, <6>1
        <5>2. p + h <= Len(z)
          BY <2>7, <4>2, <5>1
        <5>. QED BY <2>1, <4>2, <5>2
      <4>3. z[p + h] = x[h]
        BY <1>9, <4>4
      <4>. QED BY <2>11, <4>1, <4>3
    <3>3. LiesAt(v, m, z, p)
      BY <2>0, <3>2 DEF LiesAt
    <3>4. z \in Seq(Values(f)) /\ p \in Nat /\ m \in Nat
      BY <1>4, <1>5, <2>1
    <3>5. IsTail(v, z, p, q)
      BY <2>6, <2>7, <3>1, <3>3, <3>4, TailIs, Zenon
    <3>. QED BY <3>5 DEF IsTail
  <2>. QED BY <1>3, <1>4, <1>5, <1>8, <2>0, <2>1, <2>3, <2>4, <2>5, <2>6, <2>7
<1>. QED BY <1>7, <1>8

(* A tensor of a file.                                                     *)
TensorLies(f, k, p, z) == p \in Nat /\ z[p + 2] \in Nat /\ EndOf(f, k) = p + 4 + z[p + 2]

LEMMA TensorAt ==
    ASSUME NEW f, FileOK(f), NEW k \in 1..Parts(f), k > Len(f.kv),
           NEW p, p = EndOf(f, k - 1), NEW z, z = Layout(f), p + 2 <= Len(z)
    PROVE  TensorLies(f, k, p, z)
<1>. SUFFICES p \in Nat /\ z[p + 2] \in Nat /\ EndOf(f, k) = p + 4 + z[p + 2]
  BY Zenon DEF TensorLies
<1>1. k - 1 \in 0..Parts(f) /\ Parts(f) \in Nat
  BY ListedFacts
<1>2. PICK x, t : x = PartCells(f, k) /\ t = f.tensors[k - Len(f.kv)]
  OBVIOUS
<1>3. t.ne \in Seq(Nat) /\ x = TensorCells(t)
  <2>1. PICK a \in Nat, b \in Nat : a = Len(f.kv) /\ b = Len(f.tensors)
    BY DEF FileOK
  <2>2. Parts(f) = a + b
    BY <2>1, Zenon DEF Parts
  <2>3. k - a \in 1..b /\ ~(k <= a)
    BY <2>1, <2>2, Indices, Zenon
  <2>. QED BY <1>2, <2>1, <2>3 DEF FileOK, PartCells
<1>4. PICK n : n = Len(t.ne)
  OBVIOUS
<1>5. n \in Nat /\ PartLen(f, k) = 4 + n /\ x[2] = n
  BY <1>2, <1>3, <1>4, TensorCellsFacts DEF PartLen
<1>6. p \in Nat
  BY <1>1, ListedFacts
<1>7. EndOf(f, k) = p + (4 + n) /\ z[p + 2] = x[2]
  <2>1. 2 \in 1..PartLen(f, k)
    BY <1>5
  <2>. QED BY <1>2, <1>5, <2>1, LayoutFacts
<1>8. p + (4 + n) = p + 4 + n
  BY <1>5, <1>6
<1>. QED BY <1>5, <1>6, <1>7, <1>8

-----------------------------------------------------------------------------
(* The invariant of the opening.                                           *)

Opened == {"header", "pass1", "pass2", "infos", "resolve", "tokenizer", "loaded"}
Based  == {"resolve", "tokenizer", "loaded"}

ResourcesInv ==
    /\ {fd, mapped, allocated} \subseteq BOOLEAN
    /\ phase \in {"open", "failed"} => ~fd /\ ~mapped /\ ~allocated
    /\ phase \in Opened => fd /\ mapped
    /\ phase = "map" => fd
    /\ phase \in Based \cup {"infos"} => allocated

(* The cursor is where an entry or a tensor begins: as many are read as the *)
(* loop has behind it.                                                     *)
CursorInv ==
    /\ file \in Files /\ cells = Layout(file)
    /\ phase \in Opened \cup {"open", "map", "failed"}
    /\ phase \in Opened => Len(cells) >= 1
    /\ left \in Nat /\ cursor \in 0..Len(cells)
    /\ phase \in {"pass1", "pass2", "tokenizer"} =>
          left <= Len(file.kv) /\ cursor = EndOf(file, Len(file.kv) - left)
    /\ phase = "infos" =>
          left <= Len(file.tensors) /\ cursor = EndOf(file, Parts(file) - left)
    /\ alignment \in Nat /\ (phase # "failed" => alignment # 0)
    /\ base \in Nat /\ (phase \notin Based => base = 0)
    /\ phase \in Based => /\ base % alignment = 0
                          /\ EndOf(file, Parts(file)) <= base /\ base < Len(cells)

MetaInv ==
    /\ config = [f \in DOMAIN Fields |-> config[f]]
    /\ Len(sections) <= 4 /\ \E S : sections \in Seq(S)

(* What lies at the cursor is the next entry, wherever the file ends.      *)
LEMMA NextEntry ==
    ASSUME FileAssumption, CursorInv, phase \in {"pass1", "pass2", "tokenizer"}, left > 0
    PROVE  \E k \in 1..Len(file.kv) :
              /\ k = Len(file.kv) - left + 1 /\ k - 1 = Len(file.kv) - left
              /\ k = Len(file.kv) - (left - 1) /\ left - 1 \in Nat /\ left - 1 <= Len(file.kv)
              /\ cursor = EndOf(file, k - 1)
<1>1. PICK n \in Nat : n = Len(file.kv)
  BY DEF FileAssumption, FileOK, CursorInv
<1>2. left \in Nat /\ left <= n /\ cursor = EndOf(file, n - left)
  BY <1>1 DEF CursorInv
<1>3. PICK k : k = n - left + 1
  OBVIOUS
<1>4. k \in 1..n /\ k - 1 = n - left /\ k = n - (left - 1) /\ left - 1 \in Nat /\ left - 1 <= n
  BY <1>2, <1>3
<1>. QED BY <1>1, <1>2, <1>3, <1>4

(* An entry that does not fit passes the end of the file.                  *)
LEMMA EntryFits ==
    ASSUME NEW e, NEW z, NEW p, NEW q, EntryLies(e, z, p, q), p + 2 <= Len(z),
           z[p + 2] = "arr" => p + 4 <= Len(z) /\ p + 4 + z[p + 4] <= Len(z),
           z[p + 2] # "arr" => p + 3 <= Len(z)
    PROVE  q <= Len(z)
<1>1. p \in Nat /\ q \in Nat /\ Len(z) \in Nat /\ z[p + 2] = e.type
  BY DEF EntryLies
<1>2. CASE e.type = "arr"
  <2>1. q = p + 4 + Len(e.val) /\ z[p + 4] = Len(e.val)
    BY <1>1, <1>2 DEF EntryLies
  <2>. QED BY <1>1, <1>2, <2>1
<1>3. CASE e.type # "arr"
  <2>1. q = p + 3
    BY <1>3 DEF EntryLies
  <2>. QED BY <1>1, <1>3, <2>1
<1>. QED BY <1>2, <1>3

EntryWhole(e, z, p, q) ==
    /\ q \in 0..Len(z) /\ z[p + 1] = e.key /\ z[p + 2] = e.type
    /\ e.type # "arr" => q = p + 3 /\ z[p + 3] = e.val
    /\ e.type = "arr" => q = p + 4 + z[p + 4] /\ SubSeq(z, p + 5, q) = e.val

LEMMA EntryFacts ==
    ASSUME NEW e, NEW z, NEW p, NEW q, EntryLies(e, z, p, q), q <= Len(z)
    PROVE  EntryWhole(e, z, p, q)
<1>. SUFFICES /\ q \in 0..Len(z) /\ z[p + 1] = e.key /\ z[p + 2] = e.type
              /\ e.type # "arr" => q = p + 3 /\ z[p + 3] = e.val
              /\ e.type = "arr" => q = p + 4 + z[p + 4] /\ SubSeq(z, p + 5, q) = e.val
  BY Zenon DEF EntryWhole
<1>1. PICK m \in Nat : m = Len(z)
  BY DEF EntryLies
<1>2. p \in Nat /\ q \in Nat /\ q <= m
  BY <1>1 DEF EntryLies
<1>3. CASE e.type = "arr"
  <2>1. PICK n \in Nat : n = Len(e.val)
    BY <1>3 DEF EntryLies
  <2>2. q = p + 4 + n
    BY <1>3, <2>1 DEF EntryLies
  <2>3. p + 2 <= m /\ p + 4 <= m /\ q \in 0..m
    BY <1>2, <2>2
  <2>. QED BY <1>1, <1>2, <1>3, <2>1, <2>2, <2>3, Zenon DEF EntryLies
<1>4. CASE e.type # "arr"
  <2>1. q = p + 3
    BY <1>4 DEF EntryLies
  <2>2. p + 2 <= m /\ q \in 0..m
    BY <1>2, <2>1
  <2>. QED BY <1>1, <1>2, <1>4, <2>1, <2>2, Zenon DEF EntryLies
<1>. QED BY <1>3, <1>4

LEMMA EntryRead ==
    ASSUME FileAssumption, CursorInv, NEW k \in 1..Len(file.kv), cursor = EndOf(file, k - 1),
           ValueFits \/ EndOf(file, k) <= Len(cells), NEW e, e = file.kv[k]
    PROVE  /\ EntryOK(e) /\ Key = e.key /\ Type = e.type
           /\ ValueEnd = EndOf(file, k) /\ ValueEnd \in 0..Len(cells)
           /\ e.type # "arr" => Val = e.val
           /\ e.type = "arr" => Elements = e.val
<1>1. FileOK(file) /\ cells = Layout(file)
  BY DEF FileAssumption, CursorInv
<1>2. PICK p, q, z : p = EndOf(file, k - 1) /\ q = EndOf(file, k) /\ z = cells
  OBVIOUS
<1>3. EntryOK(e) /\ EntryLies(e, z, p, q)
  BY <1>1, <1>2, EntryAt, Zenon
<1>4. p \in Nat /\ cursor = p
  BY <1>2, <1>3 DEF EntryLies
<1>5. /\ ValueAt = p + 2 /\ p + 2 + 1 = p + 3 /\ p + 2 + 2 = p + 4 /\ p + 2 + 3 = p + 5
  BY <1>4 DEF ValueAt
<1>6. Key = z[p + 1] /\ Type = z[p + 2] /\ Val = z[p + 3]
  BY <1>2, <1>4, <1>5, Zenon DEF Key, Type, Val
<1>7. q <= Len(z)
  <2>1. CASE ValueFits
    <3>1. p + 2 <= Len(z)
      BY <1>2, <1>5, <2>1, Zenon DEF ValueFits, Within
    <3>2. Type = "arr" => p + 4 <= Len(z) /\ p + 4 + z[p + 4] <= Len(z)
      BY <1>2, <1>5, <2>1, Zenon DEF ValueFits, Within
    <3>3. Type # "arr" => p + 3 <= Len(z)
      BY <1>2, <1>5, <2>1, Zenon DEF ValueFits, Within
    <3>. QED BY <1>3, <1>6, <3>1, <3>2, <3>3, EntryFits, Zenon
  <2>. QED BY <1>2, <2>1
<1>8. /\ q \in 0..Len(z) /\ z[p + 1] = e.key /\ z[p + 2] = e.type
      /\ e.type # "arr" => q = p + 3 /\ z[p + 3] = e.val
      /\ e.type = "arr" => q = p + 4 + z[p + 4] /\ SubSeq(z, p + 5, q) = e.val
  <2>1. EntryWhole(e, z, p, q)
    BY <1>3, <1>7, EntryFacts, Zenon
  <2>. QED BY <2>1, Zenon DEF EntryWhole
<1>9. ValueEnd = q
  BY <1>2, <1>5, <1>6, <1>8, Zenon DEF ValueEnd
<1>10. e.type = "arr" => Elements = e.val
  BY <1>2, <1>5, <1>8, <1>9, Zenon DEF Elements
<1>. QED BY <1>2, <1>3, <1>6, <1>8, <1>9, <1>10, Zenon

(* A tensor at the cursor ends where the next one begins.                  *)
LEMMA TensorRead ==
    ASSUME FileAssumption, CursorInv, phase = "infos", left > 0, InfoFits
    PROVE  /\ left - 1 \in Nat /\ left - 1 <= Len(file.tensors)
           /\ InfoEnd = EndOf(file, Parts(file) - (left - 1)) /\ InfoEnd \in 0..Len(cells)
<1>1. FileOK(file) /\ cells = Layout(file)
  BY DEF FileAssumption, CursorInv
<1>2. PICK a \in Nat, b \in Nat : a = Len(file.kv) /\ b = Len(file.tensors)
  BY <1>1 DEF FileOK
<1>3. PICK n \in Nat : n = Parts(file) /\ n = a + b
  <2>1. Parts(file) = a + b
    BY <1>2, Zenon DEF Parts
  <2>. QED BY <2>1
<1>4. left \in Nat /\ left <= b /\ cursor = EndOf(file, n - left)
  <2>1. left \in Nat /\ left <= Len(file.tensors) /\ cursor = EndOf(file, Parts(file) - left)
    BY Zenon DEF CursorInv
  <2>. QED BY <1>2, <1>3, <2>1, Zenon
<1>5. PICK k : k = n - left + 1
  OBVIOUS
<1>6. /\ k \in 1..n /\ k - 1 = n - left /\ k = n - (left - 1) /\ k > a
      /\ left - 1 \in Nat /\ left - 1 <= b
  BY <1>3, <1>4, <1>5
<1>7. PICK p, z : p = cursor /\ z = cells /\ p = EndOf(file, k - 1)
  BY <1>4, <1>6, Zenon
<1>8. p + 2 <= Len(z) /\ InfoEnd <= Len(z) /\ InfoEnd = p + 4 + z[p + 2]
  BY <1>7, Zenon DEF InfoFits, InfoEnd, Within, NDims
<1>9. p \in Nat /\ z[p + 2] \in Nat /\ EndOf(file, k) = p + 4 + z[p + 2]
  <2>1. k \in 1..Parts(file) /\ k > Len(file.kv)
    BY <1>2, <1>3, <1>6, Zenon
  <2>2. z = Layout(file) /\ p + 2 <= Len(z)
    BY <1>1, <1>7, <1>8, Zenon
  <2>3. TensorLies(file, k, p, z)
    BY <1>1, <1>7, <2>1, <2>2, TensorAt, Zenon
  <2>. QED BY <2>3, Zenon DEF TensorLies
<1>10. Len(z) \in Nat
  BY <1>1, <1>7, LayoutFacts
<1>11. InfoEnd \in 0..Len(z)
  BY <1>8, <1>9, <1>10
<1>12. left - 1 <= Len(file.tensors)
  BY <1>2, <1>6, Zenon
<1>13. InfoEnd = EndOf(file, Parts(file) - (left - 1))
  BY <1>3, <1>6, <1>8, <1>9, Zenon
<1>14. InfoEnd \in 0..Len(cells)
  BY <1>7, <1>11, Zenon
<1>. QED BY <1>6, <1>12, <1>13, <1>14, Zenon

(* The data begin at a multiple of the alignment, not before the cursor.   *)
LEMMA AlignedFacts ==
    ASSUME cursor \in Nat, alignment \in Nat, alignment # 0
    PROVE  Aligned \in Nat /\ Aligned >= cursor /\ Aligned % alignment = 0
<1>1. PICK q : q = (cursor + alignment - 1) \div alignment
  OBVIOUS
<1>2. q \in Nat /\ q * alignment \in Nat /\ q * alignment > cursor - 1
  BY <1>1
<1>3. (q * alignment) % alignment = 0
  BY <1>2
<1>4. Aligned = q * alignment
  BY <1>1 DEF Aligned
<1>. QED BY <1>2, <1>3, <1>4

-----------------------------------------------------------------------------
(* The first part is the header; the metadata begin behind it.             *)
LEMMA FromTheTop ==
    ASSUME FileAssumption, CursorInv, phase \in Opened
    PROVE  /\ Header.kvs \in Nat /\ Header.kvs <= Len(file.kv)
           /\ 1 = EndOf(file, Len(file.kv) - Header.kvs) /\ 1 \in 0..Len(cells)
           /\ Header.tensors = Len(file.tensors) /\ Len(file.kv) - Header.kvs = 0
<1>1. FileOK(file) /\ cells = Layout(file) /\ Len(cells) >= 1
  BY DEF FileAssumption, CursorInv
<1>2. PICK a \in Nat, b \in Nat : a = Len(file.kv) /\ b = Len(file.tensors)
  BY <1>1 DEF FileOK
<1>3. Header = HeaderCell(file) /\ Len(cells) \in Nat /\ EndOf(file, 0) = 1
  BY <1>1, LayoutFacts DEF Header
<1>4. Header.kvs = Len(file.kv) /\ Header.tensors = Len(file.tensors)
  BY <1>3, Zenon DEF HeaderCell
<1>5. a - a = 0 /\ a <= a /\ 1 \in 0..Len(cells)
  BY <1>1, <1>3
<1>. QED BY <1>2, <1>3, <1>4, <1>5, Zenon

(* An entry at the cursor ends where the next one begins.                  *)
LEMMA EntryEnds ==
    ASSUME FileAssumption, CursorInv, phase \in {"pass1", "pass2", "tokenizer"}, left > 0,
           ValueFits \/ phase = "tokenizer"
    PROVE  /\ left - 1 \in Nat /\ left - 1 <= Len(file.kv)
           /\ ValueEnd = EndOf(file, Len(file.kv) - (left - 1)) /\ ValueEnd \in 0..Len(cells)
           /\ \E k \in 1..Len(file.kv) :
                 /\ k - 1 = Len(file.kv) - left /\ k = Len(file.kv) - (left - 1)
                 /\ EntryOK(file.kv[k]) /\ Key = file.kv[k].key /\ Type = file.kv[k].type
                 /\ file.kv[k].type # "arr" => Val = file.kv[k].val
                 /\ file.kv[k].type = "arr" => Elements = file.kv[k].val
<1>1. FileOK(file) /\ cells = Layout(file)
  BY DEF FileAssumption, CursorInv
<1>2. PICK k \in 1..Len(file.kv) :
              /\ k = Len(file.kv) - left + 1 /\ k - 1 = Len(file.kv) - left
              /\ k = Len(file.kv) - (left - 1) /\ left - 1 \in Nat /\ left - 1 <= Len(file.kv)
              /\ cursor = EndOf(file, k - 1)
  BY NextEntry, Zenon
<1>3. PICK e : e = file.kv[k]
  OBVIOUS
<1>4. ValueFits \/ EndOf(file, k) <= Len(cells)
  <2>1. ASSUME phase = "tokenizer" PROVE EndOf(file, k) <= Len(cells)
    <3>1. PICK q, x : q = EndOf(file, k) /\ x = EndOf(file, Parts(file))
      OBVIOUS
    <3>2. q <= x
      BY <1>1, <1>3, <3>1, EntryAt, Zenon
    <3>3. q \in Nat
      <4>1. EntryLies(e, cells, EndOf(file, k - 1), q)
        BY <1>1, <1>3, <3>1, EntryAt, Zenon
      <4>. QED BY <4>1, Zenon DEF EntryLies
    <3>4. x \in Nat
      <4>1. Parts(file) \in 0..Parts(file)
        BY <1>1, ListedFacts
      <4>. QED BY <1>1, <3>1, <4>1, ListedFacts, Zenon
    <3>5. x <= base /\ base < Len(cells) /\ base \in Nat
      BY <2>1, <3>1 DEF CursorInv, Based
    <3>6. Len(cells) \in Nat
      BY <1>1, LayoutFacts
    <3>7. q <= Len(cells)
      BY <3>2, <3>3, <3>4, <3>5, <3>6
    <3>. QED BY <3>1, <3>7
  <2>. QED BY <2>1
<1>5. /\ EntryOK(e) /\ Key = e.key /\ Type = e.type
      /\ ValueEnd = EndOf(file, k) /\ ValueEnd \in 0..Len(cells)
      /\ e.type # "arr" => Val = e.val
      /\ e.type = "arr" => Elements = e.val
  BY <1>2, <1>3, <1>4, EntryRead, Zenon
<1>. QED BY <1>2, <1>3, <1>5, Zenon

-----------------------------------------------------------------------------
(* Every step keeps the invariant.                                         *)

LEMMA ResourcesInit == FileInit => ResourcesInv
BY DEF FileInit, ResourcesInv, Opened, Based

LEMMA ResourcesStep ==
    ASSUME ResourcesInv, [FileStep]_fileVars
    PROVE  ResourcesInv'
<1>1. CASE OpenFile
  <2>1. phase = "open" /\ mapped' = mapped /\ allocated' = allocated
    BY <1>1 DEF OpenFile
  <2>2. CASE phase' = "map" /\ fd' = TRUE
    BY <2>1, <2>2 DEF ResourcesInv, Opened, Based
  <2>3. CASE phase' = "failed" /\ fd' = fd
    BY <2>1, <2>3 DEF ResourcesInv, Opened, Based
  <2>. QED BY <1>1, <2>2, <2>3 DEF OpenFile
<1>2. CASE MapFile
  BY <1>2 DEF MapFile, Fail, Cleared, ResourcesInv, Opened, Based
<1>3. CASE ReadHeader
  BY <1>3 DEF ReadHeader, Fail, Cleared, held, ResourcesInv, Opened, Based
<1>4. CASE Pass1
  BY <1>4 DEF Pass1, Fail, Cleared, held, ResourcesInv, Opened, Based
<1>5. CASE Pass1Ends
  BY <1>5 DEF Pass1Ends, Fail, Cleared, held, ResourcesInv, Opened, Based
<1>6. CASE Pass2
  BY <1>6 DEF Pass2, Fail, Cleared, held, ResourcesInv, Opened, Based
<1>7. CASE Pass2Ends
  BY <1>7 DEF Pass2Ends, Fail, Cleared, ResourcesInv, Opened, Based
<1>8. CASE ReadInfo
  BY <1>8 DEF ReadInfo, Fail, Cleared, held, ResourcesInv, Opened, Based
<1>9. CASE InfosEnd
  BY <1>9 DEF InfosEnd, Fail, Cleared, held, ResourcesInv, Opened, Based
<1>10. CASE Resolve
  BY <1>10 DEF Resolve, Fail, Cleared, held, ResourcesInv, Opened, Based
<1>11. CASE TokenizerEntry
  BY <1>11 DEF TokenizerEntry, held, ResourcesInv, Opened, Based
<1>12. CASE TokenizerRead
  BY <1>12 DEF TokenizerRead, held, ResourcesInv, Opened, Based
<1>13. CASE UNCHANGED fileVars
  BY <1>13 DEF fileVars, held, ResourcesInv, Opened, Based
<1>. QED BY <1>1, <1>2, <1>3, <1>4, <1>5, <1>6, <1>7, <1>8, <1>9, <1>10, <1>11, <1>12, <1>13
         DEF FileStep

LEMMA CursorInit ==
    ASSUME FileAssumption, FileInit
    PROVE  CursorInv
<1>1. FileOK(file) /\ cells = Layout(file) /\ file \in Files
  BY DEF FileAssumption, FileInit
<1>2. Len(cells) \in Nat
  BY <1>1, LayoutFacts
<1>3. 0 \in 0..Len(cells)
  BY <1>2
<1>. QED BY <1>1, <1>3 DEF FileInit, FileAssumption, CursorInv, Opened, Based

LEMMA FailKeeps ==
    ASSUME CursorInv, Fail
    PROVE  CursorInv'
BY DEF Fail, Cleared, CursorInv, Opened, Based

LEMMA CursorStep ==
    ASSUME FileAssumption, CursorInv, [FileStep]_fileVars
    PROVE  CursorInv'
<1>1. CASE OpenFile
  BY <1>1 DEF OpenFile, CursorInv, Opened, Based, meta, infos
<1>2. CASE MapFile
  <2>1. ASSUME cells # <<>> PROVE Len(cells) >= 1
    <3>1. FileOK(file) /\ cells = Layout(file)
      BY DEF FileAssumption, CursorInv
    <3>2. cells \in Seq(Values(file))
      BY <3>1, LayoutFacts
    <3>. QED BY <2>1, <3>2
  <2>2. CASE ~Fail
    BY <1>2, <2>1, <2>2 DEF MapFile, CursorInv, Opened, Based, meta, infos
  <2>. QED BY <2>2, FailKeeps
<1>3. CASE ReadHeader
  <2>1. CASE ~Fail
    <3>1. phase \in Opened
      BY <1>3 DEF ReadHeader, Opened
    <3>. QED BY <1>3, <2>1, <3>1, FromTheTop DEF ReadHeader, CursorInv, Opened, Based, meta, infos
  <2>. QED BY <2>1, FailKeeps
<1>4. CASE Pass1
  <2>1. CASE ~Fail
    <3>1. ValueFits /\ phase = "pass1" /\ left > 0
      BY <1>4, <2>1 DEF Pass1
    <3>2. /\ left - 1 \in Nat /\ left - 1 <= Len(file.kv)
          /\ ValueEnd = EndOf(file, Len(file.kv) - (left - 1)) /\ ValueEnd \in 0..Len(cells)
      BY <3>1, EntryEnds
    <3>3. alignment' \in Nat /\ alignment' # 0
      <4>1. ASSUME Type = "u32", Val > 0 PROVE Val \in Nat /\ Val # 0
        <5>1. PICK k \in 1..Len(file.kv) :
                   EntryOK(file.kv[k]) /\ Type = file.kv[k].type
                   /\ (file.kv[k].type # "arr" => Val = file.kv[k].val)
          BY <3>1, EntryEnds
        <5>2. Val \in Nat
          BY <4>1, <5>1 DEF EntryOK
        <5>. QED BY <4>1, <5>2
      <4>2. alignment \in Nat /\ alignment # 0
        BY <3>1 DEF CursorInv
      <4>. QED BY <1>4, <2>1, <4>1, <4>2 DEF Pass1
    <3>. QED BY <1>4, <2>1, <3>2, <3>3 DEF Pass1, CursorInv, Opened, Based, infos
  <2>. QED BY <2>1, FailKeeps
<1>5. CASE Pass1Ends
  <2>1. CASE ~Fail
    <3>1. phase \in Opened
      BY <1>5 DEF Pass1Ends, Opened
    <3>. QED BY <1>5, <2>1, <3>1, FromTheTop DEF Pass1Ends, CursorInv, Opened, Based, meta, infos
  <2>. QED BY <2>1, FailKeeps
<1>6. CASE Pass2
  <2>1. CASE ~Fail
    <3>1. ValueFits /\ phase = "pass2" /\ left > 0
      BY <1>6, <2>1 DEF Pass2
    <3>2. /\ left - 1 \in Nat /\ left - 1 <= Len(file.kv)
          /\ ValueEnd = EndOf(file, Len(file.kv) - (left - 1)) /\ ValueEnd \in 0..Len(cells)
      BY <3>1, EntryEnds
    <3>. QED BY <1>6, <2>1, <3>2 DEF Pass2, CursorInv, Opened, Based, infos
  <2>. QED BY <2>1, FailKeeps
<1>7. CASE Pass2Ends
  <2>1. CASE ~Fail
    <3>1. phase = "pass2" /\ left = 0
      BY <1>7 DEF Pass2Ends
    <3>2. Header.tensors = Len(file.tensors)
      BY <3>1, FromTheTop DEF Opened
    <3>3. FileOK(file)
      BY DEF FileAssumption, CursorInv
    <3>4. PICK a \in Nat, b \in Nat : a = Len(file.kv) /\ b = Len(file.tensors)
      BY <3>3 DEF FileOK
    <3>5. a - 0 = a + b - b /\ b <= b
      OBVIOUS
    <3>6. cursor = EndOf(file, Parts(file) - Len(file.tensors))
      <4>1. Parts(file) = a + b
        BY <3>4, Zenon DEF Parts
      <4>2. cursor = EndOf(file, Len(file.kv) - 0)
        BY <3>1 DEF CursorInv
      <4>3. PICK m, t : m = Parts(file) /\ t = Len(file.tensors)
        OBVIOUS
      <4>4. m = a + b /\ t = b
        BY <3>4, <4>1, <4>3, Zenon
      <4>5. m - t = a - 0
        BY <4>4
      <4>6. cursor = EndOf(file, a - 0)
        BY <3>4, <4>2, Zenon
      <4>7. cursor = EndOf(file, m - t)
        BY <4>5, <4>6, Zenon
      <4>. QED BY <4>3, <4>7, Zenon
    <3>7. Len(file.tensors) \in Nat /\ Len(file.tensors) <= Len(file.tensors)
      BY <3>4, <3>5, Zenon
    <3>. QED BY <1>7, <2>1, <3>2, <3>6, <3>7 DEF Pass2Ends, CursorInv, Opened, Based, meta, infos
  <2>. QED BY <2>1, FailKeeps
<1>8. CASE ReadInfo
  <2>1. CASE ~Fail
    <3>1. InfoFits /\ phase = "infos" /\ left > 0
      BY <1>8, <2>1 DEF ReadInfo
    <3>2. /\ left - 1 \in Nat /\ left - 1 <= Len(file.tensors)
          /\ InfoEnd = EndOf(file, Parts(file) - (left - 1)) /\ InfoEnd \in 0..Len(cells)
      BY <3>1, TensorRead
    <3>. QED BY <1>8, <2>1, <3>2 DEF ReadInfo, CursorInv, Opened, Based, meta
  <2>. QED BY <2>1, FailKeeps
<1>9. CASE InfosEnd
  <2>1. CASE ~Fail
    <3>1. phase = "infos" /\ left = 0
      BY <1>9 DEF InfosEnd
    <3>2. cells = Layout(file) /\ FileOK(file)
      BY DEF FileAssumption, CursorInv
    <3>3. Len(cells) \in Nat
      BY <3>2, LayoutFacts
    <3>4. cursor \in Nat /\ alignment \in Nat /\ alignment # 0
      BY <3>1, <3>3 DEF CursorInv
    <3>5. Aligned \in Nat /\ Aligned >= cursor /\ Aligned % alignment = 0
      BY <3>4, AlignedFacts
    <3>6. cursor = EndOf(file, Parts(file))
      <4>1. Parts(file) \in Nat
        BY <3>2, ListedFacts
      <4>2. Parts(file) - 0 = Parts(file)
        BY <4>1
      <4>3. cursor = EndOf(file, Parts(file) - 0)
        BY <3>1 DEF CursorInv
      <4>. QED BY <4>2, <4>3, Zenon
    <3>7. EndOf(file, Parts(file)) <= Aligned
      BY <3>4, <3>5, <3>6
    <3>8. ~(Aligned >= Len(cells)) => Aligned < Len(cells)
      BY <3>3, <3>5
    <3>. QED BY <1>9, <2>1, <3>5, <3>7, <3>8 DEF InfosEnd, CursorInv, Opened, Based, meta
  <2>. QED BY <2>1, FailKeeps
<1>10. CASE Resolve
  <2>1. CASE ~Fail
    <3>1. phase \in Opened
      BY <1>10 DEF Resolve, Opened
    <3>. QED BY <1>10, <2>1, <3>1, FromTheTop DEF Resolve, CursorInv, Opened, Based, infos
  <2>. QED BY <2>1, FailKeeps
<1>11. CASE TokenizerEntry
  <2>1. phase = "tokenizer" /\ left > 0
    BY <1>11 DEF TokenizerEntry
  <2>2. /\ left - 1 \in Nat /\ left - 1 <= Len(file.kv)
        /\ ValueEnd = EndOf(file, Len(file.kv) - (left - 1)) /\ ValueEnd \in 0..Len(cells)
    BY <2>1, EntryEnds
  <2>. QED BY <1>11, <2>2 DEF TokenizerEntry, CursorInv, Opened, Based, meta, infos
<1>12. CASE TokenizerRead
  BY <1>12 DEF TokenizerRead, CursorInv, Opened, Based, meta, infos
<1>13. CASE UNCHANGED fileVars
  BY <1>13 DEF fileVars, CursorInv, Opened, Based, meta, infos
<1>. QED BY <1>1, <1>2, <1>3, <1>4, <1>5, <1>6, <1>7, <1>8, <1>9, <1>10, <1>11, <1>12, <1>13
         DEF FileStep

LEMMA KeptFacts ==
    ASSUME NEW S, NEW s \in Seq(S), NEW T, NEW old \in Seq(T), Len(old) <= 4,
           NEW k \in Nat, k <= 4, k <= Len(s)
    PROVE  LET new == SubSeq(s, 1, k) \o SubSeq(old, k + 1, Len(old))
           IN  Len(new) <= 4 /\ new \in Seq(S \cup T)
<1>1. PICK n \in Nat : n = Len(old)
  OBVIOUS
<1>2. PICK a, b : a = SubSeq(s, 1, k) /\ b = SubSeq(old, k + 1, n)
  OBVIOUS
<1>3. a \in Seq(S \cup T) /\ Len(a) = k
  <2>1. SubSeq(s, 1, k) \in Seq(S) /\ Len(SubSeq(s, 1, k)) = k - 1 + 1
    BY SubSeqFacts
  <2>2. a \in Seq(S) /\ Len(a) = k
    BY <1>2, <2>1
  <2>. QED BY <2>2
<1>4. b \in Seq(S \cup T) /\ Len(b) \in Nat /\ (Len(b) = n - k \/ Len(b) = 0)
  <2>1. CASE k <= n
    <3>1. SubSeq(old, k + 1, n) \in Seq(T) /\ Len(SubSeq(old, k + 1, n)) = n - (k + 1) + 1
      BY <1>1, <2>1, SubSeqFacts
    <3>2. b \in Seq(T) /\ Len(b) = n - k
      BY <1>2, <3>1
    <3>. QED BY <3>2
  <2>2. CASE ~(k <= n)
    <3>1. b = <<>>
      <4>1. n < k + 1
        BY <2>2
      <4>. QED BY <1>1, <1>2, <4>1
    <3>. QED BY <3>1
  <2>. QED BY <2>1, <2>2
<1>5. PICK x : x = a \o b
  OBVIOUS
<1>6. x \in Seq(S \cup T) /\ Len(x) = k + Len(b)
  <2>1. a \o b \in Seq(S \cup T) /\ IsConcat(a \o b, a, k, b, Len(b))
    BY <1>3, <1>4, ConcatFacts, Zenon
  <2>. QED BY <1>5, <2>1, Zenon DEF IsConcat
<1>7. Len(x) <= 4
  BY <1>1, <1>4, <1>6
<1>. QED BY <1>1, <1>2, <1>5, <1>6, <1>7

LEMMA MetaCleared ==
    ASSUME NEW z, NEW s, z = [f \in DOMAIN Fields |-> 0], s = <<>>
    PROVE  /\ z = [f \in DOMAIN Fields |-> z[f]]
           /\ Len(s) <= 4 /\ \E S : s \in Seq(S)
<1>1. z = [f \in DOMAIN Fields |-> z[f]]
  OBVIOUS
<1>2. Len(s) <= 4 /\ s \in Seq({})
  OBVIOUS
<1>. QED BY <1>1, <1>2

LEMMA MetaInit == FileInit => MetaInv
BY MetaCleared DEF FileInit, MetaInv

LEMMA MetaFails ==
    ASSUME Fail
    PROVE  MetaInv'
<1>1. config' = [f \in DOMAIN Fields |-> 0] /\ sections' = <<>>
  BY DEF Fail, Cleared
<1>. QED BY <1>1, MetaCleared DEF MetaInv

LEMMA MetaStep ==
    ASSUME FileAssumption, CursorInv, MetaInv, [FileStep]_fileVars
    PROVE  MetaInv'
<1>1. CASE Fail
  BY <1>1, MetaFails
<1>2. CASE Pass2 /\ ~Fail
  <2>1. ValueFits /\ phase = "pass2" /\ left > 0
    BY <1>2 DEF Pass2
  <2>2. config' = [f \in DOMAIN Fields |-> config'[f]]
    BY <1>2 DEF Pass2
  <2>3. Len(sections') <= 4 /\ \E S : sections' \in Seq(S)
    <3>1. CASE ~IsSections
      BY <1>2, <3>1 DEF Pass2, MetaInv
    <3>2. CASE IsSections
      <4>1. PICK m \in 1..Len(file.kv) :
                 /\ EntryOK(file.kv[m]) /\ Type = file.kv[m].type
                 /\ file.kv[m].type = "arr" => Elements = file.kv[m].val
        BY <2>1, EntryEnds
      <4>2. PICK S : Elements \in Seq(S)
        BY <3>2, <4>1 DEF IsSections, EntryOK
      <4>3. PICK T : sections \in Seq(T) /\ Len(sections) <= 4
        BY DEF MetaInv
      <4>4. PICK s, k : s = Elements /\ k = Lowest({4, Len(s)})
        OBVIOUS
      <4>5. s \in Seq(S) /\ Len(s) \in Nat
        BY <4>2, <4>4
      <4>6. k \in Nat /\ k <= 4 /\ k <= Len(s)
        <5>1. {4, Len(s)} \in SUBSET Nat /\ {4, Len(s)} # {}
          BY <4>5
        <5>2. k \in {4, Len(s)} /\ \A y \in {4, Len(s)} : k <= y
          BY <4>4, <5>1, LowestFacts, Zenon
        <5>. QED BY <4>5, <5>2
      <4>7. FirstFour = SubSeq(s, 1, k)
        BY <4>4 DEF FirstFour
      <4>8. Len(FirstFour) = k
        <5>1. SubSeq(s, 1, k) \in Seq(S) /\ Len(SubSeq(s, 1, k)) = k - 1 + 1
          BY <4>5, <4>6, SubSeqFacts
        <5>2. PICK x : x = SubSeq(s, 1, k)
          OBVIOUS
        <5>3. Len(x) = k
          BY <4>6, <5>1, <5>2
        <5>. QED BY <4>7, <5>2, <5>3
      <4>9. Kept4 = SubSeq(s, 1, k) \o SubSeq(sections, k + 1, Len(sections))
        BY <4>7, <4>8, Zenon DEF Kept4
      <4>10. Len(Kept4) <= 4 /\ Kept4 \in Seq(S \cup T)
        BY <4>3, <4>5, <4>6, <4>9, KeptFacts
      <4>11. sections' = Kept4
        BY <1>2, <3>2 DEF Pass2
      <4>. QED BY <4>10, <4>11, Zenon
    <3>. QED BY <3>1, <3>2
  <2>. QED BY <2>2, <2>3 DEF MetaInv
<1>3. CASE Resolve /\ ~Fail
  <2>1. config' = [f \in DOMAIN Fields |-> config'[f]]
    <3>1. config = [f \in DOMAIN Fields |-> config[f]]
      BY DEF MetaInv
    <3>2. ASSUME NEW x PROVE [config EXCEPT ![Vocab] = x]
                             = [f \in DOMAIN Fields |-> [config EXCEPT ![Vocab] = x][f]]
      BY <3>1
    <3>3. config' = config \/ \E x : config' = [config EXCEPT ![Vocab] = x]
      BY <1>3 DEF Resolve
    <3>. QED BY <3>1, <3>2, <3>3
  <2>2. sections' = sections
    BY <1>3 DEF Resolve
  <2>. QED BY <2>1, <2>2 DEF MetaInv
<1>4. CASE ~Fail /\ ~Pass2 /\ ~Resolve
  <2>1. config' = config /\ sections' = sections
    BY <1>4 DEF FileStep, fileVars, meta, OpenFile, MapFile, ReadHeader, Pass1, Pass1Ends,
                Pass2Ends, ReadInfo, InfosEnd, TokenizerEntry, TokenizerRead
  <2>. QED BY <2>1 DEF MetaInv
<1>. QED BY <1>1, <1>2, <1>3, <1>4

-----------------------------------------------------------------------------
(* What the opening promises.                                              *)

FileInv == ResourcesInv /\ CursorInv /\ MetaInv

LEMMA FileInvariance == FileSpec => []FileInv
<1>1. FileInit => FileInv
  BY FileAssumption, ResourcesInit, CursorInit, MetaInit DEF FileInv
<1>2. FileInv /\ [FileStep]_fileVars => FileInv'
  BY FileAssumption, ResourcesStep, CursorStep, MetaStep DEF FileInv
<1>. QED BY <1>1, <1>2, PTL DEF FileSpec

(* No reading passes the end of the file (gguf.z:35-82), at most four      *)
(* sections are kept, and the data begin at a multiple of the alignment.   *)
THEOREM FileTypeCorrect == FileSpec => []FileTypeOK
<1>1. FileInv => FileTypeOK
  <2>1. SUFFICES ASSUME FileInv PROVE FileTypeOK
    OBVIOUS
  <2>2. /\ phase \in {"open", "map", "header", "pass1", "pass2", "infos", "resolve",
                       "tokenizer", "loaded", "failed"}
        /\ cursor \in 0..Len(cells) /\ left \in Nat
        /\ base > 0 => base % alignment = 0 /\ base < Len(cells)
    BY <2>1 DEF FileInv, CursorInv, Opened, Based
  <2>3. {fd, mapped, allocated} \subseteq BOOLEAN
    BY <2>1 DEF FileInv, ResourcesInv
  <2>4. DOMAIN config = DOMAIN Fields /\ Len(sections) <= 4
    BY <2>1 DEF FileInv, MetaInv
  <2>. QED BY <2>2, <2>3, <2>4 DEF FileTypeOK
<1>. QED BY <1>1, FileInvariance, PTL

(* A failed opening leaves nothing open, mapped or allocated; a finished    *)
(* one holds all three, over a file that reaches its data, which begin     *)
(* behind the last of what was read (gguf.z:174-183, 286-309).             *)
THEOREM OpenOrRelease == FileSpec => []OpenedOrReleased
<1>1. FileInv => OpenedOrReleased
  <2>1. SUFFICES ASSUME FileInv PROVE OpenedOrReleased
    OBVIOUS
  <2>2. /\ phase = "failed" => ~fd /\ ~mapped /\ ~allocated
        /\ phase = "tokenizer" => fd /\ mapped /\ allocated
    BY <2>1 DEF FileInv, ResourcesInv, Opened, Based
  <2>3. ASSUME phase = "tokenizer" PROVE base \in Len(Listed(file))..file.end-1
    <3>1. FileOK(file) /\ cells = Layout(file)
      BY <2>1, FileAssumption DEF FileInv, CursorInv, FileAssumption
    <3>2. Len(cells) = file.end /\ Len(Listed(file)) = EndOf(file, Parts(file)) /\ file.end \in Nat
      BY <3>1, LayoutFacts
    <3>3. EndOf(file, Parts(file)) <= base /\ base < Len(cells) /\ base \in Nat
      BY <2>1, <2>3 DEF FileInv, CursorInv, Based
    <3>4. EndOf(file, Parts(file)) \in Nat
      <4>1. Parts(file) \in 0..Parts(file)
        BY <3>1, ListedFacts
      <4>. QED BY <3>1, <4>1, ListedFacts
    <3>. QED BY <3>2, <3>3, <3>4
  <2>. QED BY <2>2, <2>3 DEF OpenedOrReleased
<1>. QED BY <1>1, FileInvariance, PTL

-----------------------------------------------------------------------------
(* What was read is what the file gives last.                              *)

GivenIn(kv, key, type, n) == {k \in 1..n : kv[k].key = key /\ kv[k].type = type}
LastIn(kv, key, type, n, default) ==
    IF GivenIn(kv, key, type, n) = {} THEN default ELSE kv[Highest(GivenIn(kv, key, type, n))].val

IsLast(v, kv, key, type, n, default) == v = LastIn(kv, key, type, n, default)

LEMMA LastOfNone ==
    ASSUME NEW kv, NEW key, NEW type, NEW default
    PROVE  IsLast(default, kv, key, type, 0, default)
<1>1. GivenIn(kv, key, type, 0) = {}
  BY DEF GivenIn
<1>. QED BY <1>1, Zenon DEF LastIn, IsLast

LEMMA LastStep ==
    ASSUME NEW kv, NEW key, NEW type, NEW default, NEW k \in Nat, k # 0,
           NEW old, IsLast(old, kv, key, type, k - 1, default),
           NEW new, new = IF kv[k].key = key /\ kv[k].type = type THEN kv[k].val ELSE old
    PROVE  IsLast(new, kv, key, type, k, default)
<1>1. CASE kv[k].key = key /\ kv[k].type = type
  <2>1. PICK S : S = GivenIn(kv, key, type, k)
    OBVIOUS
  <2>2. S \in SUBSET Nat /\ k \in S /\ \A y \in S : k >= y
    BY <1>1, <2>1 DEF GivenIn
  <2>3. Highest(S) = k /\ S # {}
    BY <2>2, HighestIs
  <2>4. LastIn(kv, key, type, k, default) = kv[k].val
    BY <2>1, <2>3, Zenon DEF LastIn
  <2>. QED BY <1>1, <2>4, Zenon DEF IsLast
<1>2. CASE ~(kv[k].key = key /\ kv[k].type = type)
  <2>1. GivenIn(kv, key, type, k) = GivenIn(kv, key, type, k - 1)
    <3>1. \A j \in 1..k : j \in 1..k-1 \/ j = k
      OBVIOUS
    <3>2. \A j \in 1..k-1 : j \in 1..k
      OBVIOUS
    <3>. QED BY <1>2, <3>1, <3>2, Zenon DEF GivenIn
  <2>2. LastIn(kv, key, type, k, default) = LastIn(kv, key, type, k - 1, default)
    BY <2>1, Zenon DEF LastIn
  <2>. QED BY <1>2, <2>2, Zenon DEF IsLast
<1>. QED BY <1>1, <1>2

ArchKey   == <<"general", "architecture">>
TokensKey == <<"tokenizer", "tokens">>
MergesKey == <<"tokenizer", "merges">>

(* After n entries of the metadata.                                        *)
ArchTo(a, n)        == IsLast(a, file.kv, ArchKey, "str", n, "")
FieldTo(z, a, f, n) == IsLast(z[f], file.kv, <<a, f>>, Fields[f], n, 0)
ReadTo(r, n)        == /\ IsLast(r.tokens, file.kv, TokensKey, "arr", n, <<>>)
                       /\ IsLast(r.merges, file.kv, MergesKey, "arr", n, <<>>)

LoadInv ==
    /\ phase \in {"open", "map", "header"} => arch = ""
    /\ phase = "pass1" => ArchTo(arch, Len(file.kv) - left)
    /\ phase \in {"pass2", "infos"} \cup Based => ArchTo(arch, Len(file.kv))
    /\ phase \in {"open", "map", "header", "pass1"} => \A f \in DOMAIN Fields : config[f] = 0
    /\ phase = "pass2" => \A f \in DOMAIN Fields : FieldTo(config, arch, f, Len(file.kv) - left)
    /\ phase \in {"infos"} \cup Based =>
          \A f \in DOMAIN Fields \ {Vocab} : FieldTo(config, arch, f, Len(file.kv))
    /\ phase \notin {"tokenizer", "loaded"} => read = [tokens |-> <<>>, merges |-> <<>>]
    /\ phase = "tokenizer" => ReadTo(read, Len(file.kv) - left)
    /\ phase = "loaded" => ReadTo(read, Len(file.kv))

LEMMA AllRead ==
    ASSUME FileAssumption, CursorInv, left = 0
    PROVE  Len(file.kv) - left = Len(file.kv)
<1>1. PICK n \in Nat : n = Len(file.kv)
  BY DEF FileAssumption, FileOK, CursorInv
<1>2. n - 0 = n
  OBVIOUS
<1>. QED BY <1>1, <1>2, Zenon

LEMMA LoadInit == FileInit => LoadInv
BY DEF FileInit, LoadInv, Based

LEMMA ReadOfNone == ReadTo([tokens |-> <<>>, merges |-> <<>>], 0)
BY LastOfNone DEF ReadTo

LEMMA LoadStep ==
    ASSUME FileAssumption, CursorInv, MetaInv, LoadInv, [FileStep]_fileVars
    PROVE  LoadInv'
<1>1. CASE Fail
  <2>1. phase \notin {"tokenizer", "loaded"}
    BY <1>1 DEF Fail, FileStep, fileVars, OpenFile, MapFile, ReadHeader, Pass1, Pass1Ends, Pass2,
                Pass2Ends, ReadInfo, InfosEnd, Resolve, TokenizerEntry, TokenizerRead
  <2>2. phase' = "failed" /\ read' = read
    BY <1>1 DEF Fail
  <2>. QED BY <2>1, <2>2 DEF LoadInv, Based
<1>2. CASE OpenFile
  BY <1>2 DEF OpenFile, LoadInv, Based, meta
<1>3. CASE MapFile /\ ~Fail
  BY <1>3 DEF MapFile, LoadInv, Based, meta
<1>4. CASE ReadHeader /\ ~Fail
  <2>1. Len(file.kv) - Header.kvs = 0
    BY <1>4, FromTheTop DEF ReadHeader, Opened
  <2>2. ArchTo("", 0)
    BY LastOfNone, Zenon DEF ArchTo
  <2>. QED BY <1>4, <2>1, <2>2 DEF ReadHeader, LoadInv, Based, ArchTo, meta
<1>5. CASE Pass1 /\ ~Fail
  <2>1. ValueFits /\ phase = "pass1" /\ left > 0
    BY <1>5 DEF Pass1
  <2>2. PICK k \in 1..Len(file.kv) :
             /\ k - 1 = Len(file.kv) - left /\ k = Len(file.kv) - (left - 1)
             /\ EntryOK(file.kv[k]) /\ Key = file.kv[k].key /\ Type = file.kv[k].type
             /\ file.kv[k].type # "arr" => Val = file.kv[k].val
    BY <2>1, EntryEnds
  <2>3. k \in Nat /\ k # 0
    OBVIOUS
  <2>4. ArchTo(arch, k - 1)
    BY <2>1, <2>2 DEF LoadInv
  <2>5. arch' = IF Key = ArchKey /\ Type = "str" THEN Val ELSE arch
    BY <1>5 DEF Pass1, ArchKey
  <2>6. ArchTo(arch', k)
    <3>1. arch' = IF file.kv[k].key = ArchKey /\ file.kv[k].type = "str"
                  THEN file.kv[k].val ELSE arch
      BY <2>2, <2>5
    <3>. QED BY <2>3, <2>4, <3>1, LastStep, Zenon DEF ArchTo
  <2>7. ArchTo(arch', Len(file.kv) - (left - 1))
    BY <2>2, <2>6, Zenon
  <2>. QED BY <1>5, <2>1, <2>7 DEF Pass1, LoadInv, Based, ArchTo
<1>6. CASE Pass1Ends /\ ~Fail
  <2>1. phase = "pass1" /\ left = 0 /\ phase \in Opened
    BY <1>6 DEF Pass1Ends, Opened
  <2>2. Len(file.kv) - left = Len(file.kv) /\ Len(file.kv) - Header.kvs = 0
    BY <2>1, AllRead, FromTheTop, Zenon
  <2>3. ArchTo(arch, Len(file.kv))
    BY <2>1, <2>2, Zenon DEF LoadInv
  <2>4. \A f \in DOMAIN Fields : FieldTo(config, arch, f, 0)
    BY <2>1, LastOfNone DEF LoadInv, FieldTo
  <2>. QED BY <1>6, <2>1, <2>2, <2>3, <2>4 DEF Pass1Ends, LoadInv, Based, ArchTo, FieldTo, meta
<1>7. CASE Pass2 /\ ~Fail
  <2>1. ValueFits /\ phase = "pass2" /\ left > 0
    BY <1>7 DEF Pass2
  <2>2. PICK k \in 1..Len(file.kv) :
             /\ k - 1 = Len(file.kv) - left /\ k = Len(file.kv) - (left - 1)
             /\ EntryOK(file.kv[k]) /\ Key = file.kv[k].key /\ Type = file.kv[k].type
             /\ file.kv[k].type # "arr" => Val = file.kv[k].val
    BY <2>1, EntryEnds
  <2>3. k \in Nat /\ k # 0
    OBVIOUS
  <2>4. ASSUME NEW f \in DOMAIN Fields
        PROVE  IsLast(config'[f], file.kv, <<arch, f>>, Fields[f], k, 0)
    <3>1. config'[f] = IF Key = <<arch, f>> /\ Type = Fields[f] THEN Val ELSE config[f]
      BY <1>7 DEF Pass2, IsField
    <3>2. FieldTo(config, arch, f, k - 1)
      BY <2>1, <2>2, Zenon DEF LoadInv
    <3>3. Fields[f] # "arr"
      BY DEF FileAssumption
    <3>4. config'[f] = IF file.kv[k].key = <<arch, f>> /\ file.kv[k].type = Fields[f]
                       THEN file.kv[k].val ELSE config[f]
      BY <2>2, <3>1, <3>3
    <3>. QED BY <2>3, <3>2, <3>4, LastStep, Zenon DEF FieldTo
  <2>5. \A f \in DOMAIN Fields :
           IsLast(config'[f], file.kv, <<arch, f>>, Fields[f], Len(file.kv) - (left - 1), 0)
    BY <2>2, <2>4, Zenon
  <2>. QED BY <1>7, <2>1, <2>5 DEF Pass2, LoadInv, Based, ArchTo, FieldTo
<1>8. CASE Pass2Ends /\ ~Fail
  <2>1. phase = "pass2" /\ left = 0
    BY <1>8 DEF Pass2Ends
  <2>2. Len(file.kv) - left = Len(file.kv)
    BY <2>1, AllRead, Zenon
  <2>3. \A f \in DOMAIN Fields : FieldTo(config, arch, f, Len(file.kv))
    BY <2>1, <2>2, Zenon DEF LoadInv
  <2>. QED BY <1>8, <2>1, <2>3 DEF Pass2Ends, LoadInv, Based, ArchTo, FieldTo, meta
<1>9. CASE (ReadInfo \/ InfosEnd) /\ ~Fail
  <2>1. /\ phase = "infos" /\ phase' \in {"infos", "resolve"}
        /\ file' = file /\ arch' = arch /\ config' = config /\ read' = read
    BY <1>9 DEF ReadInfo, InfosEnd, meta
  <2>. QED BY <2>1 DEF LoadInv, Based, ArchTo, FieldTo
<1>10. CASE Resolve /\ ~Fail
  <2>1. phase = "resolve" /\ phase \in Opened
    BY <1>10 DEF Resolve, Opened
  <2>2. /\ phase' = "tokenizer" /\ left' = Header.kvs
        /\ file' = file /\ arch' = arch /\ read' = read
    BY <1>10 DEF Resolve
  <2>3. \A f \in DOMAIN Fields \ {Vocab} : config'[f] = config[f]
    <3>1. config = [f \in DOMAIN Fields |-> config[f]]
      BY DEF MetaInv
    <3>2. ASSUME NEW x, NEW f \in DOMAIN Fields \ {Vocab} PROVE [config EXCEPT ![Vocab] = x][f] = config[f]
      BY <3>1
    <3>3. config' = config \/ \E x : config' = [config EXCEPT ![Vocab] = x]
      BY <1>10 DEF Resolve
    <3>. QED BY <3>2, <3>3, Zenon
  <2>4. Len(file.kv) - Header.kvs = 0
    BY <2>1, FromTheTop, Zenon
  <2>5. ReadTo(read, 0)
    BY <2>1, ReadOfNone DEF LoadInv
  <2>6. ArchTo(arch, Len(file.kv)) /\ \A f \in DOMAIN Fields \ {Vocab} : FieldTo(config, arch, f, Len(file.kv))
    BY <2>1 DEF LoadInv, Based
  <2>. QED BY <2>2, <2>3, <2>4, <2>5, <2>6 DEF LoadInv, Based, ArchTo, FieldTo, ReadTo
<1>11. CASE TokenizerEntry
  <2>1. phase = "tokenizer" /\ left > 0
    BY <1>11 DEF TokenizerEntry
  <2>2. PICK k \in 1..Len(file.kv) :
             /\ k - 1 = Len(file.kv) - left /\ k = Len(file.kv) - (left - 1)
             /\ EntryOK(file.kv[k]) /\ Key = file.kv[k].key /\ Type = file.kv[k].type
             /\ file.kv[k].type = "arr" => Elements = file.kv[k].val
    BY <2>1, EntryEnds
  <2>3. k \in Nat /\ k # 0
    OBVIOUS
  <2>4. ReadTo(read, k - 1)
    BY <2>1, <2>2, Zenon DEF LoadInv
  <2>5. ASSUME NEW key, key \in {TokensKey, MergesKey}, NEW old, NEW new,
               IsLast(old, file.kv, key, "arr", k - 1, <<>>),
               new = IF Key = key THEN Elements ELSE old
        PROVE  IsLast(new, file.kv, key, "arr", k, <<>>)
    <3>1. file.kv[k].key = key => file.kv[k].type = "arr"
      BY <2>2, <2>5 DEF EntryOK, TokensKey, MergesKey
    <3>2. new = IF file.kv[k].key = key /\ file.kv[k].type = "arr" THEN file.kv[k].val ELSE old
      BY <2>2, <2>5, <3>1
    <3>. QED BY <2>3, <2>5, <3>2, LastStep, Zenon
  <2>6. /\ read'.tokens = IF Key = TokensKey THEN Elements ELSE read.tokens
        /\ read'.merges = IF Key = MergesKey THEN Elements ELSE read.merges
    BY <1>11 DEF TokenizerEntry, TokensKey, MergesKey
  <2>7. IsLast(read'.tokens, file.kv, TokensKey, "arr", k, <<>>)
    BY <2>4, <2>5, <2>6, Zenon DEF ReadTo
  <2>8. IsLast(read'.merges, file.kv, MergesKey, "arr", k, <<>>)
    BY <2>4, <2>5, <2>6, Zenon DEF ReadTo
  <2>9. /\ IsLast(read'.tokens, file.kv, TokensKey, "arr", Len(file.kv) - (left - 1), <<>>)
        /\ IsLast(read'.merges, file.kv, MergesKey, "arr", Len(file.kv) - (left - 1), <<>>)
    BY <2>2, <2>7, <2>8, Zenon
  <2>. QED BY <1>11, <2>1, <2>9 DEF TokenizerEntry, LoadInv, Based, ArchTo, FieldTo, ReadTo, meta
<1>12. CASE TokenizerRead
  <2>1. phase = "tokenizer" /\ left = 0
    BY <1>12 DEF TokenizerRead
  <2>2. Len(file.kv) - left = Len(file.kv)
    BY <2>1, AllRead, Zenon
  <2>3. ReadTo(read, Len(file.kv))
    BY <2>1, <2>2, Zenon DEF LoadInv
  <2>. QED BY <1>12, <2>1, <2>3 DEF TokenizerRead, LoadInv, Based, ArchTo, FieldTo, ReadTo, meta
<1>13. CASE UNCHANGED fileVars
  BY <1>13 DEF fileVars, LoadInv, Based, ArchTo, FieldTo, ReadTo, meta
<1>. QED BY <1>1, <1>2, <1>3, <1>4, <1>5, <1>6, <1>7, <1>8, <1>9, <1>10, <1>11, <1>12, <1>13
         DEF FileStep

(* The keys may come in any order (gguf.z:227): whatever was read is the    *)
(* last the file gives for the architecture it names, and the vocabulary   *)
(* is the one of the file.                                                 *)
THEOREM LoadsWhatWasWritten == FileSpec => []LoadedAsWritten
<1>1. FileInit => LoadInv
  BY LoadInit
<1>2. FileInv /\ LoadInv /\ [FileStep]_fileVars => LoadInv'
  BY FileAssumption, LoadStep DEF FileInv
<1>3. FileInv /\ LoadInv => LoadedAsWritten
  <2>1. SUFFICES ASSUME FileInv, LoadInv, phase = "loaded" PROVE LoadedAsWritten
    BY DEF LoadedAsWritten
  <2>2. DOMAIN file.kv = 1..Len(file.kv)
    BY <2>1, FileAssumption DEF FileInv, CursorInv, FileAssumption, FileOK
  <2>3. ASSUME NEW key, NEW type, NEW default
        PROVE  LastOf(Given(key, type), default) = LastIn(file.kv, key, type, Len(file.kv), default)
    BY <2>2, Zenon DEF LastOf, Given, LastIn, GivenIn
  <2>4. /\ ArchTo(arch, Len(file.kv)) /\ ReadTo(read, Len(file.kv))
        /\ \A f \in DOMAIN Fields \ {Vocab} : FieldTo(config, arch, f, Len(file.kv))
    BY <2>1 DEF LoadInv, Based
  <2>5. arch = LastOf(Given(ArchKey, "str"), "")
    <3>1. LastOf(Given(ArchKey, "str"), "") = LastIn(file.kv, ArchKey, "str", Len(file.kv), "")
      BY <2>3, Zenon
    <3>. QED BY <2>4, <3>1, Zenon DEF ArchTo, IsLast
  <2>6. ASSUME NEW f \in DOMAIN Fields \ {Vocab}
        PROVE  config[f] = LastOf(Given(<<arch, f>>, Fields[f]), 0)
    <3>1. LastOf(Given(<<arch, f>>, Fields[f]), 0)
          = LastIn(file.kv, <<arch, f>>, Fields[f], Len(file.kv), 0)
      BY <2>3, Zenon
    <3>. QED BY <2>4, <3>1, Zenon DEF FieldTo, IsLast
  <2>7. read.tokens = LastOf(Given(TokensKey, "arr"), <<>>)
    <3>1. LastOf(Given(TokensKey, "arr"), <<>>)
          = LastIn(file.kv, TokensKey, "arr", Len(file.kv), <<>>)
      BY <2>3, Zenon
    <3>. QED BY <2>4, <3>1, Zenon DEF ReadTo, IsLast
  <2>8. read.merges = LastOf(Given(MergesKey, "arr"), <<>>)
    <3>1. LastOf(Given(MergesKey, "arr"), <<>>)
          = LastIn(file.kv, MergesKey, "arr", Len(file.kv), <<>>)
      BY <2>3, Zenon
    <3>. QED BY <2>4, <3>1, Zenon DEF ReadTo, IsLast
  <2>. QED BY <2>5, <2>6, <2>7, <2>8, Zenon DEF LoadedAsWritten, ArchKey, TokensKey, MergesKey
<1>. QED BY <1>1, <1>2, <1>3, FileInvariance, PTL DEF FileSpec

-----------------------------------------------------------------------------
(* In the program the loader is followed by the tokenizer.  Each of them   *)
(* keeps to its own specification there, so that what was proved of the    *)
(* two holds of the program.                                               *)

(* Composition: opening the file (gguf.c:184-298) is a behaviour of        *)
(* FileSpec and what comes after it (tokenizer.c:121-450) one of Spec, for *)
(* any files, vocabularies and texts.                                      *)
THEOREM PartsKeepToTheirSpecs == PromptSpec => FileSpec /\ Spec
<1>1. PromptInit => FileInit /\ Init
  BY Zenon DEF PromptInit
<1>2. [PromptNext]_allVars => [FileStep]_fileVars /\ [Step]_vars
  <2>. SUFFICES ASSUME [PromptNext]_allVars PROVE [FileStep]_fileVars /\ [Step]_vars
    OBVIOUS
  <2>1. CASE Load
    BY <2>1, Zenon DEF Load
  <2>2. CASE Tokenize
    BY <2>2, Zenon DEF Tokenize
  <2>3. CASE UNCHANGED allVars
    BY <2>3 DEF allVars
  <2>. QED BY <2>1, <2>2, <2>3, Zenon DEF PromptNext
<1>. QED BY <1>1, <1>2, PTL DEF PromptSpec, FileSpec, Spec

(* So whatever file the program is given, and whatever it goes on to       *)
(* encode: a failed opening has released everything, a finished one holds  *)
(* what the file says (gguf.c:184-310).                                    *)
THEOREM LoaderInProgram == PromptSpec => [](FileTypeOK /\ OpenedOrReleased /\ LoadedAsWritten)
BY PartsKeepToTheirSpecs, FileTypeCorrect, OpenOrRelease, LoadsWhatWasWritten, PTL
=============================================================================
